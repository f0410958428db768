----------------------- MODULE StreamingWriter_proofs -----------------------
(***************************************************************************)
(* Safety of the StreamingWriter for all channel definitions, payload      *)
(* limits, timestamps and call sizes.  The inductive invariant IInv adds   *)
(* to the properties what relates the call in progress to the file: how    *)
(* the samples left in the call continue those written (Progress), that a  *)
(* call fits its channel (CallFits), and that an open segment has its      *)
(* bcStartData block under fsync (Segments).                               *)
(*                                                                         *)
(* And the StreamingWriter implements the DurableLog.  Each step is mapped *)
(* to a step of the log or to a stutter; what a power loss leaves is       *)
(* ordered because the values at the ends of the blocks grow.              *)
(***************************************************************************)
EXTENDS StreamingWriterLog, SequenceTheorems, TLAPS

\* The sizes of the fixed-size datatypes.
LEMMA Sizes8 ==
    \A dt \in DOMAIN FixedSize : FixedSize[dt] \in {1, 2, 4, 8, 24}
  BY DEF FixedSize

\* The chunking arithmetic: a block takes at least one sample, and as many as
\* maxSamplesPerBlock says fit the payload limit together with the frame CRC.
LEMMA MaxSamples ==
    ASSUME TypeOK, NEW kind \in Kinds, NEW dt \in DOMAIN FixedSize, NEW w \in Widths
    PROVE  /\ maxSamplesPerBlock(kind, dt, w) \in Nat \ {0}
           /\ kind = "AbsTimeStampData" \/ dt \in EquidistantTypes =>
                CrcSize + Overhead(kind) +
                maxSamplesPerBlock(kind, dt, w) * PerSample(kind, dt) <= MaxPayload[w]
<1> DEFINE o == Overhead(kind)
           p == PerSample(kind, dt)
           b == payloadBudget(w)
           q == (b - o) \div p
<1>1. FixedSize[dt] \in {1, 2, 4, 8, 24}
  BY Sizes8
<1>2. CrcSize \in {0, 4} /\ MaxPayload[w] \in Nat /\ 41 <= MaxPayload[w]
  BY PayloadAssumption DEF CrcSize
<1>3. b \in Nat /\ b + CrcSize = MaxPayload[w] /\ 37 <= b
  BY <1>2 DEF payloadBudget
<1>4. o \in {5, 21} /\ p \in {1, 2, 4, 8, 24, 9, 10, 12, 16, 32}
  BY <1>1 DEF Overhead, PerSample
<1>5. b > o
  BY <1>3, <1>4
<1>6. q \in Nat /\ o + q * p <= b
  BY <1>3, <1>4, <1>5
<1>7. maxSamplesPerBlock(kind, dt, w) = IF q = 0 THEN 1 ELSE q
  BY <1>3, <1>4, <1>5 DEF maxSamplesPerBlock, AtLeastOne
<1>8. maxSamplesPerBlock(kind, dt, w) \in Nat \ {0}
  BY <1>6, <1>7
<1>9. ASSUME kind = "AbsTimeStampData" \/ dt \in EquidistantTypes
      PROVE  o + p <= 37
  BY <1>9 DEF Overhead, PerSample, EquidistantTypes, FixedSize, Kinds
<1>10. ASSUME kind = "AbsTimeStampData" \/ dt \in EquidistantTypes
       PROVE  CrcSize + o + maxSamplesPerBlock(kind, dt, w) * p <= MaxPayload[w]
  BY <1>2, <1>3, <1>4, <1>6, <1>7, <1>9, <1>10
<1> QED
  BY <1>8, <1>10

\* Type correctness, initially.
LEMMA TypeInit == Init => TypeOK
<1> SUFFICES ASSUME Init PROVE TypeOK
  OBVIOUS
<1>1. state \in {"Configure", "Streaming", "Broken", "Closed", "Crashed"}
  BY DEF Init
<1>2. integrity \in Profiles \cup {"none"} /\ frameCrc \in BOOLEAN
  BY DEF Init
<1>3. channels \in Seq(ChannelType)
  BY DEF Init
<1>4. call \in {NoCall, StartCall} \cup WriteCall /\ call.op # "write"
  BY DEF Init, NoCall
<1>5. file \in Seq(BlockType)
  BY DEF Init
<1>6. synced \in 0..Len(file)
  BY DEF Init
<1>7. offered \in 0..MaxValues /\ acked \in SUBSET (1..MaxValues)
  BY CallAssumption DEF Init
<1> QED
  BY <1>1, <1>2, <1>3, <1>4, <1>5, <1>6, <1>7 DEF Init, TypeOK

\* The lengths of the sequences in the state are numbers.
LEMMA Lengths ==
    ASSUME TypeOK
    PROVE  /\ Len(file) \in Nat /\ file \in [1..Len(file) -> BlockType]
           /\ Len(channels) \in Nat /\ channels \in [1..Len(channels) -> ChannelType]
  BY DEF TypeOK

\* Locking a channel keeps the channel list well typed.
LEMMA LockType ==
    ASSUME TypeOK, NEW ch \in Nat, ch < Len(channels),
           NEW mode \in {"Equidistant", "Timestamped", "Variable"}, Lock(ch, mode)
    PROVE  channels' \in Seq(ChannelType) /\ Len(channels') = Len(channels)
<1>1. ch + 1 \in 1..Len(channels) /\ channels \in [1..Len(channels) -> ChannelType]
  BY DEF TypeOK
<1>2. [channels[ch + 1] EXCEPT !.kindLock = mode] \in ChannelType
  BY <1>1 DEF ChannelType
<1>3. channels' \in [1..Len(channels) -> ChannelType]
  BY <1>1, <1>2 DEF Lock
<1>4. Len(channels) \in Nat
  BY DEF TypeOK
<1> QED
  BY <1>3, <1>4 DEF TypeOK

\* Taking on a call (see Accepted) preserves the types.
LEMMA AcceptedType ==
    ASSUME TypeOK, channels' \in Seq(ChannelType),
           NEW ch \in Nat, ch < Len(channels'), NEW kind \in Kinds, NEW start \in Int, NEW period \in Nat,
           NEW times \in Seq(Int), NEW n \in Nat, NEW size \in Nat,
           Accepted(ch, kind, start, period, times, n, size)
    PROVE  TypeOK'
<1>1. call' \in WriteCall /\ call'.index = ch
  <2>1. [i \in 1..n |-> offered + i] \in Seq(Nat)
    BY DEF TypeOK
  <2>2. offered + 1 \in Nat \ {0}
    BY DEF TypeOK
  <2> QED
    BY <2>1, <2>2 DEF Accepted, WriteCall
<1>2. offered' \in 0..MaxValues
  BY CallAssumption DEF TypeOK, Accepted
<1> QED
  BY <1>1, <1>2 DEF TypeOK, Accepted, config, disk

\* A call that fails behind the lock preserves the types.
LEMMA LockedOnlyType ==
    ASSUME TypeOK, channels' \in Seq(ChannelType), Len(channels') = Len(channels),
           LockedOnly
    PROVE  TypeOK'
  BY DEF TypeOK, LockedOnly, config, disk

\* A chunk holds at least one and at most all of the samples left.
LEMMA ChunkSize ==
    ASSUME TypeOK, call \in WriteCall
    PROVE  /\ Chunk \in Nat /\ Chunk <= Len(call.values)
           /\ call.values # <<>> => Chunk > 0
<1> DEFINE c == channels[call.index + 1]
           m == maxSamplesPerBlock(call.kind, c.dataType, c.sizeOfLengthValue)
<1>1. c \in ChannelType
  BY DEF TypeOK, WriteCall
<1>2. c.dataType \in VariableTypes \/ m \in Nat \ {0}
  BY <1>1, MaxSamples DEF ChannelType, DataTypes, WriteCall
<1>3. Len(call.values) \in Nat /\ (call.values # <<>> => Len(call.values) > 0)
  BY DEF WriteCall
<1> QED
  BY <1>2, <1>3 DEF Chunk, Min2

\* The payload length of a block is a number.
LEMMA PayloadInt ==
    ASSUME NEW kind \in Kinds, NEW c \in ChannelType, NEW n \in Nat, NEW size \in Nat
    PROVE  PayloadLength(kind, c.dataType, n, size) \in Int
<1>1. CASE c.dataType \in VariableTypes
  BY <1>1 DEF PayloadLength
<1>2. CASE c.dataType \in DOMAIN FixedSize
  <2>1. PerSample(kind, c.dataType) \in Nat /\ Overhead(kind) \in Nat
    BY <1>2, Sizes8 DEF PerSample, Overhead
  <2>2. n * PerSample(kind, c.dataType) \in Nat
    BY <2>1
  <2> QED
    BY <1>2, <2>1, <2>2 DEF PayloadLength, FixedSize, VariableTypes
<1> QED
  BY <1>1, <1>2 DEF ChannelType, DataTypes

\* The block that is written next is well typed.
LEMMA BlockTyped ==
    ASSUME TypeOK, call \in WriteCall, NEW n \in Nat, n <= Len(call.values)
    PROVE  Block(n) \in BlockType
<1> DEFINE c == channels[call.index + 1]
           m == Min2(n, Len(call.times))
           p == PayloadLength(call.kind, c.dataType, n, call.size)
<1>1. c \in ChannelType
  BY DEF TypeOK, WriteCall
<1>2. m \in Nat /\ m <= Len(call.times)
  BY DEF Min2, WriteCall
<1>3. SubSeq(call.times, 1, m) \in Seq(Int) /\ SubSeq(call.values, 1, n) \in Seq(Nat)
  BY <1>2 DEF WriteCall
<1>4. p \in Int
  BY <1>1, PayloadInt DEF WriteCall
<1>5. LengthField(c.sizeOfLengthValue, p) \in Nat
  BY <1>1, <1>4, PayloadAssumption DEF LengthField, CrcSize, ChannelType
<1> QED
  BY <1>3, <1>5, CallAssumption DEF Block, BlockType, WriteCall

\* Type correctness, one step per action.
LEMMA TypeStep == TypeOK /\ [Next]_vars => TypeOK'
<1> SUFFICES ASSUME TypeOK, [Next]_vars PROVE TypeOK'
  OBVIOUS
<1>1. CASE UNCHANGED vars
  BY <1>1 DEF vars, config, disk, TypeOK
<1>2. ASSUME NEW p \in Profiles, setIntegrity(p) PROVE TypeOK'
  BY <1>2 DEF setIntegrity, disk, TypeOK
<1>3. ASSUME NEW def \in Defs, addChannel(def) PROVE TypeOK'
  <2>1. [dataType |-> def.dataType, sizeOfLengthValue |-> def.sizeOfLengthValue,
         kindLock |-> "Unset", segmentOpen |-> FALSE] \in ChannelType
    BY <1>3, DefsAssumption DEF addChannel, ChannelType
  <2>2. channels' \in Seq(ChannelType) /\ call = NoCall /\ call' = NoCall
    BY <1>3, <2>1 DEF addChannel, Idle, TypeOK
  <2> QED
    BY <1>3, <2>2 DEF addChannel, config, disk, TypeOK, NoCall
<1>4. CASE Start
  <2>1. frameCrc' \in BOOLEAN
    BY <1>4 DEF Start
  <2>2. call' \in {NoCall, StartCall} /\ call'.op # "write"
    BY <1>4 DEF Start, Idle, NoCall, StartCall
  <2> QED
    BY <1>4, <2>1, <2>2 DEF Start, TypeOK
<1>5. CASE close
  BY <1>5 DEF close, config, disk, TypeOK
<1>6. ASSUME NEW ch \in Indices, NEW dt \in EquidistantTypes, NEW start \in Stamps,
             NEW period \in Periods, NEW n \in 0..MaxCall,
             startEquidistantSegment(ch, dt, start, period, n)
      PROVE  TypeOK'
  <2>1. ch \in Nat /\ ch < Len(channels) /\ n \in Nat /\ <<>> \in Seq(Int)
    BY <1>6, CallAssumption DEF Indices, TypeOK, startEquidistantSegment, requireChannel
  <2>2. channels' \in Seq(ChannelType) /\ Len(channels') = Len(channels)
    BY <1>6, <2>1, LockType DEF startEquidistantSegment
  <2>3. start \in Int /\ period \in Nat /\ "StartData" \in Kinds /\ 0 \in Nat
    BY CallAssumption DEF Kinds
  <2> QED
    BY <1>6, <2>1, <2>2, <2>3, AcceptedType DEF startEquidistantSegment
<1>7. ASSUME NEW ch \in Indices, NEW dt \in EquidistantTypes, NEW n \in 0..MaxCall,
             appendEquidistantSamples(ch, dt, n)
      PROVE  TypeOK'
  <2>1. ch \in Nat /\ ch < Len(channels) /\ n \in Nat /\ <<>> \in Seq(Int)
    BY <1>7, CallAssumption DEF Indices, TypeOK, appendEquidistantSamples, requireChannel
  <2>2. channels' \in Seq(ChannelType) /\ Len(channels') = Len(channels)
    BY <1>7, <2>1, LockType DEF appendEquidistantSamples
  <2>3. "ContinuedData" \in Kinds /\ 0 \in Nat /\ 0 \in Int
    BY DEF Kinds
  <2> QED
    BY <1>7, <2>1, <2>2, <2>3, AcceptedType, LockedOnlyType DEF appendEquidistantSamples
<1>8. ASSUME NEW ch \in Indices, NEW dt \in DOMAIN FixedSize, NEW n \in 0..MaxCall,
             NEW times \in [1..n -> Stamps], writeTimestampedSamples(ch, dt, times)
      PROVE  TypeOK'
  <2>1. ch \in Nat /\ ch < Len(channels) /\ n \in Nat
    BY <1>8, CallAssumption DEF Indices, TypeOK, writeTimestampedSamples, requireChannel
  <2>2. channels' \in Seq(ChannelType) /\ Len(channels') = Len(channels)
    BY <1>8, <2>1, LockType DEF writeTimestampedSamples
  <2>3. "AbsTimeStampData" \in Kinds /\ 0 \in Nat /\ 0 \in Int
    BY DEF Kinds
  <2>4. times \in [1..n -> Int]
    BY CallAssumption
  <2>5. times \in Seq(Int) /\ Len(times) \in Nat
    BY <2>1, <2>4
  <2> QED
    BY <1>8, <2>1, <2>2, <2>3, <2>5, AcceptedType DEF writeTimestampedSamples
<1>9. ASSUME NEW ch \in Indices, NEW dt \in VariableTypes, NEW time \in Stamps,
             NEW size \in Sizes, writeTimestampedVariable(ch, dt, time, size)
      PROVE  TypeOK'
  <2>1. ch \in Nat /\ ch < Len(channels)
    BY <1>9 DEF Indices, TypeOK, writeTimestampedVariable, requireChannel
  <2>2. channels' \in Seq(ChannelType) /\ Len(channels') = Len(channels)
    BY <1>9, <2>1, LockType DEF writeTimestampedVariable
  <2>3. "AbsTimeStampData" \in Kinds /\ 0 \in Nat /\ 0 \in Int /\ 1 \in Nat
    BY DEF Kinds
  <2>4. <<time>> \in Seq(Int) /\ size \in Nat
    BY CallAssumption
  <2> QED
    BY <1>9, <2>1, <2>2, <2>3, <2>4, AcceptedType, LockedOnlyType
    DEF writeTimestampedVariable
<1>10. CASE StartWrites
  BY <1>10 DEF StartWrites, config, TypeOK
<1>11. CASE StartForces
  BY <1>11 DEF StartForces, config, TypeOK, NoCall
<1>12. CASE StartFails
  BY <1>12 DEF StartFails, config, TypeOK, NoCall
<1>13. CASE WriteBlock
  <2> DEFINE n == Chunk
  <2>1. call \in WriteCall /\ Len(call.values) \in Nat /\ Len(call.times) \in Nat
    BY <1>13 DEF WriteBlock, TypeOK, WriteCall, NoCall, StartCall
  <2>2. n \in Nat /\ n <= Len(call.values)
    BY <1>13, <2>1, ChunkSize DEF WriteBlock
  <2>3. Block(n) \in BlockType
    BY <1>13, <2>1, <2>2, BlockTyped DEF WriteBlock
  <2>4. call' \in WriteCall /\ call'.index = call.index
    <3> DEFINE m  == Min2(n, Len(call.times))
               c1 == [call EXCEPT !.phase = "force"]
               c2 == [c1 EXCEPT !.values = DropFirst(call.values, n)]
               c3 == [c2 EXCEPT !.times = DropFirst(call.times, m)]
    <3>1. m \in Nat /\ m <= Len(call.times)
      BY <2>1, <2>2 DEF Min2
    <3>2. DropFirst(call.values, n) \in Seq(Nat) /\ DropFirst(call.times, m) \in Seq(Int)
      BY <2>1, <2>2, <3>1 DEF DropFirst, WriteCall
    <3>3. c1 \in WriteCall /\ c1.index = call.index
      BY <2>1 DEF WriteCall
    <3> HIDE DEF c1
    <3>4. c2 \in WriteCall /\ c2.index = call.index
      BY <3>2, <3>3 DEF WriteCall
    <3> HIDE DEF c2
    <3>5. c3 \in WriteCall /\ c3.index = call.index
      BY <3>2, <3>4 DEF WriteCall
    <3>6. call' = c3
      BY <1>13 DEF WriteBlock, c1, c2
    <3> QED
      BY <3>5, <3>6
  <2>5. file' \in Seq(BlockType) /\ synced' \in 0..Len(file')
    BY <1>13, <2>3 DEF WriteBlock, TypeOK
  <2> QED
    BY <1>13, <2>4, <2>5 DEF WriteBlock, TypeOK, config
<1>14. CASE ForceBlock
  <2>1. call \in WriteCall
    BY <1>14 DEF ForceBlock, TypeOK, WriteCall, NoCall, StartCall
  <2>2. channels' \in Seq(ChannelType) /\ Len(channels') = Len(channels)
    <3> DEFINE i == call.index + 1
    <3>1. channels \in [1..Len(channels) -> ChannelType]
      BY DEF TypeOK
    <3>2. ASSUME i \in 1..Len(channels)
          PROVE  [channels[i] EXCEPT !.segmentOpen = TRUE] \in ChannelType
      BY <3>1, <3>2 DEF ChannelType
    <3>3. channels' \in [1..Len(channels) -> ChannelType]
      BY <1>14, <3>1, <3>2 DEF ForceBlock
    <3>4. Len(channels) \in Nat
      BY DEF TypeOK
    <3> QED
      BY <3>3, <3>4 DEF TypeOK
  <2>3. /\ call' \in {NoCall, StartCall} \cup WriteCall
        /\ call'.op = "write" => call'.index = call.index
    <3> DEFINE k == IF call.kind = "StartData" THEN "ContinuedData" ELSE call.kind
    <3>1. k \in Kinds
      BY <2>1 DEF WriteCall, Kinds
    <3> HIDE DEF k
    <3>2. /\ [call EXCEPT !.phase = "write", !.kind = k] \in WriteCall
          /\ [call EXCEPT !.phase = "write", !.kind = k].index = call.index
      <4> DEFINE c1 == [call EXCEPT !.phase = "write"]
                 c2 == [c1 EXCEPT !.kind = k]
      <4>1. c1 \in WriteCall
        BY <2>1 DEF WriteCall
      <4> HIDE DEF c1
      <4>2. c2 \in WriteCall
        BY <4>1, <3>1 DEF WriteCall
      <4> QED
        BY <4>2 DEF c1
    <3>3. call' = NoCall \/ call' = [call EXCEPT !.phase = "write", !.kind = k]
      BY <1>14, <2>1 DEF ForceBlock, WriteCall, k
    <3>4. CASE call' = NoCall
      BY <3>4 DEF NoCall
    <3>5. CASE call' = [call EXCEPT !.phase = "write", !.kind = k]
      BY <3>2, <3>5
    <3> QED
      BY <3>3, <3>4, <3>5
  <2>4. acked' \in SUBSET (1..MaxValues)
    <3>1. call.first..offered \subseteq 1..MaxValues
      BY <2>1, CallAssumption DEF TypeOK, WriteCall
    <3>2. acked' = acked \/ acked' = acked \cup (call.first..offered)
      BY <1>14 DEF ForceBlock
    <3> QED
      BY <3>1, <3>2 DEF TypeOK
  <2>5. synced' \in 0..Len(file')
    BY <1>14 DEF ForceBlock, TypeOK
  <2> QED
    BY <1>14, <2>2, <2>3, <2>4, <2>5 DEF ForceBlock, TypeOK, config
<1>15. CASE DoWriteBlockFails
  <2>1. torn' \in BOOLEAN
    BY <1>15 DEF DoWriteBlockFails, TypeOK
  <2> QED
    BY <1>15, <2>1 DEF DoWriteBlockFails, TypeOK, config, NoCall
<1>16. CASE PowerLoss
  <2>1. PICK k \in synced..Len(file) :
          /\ file' = SubSeq(file, 1, k)
          /\ torn' \in BOOLEAN
    BY <1>16 DEF PowerLoss, TypeOK
  <2>2. k \in Nat /\ k <= Len(file)
    BY <2>1 DEF TypeOK
  <2>3. file' \in Seq(BlockType) /\ Len(file') = k
    BY <2>1, <2>2 DEF TypeOK
  <2>4. header' \in {"none", "partial", "complete", "durable"}
    BY <1>16 DEF PowerLoss, TypeOK
  <2> QED
    BY <1>16, <2>1, <2>2, <2>3, <2>4 DEF PowerLoss, TypeOK, config, NoCall
<1> QED
  BY <1>1, <1>2, <1>3, <1>4, <1>5, <1>6, <1>7, <1>8, <1>9, <1>10, <1>11, <1>12,
     <1>13, <1>14, <1>15, <1>16 DEF Next

---------------------------------------------------------------------------
(* The inductive invariant. *)

\* The last sample in the file, and how many samples of the call are not there.
LastValue ==
    IF file = <<>> THEN 0
    ELSE file[Len(file)].values[Len(file[Len(file)].values)]

Pending == IF call.op = "write" THEN Len(call.values) ELSE 0

StartInFile(ch, n) ==
    \E j \in 1..n : file[j].index = ch /\ file[j].kind = "StartData"

Lifecycle ==
    /\ call.op = "start" => state = "Configure"
    /\ call.op = "write" => state = "Streaming"
    /\ state = "Configure" => file = <<>>
    /\ state \in {"Configure", "Streaming"} => ~torn

\* The file ends where the samples of the call begin.
Progress ==
    /\ state \in {"Configure", "Streaming"} => LastValue = offered - Pending
    /\ call.op = "write" =>
          /\ call.phase = "write" => call.values # <<>>
          /\ \A i \in DOMAIN call.values :
                call.values[i] = offered - Len(call.values) + i
          /\ \A v \in call.first..(offered - Len(call.values)) : InFile(v, Len(file))

\* The call in progress passed the checks of its channel.
CallFits ==
    call.op = "write" =>
        LET c == channels[call.index + 1]
        IN  /\ c.kindLock = Mode(call, c)
            /\ call.kind = "AbsTimeStampData" \/ c.dataType \in EquidistantTypes
            /\ c.dataType \in VariableTypes =>
                  call.size <= variableSampleCapacity(c.sizeOfLengthValue)

\* A continuation, and an open segment, have a durable bcStartData block.
Segments ==
    /\ \A i \in DOMAIN channels :
          channels[i].segmentOpen => StartInFile(i - 1, synced)
    /\ call.op = "write" =>
          /\ call.kind = "ContinuedData" => StartInFile(call.index, synced)
          /\ call.kind = "StartData" /\ call.phase = "force" =>
                StartInFile(call.index, Len(file))

IInv ==
    /\ TypeOK
    /\ Lifecycle
    /\ Progress
    /\ CallFits
    /\ Segments
    /\ AckedIsDurable
    /\ EverySampleOnce
    /\ Assemblable
    /\ LengthIsHonest

\* What every step does to the channels: a lock, once taken, stays.
ChannelsGrow ==
    /\ Len(channels) <= Len(channels')
    /\ \A i \in 1..Len(channels) :
          /\ channels'[i].dataType = channels[i].dataType
          /\ channels'[i].sizeOfLengthValue = channels[i].sizeOfLengthValue
          /\ channels[i].kindLock # "Unset" => channels'[i].kindLock = channels[i].kindLock

NoNewSegment ==
    \A i \in DOMAIN channels' :
        channels'[i].segmentOpen => i \in DOMAIN channels /\ channels[i].segmentOpen

\* A step that touches neither the blocks nor a write call.
Quiet ==
    /\ UNCHANGED <<file, synced, torn, offered, acked>>
    /\ call.op # "write" /\ call'.op # "write"
    /\ call'.op = "start" => state' = "Configure"
    /\ state' = "Configure" => state = "Configure"
    /\ state' = "Streaming" => state \in {"Configure", "Streaming"}
    /\ frameCrc' = frameCrc \/ file = <<>>
    /\ ChannelsGrow
    /\ NoNewSegment

\* What the four write calls do once their checks have passed.
Begins(ch, mode) ==
    /\ call.op # "write"
    /\ state = "Streaming"
    /\ ch < Len(channels)
    /\ channels[ch + 1].kindLock \in {"Unset", mode}
    /\ Lock(ch, mode)
    /\ UNCHANGED <<state, config, disk, acked>>
    /\ \/ UNCHANGED <<call, offered>>
       \/ \E n \in Nat \ {0} :
             LET c == channels[ch + 1]
             IN  /\ call'.op = "write" /\ call'.phase = "write" /\ call'.index = ch
                 /\ call'.values = [i \in 1..n |-> offered + i]
                 /\ call'.first = offered + 1
                 /\ offered' = offered + n
                 /\ Mode(call', c) = mode
                 /\ call'.kind = "AbsTimeStampData" \/ c.dataType \in EquidistantTypes
                 /\ c.dataType \in VariableTypes =>
                       call'.size <= variableSampleCapacity(c.sizeOfLengthValue)
                 /\ call'.kind = "ContinuedData" => c.segmentOpen

Modes == {"Equidistant", "Timestamped", "Variable"}

\* A lock once taken stays, and taking it opens no segment.
LEMMA LockGrows ==
    ASSUME TypeOK, NEW ch \in Nat, ch < Len(channels), NEW mode \in Modes,
           channels[ch + 1].kindLock \in {"Unset", mode}, Lock(ch, mode)
    PROVE  /\ ChannelsGrow /\ NoNewSegment
           /\ Len(channels') = Len(channels)
           /\ channels'[ch + 1].kindLock = mode
           /\ \A i \in DOMAIN channels : channels'[i].segmentOpen = channels[i].segmentOpen
<1>1. /\ ch + 1 \in 1..Len(channels) /\ Len(channels) \in Nat
      /\ channels \in [1..Len(channels) -> ChannelType]
  BY DEF TypeOK
<1>2. Len(channels') = Len(channels) /\ DOMAIN channels' = DOMAIN channels
  BY <1>1, LockType DEF Modes, Lock
<1>3. ASSUME NEW i \in 1..Len(channels)
      PROVE  /\ channels'[i].dataType = channels[i].dataType
             /\ channels'[i].sizeOfLengthValue = channels[i].sizeOfLengthValue
             /\ channels'[i].segmentOpen = channels[i].segmentOpen
             /\ channels'[i].kindLock = IF i = ch + 1 THEN mode ELSE channels[i].kindLock
  <2>1. channels'[i] = IF i = ch + 1 THEN [channels[i] EXCEPT !.kindLock = mode]
                       ELSE channels[i]
    BY <1>1 DEF Lock
  <2>2. channels[i] \in ChannelType
    BY <1>1
  <2> QED
    BY <2>1, <2>2 DEF ChannelType
<1>4. ChannelsGrow
  BY <1>1, <1>2, <1>3 DEF ChannelsGrow
<1>5. NoNewSegment
  BY <1>1, <1>2, <1>3 DEF NoNewSegment
<1> QED
  BY <1>1, <1>2, <1>3, <1>4, <1>5

\* The blocks in the file stay right while nothing is written.
LEMMA FileKept ==
    ASSUME IInv, TypeOK', ChannelsGrow, UNCHANGED file,
           frameCrc' = frameCrc \/ file = <<>>
    PROVE  EverySampleOnce' /\ Assemblable' /\ LengthIsHonest'
<1>1. EverySampleOnce'
  BY DEF IInv, EverySampleOnce
<1>2. ASSUME NEW i \in DOMAIN file
      PROVE  LET c == channels[file[i].index + 1]
                 d == channels'[file[i].index + 1]
             IN  /\ file[i] \in BlockType
                 /\ file[i].index < Len(channels)
                 /\ file[i].index + 1 \in 1..Len(channels)
                 /\ d.dataType = c.dataType
                 /\ d.kindLock = c.kindLock
                 /\ Mode(file[i], d) = Mode(file[i], c)
  <2>1. file[i] \in BlockType /\ file[i].index \in Nat /\ file[i].index < Len(channels)
    <3>1. file[i] \in BlockType
      BY Lengths DEF IInv
    <3> QED
      BY <3>1 DEF IInv, BlockType, Assemblable
  <2>2. file[i].index + 1 \in 1..Len(channels)
    BY <2>1, Lengths DEF IInv
  <2>3. channels[file[i].index + 1].kindLock # "Unset"
    BY DEF IInv, Assemblable, Mode
  <2> QED
    BY <2>1, <2>2, <2>3 DEF ChannelsGrow, Mode
<1>3. Assemblable'
  <2> SUFFICES ASSUME NEW i \in DOMAIN file
               PROVE  /\ file[i].index < Len(channels')
                      /\ LET c == channels'[file[i].index + 1]
                         IN  c.kindLock = Mode(file[i], c)
                      /\ file[i].kind = "ContinuedData" =>
                           \E j \in 1..(i - 1) :
                              file[j].index = file[i].index /\ file[j].kind = "StartData"
    BY DEF Assemblable, Mode
  <2>1. Len(channels) \in Nat /\ Len(channels') \in Nat /\ file[i].index \in Nat
    <3>1. TypeOK
      BY DEF IInv
    <3>2. Len(channels') \in Nat
      BY DEF TypeOK
    <3> QED
      BY <1>2, <3>1, <3>2, Lengths DEF BlockType
  <2>2. file[i].index < Len(channels')
    BY <1>2, <2>1 DEF ChannelsGrow
  <2>3. channels[file[i].index + 1].kindLock
          = Mode(file[i], channels[file[i].index + 1])
    BY DEF IInv, Assemblable
  <2>4. channels'[file[i].index + 1].kindLock
          = Mode(file[i], channels'[file[i].index + 1])
    BY <1>2, <2>3
  <2>5. file[i].kind = "ContinuedData" =>
           \E j \in 1..(i - 1) :
              file[j].index = file[i].index /\ file[j].kind = "StartData"
    BY DEF IInv, Assemblable
  <2> QED
    BY <2>2, <2>4, <2>5
<1>4. LengthIsHonest'
  <2> SUFFICES ASSUME NEW i \in DOMAIN file
               PROVE  file[i].length = CrcSize' +
                        PayloadLength(file[i].kind, channels'[file[i].index + 1].dataType,
                                      Len(file[i].values), file[i].size)
    BY DEF LengthIsHonest, PayloadLength, Overhead, PerSample
  <2>1. frameCrc' = frameCrc
    OBVIOUS
  <2>2. file[i].length = CrcSize +
          PayloadLength(file[i].kind, channels[file[i].index + 1].dataType,
                        Len(file[i].values), file[i].size)
    BY DEF IInv, LengthIsHonest
  <2> QED
    BY <1>2, <2>1, <2>2 DEF CrcSize
<1> QED
  BY <1>1, <1>3, <1>4

\* Steps that leave file and call alone preserve the invariant.
LEMMA QuietStep == ASSUME IInv, TypeOK', Quiet PROVE IInv'
<1>1. EverySampleOnce' /\ Assemblable' /\ LengthIsHonest'
  BY FileKept DEF Quiet
<1>2. Lifecycle'
  BY DEF Lifecycle, Quiet, IInv
<1>3. Progress'
  <2>1. LastValue' = LastValue /\ Pending = 0 /\ Pending' = 0
    BY DEF Quiet, LastValue, Pending
  <2>2. state' \in {"Configure", "Streaming"} => state \in {"Configure", "Streaming"}
    BY DEF Quiet
  <2> QED
    BY <2>1, <2>2 DEF Progress, Quiet, IInv
<1>4. CallFits'
  BY DEF CallFits, Quiet
<1>5. Segments'
  BY DEF Segments, Quiet, NoNewSegment, IInv, StartInFile
<1>6. AckedIsDurable'
  BY DEF AckedIsDurable, InFile, Quiet, IInv
<1> QED
  BY <1>1, <1>2, <1>3, <1>4, <1>5, <1>6 DEF IInv

\* The beginning of a write call preserves the invariant.
LEMMA BeginsStep ==
    ASSUME IInv, TypeOK', NEW ch \in Nat, NEW mode \in Modes, Begins(ch, mode)
    PROVE  IInv'
<1> DEFINE c == channels[ch + 1]
           d == channels'[ch + 1]
<1>1. /\ ch < Len(channels) /\ ch + 1 \in 1..Len(channels) /\ c \in ChannelType
      /\ ChannelsGrow /\ NoNewSegment /\ Len(channels') = Len(channels) /\ d.kindLock = mode
      /\ \A i \in DOMAIN channels : channels'[i].segmentOpen = channels[i].segmentOpen
  <2>1. TypeOK /\ ch < Len(channels) /\ Lock(ch, mode)
        /\ channels[ch + 1].kindLock \in {"Unset", mode}
    BY DEF IInv, Begins
  <2> QED
    BY <2>1, LockGrows, Lengths
<1>2. /\ file' = file /\ synced' = synced /\ acked' = acked /\ torn' = torn
      /\ state = "Streaming" /\ state' = "Streaming" /\ frameCrc' = frameCrc
      /\ call.op # "write"
  BY DEF Begins, config, disk
<1>3. EverySampleOnce' /\ Assemblable' /\ LengthIsHonest'
  BY <1>1, <1>2, FileKept
<1>4. AckedIsDurable'
  BY <1>2 DEF AckedIsDurable, InFile, IInv
<1>5. LastValue' = LastValue /\ Pending = 0 /\ LastValue = offered
  BY <1>2 DEF LastValue, Pending, IInv, Progress, TypeOK
<1>6. CASE UNCHANGED <<call, offered>>
  <2>1. Lifecycle'
    BY <1>2, <1>6 DEF Lifecycle, IInv
  <2>2. Progress'
    BY <1>2, <1>5, <1>6 DEF Progress, IInv, Pending
  <2>3. CallFits'
    BY <1>2, <1>6 DEF CallFits
  <2>4. Segments'
    BY <1>1, <1>2, <1>6 DEF Segments, NoNewSegment, StartInFile, IInv
  <2> QED
    BY <1>3, <1>4, <2>1, <2>2, <2>3, <2>4 DEF IInv
<1>7. ASSUME NEW n \in Nat \ {0},
             /\ call'.op = "write" /\ call'.phase = "write" /\ call'.index = ch
             /\ call'.values = [i \in 1..n |-> offered + i]
             /\ call'.first = offered + 1
             /\ offered' = offered + n
             /\ Mode(call', c) = mode
             /\ call'.kind = "AbsTimeStampData" \/ c.dataType \in EquidistantTypes
             /\ c.dataType \in VariableTypes =>
                   call'.size <= variableSampleCapacity(c.sizeOfLengthValue)
             /\ call'.kind = "ContinuedData" => c.segmentOpen
      PROVE  IInv'
  <2>1. Lifecycle'
    BY <1>2, <1>7 DEF Lifecycle, IInv
  <2>2. offered \in Nat /\ Len(call'.values) = n /\ DOMAIN call'.values = 1..n
        /\ call'.values # <<>>
    <3>1. offered \in Nat
      BY DEF IInv, TypeOK
    <3>2. call'.values \in Seq(Nat) /\ Len(call'.values) = n
      BY <1>7, <3>1
    <3> QED
      BY <1>7, <3>1, <3>2
  <2>3. Progress'
    <3>1. LastValue' = offered' - Pending'
      BY <1>5, <1>7, <2>2 DEF Pending
    <3>2. \A i \in DOMAIN call'.values :
             call'.values[i] = offered' - Len(call'.values) + i
      BY <1>7, <2>2
    <3>3. call'.first..(offered' - Len(call'.values)) = {}
      BY <1>7, <2>2
    <3> QED
      BY <2>2, <3>1, <3>2, <3>3 DEF Progress
  <2>4. CallFits'
    <3>1. d.dataType = c.dataType /\ d.sizeOfLengthValue = c.sizeOfLengthValue
      BY <1>1 DEF ChannelsGrow
    <3>2. Mode(call', d) = Mode(call', c)
      BY <3>1 DEF Mode
    <3>3. variableSampleCapacity(c.sizeOfLengthValue)'
            = variableSampleCapacity(d.sizeOfLengthValue)
      BY <1>2, <3>1 DEF variableSampleCapacity, payloadBudget, CrcSize
    <3>4. d.kindLock = Mode(call', d)
      BY <1>1, <1>7, <3>2
    <3> QED
      BY <1>2, <1>7, <3>1, <3>3, <3>4
      DEF CallFits, Mode, variableSampleCapacity, payloadBudget, CrcSize
  <2>5. Segments'
    <3>1. \A i \in DOMAIN channels' :
             channels'[i].segmentOpen => StartInFile(i - 1, synced)'
      BY <1>1, <1>2 DEF Segments, NoNewSegment, StartInFile, IInv
    <3>2. ASSUME call'.kind = "ContinuedData"
          PROVE  StartInFile(call'.index, synced)
      <4>1. c.segmentOpen /\ ch + 1 \in DOMAIN channels
        BY <1>1, <1>7, <3>2, Lengths DEF IInv
      <4>2. StartInFile((ch + 1) - 1, synced)
        BY <4>1 DEF IInv, Segments
      <4>3. (ch + 1) - 1 = call'.index
        BY <1>7
      <4> QED
        BY <4>2, <4>3
    <3> QED
      BY <1>2, <1>7, <3>1, <3>2 DEF Segments, StartInFile
  <2> QED
    BY <1>3, <1>4, <2>1, <2>3, <2>4, <2>5 DEF IInv
<1> QED
  BY <1>6, <1>7 DEF Begins

\* The fields of a call in progress.
LEMMA WriteCallFields ==
    ASSUME NEW k \in WriteCall
    PROVE  /\ k.index \in Nat /\ k.first \in Nat /\ k.size \in Nat
           /\ k.values \in Seq(Nat) /\ k.kind \in Kinds
  BY DEF WriteCall

\* A length below the modulus does not wrap.
LEMMA SmallMod == ASSUME NEW a \in Nat, NEW b \in Nat, a < b PROVE a % b = a
  OBVIOUS

\* Every encoded block fits the budget, so the length field does not wrap.
LEMMA Fits ==
    ASSUME TypeOK, CallFits, call \in WriteCall, call.values # <<>>
    PROVE  LET c == channels[call.index + 1]
               p == PayloadLength(call.kind, c.dataType, Chunk, call.size)
           IN  LengthField(c.sizeOfLengthValue, p) = p + CrcSize
<1> DEFINE c == channels[call.index + 1]
           w == c.sizeOfLengthValue
           n == Chunk
           p == PayloadLength(call.kind, c.dataType, n, call.size)
<1>1. c \in ChannelType /\ w \in Widths
  <2>1. call.index + 1 \in 1..Len(channels)
    BY Lengths DEF TypeOK, WriteCall
  <2> QED
    BY <2>1, Lengths DEF ChannelType
<1>2. /\ MaxPayload[w] \in Nat /\ LengthMax[w] \in Nat
      /\ 41 <= MaxPayload[w] /\ MaxPayload[w] <= LengthMax[w]
  BY <1>1, PayloadAssumption
<1>3. CrcSize \in {0, 4}
  BY DEF CrcSize
<1>4. n \in Nat \ {0} /\ n <= Len(call.values)
  BY ChunkSize
<1>5. p \in Nat /\ p + CrcSize <= MaxPayload[w]
  <2>1. CASE c.dataType \in VariableTypes
    <3>1. call.size \in Nat /\ call.size <= variableSampleCapacity(w)
      <4>1. call.op = "write"
        BY DEF WriteCall
      <4>2. call.size <= variableSampleCapacity(w)
        BY <2>1, <4>1 DEF CallFits
      <4> QED
        BY <4>2, WriteCallFields
    <3>2. p = 9 + call.size
      BY <2>1 DEF PayloadLength
    <3> QED
      BY <1>2, <1>3, <3>1, <3>2 DEF variableSampleCapacity, payloadBudget
  <2>2. CASE c.dataType \in DOMAIN FixedSize
    <3> DEFINE m == maxSamplesPerBlock(call.kind, c.dataType, w)
               s == PerSample(call.kind, c.dataType)
               o == Overhead(call.kind)
    <3>1. c.dataType \notin VariableTypes
      BY <2>2 DEF FixedSize, VariableTypes
    <3>2. call.kind = "AbsTimeStampData" \/ c.dataType \in EquidistantTypes
      BY DEF CallFits, WriteCall
    <3>3. m \in Nat \ {0} /\ CrcSize + o + m * s <= MaxPayload[w]
      BY <1>1, <2>2, <3>2, MaxSamples DEF WriteCall
    <3>4. n <= m
      BY <1>4, <3>1, <3>3 DEF Chunk, Min2
    <3>5. s \in Nat /\ o \in Nat /\ o >= 5
      BY <2>2, Sizes8 DEF PerSample, Overhead
    <3>6. n * s \in Nat /\ n * s <= m * s
      BY <1>4, <3>3, <3>4, <3>5
    <3>7. p = o - (IF n = 1 THEN 4 ELSE 0) + n * s
      BY <3>1 DEF PayloadLength
    <3> HIDE DEF p, m, s, o, n, w
    <3>8. m * s \in Nat
      BY <3>3, <3>5
    <3> QED
      BY <1>2, <1>3, <3>3, <3>5, <3>6, <3>7, <3>8
  <2> QED
    BY <1>1, <2>1, <2>2 DEF ChannelType, DataTypes
<1> HIDE DEF p, w, n
<1>6. (p + CrcSize) % (LengthMax[w] + 1) = p + CrcSize
  <2>1. p + CrcSize \in Nat /\ LengthMax[w] + 1 \in Nat
    BY <1>2, <1>3, <1>5
  <2>2. p + CrcSize < LengthMax[w] + 1
    BY <1>2, <1>3, <1>5
  <2> QED
    BY <2>1, <2>2, SmallMod
<1> QED
  BY <1>6 DEF LengthField, p, w, n

\* Writing a block preserves the invariant: the main step.
LEMMA WriteStep == ASSUME IInv, TypeOK', WriteBlock PROVE IInv'
<1> DEFINE n == Chunk
           N == Len(file)
           b == Block(n)
           L == Len(call.values)
           c == channels[call.index + 1]
<1>1. /\ call.op = "write" /\ call.phase = "write" /\ call \in WriteCall
      /\ state = "Streaming" /\ ~torn
  BY DEF WriteBlock, IInv, Lifecycle, TypeOK, WriteCall, NoCall, StartCall
<1>2. /\ call.values # <<>> /\ call.values \in Seq(Nat) /\ L \in Nat
      /\ \A i \in 1..L : call.values[i] = offered - L + i
      /\ \A v \in call.first..(offered - L) : InFile(v, N)
      /\ call.index \in Nat /\ call.first \in Nat /\ offered \in Nat
  <2>1. call.values \in Seq(Nat) /\ call.index \in Nat /\ call.first \in Nat
    BY <1>1, WriteCallFields
  <2>2. L \in Nat /\ DOMAIN call.values = 1..L
    BY <2>1
  <2>3. Progress /\ TypeOK
    BY DEF IInv
  <2>4. call.values # <<>>
    BY <1>1, <2>3 DEF Progress
  <2>5. \A i \in 1..L : call.values[i] = offered - L + i
    BY <1>1, <2>2, <2>3 DEF Progress
  <2>6. \A v \in call.first..(offered - L) : InFile(v, N)
    BY <1>1, <2>2, <2>3 DEF Progress
  <2>7. offered \in Nat
    BY <2>3 DEF TypeOK
  <2> QED
    BY <2>1, <2>2, <2>4, <2>5, <2>6, <2>7
<1>3. n \in Nat /\ 0 < n /\ n <= L
  BY <1>1, <1>2, ChunkSize DEF IInv
<1>4. /\ file' = Append(file, b) /\ channels' = channels /\ synced' = synced
      /\ acked' = acked /\ offered' = offered /\ state' = state /\ torn' = torn
      /\ frameCrc' = frameCrc
  BY DEF WriteBlock, config
<1>5. /\ b.values = SubSeq(call.values, 1, n) /\ Len(b.values) = n
      /\ \A k \in 1..n : b.values[k] = offered - L + k
      /\ b.values \in Seq(Nat) /\ DOMAIN b.values = 1..n
      /\ b.index = call.index /\ b.kind = call.kind /\ b.size = call.size
  <2>1. b.values = SubSeq(call.values, 1, n)
    BY DEF Block
  <2>2. /\ Len(SubSeq(call.values, 1, n)) = n
        /\ SubSeq(call.values, 1, n) \in Seq(Nat)
        /\ \A k \in 1..n : SubSeq(call.values, 1, n)[k] = call.values[k]
    BY <1>2, <1>3
  <2>3. /\ b.values \in Seq(Nat) /\ Len(b.values) = n
        /\ \A k \in 1..n : b.values[k] = call.values[k]
    BY <2>1, <2>2
  <2>4. \A k \in 1..n : b.values[k] = offered - L + k
    BY <1>2, <1>3, <2>3
  <2>5. DOMAIN b.values = 1..n
    BY <2>3
  <2>6. b.index = call.index /\ b.kind = call.kind /\ b.size = call.size
    BY DEF Block
  <2> QED
    BY <2>1, <2>3, <2>4, <2>5, <2>6
<1>0. N = Len(file) /\ L = Len(call.values) /\ (file = <<>> <=> N = 0)
  BY Lengths DEF IInv
<1> HIDE DEF n, b, N, L
<1>6. /\ Len(file') = N + 1 /\ N \in Nat
      /\ \A i \in 1..N : file'[i] = file[i]
      /\ file'[N + 1] = b /\ DOMAIN file' = 1..(N + 1) /\ DOMAIN file = 1..N
  BY <1>0, <1>4, Lengths DEF IInv
<1>7. /\ call'.op = "write" /\ call'.phase = "force" /\ call'.kind = call.kind
      /\ call'.index = call.index /\ call'.size = call.size /\ call'.first = call.first
      /\ call'.values = DropFirst(call.values, n)
  BY <1>1 DEF WriteBlock, WriteCall, n
<1>8. /\ Len(call'.values) = L - n /\ call'.values \in Seq(Nat)
      /\ DOMAIN call'.values = 1..(L - n)
      /\ \A i \in 1..(L - n) : call'.values[i] = call.values[n + i]
  <2>1. call'.values = SubSeq(call.values, n + 1, L)
    BY <1>0, <1>7 DEF DropFirst
  <2>2. /\ Len(SubSeq(call.values, n + 1, L)) = L - n
        /\ SubSeq(call.values, n + 1, L) \in Seq(Nat)
        /\ \A i \in 1..(L - n) : SubSeq(call.values, n + 1, L)[i] = call.values[n + i]
    <3>1. /\ call.values \in Seq(Nat) /\ n + 1 \in 1..(L + 1) /\ L = Len(call.values)
          /\ L \in Nat /\ n \in Nat
      BY <1>0, <1>2, <1>3
    <3>2. /\ SubSeq(call.values, n + 1, L) \in Seq(Nat)
          /\ Len(SubSeq(call.values, n + 1, L)) = L - n
      BY <3>1
    <3>3. ASSUME NEW i \in 1..(L - n)
          PROVE  SubSeq(call.values, n + 1, L)[i] = call.values[n + i]
      <4>1. SubSeq(call.values, n + 1, L)[i] = call.values[(n + 1) + i - 1]
        BY <3>1
      <4>2. (n + 1) + i - 1 = n + i
        BY <3>1
      <4> QED
        BY <4>1, <4>2
    <3> QED
      BY <3>2, <3>3
  <2> QED
    BY <2>1, <2>2
<1>9. ASSUME NEW v, InFile(v, N) PROVE InFile(v, Len(file))'
  <2>1. PICK i \in 1..N : \E k \in DOMAIN file[i].values : file[i].values[k] = v
    BY <1>9 DEF InFile
  <2>2. i \in 1..(N + 1) /\ file'[i] = file[i]
    BY <1>6
  <2> QED
    BY <1>6, <2>1, <2>2 DEF InFile
<1>10. Lifecycle'
  BY <1>1, <1>4, <1>7 DEF Lifecycle
<1>11. Progress'
  <2>1. LastValue' = offered - L + n
    <3>1. file' # <<>> /\ Len(file'[N + 1].values) = n
      BY <1>5, <1>6
    <3> QED
      BY <1>3, <1>5, <1>6, <3>1 DEF LastValue
  <2>2. LastValue' = offered' - Pending'
    BY <1>2, <1>3, <1>4, <1>7, <1>8, <2>1 DEF Pending
  <2>3. ASSUME NEW i \in DOMAIN call'.values
        PROVE  call'.values[i] = offered' - Len(call'.values) + i
    <3>1. i \in 1..(L - n)
      BY <1>8
    <3>2. n + i \in 1..L /\ L \in Nat /\ n \in Nat /\ i \in Nat /\ offered \in Nat
      BY <1>2, <1>3, <3>1
    <3>3. call'.values[i] = offered - L + (n + i)
      BY <1>2, <1>8, <3>1, <3>2
    <3> QED
      BY <1>4, <1>8, <3>2, <3>3
  <2>4. ASSUME NEW v \in call'.first..(offered' - Len(call'.values))
        PROVE  InFile(v, Len(file))'
    <3>1. v \in Int /\ call.first <= v /\ v <= offered - L + n
      BY <1>2, <1>3, <1>4, <1>7, <1>8
    <3>2. CASE v <= offered - L
      <4>1. InFile(v, N)
        BY <1>2, <3>1, <3>2
      <4> QED
        BY <1>6, <1>9, <4>1 DEF InFile
    <3>3. CASE v > offered - L
      <4>1. v - (offered - L) \in 1..n
        BY <1>2, <1>3, <3>1, <3>3
      <4>2. b.values[v - (offered - L)] = v
        BY <1>2, <1>5, <3>1, <4>1
      <4> QED
        BY <1>5, <1>6, <4>1, <4>2 DEF InFile
    <3> QED
      BY <1>2, <3>1, <3>2, <3>3
  <2> QED
    BY <1>7, <2>2, <2>3, <2>4 DEF Progress
<1>12. CallFits'
  BY <1>1, <1>4, <1>7
  DEF CallFits, IInv, Mode, variableSampleCapacity, payloadBudget, CrcSize
<1>13. Segments'
  <2>0. synced \in 0..N
    BY DEF IInv, TypeOK, N
  <2>1. ASSUME NEW ch \in Int, StartInFile(ch, synced)
        PROVE  \E j \in 1..synced : file'[j].index = ch /\ file'[j].kind = "StartData"
    <3>1. PICK j \in 1..synced : file[j].index = ch /\ file[j].kind = "StartData"
      BY <2>1 DEF StartInFile
    <3>2. j \in 1..N
      BY <1>6, <2>0
    <3> QED
      BY <1>4, <1>6, <3>1, <3>2 DEF StartInFile
  <2>2. \A i \in DOMAIN channels' :
           channels'[i].segmentOpen => StartInFile(i - 1, synced)'
    <3> SUFFICES ASSUME NEW i \in DOMAIN channels, channels[i].segmentOpen
                 PROVE  \E j \in 1..synced :
                           file'[j].index = i - 1 /\ file'[j].kind = "StartData"
      BY <1>4 DEF StartInFile
    <3>1. i - 1 \in Int
      BY Lengths DEF IInv
    <3>2. StartInFile(i - 1, synced)
      BY DEF IInv, Segments
    <3> QED
      BY <2>1, <3>1, <3>2
  <2>3. call'.kind = "ContinuedData" => StartInFile(call.index, synced)'
    <3> SUFFICES ASSUME call.kind = "ContinuedData"
                 PROVE  \E j \in 1..synced :
                           file'[j].index = call.index /\ file'[j].kind = "StartData"
      BY <1>4, <1>7 DEF StartInFile
    <3>1. StartInFile(call.index, synced)
      BY <1>1 DEF IInv, Segments
    <3> QED
      BY <1>2, <2>1, <3>1
  <2>4. call'.kind = "StartData" => StartInFile(call.index, Len(file))'
    BY <1>5, <1>6, <1>7 DEF StartInFile
  <2> QED
    BY <2>2, <2>3, <2>4 DEF Segments, StartInFile
<1>14. AckedIsDurable'
  <2>1. ASSUME NEW v \in acked PROVE InFile(v, synced)'
    <3>1. PICK i \in 1..synced : \E k \in DOMAIN file[i].values : file[i].values[k] = v
      BY <2>1 DEF IInv, AckedIsDurable, InFile
    <3>2. i \in 1..N
      BY <1>6 DEF IInv, TypeOK
    <3> QED
      BY <1>4, <1>6, <3>1, <3>2 DEF InFile
  <2> QED
    BY <1>4, <2>1 DEF AckedIsDurable, InFile
<1>15. EverySampleOnce'
  <2>0. ASSUME NEW i \in 1..N
        PROVE  /\ file[i].values # <<>>
               /\ \A k \in DOMAIN file[i].values :
                     file[i].values[k] = k + (IF i = 1 THEN 0
                         ELSE file[i - 1].values[Len(file[i - 1].values)])
    BY <1>6 DEF IInv, EverySampleOnce
  <2>1. ASSUME NEW i \in 1..N
        PROVE  /\ file'[i].values # <<>>
               /\ \A k \in DOMAIN file'[i].values :
                     file'[i].values[k] = k + (IF i = 1 THEN 0
                         ELSE file'[i - 1].values[Len(file'[i - 1].values)])
    <3>1. file'[i] = file[i] /\ (i # 1 => i - 1 \in 1..N)
      BY <1>6
    <3>2. i # 1 => file'[i - 1] = file[i - 1]
      BY <1>6, <3>1
    <3> QED
      BY <2>0, <3>1, <3>2
  <2>2. LastValue = offered - L
    BY <1>0, <1>1 DEF IInv, Progress, Pending
  <2>3. LastValue = IF N = 0 THEN 0 ELSE file'[N].values[Len(file'[N].values)]
    BY <1>0, <1>6 DEF LastValue
  <2>4. \A k \in DOMAIN b.values :
           b.values[k] = k + (IF N + 1 = 1 THEN 0
                              ELSE file'[(N + 1) - 1].values[Len(file'[(N + 1) - 1].values)])
    <3>1. (N + 1) - 1 = N /\ (N + 1 = 1 <=> N = 0)
      BY <1>6
    <3>2. \A k \in DOMAIN b.values : b.values[k] = k + LastValue
      <4>1. offered \in Nat /\ L \in Nat
        BY <1>2
      <4>2. ASSUME NEW k \in 1..n PROVE k \in Nat /\ b.values[k] = offered - L + k
        BY <1>3, <1>5
      <4> HIDE DEF L, n, b
      <4>3. ASSUME NEW k \in 1..n PROVE b.values[k] = k + (offered - L)
        BY <4>1, <4>2
      <4> QED
        BY <1>5, <2>2, <4>3
    <3> QED
      BY <2>3, <3>1, <3>2
  <2>5. b.values # <<>>
    <3>1. Len(b.values) # 0
      BY <1>3, <1>5
    <3> QED
      BY <3>1
  <2>6. \A i \in 1..(N + 1) : i \in 1..N \/ i = N + 1
    BY <1>6
  <2> QED
    BY <1>6, <2>1, <2>4, <2>5, <2>6 DEF EverySampleOnce
<1>16. Assemblable'
  <2>1. ASSUME NEW i \in 1..N
        PROVE  /\ file'[i].index < Len(channels)
               /\ channels[file'[i].index + 1].kindLock
                    = Mode(file'[i], channels[file'[i].index + 1])
               /\ file'[i].kind = "ContinuedData" =>
                     \E j \in 1..(i - 1) :
                        file'[j].index = file'[i].index /\ file'[j].kind = "StartData"
    <3>1. file'[i] = file[i] /\ \A j \in 1..(i - 1) : file'[j] = file[j]
      BY <1>6
    <3> QED
      BY <1>6, <3>1 DEF IInv, Assemblable
  <2>2. b.index < Len(channels) /\ c.kindLock = Mode(b, c)
    BY <1>1, <1>5 DEF IInv, TypeOK, CallFits, Mode
  <2>3. ASSUME b.kind = "ContinuedData"
        PROVE  \E j \in 1..((N + 1) - 1) :
                  file'[j].index = b.index /\ file'[j].kind = "StartData"
    <3>1. PICK j \in 1..synced : file[j].index = call.index /\ file[j].kind = "StartData"
      BY <1>1, <1>5, <2>3 DEF IInv, Segments, StartInFile
    <3>2. j \in 1..N /\ j \in 1..((N + 1) - 1)
      BY <1>6 DEF IInv, TypeOK
    <3> QED
      BY <1>5, <1>6, <3>1, <3>2
  <2>4. \A i \in 1..(N + 1) : i \in 1..N \/ i = N + 1
    BY <1>6
  <2> QED
    <3> SUFFICES ASSUME NEW i \in 1..(N + 1)
                 PROVE  /\ file'[i].index < Len(channels)
                        /\ channels[file'[i].index + 1].kindLock
                             = Mode(file'[i], channels[file'[i].index + 1])
                        /\ file'[i].kind = "ContinuedData" =>
                              \E j \in 1..(i - 1) :
                                 file'[j].index = file'[i].index /\ file'[j].kind = "StartData"
      BY <1>4, <1>6 DEF Assemblable, Mode
    <3>1. CASE i \in 1..N
      BY <2>1, <3>1
    <3>2. CASE i = N + 1
      BY <1>5, <1>6, <2>2, <2>3, <3>2
    <3> QED
      BY <2>4, <3>1, <3>2
<1>17. LengthIsHonest'
  <2>1. ASSUME NEW i \in 1..N
        PROVE  file'[i].length = CrcSize +
                 PayloadLength(file'[i].kind, channels[file'[i].index + 1].dataType,
                               Len(file'[i].values), file'[i].size)
    BY <1>6 DEF IInv, LengthIsHonest
  <2>2. b.length = CrcSize + PayloadLength(b.kind, c.dataType, Len(b.values), b.size)
    <3> DEFINE p == PayloadLength(call.kind, c.dataType, n, call.size)
    <3>1. LengthField(c.sizeOfLengthValue, p) = p + CrcSize
      BY <1>1, <1>2, Fits DEF IInv, n
    <3>2. b.length = LengthField(c.sizeOfLengthValue, p)
      BY DEF b, Block
    <3>3. PayloadLength(b.kind, c.dataType, Len(b.values), b.size) = p
      BY <1>5
    <3>4. p \in Int /\ CrcSize \in Int
      <4>1. c \in ChannelType /\ call.kind \in Kinds /\ call.size \in Nat
        BY <1>1 DEF IInv, TypeOK, WriteCall
      <4> QED
        BY <1>3, <4>1, PayloadInt DEF CrcSize
    <3> QED
      BY <3>1, <3>2, <3>3, <3>4
  <2>4. \A i \in 1..(N + 1) : i \in 1..N \/ i = N + 1
    BY <1>6
  <2>5. CrcSize' = CrcSize
    BY <1>4 DEF CrcSize
  <2>6. ASSUME NEW i \in 1..(N + 1)
        PROVE  file'[i].length = CrcSize' +
                 PayloadLength(file'[i].kind, channels'[file'[i].index + 1].dataType,
                               Len(file'[i].values), file'[i].size)
    <3>1. CASE i \in 1..N
      BY <1>4, <1>6, <2>1, <2>5, <3>1
    <3>2. CASE i = N + 1
      <4>1. file'[i] = b /\ channels'[b.index + 1] = c
        BY <1>4, <1>5, <1>6, <3>2
      <4> QED
        BY <2>2, <2>5, <4>1
    <3> QED
      BY <2>4, <3>1, <3>2
  <2> QED
    BY <1>6, <2>6 DEF LengthIsHonest, PayloadLength, Overhead, PerSample
<1> QED
  BY <1>10, <1>11, <1>12, <1>13, <1>14, <1>15, <1>16, <1>17 DEF IInv

\* fsync preserves the invariant; here samples are acknowledged.
LEMMA ForceStep == ASSUME IInv, TypeOK', ForceBlock PROVE IInv'
<1>1. /\ call.op = "write" /\ call.phase = "force" /\ call \in WriteCall
      /\ state = "Streaming" /\ ~torn
  BY DEF ForceBlock, IInv, Lifecycle, TypeOK, WriteCall, NoCall, StartCall
<1>2. /\ file' = file /\ synced' = Len(file) /\ offered' = offered /\ state' = state
      /\ torn' = torn /\ frameCrc' = frameCrc
  BY DEF ForceBlock, config
<1>3. /\ synced \in 0..Len(file) /\ Len(file) \in Nat /\ call.index \in Nat
      /\ channels \in [1..Len(channels) -> ChannelType] /\ Len(channels) \in Nat
  BY <1>1, Lengths DEF IInv, TypeOK, WriteCall
<1>4. /\ Len(channels') = Len(channels) /\ DOMAIN channels' = DOMAIN channels
      /\ \A i \in 1..Len(channels) :
            /\ channels'[i].dataType = channels[i].dataType
            /\ channels'[i].sizeOfLengthValue = channels[i].sizeOfLengthValue
            /\ channels'[i].kindLock = channels[i].kindLock
            /\ channels'[i].segmentOpen =>
                  \/ channels[i].segmentOpen
                  \/ i = call.index + 1 /\ call.kind = "StartData"
  <2>1. CASE channels' = channels
    BY <1>3, <2>1
  <2>2. CASE /\ call.kind = "StartData"
             /\ channels' = [channels EXCEPT ![call.index + 1].segmentOpen = TRUE]
    <3>1. DOMAIN channels' = 1..Len(channels) /\ channels' \in Seq(ChannelType)
      BY <1>3, <2>2 DEF TypeOK
    <3>2. Len(channels') = Len(channels)
      BY <1>3, <3>1
    <3>3. ASSUME NEW i \in 1..Len(channels)
          PROVE  channels'[i] = IF i = call.index + 1
                                THEN [channels[i] EXCEPT !.segmentOpen = TRUE]
                                ELSE channels[i]
      BY <1>3, <2>2
    <3>4. \A i \in 1..Len(channels) : channels[i] \in ChannelType
      BY <1>3
    <3>5. ASSUME NEW i \in 1..Len(channels)
          PROVE  /\ channels'[i].dataType = channels[i].dataType
                 /\ channels'[i].sizeOfLengthValue = channels[i].sizeOfLengthValue
                 /\ channels'[i].kindLock = channels[i].kindLock
                 /\ channels'[i].segmentOpen =>
                       channels[i].segmentOpen \/ i = call.index + 1
      BY <3>3, <3>4 DEF ChannelType
    <3> QED
      BY <1>3, <2>2, <3>1, <3>2, <3>5
  <2> QED
    BY <2>1, <2>2 DEF ForceBlock
<1>5. ChannelsGrow
  BY <1>3, <1>4 DEF ChannelsGrow
<1>6. EverySampleOnce' /\ Assemblable' /\ LengthIsHonest'
  BY <1>2, <1>5, FileKept
<1>7. ASSUME NEW ch, StartInFile(ch, synced)
      PROVE  StartInFile(ch, Len(file))
  BY <1>3, <1>7 DEF StartInFile
<1>8. ASSUME NEW v, InFile(v, synced)
      PROVE  InFile(v, Len(file))
  BY <1>3, <1>8 DEF InFile
<1>9. call.kind = "StartData" => StartInFile(call.index, Len(file))
  BY <1>1 DEF IInv, Segments
<1>10. \A i \in DOMAIN channels' :
          channels'[i].segmentOpen => StartInFile(i - 1, synced)'
  <2> SUFFICES ASSUME NEW i \in DOMAIN channels', channels'[i].segmentOpen
               PROVE  StartInFile(i - 1, Len(file))
    BY <1>2 DEF StartInFile
  <2>1. CASE channels[i].segmentOpen
    <3>1. StartInFile(i - 1, synced)
      BY <1>3, <1>4, <2>1 DEF IInv, Segments
    <3> QED
      BY <1>7, <3>1
  <2>2. CASE i = call.index + 1 /\ call.kind = "StartData"
    BY <1>3, <1>9, <2>2
  <2> QED
    BY <1>3, <1>4, <2>1, <2>2
<1>11. Len(call.values) \in Nat /\ offered \in Nat
  BY <1>1 DEF IInv, TypeOK, WriteCall
<1>12. CASE call.values = <<>>
  <2>1. call' = NoCall /\ acked' = acked \cup call.first..offered
    BY <1>12 DEF ForceBlock
  <2>2. call'.op = "none"
    BY <2>1 DEF NoCall
  <2>3. Lifecycle'
    BY <1>1, <1>2, <2>2 DEF Lifecycle
  <2>4. Progress'
    <3>1. LastValue' = LastValue /\ Pending = 0 /\ Pending' = 0
      BY <1>2, <1>12, <2>2 DEF LastValue, Pending
    <3> QED
      BY <1>1, <1>2, <2>2, <3>1 DEF Progress, IInv
  <2>5. CallFits'
    BY <2>2 DEF CallFits
  <2>6. Segments'
    BY <1>10, <2>2 DEF Segments
  <2>7. AckedIsDurable'
    <3>1. ASSUME NEW v \in acked' PROVE InFile(v, Len(file))
      <4>1. CASE v \in acked
        BY <1>8, <4>1 DEF IInv, AckedIsDurable
      <4>2. CASE v \in call.first..offered
        <5>1. offered - Len(call.values) = offered
          BY <1>11, <1>12
        <5>2. v \in call.first..(offered - Len(call.values))
          BY <4>2, <5>1
        <5> QED
          BY <1>1, <5>2 DEF IInv, Progress
      <4> QED
        BY <2>1, <4>1, <4>2
    <3> QED
      BY <1>2, <3>1 DEF AckedIsDurable, InFile
  <2> QED
    BY <1>6, <2>3, <2>4, <2>5, <2>6, <2>7 DEF IInv
<1>13. CASE call.values # <<>>
  <2>1. /\ call'.op = "write" /\ call'.index = call.index /\ call'.size = call.size
        /\ call'.values = call.values /\ call'.first = call.first
        /\ call'.phase = "write" /\ acked' = acked
        /\ call'.kind = IF call.kind = "StartData" THEN "ContinuedData" ELSE call.kind
    BY <1>1, <1>13 DEF ForceBlock, WriteCall
  <2>2. Lifecycle'
    BY <1>1, <1>2, <2>1 DEF Lifecycle
  <2>3. Progress'
    <3>1. LastValue' = LastValue /\ Pending' = Pending
      BY <1>1, <1>2, <2>1 DEF LastValue, Pending
    <3> QED
      BY <1>1, <1>2, <1>13, <2>1, <3>1 DEF Progress, IInv, InFile
  <2>4. CallFits'
    <3> DEFINE c == channels[call.index + 1]
               d == channels'[call.index + 1]
    <3>1. call.index + 1 \in 1..Len(channels)
      BY <1>1, <1>3 DEF IInv, TypeOK
    <3>2. d.dataType = c.dataType /\ d.sizeOfLengthValue = c.sizeOfLengthValue
          /\ d.kindLock = c.kindLock
      BY <1>4, <3>1
    <3>3. /\ c.kindLock = Mode(call, c)
          /\ call.kind = "AbsTimeStampData" \/ c.dataType \in EquidistantTypes
          /\ c.dataType \in VariableTypes =>
                call.size <= variableSampleCapacity(c.sizeOfLengthValue)
      BY <1>1 DEF IInv, CallFits
    <3>4. d.kindLock = Mode(call', d)
      BY <2>1, <3>2, <3>3 DEF Mode
    <3>5. call'.kind = "AbsTimeStampData" \/ d.dataType \in EquidistantTypes
      BY <2>1, <3>2, <3>3
    <3>6. d.dataType \in VariableTypes =>
             call'.size <= variableSampleCapacity(c.sizeOfLengthValue)
      BY <2>1, <3>2, <3>3
    <3> QED
      BY <1>2, <2>1, <3>2, <3>4, <3>5, <3>6
      DEF CallFits, Mode, variableSampleCapacity, payloadBudget, CrcSize
  <2>5. Segments'
    <3>1. ASSUME call'.kind = "ContinuedData"
          PROVE  StartInFile(call.index, Len(file))
      <4>1. CASE call.kind = "StartData"
        BY <1>9, <4>1
      <4>2. CASE call.kind = "ContinuedData"
        <5>1. StartInFile(call.index, synced)
          BY <1>1, <4>2 DEF IInv, Segments
        <5> QED
          BY <1>7, <5>1
      <4> QED
        BY <2>1, <3>1, <4>1, <4>2
    <3> QED
      BY <1>2, <1>10, <2>1, <3>1 DEF Segments, StartInFile
  <2>6. AckedIsDurable'
    <3>1. ASSUME NEW v \in acked PROVE InFile(v, Len(file))
      BY <1>8 DEF IInv, AckedIsDurable
    <3> QED
      BY <1>2, <2>1, <3>1 DEF AckedIsDurable, InFile
  <2> QED
    BY <1>6, <2>2, <2>3, <2>4, <2>5, <2>6 DEF IInv
<1> QED
  BY <1>12, <1>13

\* A failed write or fsync preserves the invariant.
LEMMA FailStep == ASSUME IInv, TypeOK', DoWriteBlockFails PROVE IInv'
<1>1. /\ file' = file /\ synced' = synced /\ acked' = acked /\ state' = "Broken"
      /\ channels' = channels /\ frameCrc' = frameCrc
      /\ call' = NoCall /\ call'.op = "none"
  BY DEF DoWriteBlockFails, config, NoCall
<1>2. ChannelsGrow
  BY <1>1, Lengths DEF ChannelsGrow, IInv
<1>3. EverySampleOnce' /\ Assemblable' /\ LengthIsHonest'
  BY <1>1, <1>2, FileKept
<1>4. Lifecycle' /\ Progress' /\ CallFits'
  BY <1>1 DEF Lifecycle, Progress, CallFits
<1>5. Segments' /\ AckedIsDurable'
  BY <1>1 DEF Segments, StartInFile, AckedIsDurable, InFile, IInv
<1> QED
  BY <1>3, <1>4, <1>5 DEF IInv

\* A power loss preserves the invariant: what fsync covered is a prefix.
LEMMA PowerLossStep == ASSUME IInv, TypeOK', PowerLoss PROVE IInv'
<1>1. PICK k \in synced..Len(file) : file' = SubSeq(file, 1, k)
  BY DEF PowerLoss
<1>2. /\ synced' = synced /\ acked' = acked /\ state' = "Crashed"
      /\ channels' = channels /\ frameCrc' = frameCrc /\ call'.op = "none"
  BY DEF PowerLoss, config, NoCall
<1>3. k \in Nat /\ synced <= k /\ k <= Len(file) /\ synced \in Nat /\ Len(file) \in Nat
  BY <1>1, Lengths DEF IInv, TypeOK
<1>4. /\ Len(file') = k /\ DOMAIN file' = 1..k
      /\ \A i \in 1..k : file'[i] = file[i] /\ i \in 1..Len(file)
  <2>1. file \in Seq(BlockType)
    BY DEF IInv, TypeOK
  <2> QED
    BY <1>1, <1>3, <2>1
<1>5. Lifecycle' /\ Progress' /\ CallFits'
  BY <1>2 DEF Lifecycle, Progress, CallFits
<1>6. Segments'
  <2>1. ASSUME NEW ch, StartInFile(ch, synced)
        PROVE  \E j \in 1..synced : file'[j].index = ch /\ file'[j].kind = "StartData"
    BY <1>3, <1>4, <2>1 DEF StartInFile
  <2> QED
    BY <1>2, <2>1 DEF Segments, StartInFile, IInv
<1>7. AckedIsDurable'
  <2>1. ASSUME NEW v \in acked
        PROVE  \E i \in 1..synced : \E l \in DOMAIN file'[i].values : file'[i].values[l] = v
    <3>1. PICK i \in 1..synced : \E l \in DOMAIN file[i].values : file[i].values[l] = v
      BY DEF IInv, AckedIsDurable, InFile
    <3>2. i \in 1..k
      BY <1>3
    <3> QED
      BY <1>4, <3>1, <3>2
  <2> QED
    BY <1>2, <2>1 DEF AckedIsDurable, InFile
<1>8. EverySampleOnce'
  <2>1. ASSUME NEW i \in 1..k
        PROVE  /\ file'[i] = file[i] /\ i \in DOMAIN file
               /\ i # 1 => file'[i - 1] = file[i - 1]
    BY <1>3, <1>4, Lengths DEF IInv
  <2> QED
    <3> SUFFICES ASSUME NEW i \in 1..k
                 PROVE  /\ file'[i].values # <<>>
                        /\ \A l \in DOMAIN file'[i].values :
                              file'[i].values[l] = l + (IF i = 1 THEN 0
                                  ELSE file'[i - 1].values[Len(file'[i - 1].values)])
      BY <1>4 DEF EverySampleOnce
    <3>1. /\ file[i].values # <<>>
          /\ \A l \in DOMAIN file[i].values :
                file[i].values[l] = l + (IF i = 1 THEN 0
                    ELSE file[i - 1].values[Len(file[i - 1].values)])
      BY <2>1 DEF IInv, EverySampleOnce
    <3> QED
      BY <2>1, <3>1
<1>9. Assemblable'
  <2>1. ASSUME NEW i \in 1..k
        PROVE  /\ file'[i] = file[i] /\ i \in DOMAIN file
               /\ \A j \in 1..(i - 1) : file'[j] = file[j]
    BY <1>3, <1>4, Lengths DEF IInv
  <2> QED
    BY <1>2, <1>4, <2>1 DEF IInv, Assemblable, Mode
<1>10. LengthIsHonest'
  <2>1. \A i \in 1..k : file'[i] = file[i] /\ i \in DOMAIN file
    BY <1>4, Lengths DEF IInv
  <2> QED
    BY <1>2, <1>4, <2>1
    DEF IInv, LengthIsHonest, CrcSize, PayloadLength, Overhead, PerSample
<1> QED
  BY <1>5, <1>6, <1>7, <1>8, <1>9, <1>10 DEF IInv

\* The invariant holds initially.
LEMMA InitIInv == Init => IInv
<1> SUFFICES ASSUME Init PROVE IInv
  OBVIOUS
<1>1. /\ file = <<>> /\ channels = <<>> /\ acked = {} /\ offered = 0 /\ torn = FALSE
      /\ state = "Configure" /\ call.op = "none"
  BY DEF Init, NoCall
<1>2. Lifecycle
  BY <1>1 DEF Lifecycle
<1>3. Progress
  BY <1>1 DEF Progress, LastValue, Pending
<1>4. CallFits /\ Segments /\ AckedIsDurable
  BY <1>1 DEF CallFits, Segments, AckedIsDurable
<1>5. EverySampleOnce /\ Assemblable /\ LengthIsHonest
  BY <1>1 DEF EverySampleOnce, Assemblable, LengthIsHonest
<1> QED
  BY <1>2, <1>3, <1>4, <1>5, TypeInit DEF IInv

\* The four write calls are instances of Begins.
LEMMA AcceptedBegins ==
    ASSUME IInv, Idle, NEW ch \in Nat, NEW mode \in Modes, NEW kind \in Kinds,
           NEW start, NEW period, NEW times, NEW n \in Nat, n > 0, NEW size,
           NEW dt \in DataTypes,
           requireChannel(ch, mode, dt), Lock(ch, mode),
           Accepted(ch, kind, start, period, times, n, size),
           mode = IF kind # "AbsTimeStampData" THEN "Equidistant"
                  ELSE IF dt \in VariableTypes THEN "Variable" ELSE "Timestamped",
           kind = "AbsTimeStampData" \/ dt \in EquidistantTypes,
           dt \in VariableTypes =>
              size <= variableSampleCapacity(channels[ch + 1].sizeOfLengthValue),
           kind = "ContinuedData" => channels[ch + 1].segmentOpen
    PROVE  Begins(ch, mode)
<1> DEFINE c == channels[ch + 1]
<1>1. /\ call.op # "write" /\ state = "Streaming" /\ ch < Len(channels)
      /\ c.kindLock \in {"Unset", mode} /\ c.dataType = dt
  BY DEF Idle, NoCall, requireChannel
<1>2. /\ call'.op = "write" /\ call'.phase = "write" /\ call'.index = ch
      /\ call'.values = [i \in 1..n |-> offered + i] /\ call'.first = offered + 1
      /\ call'.kind = kind /\ call'.size = size /\ offered' = offered + n
  BY DEF Accepted
<1>3. Mode(call', c) = mode
  BY <1>1, <1>2 DEF Mode
<1>4. UNCHANGED <<state, config, disk, acked>>
  BY DEF Accepted
<1>5. n \in Nat \ {0}
  OBVIOUS
<1>6. \E m \in Nat \ {0} :
         /\ call'.op = "write" /\ call'.phase = "write" /\ call'.index = ch
         /\ call'.values = [i \in 1..m |-> offered + i]
         /\ call'.first = offered + 1
         /\ offered' = offered + m
         /\ Mode(call', c) = mode
         /\ call'.kind = "AbsTimeStampData" \/ c.dataType \in EquidistantTypes
         /\ c.dataType \in VariableTypes =>
               call'.size <= variableSampleCapacity(c.sizeOfLengthValue)
         /\ call'.kind = "ContinuedData" => c.segmentOpen
  BY <1>1, <1>2, <1>3, <1>5
<1> QED
  BY <1>1, <1>4, <1>6 DEF Begins

\* A call that locks its channel and fails leaves file and call alone.
LEMMA LockedBegins ==
    ASSUME Idle, NEW ch \in Nat, NEW mode \in Modes, NEW dt,
           requireChannel(ch, mode, dt), Lock(ch, mode), LockedOnly
    PROVE  Begins(ch, mode)
  BY DEF Idle, NoCall, requireChannel, LockedOnly, Begins

\* Steps that leave the channels alone neither lock nor open anything.
LEMMA SameChannels == ASSUME channels' = channels, TypeOK PROVE ChannelsGrow /\ NoNewSegment
  BY Lengths DEF ChannelsGrow, NoNewSegment

\* The invariant is preserved, one step per action.
LEMMA Step == IInv /\ [Next]_vars => IInv'
<1> SUFFICES ASSUME IInv, [Next]_vars PROVE IInv'
  OBVIOUS
<1>t. TypeOK /\ TypeOK' /\ Lifecycle
  BY TypeStep DEF IInv
<1>i. \A ch \in Indices : ch \in Nat
  BY DEF Indices
<1>e. /\ EquidistantTypes \subseteq DataTypes /\ VariableTypes \subseteq DataTypes
      /\ DOMAIN FixedSize \subseteq DataTypes
      /\ \A dt \in EquidistantTypes : dt \notin VariableTypes
      /\ \A dt \in DOMAIN FixedSize : dt \notin VariableTypes
  BY DEF EquidistantTypes, VariableTypes, DataTypes, FixedSize
<1>k. /\ Kinds = {"StartData", "ContinuedData", "AbsTimeStampData"}
      /\ Modes = {"Equidistant", "Timestamped", "Variable"}
  BY DEF Kinds, Modes
<1>1. CASE UNCHANGED vars
  BY <1>1, <1>t DEF vars, config, disk, IInv, Lifecycle, Progress, CallFits, Segments,
     AckedIsDurable, EverySampleOnce, Assemblable, LengthIsHonest, LastValue, Pending,
     StartInFile, InFile, Mode, variableSampleCapacity, payloadBudget, CrcSize,
     PayloadLength, Overhead, PerSample
<1>2. ASSUME NEW p \in Profiles, setIntegrity(p) PROVE IInv'
  <2>1. Quiet
    BY <1>2, <1>t, SameChannels DEF setIntegrity, Idle, NoCall, disk, Quiet
  <2> QED
    BY <1>t, <2>1, QuietStep
<1>3. ASSUME NEW def \in Defs, addChannel(def) PROVE IInv'
  <2>1. /\ Len(channels') = Len(channels) + 1 /\ Len(channels) \in Nat
        /\ \A i \in 1..Len(channels) : channels'[i] = channels[i]
        /\ channels'[Len(channels) + 1].segmentOpen = FALSE
        /\ DOMAIN channels' = 1..(Len(channels) + 1) /\ DOMAIN channels = 1..Len(channels)
    BY <1>3, <1>t, Lengths DEF addChannel
  <2>2. ChannelsGrow
    BY <2>1 DEF ChannelsGrow
  <2>3. NoNewSegment
    <3> SUFFICES ASSUME NEW i \in 1..(Len(channels) + 1), channels'[i].segmentOpen
                 PROVE  i \in 1..Len(channels) /\ channels[i].segmentOpen
      BY <2>1 DEF NoNewSegment
    <3>1. i # Len(channels) + 1
      BY <2>1
    <3>2. i \in 1..Len(channels)
      BY <2>1, <3>1
    <3> QED
      BY <2>1, <3>2
  <2>4. Quiet
    BY <1>3, <2>2, <2>3 DEF addChannel, Idle, NoCall, disk, config, Quiet
  <2> QED
    BY <1>t, <2>4, QuietStep
<1>4. CASE Start
  <2>1. call.op # "write" /\ call'.op # "write" /\ state = "Configure" /\ state' = state
    BY <1>4 DEF Start, Idle, NoCall, StartCall
  <2>2. Quiet
    BY <1>4, <1>t, <2>1, SameChannels DEF Start, Quiet, Lifecycle
  <2> QED
    BY <1>t, <2>2, QuietStep
<1>5. CASE close
  <2>1. Quiet
    BY <1>5, <1>t, SameChannels DEF close, Idle, NoCall, disk, config, Quiet
  <2> QED
    BY <1>t, <2>1, QuietStep
<1>6. ASSUME NEW ch \in Indices, NEW dt \in EquidistantTypes, NEW start \in Stamps,
             NEW period \in Periods, NEW n \in 0..MaxCall,
             startEquidistantSegment(ch, dt, start, period, n)
      PROVE  IInv'
  <2>1. Begins(ch, "Equidistant")
    BY <1>6, <1>i, <1>e, <1>k, CallAssumption, AcceptedBegins
    DEF startEquidistantSegment
  <2> QED
    BY <1>t, <1>i, <1>k, <2>1, BeginsStep
<1>7. ASSUME NEW ch \in Indices, NEW dt \in EquidistantTypes, NEW n \in 0..MaxCall,
             appendEquidistantSamples(ch, dt, n)
      PROVE  IInv'
  <2>1. CASE channels[ch + 1].segmentOpen
    <3>1. Begins(ch, "Equidistant")
      BY <1>7, <1>i, <1>e, <1>k, <2>1, CallAssumption, AcceptedBegins
      DEF appendEquidistantSamples
    <3> QED
      BY <1>t, <1>i, <1>k, <3>1, BeginsStep
  <2>2. CASE ~channels[ch + 1].segmentOpen
    <3>1. Begins(ch, "Equidistant")
      BY <1>7, <1>i, <1>k, <2>2, LockedBegins DEF appendEquidistantSamples
    <3> QED
      BY <1>t, <1>i, <1>k, <3>1, BeginsStep
  <2> QED
    BY <2>1, <2>2
<1>8. ASSUME NEW ch \in Indices, NEW dt \in DOMAIN FixedSize, NEW n \in 0..MaxCall,
             NEW times \in [1..n -> Stamps], writeTimestampedSamples(ch, dt, times)
      PROVE  IInv'
  <2>1. Len(times) \in Nat /\ Len(times) > 0
    <3>1. times \in Seq(Stamps) /\ n \in Nat
      BY CallAssumption
    <3> QED
      BY <1>8, <3>1 DEF writeTimestampedSamples
  <2>2. Begins(ch, "Timestamped")
    BY <1>8, <1>i, <1>e, <1>k, <2>1, AcceptedBegins DEF writeTimestampedSamples
  <2> QED
    BY <1>t, <1>i, <1>k, <2>2, BeginsStep
<1>9. ASSUME NEW ch \in Indices, NEW dt \in VariableTypes, NEW time \in Stamps,
             NEW size \in Sizes, writeTimestampedVariable(ch, dt, time, size)
      PROVE  IInv'
  <2>1. Begins(ch, "Variable")
    <3>1. CASE size <= variableSampleCapacity(channels[ch + 1].sizeOfLengthValue)
      BY <1>9, <1>i, <1>e, <1>k, <3>1, AcceptedBegins DEF writeTimestampedVariable
    <3>2. CASE ~(size <= variableSampleCapacity(channels[ch + 1].sizeOfLengthValue))
      BY <1>9, <1>i, <1>k, <3>2, LockedBegins DEF writeTimestampedVariable
    <3> QED
      BY <3>1, <3>2
  <2> QED
    BY <1>t, <1>i, <1>k, <2>1, BeginsStep
<1>10. CASE StartWrites
  <2>1. Quiet
    BY <1>10, <1>t, SameChannels DEF StartWrites, config, Quiet, Lifecycle
  <2> QED
    BY <1>t, <2>1, QuietStep
<1>11. CASE StartForces
  <2>1. Quiet
    BY <1>11, <1>t, SameChannels DEF StartForces, config, Quiet, Lifecycle, NoCall
  <2> QED
    BY <1>t, <2>1, QuietStep
<1>12. CASE StartFails
  <2>1. Quiet
    BY <1>12, <1>t, SameChannels DEF StartFails, config, Quiet, Lifecycle, NoCall
  <2> QED
    BY <1>t, <2>1, QuietStep
<1> QED
  BY <1>1, <1>2, <1>3, <1>4, <1>5, <1>6, <1>7, <1>8, <1>9, <1>10, <1>11, <1>12, <1>t,
     WriteStep, ForceStep, FailStep, PowerLossStep DEF Next

---------------------------------------------------------------------------
(* The theorems. *)

\* The invariant is inductive.
THEOREM Invariant == Spec => []IInv
<1>1. Init => IInv
  BY InitIInv
<1>2. IInv /\ [Next]_vars => IInv'
  BY Step
<1> QED
  BY <1>1, <1>2, PTL DEF Spec

\* The writer's state is well typed, whatever the channels and payload limits.
THEOREM TypeCorrect == Spec => []TypeOK
<1>1. IInv => TypeOK
  BY DEF IInv
<1> QED
  BY <1>1, Invariant, PTL

\* The durability promise of streamingwriter.h: a sample whose call returned
\* success is in the part of the file that fsync covers, now and after any
\* write error, fsync error or power loss.
THEOREM Durability == Spec => []AckedIsDurable
<1>1. IInv => AckedIsDurable
  BY DEF IInv
<1> QED
  BY <1>1, Invariant, PTL

\* Chunking neither drops, repeats nor reorders a sample, for every payload
\* limit, data type and call size.
THEOREM Chunking == Spec => []EverySampleOnce
<1>1. IInv => EverySampleOnce
  BY DEF IInv
<1> QED
  BY <1>1, Invariant, PTL

\* No channel mixes modes and no continuation is without its start, also in
\* what a power loss leaves of the file.
THEOREM Assembly == Spec => []Assemblable
<1>1. IInv => Assemblable
  BY DEF IInv
<1> QED
  BY <1>1, Invariant, PTL

\* applyFrameCrc never wraps the length field.
THEOREM HonestLength == Spec => []LengthIsHonest
<1>1. IInv => LengthIsHonest
  BY DEF IInv
<1> QED
  BY <1>1, Invariant, PTL

\* Nothing is written behind a partly written block.
THEOREM NoWriteBehindTorn == Spec => NothingBehindTorn
<1>1. IInv /\ [Next]_vars => [torn => Len(file') <= Len(file)]_vars
  <2> SUFFICES ASSUME IInv, Next, torn PROVE Len(file') <= Len(file)
    OBVIOUS
  <2>1. state \notin {"Configure", "Streaming"}
    BY DEF IInv, Lifecycle
  <2>2. ~WriteBlock
    BY <2>1 DEF IInv, Lifecycle, WriteBlock
  <2>3. CASE PowerLoss
    <3>1. PICK k \in synced..Len(file) : file' = SubSeq(file, 1, k)
      BY <2>3 DEF PowerLoss
    <3> QED
      BY <3>1, Lengths DEF IInv, TypeOK
  <2>4. CASE ~PowerLoss
    <3>1. file' = file
      BY <2>2, <2>4 DEF Next, setIntegrity, addChannel, Start, close,
         startEquidistantSegment, appendEquidistantSamples, writeTimestampedSamples,
         writeTimestampedVariable, Accepted, LockedOnly, StartWrites, StartForces,
         StartFails, ForceBlock, DoWriteBlockFails, disk
    <3> QED
      BY <3>1, Lengths DEF IInv
  <2> QED
    BY <2>3, <2>4
<1> QED
  BY <1>1, Invariant, PTL DEF Spec, NothingBehindTorn
---------------------------------------------------------------------------
(* The refinement. *)


\* The last samples of the blocks grow with the block number.
Ordered ==
    /\ \A i \in 0..Len(file) : ValueAt(file, i) \in Nat
    /\ \A i, j \in 0..Len(file) : i <= j => ValueAt(file, i) <= ValueAt(file, j)

\* A call begins with a sample that was handed over.
First == call.op = "write" => call.first <= offered

\* The last value of the file in the invariant is the end of the log.
LEMMA EndOfLog == TypeOK => LastValue = ValueAt(file, Len(file))
  BY Lengths DEF LastValue, ValueAt

\* A block begins behind the samples that are in the file and ends with the
\* last sample of its chunk.
LEMMA ChunkAppended ==
    ASSUME IInv, TypeOK', WriteBlock
    PROVE  /\ Len(file') = Len(file) + 1
           /\ \A i \in 0..Len(file) : ValueAt(file', i) = ValueAt(file, i)
           /\ ValueAt(file', Len(file')) \in Nat
           /\ LastValue < ValueAt(file', Len(file'))
           /\ ValueAt(file', Len(file')) <= offered
<1> DEFINE n == Chunk
           N == Len(file)
           b == Block(n)
           L == Len(call.values)
<1>1. /\ call.op = "write" /\ call.phase = "write" /\ call \in WriteCall
      /\ state = "Streaming"
  BY DEF WriteBlock, IInv, Lifecycle, TypeOK, WriteCall, NoCall, StartCall
<1>2. /\ call.values # <<>> /\ call.values \in Seq(Nat) /\ L \in Nat
      /\ \A i \in 1..L : call.values[i] = offered - L + i
      /\ offered \in Nat
  <2>1. call.values \in Seq(Nat)
    BY <1>1 DEF WriteCall
  <2>2. L \in Nat /\ DOMAIN call.values = 1..L
    BY <2>1
  <2>3. Progress /\ TypeOK
    BY DEF IInv
  <2>6. call.values # <<>>
    BY <1>1, <2>3 DEF Progress
  <2>4. \A i \in 1..L : call.values[i] = offered - L + i
    BY <1>1, <2>2, <2>3 DEF Progress
  <2>5. offered \in Nat
    BY <2>3 DEF TypeOK
  <2> QED
    BY <2>1, <2>2, <2>4, <2>5, <2>6
<1>3. n \in Nat /\ 0 < n /\ n <= L
  BY <1>1, <1>2, ChunkSize DEF IInv
<1>4. LastValue = offered - L
  BY <1>1 DEF IInv, Progress, Pending
<1>5. b.values = SubSeq(call.values, 1, n)
  BY DEF Block
<1>6. Len(b.values) = n /\ b.values[n] = offered - L + n
  <2>1. /\ Len(SubSeq(call.values, 1, n)) = n
        /\ \A k \in 1..n : SubSeq(call.values, 1, n)[k] = call.values[k]
    BY <1>2, <1>3
  <2>2. n \in 1..n /\ n \in 1..L
    BY <1>2, <1>3
  <2>3. Len(b.values) = n /\ b.values[n] = call.values[n]
    BY <1>5, <2>1, <2>2
  <2> QED
    BY <1>2, <2>2, <2>3
<1>7. file' = Append(file, b) /\ file \in Seq(BlockType) /\ N \in Nat
  BY DEF WriteBlock, IInv, TypeOK
<1>8. /\ Len(file') = N + 1 /\ file'[N + 1] = b
      /\ \A i \in 1..N : file'[i] = file[i]
  BY <1>7
<1>9. \A i \in 0..N : ValueAt(file', i) = ValueAt(file, i)
  BY <1>7, <1>8 DEF ValueAt
<1>10. ValueAt(file', Len(file')) = offered - L + n
  BY <1>6, <1>7, <1>8 DEF ValueAt
<1>11. LastValue \in Nat
  <2>1. CASE file = <<>>
    BY <2>1 DEF LastValue
  <2>2. CASE file # <<>>
    <3>1. N \in 1..N /\ file[N] \in BlockType /\ N \in DOMAIN file
      BY <1>7, <2>2
    <3>2. file[N].values # <<>> /\ file[N].values \in Seq(Nat)
      BY <3>1 DEF IInv, EverySampleOnce, BlockType
    <3> QED
      BY <2>2, <3>2 DEF LastValue
  <2> QED
    BY <2>1, <2>2
<1>12. offered - L + n \in Nat /\ LastValue < offered - L + n /\ offered - L + n <= offered
  <2>1. ASSUME NEW o \in Nat, NEW l \in Nat, NEW m \in Nat, 0 < m, m <= l, o - l \in Nat
        PROVE  o - l + m \in Nat /\ o - l < o - l + m /\ o - l + m <= o
    BY <2>1
  <2>2. offered \in Nat /\ L \in Nat /\ n \in Nat /\ 0 < n /\ n <= L /\ offered - L \in Nat
    BY <1>2, <1>3, <1>4, <1>11
  <2> HIDE DEF n, L
  <2> QED
    BY <1>4, <2>1, <2>2
<1> QED
  BY <1>8, <1>9, <1>10, <1>12

\* Steps other than WriteBlock and PowerLoss leave the blocks alone.
LEMMA FileStays ==
    ASSUME Next, ~WriteBlock, ~PowerLoss
    PROVE  file' = file
  BY DEF Next, setIntegrity, addChannel, Start, close, startEquidistantSegment,
     appendEquidistantSamples, writeTimestampedSamples, writeTimestampedVariable, Accepted,
     LockedOnly, StartWrites, StartForces, StartFails, ForceBlock, DoWriteBlockFails, disk

\* A power loss leaves the beginning of the file.
LEMMA Beginning ==
    ASSUME TypeOK, PowerLoss
    PROVE  \E k \in synced..Len(file) :
              /\ Len(file') = k
              /\ \A i \in 0..k : ValueAt(file', i) = ValueAt(file, i)
<1>1. PICK k \in synced..Len(file) : file' = SubSeq(file, 1, k)
  BY DEF PowerLoss
<1>2. k \in Nat /\ k <= Len(file) /\ file \in Seq(BlockType)
  BY <1>1 DEF TypeOK
<1>3. Len(file') = k /\ \A i \in 1..k : file'[i] = file[i]
  BY <1>1, <1>2
<1>4. \A i \in 0..k : ValueAt(file', i) = ValueAt(file, i)
  BY <1>2, <1>3 DEF ValueAt
<1> QED
  BY <1>3, <1>4

\* The ends of the blocks keep growing: a block is appended behind, or the file
\* is cut to a beginning.
LEMMA OrderedStep == IInv /\ TypeOK' /\ Ordered /\ [Next]_vars => Ordered'
<1> SUFFICES ASSUME IInv, TypeOK', Ordered, [Next]_vars PROVE Ordered'
  OBVIOUS
<1>1. CASE WriteBlock
  <2>1. Len(file) \in Nat /\ LastValue = ValueAt(file, Len(file))
    BY Lengths, EndOfLog DEF IInv
  <2>2. /\ Len(file') = Len(file) + 1
        /\ \A i \in 0..Len(file) : ValueAt(file', i) = ValueAt(file, i)
        /\ ValueAt(file', Len(file')) \in Nat
        /\ LastValue < ValueAt(file', Len(file'))
    BY <1>1, ChunkAppended
  <2>3. ASSUME NEW i \in 0..Len(file')
        PROVE  i \in 0..Len(file) \/ i = Len(file')
    BY <2>1, <2>2
  <2>4. Len(file) \in 0..Len(file)
    BY <2>1
  <2>5. \A i \in 0..Len(file) :
           /\ ValueAt(file', i) \in Nat
           /\ ValueAt(file', i) <= ValueAt(file', Len(file'))
    BY <2>1, <2>2, <2>4 DEF Ordered
  <2>6. ASSUME NEW i \in 0..Len(file'), NEW j \in 0..Len(file'), i <= j
        PROVE  ValueAt(file', i) <= ValueAt(file', j)
    <3>1. CASE j \in 0..Len(file)
      <4>1. i \in 0..Len(file)
        BY <2>1, <2>6, <3>1
      <4> QED
        BY <2>2, <2>6, <3>1, <4>1 DEF Ordered
    <3>2. CASE j = Len(file')
      BY <2>2, <2>3, <2>5, <3>2
    <3> QED
      BY <2>3, <3>1, <3>2
  <2> QED
    BY <2>2, <2>3, <2>5, <2>6 DEF Ordered
<1>2. CASE PowerLoss
  <2>1. PICK k \in synced..Len(file) :
           Len(file') = k /\ \A i \in 0..k : ValueAt(file', i) = ValueAt(file, i)
    BY <1>2, Beginning DEF IInv
  <2>2. k \in Nat /\ k <= Len(file) /\ Len(file) \in Nat
    BY <2>1, Lengths DEF IInv, TypeOK
  <2> QED
    BY <2>1, <2>2 DEF Ordered
<1>3. CASE ~WriteBlock /\ ~PowerLoss
  <2>1. file' = file
    BY <1>3, FileStays DEF vars, disk
  <2> QED
    BY <2>1 DEF Ordered, ValueAt
<1> QED
  BY <1>1, <1>2, <1>3

\* A call keeps beginning with a sample that was handed over.
LEMMA FirstStep == IInv /\ First /\ [Next]_vars => First'
<1> SUFFICES ASSUME IInv, First, [Next]_vars, call'.op = "write"
             PROVE  call'.first <= offered'
  BY DEF First
<1>1. ASSUME NEW ch, NEW kind, NEW start, NEW period, NEW times, NEW n \in Nat, n > 0,
             NEW size, Accepted(ch, kind, start, period, times, n, size)
      PROVE  call'.first <= offered'
  BY <1>1 DEF Accepted, IInv, TypeOK
<1>2. ASSUME call'.first = call.first, call.op = "write", offered' = offered
      PROVE  call'.first <= offered'
  BY <1>2 DEF First
<1>3. CASE UNCHANGED <<call, offered>>
  BY <1>2, <1>3
<1>4. CASE WriteBlock \/ ForceBlock
  <2>1. call \in WriteCall /\ call.op = "write" /\ offered' = offered
    BY <1>4 DEF WriteBlock, ForceBlock, IInv, TypeOK, WriteCall, NoCall, StartCall
  <2>3. CASE WriteBlock
    <3>1. call'.first = call.first
      BY <2>1, <2>3 DEF WriteBlock, WriteCall
    <3> QED
      BY <1>2, <2>1, <3>1
  <2>4. CASE ForceBlock
    <3>1. call.values # <<>>
      BY <2>4 DEF ForceBlock, NoCall
    <3>2. \E kind : call' = [call EXCEPT !.phase = "write", !.kind = kind]
      BY <2>4, <3>1 DEF ForceBlock
    <3>3. call'.first = call.first
      BY <2>1, <3>2 DEF WriteCall
    <3> QED
      BY <1>2, <2>1, <3>3
  <2> QED
    BY <1>4, <2>3, <2>4
<1>5. CASE Start \/ StartForces \/ StartFails \/ DoWriteBlockFails \/ PowerLoss
  <2>1. call' \in {NoCall, StartCall} \/ UNCHANGED <<call, offered>>
    BY <1>5 DEF Start, StartForces, StartFails, DoWriteBlockFails, PowerLoss
  <2> QED
    BY <1>3, <2>1 DEF NoCall, StartCall
<1>6. ASSUME NEW ch \in Indices, NEW dt \in EquidistantTypes, NEW start \in Stamps,
             NEW period \in Periods, NEW n \in 0..MaxCall,
             startEquidistantSegment(ch, dt, start, period, n)
      PROVE  call'.first <= offered'
  BY <1>1, <1>6, CallAssumption DEF startEquidistantSegment
<1>7. ASSUME NEW ch \in Indices, NEW dt \in EquidistantTypes, NEW n \in 0..MaxCall,
             appendEquidistantSamples(ch, dt, n)
      PROVE  call'.first <= offered'
  BY <1>1, <1>3, <1>7, CallAssumption DEF appendEquidistantSamples, LockedOnly
<1>8. ASSUME NEW ch \in Indices, NEW dt \in DOMAIN FixedSize, NEW n \in 0..MaxCall,
             NEW times \in [1..n -> Stamps], writeTimestampedSamples(ch, dt, times)
      PROVE  call'.first <= offered'
  <2>1. n \in Nat /\ Len(times) = n /\ times # <<>>
    BY <1>8, CallAssumption DEF writeTimestampedSamples
  <2>2. Len(times) > 0
    BY <2>1
  <2> QED
    BY <1>1, <1>8, <2>1, <2>2 DEF writeTimestampedSamples
<1>9. ASSUME NEW ch \in Indices, NEW dt \in VariableTypes, NEW time \in Stamps,
             NEW size \in Sizes, writeTimestampedVariable(ch, dt, time, size)
      PROVE  call'.first <= offered'
  BY <1>1, <1>3, <1>9 DEF writeTimestampedVariable, LockedOnly
<1>10. CASE (\E p \in Profiles : setIntegrity(p)) \/ (\E def \in Defs : addChannel(def))
            \/ close \/ StartWrites
  BY <1>3, <1>10 DEF setIntegrity, addChannel, close, StartWrites
<1>11. CASE UNCHANGED vars
  BY <1>3, <1>11 DEF vars
<1> QED
  BY <1>4, <1>5, <1>6, <1>7, <1>8, <1>9, <1>10, <1>11 DEF Next

\* The initial states are initial states of the log.
LEMMA InitLog == Init => Log!Init
  BY DEF Init, Log!Init, ValueAt

\* The two values that a step of the log compares, unchanged or not.
LEMMA Ends ==
    ASSUME IInv, Ordered
    PROVE  /\ ValueAt(file, synced) \in Nat /\ ValueAt(file, Len(file)) \in Nat
           /\ ValueAt(file, synced) <= ValueAt(file, Len(file))
<1>1. synced \in 0..Len(file) /\ Len(file) \in 0..Len(file) /\ synced <= Len(file)
  BY Lengths DEF IInv, TypeOK
<1> QED
  BY <1>1 DEF Ordered

\* An accepted call hands over samples, to a writer that takes them.
LEMMA AcceptedOffers ==
    ASSUME IInv, NEW ch, NEW mode, NEW dt, requireChannel(ch, mode, dt),
           NEW kind, NEW start, NEW period, NEW times, NEW n \in Nat, n > 0, NEW size,
           Accepted(ch, kind, start, period, times, n, size)
    PROVE  Log!Offer
<1>1. /\ state = "Streaming" /\ state' = state /\ file' = file /\ synced' = synced
      /\ acked' = acked /\ offered' = offered + n
  BY DEF requireChannel, Accepted, disk
<1>2. offered \in Nat
  BY DEF IInv, TypeOK
<1> QED
  BY <1>1, <1>2 DEF Log!Offer, ValueAt

\* What is written or forced goes on; what ends the recording takes nothing away.
LEMMA Stops ==
    ASSUME IInv, Ordered, UNCHANGED <<file, synced, offered, acked>>,
           state' \notin {"Configure", "Streaming"}
    PROVE  Log!Down
<1>1. ValueAt(file', synced') = ValueAt(file, synced) /\ ValueAt(file', Len(file')) = ValueAt(file, Len(file))
  BY DEF ValueAt
<1> QED
  BY <1>1, Ends DEF Log!Down

\* Steps that leave the log's view alone stutter.
LEMMA Stutters ==
    ASSUME UNCHANGED <<file, synced, offered, acked>>,
           state' \in {"Configure", "Streaming"} <=> state \in {"Configure", "Streaming"}
    PROVE  UNCHANGED Log!vars
  BY DEF Log!vars, ValueAt

\* Every step of the writer is a step of the log or a stutter, one step per
\* action.
LEMMA StepLog == IInv /\ IInv' /\ Ordered /\ First /\ [Next]_vars => [Log!Next]_(Log!vars)
<1> SUFFICES ASSUME IInv, IInv', Ordered, First, [Next]_vars
             PROVE  Log!Next \/ UNCHANGED Log!vars
  OBVIOUS
<1>t. TypeOK /\ TypeOK' /\ Lifecycle
  BY DEF IInv
<1>1. CASE UNCHANGED vars
  BY <1>1, Stutters DEF vars, disk
<1>2. ASSUME NEW p \in Profiles, setIntegrity(p) PROVE UNCHANGED Log!vars
  BY <1>2, Stutters DEF setIntegrity, disk
<1>3. ASSUME NEW def \in Defs, addChannel(def) PROVE UNCHANGED Log!vars
  BY <1>3, Stutters DEF addChannel, disk
<1>4. CASE Start
  BY <1>4, Stutters DEF Start
<1>5. CASE close
  BY <1>5, Stops DEF close, disk, Log!Next
<1>6. ASSUME NEW ch \in Indices, NEW dt \in EquidistantTypes, NEW start \in Stamps,
             NEW period \in Periods, NEW n \in 0..MaxCall,
             startEquidistantSegment(ch, dt, start, period, n)
      PROVE  Log!Next
  <2>1. n \in Nat /\ n > 0
    BY <1>6, CallAssumption DEF startEquidistantSegment
  <2> QED
    BY <1>6, <2>1, AcceptedOffers DEF startEquidistantSegment, Log!Next
<1>7. ASSUME NEW ch \in Indices, NEW dt \in EquidistantTypes, NEW n \in 0..MaxCall,
             appendEquidistantSamples(ch, dt, n)
      PROVE  Log!Next \/ UNCHANGED Log!vars
  <2>1. n \in Nat /\ n > 0
    BY <1>7, CallAssumption DEF appendEquidistantSamples
  <2>2. CASE LockedOnly
    BY <2>2, Stutters DEF LockedOnly, disk
  <2>3. CASE Accepted(ch, "ContinuedData", 0, 0, <<>>, n, 0)
    BY <1>7, <2>1, <2>3, AcceptedOffers DEF appendEquidistantSamples, Log!Next
  <2> QED
    BY <1>7, <2>2, <2>3 DEF appendEquidistantSamples
<1>8. ASSUME NEW ch \in Indices, NEW dt \in DOMAIN FixedSize, NEW n \in 0..MaxCall,
             NEW times \in [1..n -> Stamps], writeTimestampedSamples(ch, dt, times)
      PROVE  Log!Next
  <2>1. n \in Nat /\ Len(times) = n /\ times # <<>>
    BY <1>8, CallAssumption DEF writeTimestampedSamples
  <2>2. Len(times) > 0
    BY <2>1
  <2> QED
    BY <1>8, <2>1, <2>2, AcceptedOffers DEF writeTimestampedSamples, Log!Next
<1>9. ASSUME NEW ch \in Indices, NEW dt \in VariableTypes, NEW time \in Stamps,
             NEW size \in Sizes, writeTimestampedVariable(ch, dt, time, size)
      PROVE  Log!Next \/ UNCHANGED Log!vars
  <2>1. CASE LockedOnly
    BY <2>1, Stutters DEF LockedOnly, disk
  <2>2. CASE Accepted(ch, "AbsTimeStampData", 0, 0, <<time>>, 1, size)
    BY <1>9, <2>2, AcceptedOffers DEF writeTimestampedVariable, Log!Next
  <2> QED
    BY <1>9, <2>1, <2>2 DEF writeTimestampedVariable
<1>10. CASE StartWrites
  BY <1>10, Stutters DEF StartWrites
<1>11. CASE StartForces
  <2>1. state = "Configure"
    BY <1>11, <1>t DEF StartForces, Lifecycle
  <2> QED
    BY <1>11, <2>1, Stutters DEF StartForces
<1>12. CASE StartFails
  BY <1>12, Stutters DEF StartFails
<1>13. CASE WriteBlock
  <2>1. /\ state = "Streaming" /\ state' = state /\ synced' = synced /\ acked' = acked
        /\ offered' = offered
    BY <1>13, <1>t DEF WriteBlock, Lifecycle
  <2>2. /\ \A i \in 0..Len(file) : ValueAt(file', i) = ValueAt(file, i)
        /\ ValueAt(file', Len(file')) \in Nat
        /\ ValueAt(file, Len(file)) < ValueAt(file', Len(file'))
        /\ ValueAt(file', Len(file')) <= offered
    BY <1>13, <1>t, ChunkAppended, EndOfLog
  <2>3. ValueAt(file', synced') = ValueAt(file, synced)
    BY <1>t, <2>1, <2>2 DEF TypeOK, ValueAt
  <2>4. ValueAt(file', Len(file')) \in (ValueAt(file, Len(file)) + 1)..offered
    BY <1>t, <2>2, Ends DEF TypeOK
  <2> QED
    BY <2>1, <2>3, <2>4 DEF Log!Next, Log!Write
<1>14. CASE ForceBlock
  <2>1. /\ state = "Streaming" /\ state' = state /\ file' = file /\ synced' = Len(file)
        /\ offered' = offered /\ call \in WriteCall /\ call.op = "write"
    BY <1>14, <1>t DEF ForceBlock, Lifecycle, TypeOK, WriteCall, NoCall, StartCall
  <2>2. ValueAt(file', synced') = ValueAt(file, Len(file)) /\ ValueAt(file', Len(file')) = ValueAt(file, Len(file))
    BY <2>1 DEF ValueAt
  <2>3. ASSUME call.values = <<>>
        PROVE  \E first \in 1..ValueAt(file, Len(file)) :
                  acked' = acked \cup first..ValueAt(file, Len(file))
    <3>1. ValueAt(file, Len(file)) = offered
      BY <1>t, <2>1, <2>3, EndOfLog DEF IInv, Progress, Pending, TypeOK
    <3>2. acked' = acked \cup call.first..offered
      BY <1>14, <2>3 DEF ForceBlock
    <3>3. call.first \in 1..offered
      BY <1>t, <2>1 DEF First, WriteCall, TypeOK
    <3> QED
      BY <3>1, <3>2, <3>3
  <2>4. call.values # <<>> => acked' = acked
    BY <1>14 DEF ForceBlock
  <2> QED
    BY <2>1, <2>2, <2>3, <2>4 DEF Log!Next, Log!Sync
<1>15. CASE DoWriteBlockFails
  BY <1>15, Stops DEF DoWriteBlockFails, Log!Next
<1>16. CASE PowerLoss
  <2>1. PICK k \in synced..Len(file) :
           Len(file') = k /\ \A i \in 0..k : ValueAt(file', i) = ValueAt(file, i)
    BY <1>16, <1>t, Beginning
  <2>2. k \in 0..Len(file) /\ synced \in 0..k /\ synced <= k /\ k <= Len(file)
        /\ Len(file) \in 0..Len(file) /\ k \in 0..k
    BY <1>t, <2>1, Lengths DEF TypeOK
  <2>3. state' = "Crashed" /\ synced' = synced /\ offered' = offered /\ acked' = acked
    BY <1>16 DEF PowerLoss
  <2>4. ValueAt(file', synced') = ValueAt(file, synced) /\ ValueAt(file', Len(file')) = ValueAt(file, k)
    BY <2>1, <2>2, <2>3 DEF ValueAt
  <2>5. ValueAt(file, k) \in ValueAt(file, synced)..ValueAt(file, Len(file))
    BY <1>t, <2>2 DEF Ordered, TypeOK
  <2> QED
    BY <2>3, <2>4, <2>5 DEF Log!Next, Log!Down
<1> QED
  BY <1>1, <1>2, <1>3, <1>4, <1>5, <1>6, <1>7, <1>8, <1>9, <1>10, <1>11, <1>12, <1>13,
     <1>14, <1>15, <1>16 DEF Next

\* The writer is a durable log: blocks, chunking loops, write and fsync errors and
\* power losses all show as steps of DurableLog.
THEOREM Implementation == Spec => ImplementsLog
<1>1. Init => Log!Init /\ Ordered /\ First
  <2>1. Init => Ordered /\ First
    BY DEF Init, NoCall, Ordered, First, ValueAt
  <2> QED
    BY <2>1, InitLog
<1>2. IInv /\ IInv' /\ Ordered /\ First /\ [Next]_vars => (Ordered /\ First)'
  BY OrderedStep, FirstStep DEF IInv
<1>3. IInv /\ IInv' /\ Ordered /\ First /\ [Next]_vars => [Log!Next]_(Log!vars)
  BY StepLog
<1> QED
  BY <1>1, <1>2, <1>3, Invariant, PTL DEF Spec, ImplementsLog, Log!Spec
---------------------------------------------------------------------------
(* What the log promises. *)

\* The numbers of the log are numbers; Promise needs them to be ordered.
LogCounts == ValueAt(file, Len(file)) \in Nat /\ ValueAt(file, synced) \in Nat /\ offered \in Nat

\* Acknowledged samples are durable in every state of the abstract log, also after
\* it has lost its end: what any DurableLog does, this one does.
THEOREM LogKept == Log!Spec => [](LogCounts /\ Log!Promise)
<1>1. Log!Init => LogCounts /\ Log!Promise
  BY DEF Log!Init, LogCounts, Log!Promise
<1>2. LogCounts /\ Log!Promise /\ [Log!Next]_(Log!vars) => (LogCounts /\ Log!Promise)'
  <2> SUFFICES ASSUME LogCounts, Log!Promise, [Log!Next]_(Log!vars)
               PROVE (LogCounts /\ Log!Promise)'
    OBVIOUS
  <2>1. CASE Log!Offer
    BY <2>1 DEF Log!Offer, LogCounts, Log!Promise
  <2>2. CASE Log!Write
    BY <2>2 DEF Log!Write, LogCounts, Log!Promise
  <2>3. CASE Log!Sync
    <3> DEFINE written == ValueAt(file, Len(file))
               durable == ValueAt(file, synced)
    <3>1. /\ durable' = written /\ written' = written /\ offered' = offered
          /\ acked' = acked \/ \E n \in 1..written : acked' = acked \cup n..written
      BY <2>3 DEF Log!Sync
    <3>2. 1..durable \subseteq 1..written
      BY DEF LogCounts, Log!Promise
    <3>3. \A n \in 1..written : n..written \subseteq 1..written
      BY DEF LogCounts
    <3>4. acked' \subseteq 1..written
      BY <3>1, <3>2, <3>3 DEF Log!Promise
    <3> QED
      BY <3>1, <3>4 DEF LogCounts, Log!Promise
  <2>4. CASE Log!Down
    BY <2>4 DEF Log!Down, LogCounts, Log!Promise
  <2>5. CASE UNCHANGED Log!vars
    BY <2>5 DEF Log!vars, LogCounts, Log!Promise
  <2> QED
    BY <2>1, <2>2, <2>3, <2>4, <2>5 DEF Log!Next
<1> QED
  BY <1>1, <1>2, PTL DEF Log!Spec

\* The writer keeps the promise of the log: what it has acknowledged is in the part
\* of the file that survives a power loss, in front of everything else.
THEOREM PromiseKept == Spec => []Log!Promise
  BY Implementation, LogKept, PTL DEF ImplementsLog
=============================================================================
