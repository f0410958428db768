-------------------------------- MODULE Loader --------------------------------
(***************************************************************************)
(* osf_core::manager::DataManager::load_from_file: the for loop of         *)
(* build_channels over a BlockReader.  One turn of the loop is one call of *)
(* next() and what apply_block makes of the result; `?' ends the load with *)
(* the first error.                                                        *)
(*                                                                         *)
(* `blocks[k]' is what frame number k of the data section decodes to.      *)
(***************************************************************************)
EXTENDS Integers, Sequences, SequencesExt

CONSTANTS
    Metablock,       \* the channel definitions of the file, in order
    TrailerIndex, SignatureIndex, MagicTrailerLen, IoErrors,   \* see BlockReader
    MaxTime, NoTime,                                           \* see ChannelAssembly
    Contents,        \* pairs of a frame and the block it decodes to
    Profiles,        \* the integrity levels a file may declare
    MaxFrames        \* bound: frames in a data section

VARIABLES
    data, present, integrity, pos, frame, finished, adrift, stats, yielded,
    builders, outcome, channels, by_name, by_index, fed,
    blocks

reader   == <<data, present, integrity, pos, frame, finished, adrift, stats, yielded>>
assembly == <<builders, outcome, channels, by_name, by_index, fed>>
vars     == <<reader, assembly, blocks>>

---------------------------------------------------------------------------
NumericTypes == {"bool", "int16", "float", "double"}

\* The reader and the builders know the channels from the same metablock.
ReaderType(dt) == CASE dt \in NumericTypes     -> "numeric"
                    [] dt = "gpslocation"      -> "gps"
                    [] OTHER                   -> dt

ChannelInfo ==
    [ch \in {Metablock[i].index : i \in DOMAIN Metablock} |->
        LET last == CHOOSE i \in DOMAIN Metablock :
                        /\ Metablock[i].index = ch
                        /\ \A j \in DOMAIN Metablock : Metablock[j].index = ch => j <= i
        IN  [data_type            |-> ReaderType(Metablock[last].data_type),
             size_of_length_value |-> Metablock[last].size_of_length_value]]

Channels == [i \in DOMAIN Metablock |->
                [index |-> Metablock[i].index, name |-> Metablock[i].name,
                 data_type |-> Metablock[i].data_type]]

R == INSTANCE BlockReader WITH Frames <- {c.frame : c \in Contents}
A == INSTANCE ChannelAssembly WITH Blocks <- {c.block : c \in Contents}, MaxBlocks <- MaxFrames

\* What both of them ask of a metablock.
ASSUME MetablockAssumption ==
    /\ Metablock \in Seq([index : Nat, name : STRING, data_type : A!DataTypes,
                          size_of_length_value : {2, 4}])
    /\ TrailerIndex \in Nat \ DOMAIN ChannelInfo
    /\ SignatureIndex \in Nat \ {TrailerIndex}
    /\ MagicTrailerLen \in Nat

\* A frame whose control byte is that of a data block decodes to a data block.
ASSUME ContentAssumption ==
    \A c \in Contents :
        /\ c.frame \in [index : Nat, length : Nat, control : R!ControlKinds,
                         multi : BOOLEAN, crc : BOOLEAN, sound : BOOLEAN]
        /\ c.block \in A!BlockType
        /\ c.frame.control \in R!DataKinds \cup {"MessageEvent"} => c.block.kind # "Skipped"

---------------------------------------------------------------------------
Init ==
    \E contents \in UNION {[1..n -> Contents] : n \in 0..MaxFrames} :
        /\ data = [k \in DOMAIN contents |-> contents[k].frame]
        /\ blocks = [k \in DOMAIN contents |-> contents[k].block]
        /\ present \in 0..R!SizeOf(data)
        /\ integrity \in Profiles
        /\ R!Started
        /\ A!Init

\* mutant: a block that was skipped is applied as if it had been decoded
Returned_Decoded(item) ==
    [blocks[item.frame] EXCEPT !.channel_index = data[item.frame].index]

\* The block that next() has just returned.
Returned(item) ==
    [blocks[item.frame] EXCEPT
        !.channel_index = data[item.frame].index,
        !.kind = IF item.result = "data" THEN @ ELSE "Skipped"]

\* Another turn of the loop.
Turn ==
    /\ outcome = "loading"
    /\ R!next
    /\ IF yielded' = yielded
       THEN UNCHANGED assembly
       ELSE LET item == Last(yielded')
            IN  \/ /\ item.result \in R!SkipReasons \cup {"data"}
                   /\ A!apply_block(Returned(item))
                \/ /\ item.result \in R!SkipReasons \cup {"data"}
                   /\ A!RejectBlock(Returned(item))
                \/ /\ item.result \in A!IteratorErrors
                   /\ A!Fail(item.result)
    /\ UNCHANGED blocks

\* The iterator is exhausted.
Finish ==
    /\ finished
    /\ A!Finish
    /\ UNCHANGED <<reader, blocks>>

Next == Turn \/ Finish

Spec == Init /\ [][Next]_vars

\* The loop runs in one thread, and nothing in it waits; that a read fails is
\* never owed.
FairSpec == Spec /\ WF_vars(Next /\ outcome' # "Io")
---------------------------------------------------------------------------
(* What makes the load correct. *)

\* The frames in front of the trailer that the stream delivers as a whole.
Whole == {k \in DOMAIN data :
             /\ R!Offset(k + 1) <= present
             /\ \A j \in 1..k : data[j].index # TrailerIndex}

\* A file that loads gives every channel the samples of all its usable frames,
\* whole in the stream and in front of a trailer, in order, and no others: what
\* is skipped, cut off or damaged loses itself and nothing else.
LoadedIsUsable ==
    outcome = "loaded" =>
        \A ch \in DOMAIN ChannelInfo :
            builders[ch].samples
              = FlattenSeq([k \in DOMAIN data |->
                    IF k \in Whole /\ data[k].index = ch /\ R!Usable(data[k])
                    THEN blocks[k].values ELSE <<>>])

\* The load returns: it ends with the channels or with an error.
Returns == <>(outcome # "loading")

---------------------------------------------------------------------------
(* What the code says and does not do. *)

\* "a signed file therefore stays readable and CRC-checked" (next(), step 2b): no
\* load fails on the reserved channel of the signature blocks.
SignedIsReadable ==
    integrity = "ed25519" /\ outcome = "UnknownChannelIndex" =>
        Last(yielded).result = "UnknownChannelIndex"
=============================================================================
