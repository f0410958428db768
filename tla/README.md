# OSF: specifications, checks and proofs

OSF is a file format for measurement data and a family of libraries that write and read it. This
directory holds TLA+ specifications of the parts of it that are hard to get right: a writer whose
recordings must survive a power loss, a reader that must make the best of a torn or damaged file,
the assembly of blocks into channels, the head of a file and its two kinds of metablock, and a
builder that writes whole files. TLC checks every specification on small instances; for both writers,
the reader, the assembly and the head, TLAPS proves all invariants for all values of the parameters.

An OSF5 file is a magic line, a metablock (the list of channels) and a data section: a sequence of
frames `[u16 channel index][length field][control byte][payload][CRC32C]`. The length field has two
or four bytes, as the metablock says for the channel; the CRC is there at an integrity level. Samples
are equidistant (a `bcStartData` block with a time and a rate, continued by `bcContinuedData` blocks),
or carry absolute timestamps (`bcAbsTimeStampData`), or, in OSF4, times relative to the sample before.

## 1. Inventory

| Component | State it keeps | Operations | What makes it correct |
|---|---|---|---|
| C++ `StreamingWriter` with `DurableFile`, `writercommon`, `blockencode` | lifecycle state and sticky error, channel list with kind locks and open segments, the file and what fsync covers | `addChannel`, `setIntegrity`, `start`, four kinds of write calls that loop over blocks, `close` | an acknowledged sample survives a power loss; each sample once and in order; a loader never meets blocks it must refuse; honest length fields |
| Rust `BlockReader` | cursor, `finished`, statistics | `next()`, with about fifteen outcomes | takes exactly its frame on each path; samples only from whole, known, verified blocks; counts agree |
| Rust builders (`build_channels`) | one builder per channel: kind, samples, segments or timestamps, anchor; lookups | `apply_block` for four block types, `finalize`, lookups | each sample at the time the format gives it; refuses exactly what is no recording |
| Rust `DataManager` | the two above, composed | `load_from_file`, `load_from_reader` | usable frames are loaded, all of them and nothing else; the load returns |
| Rust `WriterBuilder` | definitions and samples in memory | `add_channel`, `add_*`, `from_manager`, `write_to`, `write_to_file` | what it accepted it can write; what is written loads as what was added; a copy is faithful |
| Rust header, metablock, compression | position in the line or in the XML document | parse, verify CRC, detect | a file is opened only as it declares itself; XML and JSON give the same metablock; what is written is read |
| C++ `StaleValueGuard` | last value and time of each channel | writes through, `poll`, `forget`, `clear` | an idle channel is repeated once per interval |
| C++ `BlockWriter`, reader, manager, C API | as their Rust twins | as their Rust twins | as their Rust twins; both implementations agree |
| Python bindings | handles | calls into the Rust crate | - |
| Java library, command line, viewer | as the twins; the viewer adds a model and loader threads | as the twins; open, select, zoom | the window shows the file asked for last |
| Delphi filer, merger, cache, exports, tools, demos | their own class design | read, write, merge, cache, export | - |
| C implementation, integrations, HDF5 notes, documentation | no code | - | - |

How they interact: a writer and a reader meet only in the file, and neither knows how the other
ended. Inside a reader, `DataManager` pulls blocks from the iterator `BlockReader` (one call of
`next()` per turn of a loop) and both take the channels from the same metablock. Nothing in the
modelled libraries runs concurrently (`streamingwriter.h` asks the caller to serialize calls); what
is hard are the moments between two system calls at which power fails, errors in the middle of a
call, the many ways to leave `next()`, and state that a later block builds on. Only the Java viewer
has threads. `PROJECT.json` lists the hazards line by line.

## 2. Modules

| Module | What it is | Code |
|---|---|---|
| `StreamingWriter` | the C++ writer over its file, one action per call and per system call | `streamingwriter.cpp`, `durablefile.cpp`, `writercommon.cpp`, `blockencode.cpp` |
| `DurableLog` | what a streaming writer promises, without blocks, calls or chunks | `streamingwriter.h`, DECISIONS section 7 |
| `StreamingWriterLog` | the refinement mapping from the first to the second | - |
| `StreamingWriter_proofs` | the theorems, those of the refinement among them | - |
| `BlockReader` | the Rust iterator, one action per outcome of `next()` | `reader.rs`, `block.rs`, `stats.rs` |
| `ChannelAssembly` | `build_channels` over any iterator | `manager.rs`, `data_channel.rs` |
| `Loader` | composes `BlockReader` and `ChannelAssembly` into `load_from_file` | `manager.rs` |
| `Recording` | composes `StreamingWriter` and `Loader`: one file from the application to the loaded channels, with power loss and damage to any bytes of a block | both |
| `WriterBuilder` | the Rust writer: the builder's calls, then `write_to_file` block by block | `writer.rs`, `block_writer.rs` |
| `RoundTrip` | composes `WriterBuilder` with two `ChannelAssembly`: a file is made by calls or copied from a loaded recording, and loaded | `writer.rs`, `manager.rs` |
| `FileHead` | what a load does before the first block: compression, first line, metablock | `compression.rs`, `header.rs`, `integrity.rs`, `meta.rs`, `meta_xml.rs`, `meta_json.rs`, `writer.rs` |
| `BlockReader_proofs`, `ChannelAssembly_proofs`, `Loader_proofs`, `Recording_proofs`, `FileHead_proofs` | the theorems about them | - |
| `RoundTrip_proofs` | the theorems about `WriterBuilder` and about `RoundTrip` | - |
| `FoldLemmas` | induction over the naturals, sums, concatenations and filters, for the proofs | - |
| `MC...` | one instance each; they only define constants | - |

### StreamingWriter

`state`, `integrity`, `frameCrc` and `channels` are the members of the class (`channels` joins
`m_channels` and `m_channelStates`). `call` is the public call in progress: the code's loop variable
`written` is the part of `call.values` that is gone. `file` is what `write(2)` has passed to the
operating system, `synced` the number of blocks the last `fsync(2)` covers, `torn` whether part of a
block follows, `header` what is on disk of magic line and metablock. `acked` is a history variable:
the samples whose call returned success.

A write call is several steps: the checks (which may lock the channel and fail), then for each block
`WriteBlock` and `ForceBlock`, or `DoWriteBlockFails`, which leaves the writer `Broken`. `start()` is
`Start`, `StartWrites`, `StartForces` or `StartFails`; its two writes are one step. `PowerLoss` may
come between any two steps; it keeps what fsync covers and a prefix of the rest, perhaps with part of
a block. A value is the number of the sample in the order of the calls, so that values identify
samples. A block keeps the fields that are on the wire, and its length field is computed in its own
width by the same arithmetic as in the code. The destructor is `close`; moving a writer object
hands the state on and is left out, as are the setters of the metablock's descriptive fields.

### BlockReader

`data` holds the frames as they were written and `present` how many of their bytes the stream
delivers, so that every truncation is an initial state. A frame tells what a reader can find out
about it: index, length, control kind, multi-sample bit, whether its CRC matches and whether its body
parses. `pos` counts bytes and `frame` frames; that they keep in step (`InStep`) is a property. The
statistics are those of the code without the time range. `yielded` records the results. A frame is
what the reader takes for one: what a damaged index or length makes of the frames behind it is said
in `Recording`, where they are known. After an I/O error inside a skipped block the iteration is not finished, but the cursor is inside
the frame (`adrift`), and the model stops.

### ChannelAssembly

A builder has the code's state (`Pending`, `Equidistant`, `Timestamped`, `Variable`, `Unsupported`),
its samples, segments, timestamps and anchor. The typed variants of the storage are one, a sample
rate is given by its period (an integer; 0 for a rate that is not positive, and no rounding of
`f64`), and times saturate at `MaxTime`. `Error` is the error of a block with the code's checks in
their order; `RefusedIsWrong` compares it with the reasons there are to refuse the block. `Lookup` says
which channels are loaded, in which order, and what both lookups find. `fed` records the blocks applied; `SamplesAreFed` computes
the time of each sample from it by a definition that shares nothing with the builder.

### Loader and Recording

`Loader` instantiates the two (`R`, `A`) and lets one `Turn` do `R!next` and what the loop makes of
its result. `Recording` extends `StreamingWriter` and instantiates the loader (`L`). The application declares
the channels of the metablock in order and asks for an integrity level first (`Disciplined`). `Open`
turns the file into frames: what the encoder wrote is what the parser finds, and the torn tail is the
beginning of some block.

At an integrity level any bytes of one block may have rotted meanwhile. The index and the length are
among them: the CRC covers both (`writercommon.cpp:99`), but the reader has to follow the length before
it can check anything, so a bit of it costs more than the block, which `osf5_integrity.md` section 3 names
as the most severe single-bit error. What the reader then finds where block `rotten` was is chosen
freely: up to `MaxMisread` whole frames that nobody wrote, until it is in step again in front of block
`resumed` (`BackInStep`), right behind the damaged block if only its payload was hit, its length is as it was or the
frames that are misread happen to end there; or until it meets the index of no channel, the trailer,
a signature block or the end of the stream (`OutOfStep`). The blocks from `rotten` to `resumed - 1` are hidden
from it (`Lost`). The damage is taken to be seen by the CRC of every frame it makes, which fails for
one damage in 2^32; without a CRC there is nothing to say about a damaged file. The damaged
block's index may be that of another channel, or of none. `told` is what the
application meant, so the properties compare what it said with what is loaded, across two
languages, two programs and a power loss.

### WriterBuilder and RoundTrip

`builder` is the object with its four fields; a channel's storage has the code's `mode`, its segments
and its parallel arrays. The typed variants of the `add_*` calls differ in the datatype they expect
and are one action with that type as an input. A call that is refused changes nothing in the code
and is no step; the refusals are operators (`SegmentRefusal`, `StampedRefusal`, `Declarable`) with the
checks in their order. `write_to_file` creates the file before it looks at the builder, as the code
does, so that a refused write leaves an empty file where an older recording was; `WriteHeader`, one
`WriteBlock` for each block, `NextChannel` and `Flush` follow, and `IoFails` may end them: the writer
is buffered, so any beginning of what was handed to it may be in the file. `at` is the position of
the three nested loops. A block carries its fields and the length that the code computes for it.

In `RoundTrip` the samples are numbered in the order in which they are added, so that a loaded value
names the call it came from. A recording is loaded by the real builders (`S`), and `from_manager`
folds the code's copy over its channels with the refusals of the same `add_*` calls; an error drops
the new builder. `Load` feeds the blocks of the file, whole or cut off, to a second loader (`T`). What
a reader makes of the frames is the subject of `BlockReader`; here a block is decoded to itself,
which `Framed` justifies: each block is framed as its metablock says.

A sample's number says when it was added, so "in order" is "by increasing numbers". `Ordered` says that a
channel presents samples of its own only, each at its time and in that order, and `Complete` that it
presents all of them. A time that a segment's start and rate put beyond an `i64` is presented at the
limit (`Time`), as the loader saturates.

### FileHead

`phase` names the next step: a peek at the first bytes, the line, its first field, one step for each
token, the body, its CRC, and then the parser of the version. A field of text is a value, missing or
unreadable. The JSON body is looked at in one step, with its checks in the code's order
(`JsonError`). The XML body is made up while it is read, event by event as `quick-xml` reports them:
`parser.state` are the code's states, and each event keeps the path of elements it stands in, which
the parser does not know. `Symmetric` compares what the parser took with what the document says by
its nesting. The head that `WriterBuilder` writes is `build_metablock_json`; `WrittenIsRead` takes it
through the parser.

## 3. Runs

| Run | Question | States | Result |
|---|---|---|---|
| `streaming_writer` | does the writer keep its file in order, does each call return, does it implement `DurableLog`? | 232 000 | holds |
| `block_reader` | does `next()` take, count and return the right thing on every path? | 89 000 | holds |
| `channel_assembly` | are samples, times, errors and lookups right for any order of blocks? | 125 000 | holds |
| `loader` | are exactly the usable frames loaded, and does the load return? | 931 000 | holds |
| `recording` | is what was acknowledged loaded, at its time, and what does damage to a block cost? | 850 000 | holds |
| `round_trip` | is what was added or copied loaded from the file, also after a failed write? | 443 000 | holds |
| `file_head` | is a file opened only as it declares itself, do both parsers agree, is the written head read? | 494 000 | holds |
| `block_reader_torn` | does a truncated stream end without an error? | - | violated |
| `block_reader_crc_valid` | does `crc_valid` mean that every CRC was verified? | - | violated |
| `loader_signed` | does a signed file load? | - | violated |
| `file_head_twice` | is a file opened only if its first line declares each token once? | - | violated |
| `file_head_socket` | is a compressed stream detected however its bytes arrive? | - | violated |

Bounds, and why they are enough:

- `MCStreamingWriter`: payload limits are scaled down to 45 bytes, so that a block takes two or three
  doubles; calls of up to four samples then need one to three blocks, with different capacities of
  the first and of later blocks. String sizes 32, 36 and 37 lie at and beyond the capacity with and
  without CRC. Five samples allow a call after a failed one and a second segment. Two channels, one
  rejected definition, and an index limit of 2.
- `MCBlockReader`: two frames of sixteen kinds, cut off after each byte, at three integrity levels and
  with I/O errors. What one frame leaves behind for the next is the cursor and the counters, so a
  third frame adds nothing; the magic trailer is scaled down to two bytes.
- `MCChannelAssembly`: five blocks of thirteen, so that start, continuation, empty block, second
  start and continuation fit; `MaxTime` is 9 so that times saturate. One index is declared twice, and
  two channels have one name.
- `MCLoader`: three frames of thirteen kinds.
- `MCRecording`: one double and one string channel, four samples, calls of up to three. A reader out of
  step takes one whole frame before the last, which covers both ways to go on behind a misread
  frame; the last is of a declared channel, of an undeclared one, a signature block or a trailer, and
  short enough to end in the stream or too long for it.
- `MCRoundTrip`: payload limits of 45 and 90 bytes, so that a block takes two or three doubles, and
  strings of 1 and 33 bytes, of which the second needs a wide length field beside a CRC and a narrow
  one without. Two channels of one name, three samples, calls of up to three. A copied recording has
  up to three of nine blocks, in segments with and without a rate, and an unsupported channel between
  the two that are kept, so that indices move. `RefusedCopies` is met there by segments without a
  rate; a recording with equidistant integers or an unknown channel type is not in the instance.
- `MCFileHead`: every order of up to three tokens, a right CRC, a wrong one and a signature, and the
  four kinds of token that are refused; lines of the wrong version, too long, without an end or a
  length, a metablock longer than the stream and one longer than the memory (`MaxAlloc`), compressed
  streams. XML bodies of up to eight tags with at most one that does not
  belong where it stands: eight are the root, both sections with a child each, and one unknown element
  with a child. JSON bodies that are wrong in each place.

No run uses symmetry. `CHECK_DEADLOCK FALSE` is set where the system ends: after a crash, at the end
of an iteration, after a load, when a file is opened or refused, or when the bound on samples is used up.

Fairness. The writer: `WF(Continue)`, the steps of a call in progress; system calls return, and a
call runs in one thread. It says nothing about whether they succeed, and the application never has
to call. The reader and the loader: weak fairness of `next()` or of the loop's turn; the for loop of
the consumer goes on until `None` or an error. That a read fails is never owed to anyone, so the
fairness excludes steps that fail. `write_to_file` runs in one thread and waits for nothing: its steps
are weakly fair, without starting it and without failing. The head of a file: weak fairness of
`Reading`; a body is finite, and errors are owed to nobody. Power loss is never fair.

Each property of a passing run has a mutant in `PROJECT.json`: an operator that stands for a
plausible mistake in the code (the `..._NoFsync`, `..._OffByOne` operators in the modules) and breaks
the property.

### What the violations show

- A truncated block of a channel of unsupported datatype is an error (`reader.rs:769`), although the
  module promises `None`; the load of such a recording fails as a whole.
- `crc_valid` is reported although the CRC of blocks of unsupported channels was never looked at.
- A first line may declare a CRC or a signature more than once (`header.rs:170`): a wrong CRC in front of a
  right one is accepted, and a `crc32c` token behind `ed25519` lowers the level from `signed` to `crc`.
  `osf5_integrity.md` says that the level is declared exactly once (line 62), `crc32c` first and `ed25519`
  second (line 114).
- A signed file does not load: the reader skips the signature block, the builder loop refuses its
  index (`manager.rs:274`). The C++ loader tolerates it.
- A compressed stream whose first read returns a single byte, which a socket or a pipe may do, is
  taken for plain and refused (`compression.rs:117`), although `load_from_reader` offers itself for
  sockets (`manager.rs:81-83`).

What damage to a block costs is said by two properties that hold. Every block that is not hidden from
the reader is loaded, with all its samples and nothing that nobody wrote (`OnlyHiddenIsLost`); but
continuation blocks hold neither a time nor a count, so samples behind a hidden block of their
segment move to earlier times, or to the segment in front (`Displaced`). And the load may fail as a
whole (`OnlyDamageFails`): with `UnknownChannelIndex` where the reader comes upon the index of no channel, for
any kind of block, or with `ContinuedDataWithoutStart` where every `bcStartData` block of a channel in
front of a continuation is hidden.

Smaller disagreements seen on the way, modelled as the code does it: both parsers refuse a channel
without `channeltype` although `types.rs:82` says that it defaults to scalar; of two
channels of one name the lookup by name finds the last, although the warning beside it says "first
definition kept" (`manager.rs:295-297`; `Lookup` states what the code does); an XML body
may end behind any tag, and what was read until then is loaded; a `<channel>` inside an unknown
element of `<channels>` is taken for a channel; an unknown section is left at the first end tag of
its name; a `timeincrement` that is no number is an error in XML and none in JSON.

## 4. Proofs

### The C++ writer

The proofs hold for any channel definitions, timestamps, periods, sizes, call
lengths and bounds, and for any payload limits of at least 41 bytes that are not larger than what
the length field can hold (`PayloadAssumption`; the code's limits are far larger: 41 is what a
`bcStartData` block of several samples or a GPS sample with a CRC needs).

`StreamingWriter_proofs` proves `Spec => []IInv` and from it type correctness, `AckedIsDurable`,
`EverySampleOnce`, `Assemblable`, `LengthIsHonest` and the action property `NothingBehindTorn`. The
four invariants are not inductive: that the next block continues the file depends on the call in
progress. `IInv` adds

- `Lifecycle`: which calls are possible in which state, no blocks before `start()`, no torn block
  while the writer takes samples;
- `Progress`: the last value in the file and the values left in the call are consecutive, and the
  samples of the call that are gone are in the file;
- `CallFits`: the call passed the checks of its channel, so that its blocks match the lock and fit
  the capacity;
- `Segments`: an open segment, and a continuation about to be written, have a `bcStartData` block
  under fsync, which a power loss cannot take.

The step lemma has one case per action; the write calls share one (`BeginsStep`), and so do the
steps that leave file and call alone (`QuietStep`). `MaxSamples` and `Fits` carry the arithmetic:
the rounding down leaves room for the CRC, so the length field cannot wrap.

`Implementation` is `Spec => ImplementsLog`: under the mapping of
`StreamingWriterLog` each step of the writer is a step of `DurableLog` or a stutter. It needs two
more invariants: the last values of the blocks grow (so that a prefix of the blocks is a prefix of
the log), and a call begins with a sample that was handed over. `LogKept` proves the
promise of the log itself, and `PromiseKept` concludes that the writer keeps it.

### The block reader

`BlockReader_proofs` proves `ExactlyUsable`: for all frames, channels and integrity levels, every
truncation and every failing read, `next()` answers for each frame it passes, once and in order,
with samples exactly if the frame is usable. `Answers` adds that the number of answers is the number
of frames passed while the iteration goes on. Each outcome of `next()` is one of three kinds, a stop,
an error or an answer (`StopKeeps`, `ErrorKeeps`, `PassKeeps`); what is left is that the decisions of
the code, spread over seven steps, come to the definition of `Usable` (`ReadKeeps`).

`Cursor` joins `Answers` with the types and `AllCounted`: while the iteration goes on, the bytes counted
in the statistics are the bytes taken. From it follow `TypeOK` (the cursor never leaves the stream) and
`EveryByteCounted`. `Place` says that the cursor stands at the sum of the sizes of the frames passed,
and from it follow `InStep` and `BestEffort`: wherever the stream is cut off, each whole frame in front
of the cut was passed. `Tallies` says that the counts of each channel, of each reason and in total
are sums and cardinalities over the answers, from which `Accounting` follows. Sums are folds; that a
sum over a finite set does not depend on the order and grows by one term at a time is proved in
`FoldLemmas`.

### The assembly

`ChannelAssembly_proofs` proves all six invariants of the module, for all metablocks and any number
of blocks in any order. The inductive invariant is `Assembled`, for each builder:

- `Stored`: its segments cover its samples (`Covered`) or its stamps are parallel to them, a pending
  builder is empty, and only a channel of unsupported datatype is in that state;
- `SegmentTimed` and `LastTimed`: the anchor of relative stamps is the time of the last sample, in the
  last segment and in what the channel presents;
- `Matches`: what it presents is, block by block, what the blocks of its channel say (`Told`), the last
  segment is that of the last start block, and no block had to be refused (`KindsFit`).

`SamplesAreFed` takes the time of a sample from the latest absolute time in front of it and the sum of
the deltas behind it, while the builder keeps an anchor and saturates with each block: that the two
agree, with times that saturate, is most of the work (`AnchorIsLatest`, `AppliedTimed`).

### The load

`Loader_proofs` proves `LoadedIsUsable` for all metablocks and all data sections, wherever the stream
ends and whichever reads fail. What a call of `next()` means for the load is one of four things
(`Outcome`): the reader stops in front of a frame that is cut off (`Stops`) or at the trailer
(`Trails`), it passes a frame and answers for it (`Passes`), or it returns an error (`Errs`); `NextIs`
shows it for each of its thirteen actions. `Loads`, the inductive invariant, says that each builder holds
the samples of the usable frames passed (`Given`), that a usable frame passed is whole and in front of
the trailer, and that where the reader has ended no such frame is left behind it (`NothingBehind`).
The last needs that frames begin in their order (`OffsetsGrow`), whatever they hold.

The parameters are assumed to be what the two components ask for (`MetablockAssumption`), and a frame
with the control byte of a data block to decode to a data block (`ContentAssumption`). A theorem about
an instantiated module cannot be cited with this prover, so what the load needs of the reader is proved
once more about the instance.

### From the application to the loaded channels

`Recording_proofs` proves the four invariants of `Recording`, for all metablocks, calls, payload
limits, power losses and cuts through the torn tail, and for any damage to a block: any block, any index
and length in its place, any number of frames misread before the reader is in step again, or never is.
`AcknowledgedIsLoaded` is the promise of DECISIONS section 7 across both programs: what the C++
writer reported as written, the Rust loader presents, in its channel and at its time.
`LoadedWasTold` is the converse: nothing is presented that was not handed over, and nothing is missing
in between. `OnlyHiddenBlocksAreLost` and `OnlyDamageCanFail` say what damage to a block costs.

The invariant `RecordingInv` has a part for each program and one for the file between them.

- `Written`, of the writer: to the invariant of `StreamingWriter_proofs` it adds `Meaning`. Each block
  of the file, and what is left of the call in progress, means what the application meant by its
  samples (`Means`). A continuation carries no time, so it means: these samples follow sample `u`,
  and `u` is the last of the channel before them. A call cut into blocks keeps its meaning from
  block to block (`FrontMeans`, `RestMeans`), later calls do not change it (`MeansGrows`), and a power loss
  keeps a prefix of the file (`PowerLossMeaning`).
- `Laid`, of the file: the frames of the blocks in front of the damaged one, frames that fail their
  CRC, and the frames of the blocks from `resumed` on, each where the bytes of the blocks in front of it
  end, perhaps with the beginning of one more. `OpenLays` is the only place where the encoder and the parser
  meet; that the misread frames take as many bytes as the blocks they hide is `Spliced`.
- `Reading` and `Assembled`, of the loader: the cursor stands at the beginning of a frame, each frame
  passed was answered for (`ReadingStep`), and each builder holds the values of the channel's blocks
  that were passed and are not hidden (`Holds`). Blocks that are not `Displaced` are on the grid of
  their segments, or stamped with the times the application gave. `StartKept`, `ContinuedKept` and
  `StampedKept` show that each kind of block keeps this, and `RefusedIs` and `BeginningLost` that a block is
  refused only if every beginning of its segments is hidden; `UnknownStep` is the other way to fail. That the two programs agree on which channels
  are equidistant rests on the lock that the writer puts on a channel (`Agrees`, `LockAre`).

`BuilderPresents` follows the segments to what `samples_with_time` presents, a concatenation of pieces
whose numbers add up (`PiecesNumber`). A time that would not fit in an `i64` is presented at its limit,
in the reader as in the statement of the properties (`Time`).

`RecordingAssumption` says that the metablock numbers its channels from 0, that no channel has an index
of the trailer or of the signature blocks, and that timestamps fit in an `i64`. A writer with 65535
channels violates the second; section 5 lists it.

### The Rust writer

The first part of `RoundTrip_proofs` proves `OnlyIoFails` for files made by calls: no file that the builder
accepted is refused when it is written, for payload limits of at least 41 bytes. The inductive
invariant `WInv` says that each channel's storage fits its declaration (`Ready`), that after
`autobump` each sample of variable length has room (`Wide`), and that the writer stands inside the
samples of such a channel (`Placed`). `ChunkFits` is the arithmetic of the chunks: the quotient is
at least one for every datatype, and rounding down leaves room for the CRC.

`AlwaysFramed` proves `Framed` from the same invariant. `FInv` adds that the metablock in the file is
that of the builder (`HeaderKept`), that the writer never stands behind the samples of its run
(`Inside`), so that a block has exactly as many samples as its chunk (`PartLength`), and what is to be
proved of the blocks that are there. A failed write only takes blocks away (`Truncated`). `TypesHold`
proves the type invariant: `TInv` adds to `FInv` that what is stored is typed and parallel (`Stores`).

### Copies

The second part of `RoundTrip_proofs` proves four properties of `RoundTripSpec`, for files made by calls and for
copies.
`CopyInv` is `FInv` of the builder together with what the loader of the recording guarantees
(`SourceInv`: each channel's storage is `Copyable`, with segments inside the samples and parallel
stamps, and after the load the channels are listed once each) and with the lookup by name
(`NameIndex`: a name leads to the last channel that has it).

`OnlyUnwritable` proves `RefusedCopies`. The copy is a fold over the channels, and inside a channel a
fold over its segments; `CopyUnfolds` and `SegmentsUnfold` turn each into a function on `0..n`, and
induction carries `Copying` and `Filling` along it: the new builder stays `Prepared`, a channel that takes
segments holds nothing else, there is always room for one more channel
(`AtMostAll`: the list has no repetitions), so that what is left to refuse a channel is `Unwritable`.
The builder a copy leaves behind satisfies the invariant that the calls of an application maintain,
and `CopyIsWritten` (`OnlyIoFails`) and `CopyIsFramed` (`Framed`) follow from the lemmas about
`WriterBuilder`.

`SameByName` proves `NamesAgree`. `TargetInv` says that a channel of the new file is kept unless its
type is unsupported, which the builder does not declare; so the loader lists every channel at the
position it has in the builder (`AllListed`), and the last of a name is the same in both.

### From what was added to what is loaded

`RoundInv` carries the samples through the builder, the file and the loader. It adds three parts to
`CopyInv` and `TargetInv`.

- `Contents`: what the builder holds. `Holding(d)` is the list of samples and times in the storage of a
  channel, whichever of its three shapes it has. For a file made by calls it accounts for `told`
  (`Account`): samples of that channel only, by increasing numbers, at their times, and all of them;
  each `add_*` action appends to both alike (`SegmentAccounted`, `StampedAccounted`). For a copy
  it is what the manager presents (`CopyHolds`), which `CopyEnds` carries along the two folds of
  `from_manager`: `Segmental` says that the first segments of a channel are cut out of its samples
  where the loader's indices say, and `SegmentsHold` that their concatenation is `samples_with_time`.
- `Trailing`: there is a trail of loader states, one behind each block of the file, each
  reached from the one in front by `apply_block`, and each of them is `Held`: it presents what
  `write_data_blocks` has written at some position. `Presents` is the heart of it. It relates one
  channel of the loader to one channel of the builder at run `r` with `n` samples of it written; a
  start block opens a segment, a continuation extends the last one by exactly the samples of its
  chunk, a stamped block appends. While the writer runs, the last state of the trail is held at the
  writer's own position; a failed write cuts the file and the trail with it, which is why each state
  of the trail has a position of its own.
- `Following`: the second loader is on that trail, at the block it has been fed.

`PresentsBegins` turns a position into what is presented: all of the channels the position has
passed, the beginning of the one it is in, nothing of those to come. `EverySampleIsLoaded`
(`AddedIsLoaded`), `PrefixIsLoaded` (`LeftoverLoads`) and `CopyIsLoaded` (`CopyIsFaithful`) follow.

`TimeAssumption` says that the time stamps an application passes are `i64`.
`SourceAssumption` says what a recording is: definitions that the parser lets pass, decoded blocks,
and string or binary samples that have room behind a length field of four bytes.

### The head

`FileHead_proofs` proves `HeaderIsHonoured` for all lines, bodies and failing reads. `HeadInv` follows
the tokens: the header says what the fields so far say (`Read`), its CRC is the last declared
(`LastCrc`), its level that of the last token, and a signature has a CRC in front of it (`CrcFirst`).
That nothing is declared twice does not hold (section 3). `Typed` adds the types: each channel
that passes the checks has an index and a width that the block reader can use, in JSON
(`JsonErrorIs`: a body is refused exactly if one of its checks is) and in XML.

`WrittenIsAlwaysRead` proves `WrittenIsRead` for all channel lists that `add_channel` accepts:
`DraftedChannel` shows that what `channel_def_to_json` writes passes each check of `parse_channel`.

`AlwaysSymmetric` proves `Symmetric` for all documents, of any length and depth. The XML parser has
four states and no stack; `XmlInv` relates them to the elements that are open. `Tracks` says which
state goes with which open elements: for instance, inside `<channels>`, nothing that is open further in
is named like the root or a section, whose end tags change the state, and while it skips, no open
element further in has the name that ends the skipping. `Copied` says that the metablock holds what the children of the two sections say so
far, none of which is refused. There is one lemma for each action (`RootKeeps` to `EofKeeps`).

The assumptions on the parameters say what the inputs are made of (`BodyAssumption`), and that a
draft has what `add_channel` lets pass, at most 65536 channels (`DraftAssumption`).

### Only model-checked

Liveness (`CallsReturn`, `Finishes`, `Returns`, `WriteReturns`, `HeadEnds`) is out of the prover's
reach.

The provers see nothing in a `RECURSIVE` operator and in `SelectSeq`; no theorem is about what
they compute. Folds and recursive functions are opaque as well, but `FoldLemmas` proves, from
the fact that each set of naturals has a least element, that the recursions by which `FoldSet`, `FoldLeft`
and `FlattenSeq` are defined have a solution; from then on they are functions like any other.

## 5. Not modelled

- The contents of blocks that were not under fsync when the power failed: what is left is taken to be
  a prefix. A file system may leave zeros or old contents, which only the CRC profile detects.
- The directory entry of a new recording: `start()` does not fsync the directory.
- What a failed `start()` leaves in its file, whether it can unlink it, and the truncation by the next
  `start()`: the model keeps only that the head is not whole, and says nothing about two files that mix.
- Rot in the magic line and the metablock of a recording (its head is taken to be whole; `FileHead` has
  the CRC of the metablock), rot in more than one place, and damage that a CRC32C does not see.
- Indices 0xFFFE and 0xFFFF, which writers with 65535 channels (C++) and 65536 (Rust) would give to
  a channel.
- The decompressors, taken to be right or to fail, and the text of `created_utc` and of the other
  fields of a file that are only copied: one coordinate and the creator stand for them.
- The byte level: encodings, CRC polynomial, floating point, texts of errors.
- Components marked `not_modelled` in `PROJECT.json`, with the reason for each.

## 6. Plan

Order, most important first; the first five are done.

1. `StreamingWriter` with `DurableLog`: checked, safety and refinement proved.
2. `BlockReader`, `ChannelAssembly`, `Loader`: checked, and all their invariants proved.
3. `Recording`: the two programs on one file, checked, and all its invariants proved.
4. `WriterBuilder` of the Rust crate (widening of length fields, chunking, the consuming
   `write_to_file`), its round trip through the loader and the copy of a recording: checked, and all
   their invariants proved.
5. The beginning of a file, `FileHead`: checked, and all its invariants proved.
6. `StaleValueGuard` over `StreamingWriter`: at most one repetition per interval. A channel is tracked only
   after a write that succeeded and its locks never change, so that a repetition fails only with the
   whole writer.
7. The reserved channel indices, from the writers that may give them away to the readers.
8. The viewer's loader threads: the order in which loads end.
9. The C++ loader and `BlockWriter` where they differ from their Rust twins.
