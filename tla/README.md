# A verification project for the H.264 encoder

The repository is an H.264 encoder written from scratch in C++ (`src/source`):
raw 4:2:0 pictures go in, an Annex B byte stream and `reconstruct.yuv` (the
picture a decoder should show) come out. One thread encodes; the log has the only
other one. The decoder's source files are empty, so nothing in the program ever reads its own
stream back: whether a receiver understands it, and whether the encoder's own
reconstruction, from which it predicts, is the receiver's picture, is tested by
nothing. That is what this project checks. Every module sets the encoder's state
beside what a receiver derives from the bits alone, written from the coding
standard's rules and marked external in `PROJECT.json`.

## 1. The system

Paths are below `src/source`. Dead code is listed at the end of this section.

**Encoding loop, slice, picture buffer** (`encoder/encoder.cpp`,
`object/slice.cpp`, `object/dpb.cpp`). State: `m_tick` (input pictures looked
at), `encoded_frame_count`, the picture just read, the slice with its header,
bytes, macroblocks and frame data, and the list of reconstructed pictures,
newest first, shared by pointer with everything that predicts. Operations:
`PrepareContext`, `Encode` (one iteration per picture), `Slice::Construct`,
`Encode` (all macroblocks, then deblocking, then `CollectFrameData`), `Serial`.
Hard: when a picture's samples are copied relative to deblocking; fields that
wrap; a loop that tests for equality. Correct when each requested picture is
coded once, in order, only from finished pictures, and a receiver holds the same
references.

**Parameter sets and slice header** (`object/sps*.cpp`, `pps*.cpp`,
`parameter_set_container.cpp`, `slice_header.cpp`). State: the fields, and field
widths that the header takes from the parameter set. Hard: a receiver knows the
widths only from the sets. Correct when it reads back every field.

**Bit buffer and NAL units** (`common/bytes_data.cpp`, `coding/coding_util.cpp`,
`object/nalu.cpp`, `stream/`). State: bytes and a bit count; the count of zeros
in the escaping. Hard: alignment, trailing bits, emulation prevention across
bytes. Correct when start codes delimit exactly the units and the payload comes
back bit by bit.

**Macroblock layer** (`object/macroblock.cpp`, `mb_*.cpp`). State: type, modes,
coded block pattern, skip run. An intra macroblock is tried as 16x16 and as 4x4
on the shared state, the cheaper is kept; then header and coefficients are
written. Hard: what a trial leaves behind; syntax elements whose presence depends
on others. Correct when a receiver reads back the macroblock.

**CAVLC context** (`coding/cavlc_context.cpp`). State: the number of coefficients
of each 4x4 block of the picture, three planes. Written by trials and by final
coding alike, saved and put back around trials, reset between pictures. Correct
when the nC of every block coded for good is the receiver's.

**CAVLC coders** (`coding/cavlc_*coder.cpp`, `object/cavlc_pre_coder_*.cpp`).
State: of one block, levels, runs, suffix length. Correct when the block comes
back and parsing stops where writing did.

**Motion** (`object/me_util.cpp`, `full_search_util.cpp`,
`motion_info_context.cpp`, `conformance_util.cpp`). State: vector and reference of
each 4x4 block, never reset between pictures. Predict, search, clip to the level's
limits, store, write the difference. Correct when a receiver finds the same motion.

**Inter types and partitions** (`object/mb_inter_rd_optimizer.cpp`,
`inter_p*_luma_flow*.cpp`, `inter_p*_luma_predictor.cpp`). State: the partitions of
the flow of a type, each with its motion; `mb_skip_run`. Types are tried one after
the other on the shared map of motion and the best is run once more; the
program's list holds P16x16 alone, the complete list is commented out beside it.
Hard: what the types tried before leave in the map; the order in which partitions
enter their motion and the next one predicts from it; every predictor has its own
way of numbering blocks; runs of skipped macroblocks at the end of a picture.
Correct when a receiver finds type and motion, and prediction, original and
residual of a block are the same block's.

**Inter prediction and residual** (`object/inter_*.cpp`,
`object/interpolate_util.cpp`, `cost_util.cpp`). Samples of references past the
picture's edges, by a walking pointer while searching and by clamping afterwards;
coefficients dropped by four thresholds in three places. Correct when samples and
residual are the receiver's.

**Intra prediction** (`object/intra*.cpp`, `block_neighbors.cpp`,
`mb_neighbors.cpp`). State: the modes chosen, and a predictor object that outlives
a trial. Correct when a mode is chosen only if its samples exist and a receiver
derives the same mode and the same samples.

**Transform and quantisation** (`object/transform_util.cpp`, `quantize_util.cpp`,
`*_transformer.cpp`, `*_quantizer.cpp`, `reconstruct_util.cpp`). No state of its
own. Hard: rounding, order of passes, place of DC coefficients, range of levels.

**Deblocking** (`object/loop_filter.cpp`, `filter_util.cpp`). State: the samples
and types of all macroblocks of the slice; overlapping filters. Correct when
strengths, order and samples are the receiver's.

**Log** (`log/logger_impl.cpp`, `common/file_util.cpp`). State: a queue under a
mutex, a condition variable, the order to stop (an atomic that is stored without
the mutex), the level, the file. `Log` puts a message into the queue, a thread
takes it out and writes it, the destructor stops the thread, waits for it and
copies the file. Hard: a notification that comes between a thread's look at the
queue and its sleep; what is in the queue when the order to stop comes. Correct
when every message accepted is written once and in order, and the program ends.

The components interact by plain calls. `Encoder` owns an `EncoderContext` that
hands everyone the picture buffer, the CAVLC context, the motion context and the
bit buffer; macroblocks find their neighbours through weak references to the
slice. But for the log the hard behaviour is not concurrency but agreement over a
long sequence of legal calls: state that outlives a macroblock, a trial or a picture;
the order of filtering, copying and predicting; wrap-around; boundaries.

Not modelled: vendored code (`library/`, `stb_image*.h`), the profiling markers,
parsing of `config.txt`, the formatting of values for the log, helpers for colour and
image files (called by nothing; `png_predictor.cpp` neither),
`InterP4x4ChromaPredictor` (nothing creates one), the empty decoder, and the sums
inside the cost functions (which candidate is cheapest is a choice wherever it
matters; which samples the search compares is modelled). In P slices the intra
optimiser is commented out (`mb_inter_flow.cpp:29`). Configurations with
`ref_frame_num` 0 or with sides that are no multiple of 16 are left out: the
program has no code for them.

## 2. Modules

| module | what it models | composed with |
|---|---|---|
| `VideoSequence` | abstract: requested pictures are coded one after the other and shown as a receiver shows them | refined by `EncoderStream` |
| `Encoder` | `Encoder::Encode`, `Slice`, picture buffer, order of deblocking passes | `ParameterSets` |
| `Receiver` | order counts, gaps in frame_num, sliding window, reference lists | -- |
| `EncoderStream` | the encoder with a receiver of its slice headers | `Encoder`, `Receiver`, `VideoSequence` |
| `EncoderStreamProofs` | theorems about `Encoder`; for its stream, the units' headers, the receiver's references, the refinement of `VideoSequence` | `EncoderStream` |
| `ParameterSets` | field values and syntax elements of both sets and the slice header | -- |
| `BitWriter` | `BytesData` and the element writers | -- |
| `NalStream` | start codes, header, escaping byte by byte | -- |
| `ByteStream` | elements to bits to escaped bytes, and a receiver that parses them with the standard's syntax tables | `ParameterSets`, `BitWriter`, refines `NalStream` |
| `ByteStreamProofs` | theorems about `NalStream`, `BitWriter` and `ByteStream` | `ByteStream` |
| `CavlcTables`, `CavlcCoder` | the pre-coder's loop and both residual coders, one action per method or loop iteration, and a receiver that listens | -- |
| `CavlcContext` | the coefficient counts under trials, put-backs and resets; nC as a receiver finds it | -- |
| `MotionPrediction` | the map of motion, prediction, search and clipping of vectors, and a receiver's prediction; no variables | -- |
| `InterPartitions` | the partitions and flows of all inter types, their elements and a receiver that reads them; no variables | `MotionPrediction` |
| `InterPrediction` | the inter macroblocks of a stream: types tried, motion kept, elements and skip runs, samples searched, predicted and subtracted | `InterPartitions` |
| `InterPredictionProofs` | theorems about `InterPrediction` | `InterPrediction` |
| `Logger` | the log's queue, thread, stop and backup | -- |
| `LoggerProofs` | theorems about `Logger` | `Logger` |
| `InterResidual` | thresholds, pattern, surviving coefficients | -- |
| `MacroblockLayer` | the elements of one macroblock, in order | -- |
| `Macroblock` | decision, thresholds, elements and a receiver | `InterResidual`, `MacroblockLayer` |
| `Intra4Modes` | availability, the nine trials of each 4x4 block, most probable mode | -- |
| `IntraPrediction` | the samples of all 4x4, 16x16 and chroma predictions and which neighbours they read | `Intra4Modes` |
| `IntraPredictionProofs` | theorems about `Intra4Modes` and about the samples predicted, and that behaviours of `IntraPrediction` are behaviours of `Intra4Modes` | `IntraPrediction` |
| `MacroblockProofs` | theorems about `Macroblock`, `CavlcContext` and `CavlcCoder` | `Macroblock`, `CavlcContext`, `CavlcCoder` |
| `DeblockingProofs` | theorems about `Deblocking` | `Deblocking` |
| `TransformProofs` | theorems about `Transform` | `Transform` |
| `Transform` | both transforms, quantisers, inverses, reconstruction | -- |
| `Deblocking` | strengths and filters along a line of samples | -- |

Each `MC...` module holds the values TLC uses and nothing else.

How state and actions correspond to the code: a variable with the name of a member
or a local (`m_frames`, `encoded_frame_count`, `zero_count`) is that member;
`pc`/`phase` is the place in the function; variables named `received`, `readable`,
`reading`, `starts`, `rbsp`, `levels` are ghosts of a receiver or a history.
One action is one call, one iteration of a loop, or one stage that nothing can
interrupt, with everything it calls. `PROJECT.json` "map" gives the lines of each
definition. A definition "Faulty variant of ..." is a plausible bug; the property
it breaks is named in "mutants".

Abstractions, where a property cannot tell the difference:
* `Encoder`: a macroblock's samples are the place in the input file they were
  read from (`Offset`, in units of 128 bytes, of which a macroblock has three) and
  the deblocking passes they went through.
* `InterPrediction`: a sample is where it is read from and with which weight.
* `CavlcContext`: a block is its number of coefficients.
* `MacroblockLayer`: modes, motion and coefficients are elements as a whole.
* `IntraPrediction`: what a block is reconstructed to is given by its place; before
  that it is zero, which no reconstructed sample of the instance is.
* Costs: what turns out cheapest is an input, for inter macroblocks a record naming
  the candidate, the type and the way of cutting (the candidate another for every
  partition), for intra blocks a pattern of costs.
* `Logger`: a message is its number and its level.

## 3. Runs

All instances below were chosen so that the case a property is about happens;
every property has a mutant of a mapped definition that breaks it under the same
configuration.

**EncoderStream** -- pictures coded once, in order, only from finished pictures;
the references a slice header announces inside the window are the receiver's; the
encoder with its receiver refines `VideoSequence`; the loop ends when pictures
are asked for. Bounds: one-macroblock pictures for up to 18 input pictures
(`MaxTicks`; the loop may never end, see below) so that the four bit frame_num and
order count wrap, with 0, 7, 8, 15 and 16 pictures asked for, around the steps of
the field widths; and shapes up to two by three macroblocks, which have all
combinations of left and upper neighbours, with 1 to 3 pictures from starts 0 to 2.
An input file of 17 pictures ends inside the run (`InputFrames`), so that the
unchecked `fread` past its end is covered. The place of a picture wraps at 53
(`OffsetLimit`, 2^24 in the program): the fourth picture of the largest shape is read
from a wrong place, while the long runs' files, of 51 units, stay below, so that all
their pictures are told apart. `VideoSequence` does not use the encoder's
`InputPicture`: `SamplesOf` says which samples the requested picture is, and asks for
them wherever the file has them below the limit; elsewhere it takes whatever was
coded.

**ByteStream** -- every element, set, header and unit comes back. Configurations:
the one shipped, and the ends of the ranges (field widths 4 and 7, wrapping fields,
qp 0 and 51). Payloads: up to two elements of twenty kinds and lengths, and a
filler of 1 to 8 bits before five bytes of 0 to 3, so that every zero pattern
meets every alignment and the escaping; a second slice follows the first.
`ImplementsNalStream` says the stream is a behaviour of `NalStream`, whose theorems
therefore hold of it.

**CavlcCoder** -- all combinations of counts, trailing ones and zeros per table,
pairs of levels at every threshold of suffix length and escape, climbs of the
suffix length, and the largest levels. The receiver reads each code as soon as it
is written, and fails for good if what it has is too short for a code, or could
become more than one: prefix-freeness of all tables is checked too. It reads with the
program's own tables of codewords, which are therefore not compared with the
standard's.

**CavlcContext** -- two by two macroblocks (every position of a neighbour), one
intra picture with trials and one inter picture after it, so that counts that
outlive a trial, a macroblock and a picture are all read.

**InterPrediction** -- two by two macroblocks under two settings. The list the
program tries (`mb_inter_rd_optimizer.cpp:33`) with two inter pictures at level 1,
so that the second has two references and the map still holds the first one's
motion; and the list commented out in line 32 with one inter picture at level 2,
where every type and every way of cutting a quarter is tried and each is the best
of some macroblock, skipped ones at the end of a picture included. The four
offsets searched add up to vectors inside, short of and past every edge; the
vertical limits of both levels and the horizontal one of 8192 are reached, so that
vectors are clipped, to fractions too. A receiver gets types and vectors from the
elements alone and the samples from those vectors.

**Logger** -- four messages of three levels, the order to stop after any of them,
wake-ups for no reason at any time, a backup that fails. Four messages are enough
for the queue to be empty, to hold one and to hold more at each step of the log's
thread.

**IntraPrediction** -- two by two macroblocks of either type, three patterns of
costs: modes in turn, all equal, and the most demanding ones cheapest. Luma samples
have no pattern, so that two ways to filter them differ; the edges of one chroma
plane rise past the brightest colour. All nine modes of all sixteen blocks of all
four macroblocks are tried, and all types of the macroblock's own predictions. The
receiver's modes are filters along one line of samples around the block, and its
availability follows from the order of decoding.

**Macroblock** -- every intra macroblock the decision can produce; inter
macroblocks with costs below, at and above each of the four thresholds.

**Transform** -- eleven shapes of blocks, nine of them against four predictions, and planes of
them, at all 52 parameters, intra and inter: extreme coefficients, odd ones where
only the order of rounding tells, clipping, and single samples that differ, which
quantisation leaves furthest from the original.

**Deblocking** -- lines of samples with steps and gradients of all sizes, all
strengths, both planes and directions, with and without neighbour, every parameter.

Two runs are violations, each with a finding:

**MotionReferences** -- with three or more references the reference index is never
written (`me_util.cpp:178` handles one and two). The shipped configuration has
`ref` 10, so this happens from the fourth picture on.

**IntraPlane** -- the loops of plane prediction count in `uint32_t`, so the sum of
slopes is unsigned: below zero it wraps, and the clamp that follows gives 255 where
the plane is darker than black (`intra8_chroma_predictor.cpp:218`,
`intra16_luma_predictor.cpp:126`). In the passing run `PredictionIsReceivers`
compares all other samples.

`CHECK_DEADLOCK FALSE` everywhere: each of these programs ends.

Fairness. The encoding loop (`Terminates`): one thread runs it, nothing in it waits,
and no step is one of several that compete, so weak fairness of the whole
next-state relation (`FairStreamSpec`) is what the program gives. `Terminates` is
conditional on a request the loop can meet: with zero pictures asked for the
equality test of `encoder.cpp:93` is passed over and the loop only ends by the
bound. The log (`LoggedIsWritten`, `StopEnds`): weak fairness of its thread and of
the destructor, each by itself, since both threads are scheduled and the mutex is
never kept across a step that waits; calls of `Log`, the end of the program and
wake-ups for no reason have none. `StopEnds` leaves out the one interleaving in
which the code does wait for ever (see below).

Partitions and types the program's list leaves out (`InterPartitions`, the second
setting of `InterPrediction`) are complete code that nothing calls. They are modelled
and checked, for the day the list in line 32 comes back, but no hazard of
`PROJECT.json` is about them.

### Divergences the properties are scoped around

Met while modelling; nothing in the repository says otherwise, so no run claims a
contradiction.
* The place of a picture in the input is computed in 32 bits and then halved
  (`yuv_util.cpp:85`), so from 2^31 bytes on another picture is read; past the end of
  the input, whatever the allocated buffer holds (`yuv_util.cpp:91`).
  `ImplementsVideoSequence` says that all other pictures are the ones requested.
* Pictures are never removed from the buffer, and the header announces as many
  references as there are. Beyond the window the receiver has none:
  `ReceiverSharesReferences` speaks of those inside. More than 16 exceed what the
  standard allows to announce.
* With no number of pictures asked for, `frame_num` has four bits whatever
  `ref_frame_num` is (`param_set_container.cpp`). With 16 references or more the
  oldest one then has the number of the picture being decoded, and the receiver's
  list is another: `LimitsAssumption` of `EncoderStream` leaves that out. The bound
  is exact: 15 references pass, 16 violate `ReceiverSharesReferences`.
* A vector clipped to a limit such as 255 is no multiple of four; luma is then
  predicted from whole samples although the vector written has a fraction
  (`full_search_util.cpp:43`, `inter_p16x16_luma_predictor.cpp:31`).
  `LumaMatchesReceiver` speaks of the whole components.
* Chroma is quantised and deblocked with the luma parameter, which differs from the
  receiver's from 30 on (`loop_filter.cpp:365`).
* Chroma DC coefficients are rounded where the standard truncates, which differs
  when an odd value is halved: parameters 1 and 2.
* At low parameters a chroma DC level reaches 3264 and an intra 16x16 DC level
  6528; the escape holds 2063 (only the first level coded of a luma block with at most
  ten has longer ones, see `LongEscape` of `CavlcCoder`). `LevelsFitEscape` says where levels fit.
* The position of a chroma block is clamped before the offsets of its samples are
  added (`inter_p2x2_chroma_predictor.cpp:33`), so a prediction that starts left of
  or above the picture is not a receiver's. `ChromaMatchesUnlessBefore` says it is
  everywhere else.
* With two references and partitions other than 16x16, which the program does not
  try, references are not written (`OutputMotionInfo` of P16x16 alone writes one)
  and the shortcut of right 8x16 partitions tests the reference of the wrong
  neighbour (`me_util.cpp:40`). With one reference neither tells.
* From 16 references on `ref_bit_counts` (`me_util.cpp:164`) is read past its end.
* A level the switch does not know, 11 among them, gets the widest limits
  (`conformance_util.cpp:74`).
* The log: the order to stop is stored and notified without the mutex
  (`logger_impl.cpp:21`). If it comes between the thread's look at the queue and its
  sleep, the destructor waits for ever; `MissedStopIsHarmless` says that nothing but
  the end is lost. In every other case the thread wakes up for the order alone and
  takes a message out of an empty queue (`logger_impl.cpp:77`), which is undefined;
  `UndefinedOnlyAtStop` says that nothing else leads there. What is still in the
  queue when the order comes is not written, nor is the message of a backup that
  failed (`file_util.cpp:25`): `NothingLost` counts what is in the queue as kept.
* A file that cannot be opened gives a null stream, used without a test
  (`stream_util.cpp:11`).
* A profile of 100 or more would need fields that are not written.

## 4. Proofs

Checked by TLAPS for all values of the constants that satisfy the assumptions.

**`EncoderStreamProofs`, the encoding loop**, from `ConfigAssumption` (sizes and number of references are
positive), `InputFramesAssumption`, `OffsetAssumption`, `MaxTicksAssumption`:
`TypeCorrect`; `ReferencesFinished` (a picture in the buffer that is not being
coded has every deblocking pass of the standard, in the standard's order, on all
its macroblocks); `IntraUnfiltered` (the neighbours an intra macroblock reads have
none); `ReferencesStayFrozen` (no step changes a finished reference);
`EncodesRequested` (if pictures are asked for, never more are written, and at the
end both files hold exactly as many). The type invariant is not enough: deblocking is interleaved over
macroblocks, so the inductive `IInv` adds which passes the macroblocks before and
after the current one have had, what has been collected into the frame, and how
the lengths of the buffers relate to the place in the loop; `Counted` relates tick
and count. One lemma per action. The lemmas `VerticalTurn` and `HorizontalTurn`
carry the argument: a pass appended at the turn of its macroblock is the next of
the standard's sequence.

**`EncoderStreamProofs`, the output stream**, from the same assumptions: `StreamImplementsEncoder`
(the receiver that listens in `EncoderStream` changes nothing, so the theorems
above hold of the specification the run checks; `StreamKeepsPromises` states the
three invariants of them) and `HeadersMatchUnits`. `Slice::Serial` decides the
type of a unit from the tick long after `Slice::Construct` decided the header from
the counter; the inductive `Headed` says that the header of the slice being coded
is the one the counter calls for, and `Counted` that the counter is the number of
slice units written.

With `LimitsAssumption` (the number of pictures is an `int`; if none is asked for
there are fewer than 16 references) it also proves `SharesReferences` and
`StreamImplementsSequence`, the refinement of `VideoSequence`, for streams of any
length. Both rest on one closed form: `After(k)` is what a receiver holds that has
seen k pictures, and `ReceivesNext` shows that the next header takes it to
`After(k + 1)`. That is where the field widths matter: a field holds every picture
of the run, or it has four bits and wraps (`FieldSizes`); numbers that wrapped
still order the window (`WrappedNumber`, `NewestFirst`, `OldestLeaves`), show no
gap (`NextNumber`) and give the order count back (`NextOrderCount`). The inductive
`FullInv` joins it with the encoder's side: buffer, header, macroblocks, finished
picture, stream, reconstruction file and receiver are each what the count of
pictures says (`ClosedForm`), one lemma per part. The list motion search walks and
the receiver's are then both the last k pictures backwards; `Slice::Serial` maps to
`CodePicture`, the write to `reconstruct.yuv` to `ShowPicture`, and every other step
leaves both sequences alone. That `CodePicture` may code what the encoder read is
`SamplesRead`: below the limit the remainder in `Offset` changes nothing, and a picture
of the file ends before the file does.

**`ByteStreamProofs`, the escaping**, from `ByteAssumption`, `HeaderAssumption`
(headers are 4 to 127: forbidden bit zero and a non-zero priority or type, as
`Nalu::Serial` builds them), `MaxBytesAssumption`: `TypeCorrect`;
`EmulationPrevented` (outside the start codes no three bytes are 00 00 00, 00 00 01
or 00 00 02); `StartCodesFound` (a scanner finds exactly the units). The inductive
invariant adds that `zero_count` is the number of trailing zeros since the last
insertion, that a finished unit ends in a byte that is not zero, and that each
unit's start code is where the ghost says.

**`ByteStreamProofs`, the bytes**, from `OutputAssumption`, `ConfigsAssumption`
(sides, picture counts and references an `int` holds, qp 0 to 51) and
`PayloadsAssumption` (the macroblocks write syntax elements): `StreamIsNalStream`,
the refinement of `NalStream`; `StreamDelimited`, which carries the theorems above
over; `ElementsRecovered`, that a receiver who unescapes a unit reads back every
element of the structure, at whatever bit it begins, and then finds the stop bit;
and `HeadersParsed`, below.
The program is loops over bits, elements and bytes, so the model is recursive
functions, and what they compute is shown by induction over the number of
iterations (`Induction` and `Recursion`, from the well-foundedness of the natural
numbers over sets): `PushAll` (pushing bits keeps those there and adds each in its
place), `NumberRead` (the reader's number is the writer's value), `UERead` and
`SignRead` (the prefix of zeros ends at the leading one, the sign comes back),
`Replayed` (reading element after element) and `TakenEscaped` (unescaping undoes one
iteration of `RBSP2EBSP`). Three invariants carry them through the behaviour:
`LaidOut`, that the buffer is the codes of the elements noted, one behind the other,
with nothing or-ed behind them; `StreamInv`, that the unit being escaped is the
closed buffer's first bytes and a unit sent is all of them; `LastRecovered`, that the
bytes of the last unit unescape to the bytes handed to `Nalu::SetData`. The last byte
holds the stop bit (`LastByte`): that is what the refinement needs, since
`NalStream` demands that no unit end in zero. That every header and parameter set is
made of elements whose widths and values can be written is `StructureElements`.

**`ByteStreamProofs`, the headers**, from `ConfigsAssumption` (whole macroblocks) as
well: `HeadersParsed`, that a receiver who knows the standard's syntax tables and no
more learns from each unit what the encoder meant (`ReceiverParsesHeaders`). What a
field means to it depends on fields read before, in this unit and in the parameter
sets before it: `frame_num` is as wide as the sequence parameter set said, and
whether `delta_pic_order_cnt_bottom` is there the picture parameter set said. The
invariant `ParseInv` therefore relates four things: the structure's elements are the
first ones written (`HeaderFirst`), the unit's first byte is the header of its type
(`UnitHeaded`), the receiver's fields say what the encoder's state says
(`HeaderParsed`), and those of the parameter sets outlive their units
(`SetsActive`). That a parse follows the elements is shown table by table
(`SPSParsed`, `PPSParsed`, `ISliceParsed`, `PSliceParsed`): entries that are always
there run along the elements (`RunTaken`), each other one is shown present, coded as
the next element (`FieldIsElement`), or absent (`FieldAbsent`). The eight bits of
constraint flags and reserved zeros are seven elements and one entry
(`ConstraintFlags`).

**`LoggerProofs`**, from `LevelsAssumption` and `MaxLoggedAssumption`:
`MessagesAreHandedOver` (`NothingLost`, for any number of messages and levels),
`UndefinedComesFromStop` and `MissedStopLosesNothing`. The inductive invariant adds
where the other thread can be when one is in the destructor, that the thread of
the log sleeps only on an empty queue, and that an undefined step is followed only
by the end.

**`IntraPredictionProofs`**, from `SizeAssumption` (the picture has macroblocks) and
`CostAssumption` (costs are natural numbers): `ChosenIsPredictable` and
`ModesRecovered`, for pictures of any size and any costs. The invariant says what
the trials of a block leave behind: the predictor holds the last mode tried that
can be predicted (`Holds`: a trial whose samples are missing keeps the mode of the
trial before, so it is priced again with another mode's samples), the best mode is
the cheapest of those so far (`BestSoFar`), and what the receiver has read is what
the encoder keeps (`ReadSoFar`, `InStep`). DC can always be predicted, so some
mode is chosen; the modes on both sides of a block come from blocks earlier in
coding order, which the lemmas on the scan of the blocks and on macroblock
addresses show. `PredictionImplementsModes` carries both to the specification
`IntraPrediction` is checked with.

`PredictionAgrees` (`PredictionIsReceivers`) adds `PictureAssumption`, that the
frames hold samples of eight bits: every sample the predictors fill in is the
receiver's, for pictures of any size and whatever was reconstructed before. Three
parts. *What is there*: the program decides by the index of a block and the edges
of the picture (`HasUpRight`, `EdgeData`) which blocks around it are coded; the
receiver asks for each sample whether it was decoded before this block, in another
macroblock or in this one. The samples the program finds on its edges are then the
receiver's line around the block, with the last sample above repeated where those
up right come later. *The nine modes*: each is compared at every place with a
filter along that line, one lemma per mode. *The macroblock's own*: the sums of DC and
plane have as many terms as the plane is wide; `SumTo` is a recursive function, and
that it exists, is a number and depends on its terms only is proved by induction on
the number of terms. The shifts of the program are unsigned where the receiver divides
integers, which is the same as long as the number is not negative: the property, and
the theorem, leave out the samples of the plane below all colours, where it is
not (`IntraPlane`). The inductive invariant (`PredictionIInv`) adds that the
macroblock's own predictions are those of the macroblock being decided until its
trials begin, as the map outlives the step that fills it.

**`MacroblockProofs`**, from `InputAssumption` (blocks are lists of runs and
levels) alone: `RecoversMacroblock`, `ReconstructsAsReceiver` and
`FilterSeesBlocks`. The argument has two halves, one for each component composed.
For the writer: what is written is the type, the prediction and the pattern
(`First`), then mb_qp_delta where there is one, then the blocks; the encoder's
tables of the pattern and the standard's are inverse for all 48 patterns of each
kind, `CalculateIntra16Offset` is the standard's type number, and the conditions
on which elements follow agree (`ReadsInter`, `ReadsIntra4`, `ReadsIntra16`). For
the flows, `ResidualInv` says that the pattern and the filter's bits follow the
coefficients that were kept until a cheap macroblock loses both at once, that the
chroma blocks written are those reconstructed, though the threshold is applied to
each separately, and that chroma with a smaller pattern has no blocks beyond it.
`LayerInv` joins them: the pattern written is that of the flows and nothing of
the residual changes after it is taken over. The thresholds are not used: they
could have any value.

**`MacroblockProofs`, the context**, from `SizeAssumption` (the picture has macroblocks)
and `CountsAssumption` (a luma block has up to 16 coefficients, a chroma AC block up
to 15): `CountsMirror` and `ReceiverNCAgrees`, for pictures of any size, any number of
them and any counts. The map is indexed by block and written by trials; a receiver
knows places and only what was coded for good. So the map is first read by place
(`IndexAt`, `PlaceOf`): every block of the map has one place and every place one macroblock
(`Owner`), also where a row of macroblocks ends (`BlockPlace`, `PlaceOwned`), and the index before and the index one row up
are the places left and above exactly where the program says they exist
(`Neighbours`). Then each operation on the map is described by what it touches
(`Touches`: at most the places of one macroblock in some planes), pricing a whole
macroblock included (`CodedTouches`, by induction over its blocks). `OutputShape`
compares the blocks the flows code with those the receiver expects, one by one: same
plane, same place, and each place once. The inductive `ContextInv` says of every
place what the map holds: of macroblocks before, what was read; of the current one,
once it is coded for good, the count if it has been coded and, if it is still to
come, something nobody may look at (`Pending`); if it is not coded at all, zero. That is
the delicate case. A trial leaves counts in the map for blocks the macroblock may then
not code, and the theorem needs that each of them is zero again: intra luma was put
back to what it was before, chroma of a trial is that of the macroblock (a flow without AC has nothing
to leave), and an inter macroblock is reset. `Before` shows that a neighbour in the
same macroblock comes earlier in coding order, so nC never looks at a pending block.

**`MacroblockProofs`, the residual block**, from `InputsAssumption`: `RecoversBlock`, by
the invariant `CoderInvariant`, for every block, data type and table. The assumption
bounds the levels, as the escapes do: up to 2063, or, in all blocks but chroma DC,
below 14352 for the highest of at most ten levels, since that is the one level coded
without a suffix length by the method that lengthens the escape, and the mask of
`U_V` has 32 bits. `LevelsFit` of `TransformProofs` says when the quantiser's levels
are up to 2063.

Four things are shown. *The tables*: a codeword of up to sixteen bits fills a room of
the numbers of sixteen bits, those that begin with it (`Room`); the rooms of a table
are apart, so no codeword begins another and what was written is the one thing that
is possible, whatever is still to come. *The levels*: the bits of a level are a
prefix of zeros and a suffix, and code number, sign and size come back for each of
the three kinds of code and at every suffix length (`LevelCodeSays`, `ReadsLevel`);
that n bits determine a number is an induction over n. *The suffix length*: the
program starts at zero or one and jumps to two after a large first level, where the
standard goes to one and then grows; both have the same length whenever a level is
coded (`SuffixesAgree`). *The positions*: the pre-coder's levels, runs and places are
the block (every coefficient that is not zero has one place, the runs between places
add up to `m_total_zeros`), so the receiver, which places the levels from the highest
down, finds the last run and the zeros below without reading them. The inductive
`CoderInv` says for each method what the receiver knows: it has read all that was
written, and its counts, levels, suffix length, zeros and the part of the block it
has filled in are the coder's.

**`InterPredictionProofs`**, from `SizeAssumption` (the picture has macroblocks),
`SearchAssumption` (the offsets searched are a list of vectors, not an empty one)
and `SettingsAssumption`: `MotionRecovered`, `VectorsWithinLevel`, `ReadsInPicture`,
`SearchedIsPredicted`, `ResidualOfPrediction`, `LumaReceived` and `ChromaReceived`,
for pictures of any size, any offsets and any costs. Each theorem names what else
it needs. All need `OnlyP16x16`, that the list of types is the one the program has
(`mb_inter_rd_optimizer.cpp:33`). What a receiver finds needs `AtMostTwo`, no more
references than the one bit written tells apart; the run `MotionReferences` shows
that three are too many. `VectorsWithinLevel` needs `KnownLevels`, a level that is
in the table (others get the widest limits). The run has a second setting, with all
types, that these theorems do not speak of.

The invariant `Held` is the encoder's side: the vectors in the map are clipped,
the macroblocks before the current one have their motion of this picture, and the
macroblock has one partition, predicted, searched and clipped from the map as it
stood before. The map of later macroblocks still holds the picture before,
which is why `NeighboursFound` argues from addresses: what `MEUtil` takes for
available is what a receiver has decoded. `PredictionAgrees` compares the
prediction, case by case of which of the three neighbours there are, with a receiver's (`MiddleIsMedian` for the sums
and extremes of `MEUtil`). `Following` is the receiver's side: its map is the
encoder's up to the macroblock written, and the difference announced is one from its
own prediction, which the receiver undoes (`ReceiveWhole`, `OutputReceived`). With
this list no macroblock is skipped and none is decided a second time
(`TryBestAgain`); the run's second setting has both. Of the samples, `WalkIsClamp` says that a pointer which moves
only inside the plane is at the clamped place, and `ChromaAgrees` that clamping
before and after adding the offsets gives the same unless the block starts before
the picture.

**`DeblockingProofs`**, from `InputsAssumption` (what an edge's strength depends on
has its type, samples are bytes): `StrengthsAgree` and `FiltersAgree`, for every
line of samples. The tables of `FilterConstantValues` are compared with the
standard's for all 52 parameters; the clipping bounds, which the receiver counts
from the parameters at which they grow, agree because the count is unique
(`OneBound`). Then each operation on the four samples of a side is the same
(`StrongAgrees`, `SideAgrees`, `RoomAgrees`), the samples are taken from the right
places across a macroblock's border and inside it (`SamplesAgree`), and an edge
both leave alone puts back what was there (`PutBack`). `IInv` is that both lines
are equal, for luma and for chroma up to the parameter at which the receiver's
chroma parameter departs from luma's.

**`TransformProofs`**, from `QPAssumption` (parameters the tables hold) and
`InputsAssumption` (samples are bytes; a luma block, a 16x16 plane and a chroma
plane have 1, 16 and 4 blocks): `SamplesReceived`, `LevelsFit` and `ErrorBounded`,
for every residual and every parameter. For the first, the encoder's butterflies are the
receiver's (`PassesAgree`), its Hadamard passes are the products with the
standard's matrices, and its scales, which shift first and then multiply where the
standard multiplies first and then shifts, give the same number for each of the nine
exponents a parameter has. So the levels of a block determine the same coefficients
(`LevelsInv`), and from them the same residual and sample (`ReceivedInv`); this theorem and
the next carry the exceptions their properties name (chroma from 30 on and at 1 and 2; levels of DC
coefficients at the smallest parameters). For the second, sizes are carried through each stage (`SizesInv`): a residual is at most
255, a coefficient at most 4080, 6120 or 9180 by its place, a DC after its Hadamard
pass at most 16320 or 32640; the quantiser's factors bring every one of them below
the escape's limit.

`ErrorBounded` compares two transforms. Without quantisation the inverse transform
would undo the forward one exactly if each coefficient were scaled by 4, 3.2 or 2.56,
by its place (`Ideal`; `IdealExact`: the passes over rows and over columns commute,
and each undoes its own). What the inverse quantiser leaves is near that: for every
magnitude a coefficient can have, level times weight is off by at most 21 parts in 25
of the weight and 4 (`CoefficientNear`), the factors of the two quantisers being
rounded inverses of each other. The DC coefficients of intra 16x16 and of chroma are
off by more, since they go through a second transform and its inverse before and after
(`LumaDCNear`, `ChromaDCNear`). A row or column of the inverse transform adds up the
errors of four entries with weights of at most one and loses half a unit where it
shifts (`PassNear`), so a residual is off by 5.88, 5.04 and 1.89 times the three
weights of the parameter and 71.25 (`BlockError`, counted 64-fold), which is below four
times the step; rounding and clipping only bring a sample closer (`SampleError`).
`ErrorInv` says at every program counter what the blocks are of the residual, or how
near to it, and is proved on top of `IInv`. The bound the property had before the
proof, twice the step and one, was wrong: of one sample that differs by 33 at a step of
13, 28 are lost. The run now has such samples.

Only model-checked: `Terminates`,
`LoggedIsWritten` and `StopEnds` (liveness is out of the prover's reach); the inter types other than 16x16, whose
flows fold over sequences of partitions (the library's folds take an operator, which
no theorem can be instantiated with); everything else that folds over data; and all modules without a
proof module.

## 5. Plan

The order was: the encoding loop, since every later module's promise is about what
it shows; then the stream down to bytes; then the macroblock from its syntax
inward (CAVLC, context, motion, inter and intra prediction, residual, transform);
then deblocking.
All of these exist. Left, in this order:

1. **The macroblock's state** (`macroblock.cpp`): copies and what a trial leaves in
   it; the reconstruction of one block as the neighbour of the next, so that
   `IntraPrediction` and `Transform` act on the same samples.
2. **Composition**: the context with the macroblock layer, so that nC, pattern and
   thresholds act on one macroblock.
3. Clipped vectors with fractions, and references beyond the window, as properties
   of their own.
