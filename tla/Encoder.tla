------------------------------ MODULE Encoder ------------------------------
(***************************************************************************)
(* The encoding loop of the program: Encoder::PrepareContext and Encode,   *)
(* Slice::Construct, Encode and Serial, the slice header, the parameter    *)
(* sets and the decoded picture buffer.                                    *)
(*                                                                         *)
(* A macroblock's samples are abstracted to where they come from: the      *)
(* place in the input file where the picture it was coded from was read,   *)
(* and the deblocking passes it has been through, in order.  That is what  *)
(* distinguishes a picture a receiver reproduces from one it does not.     *)
(***************************************************************************)
EXTENDS Integers, Sequences, ParameterSets

CONSTANTS
  Config,       \* the configurations config.txt may hold
  InputFrames,  \* pictures in the input file
  OffsetLimit,  \* bound: where the place of a picture in the file wraps, 2^24 in
                \* the program
  MaxTicks      \* bound: input pictures looked at when the loop does not end

ASSUME ConfigAssumption ==
  Config \subseteq [frames_to_encode : Nat, start_frame : Nat, ref_frame_num : Nat \ {0},
                    width_in_mb : Nat \ {0}, height_in_mb : Nat \ {0}]

ASSUME InputFramesAssumption == InputFrames \in Nat

ASSUME OffsetAssumption == OffsetLimit \in Nat \ {0}

ASSUME MaxTicksAssumption == MaxTicks \in Nat

VARIABLES
  config,               \* m_config
  pc,                   \* where Encode is
  m_tick,               \* Encoder::m_tick, the input picture looked at
  encoded_frame_count,  \* local of Encode
  yuv_frame,            \* m_context->yuv_frame: where its samples were read
  m_header,             \* Slice::m_header
  m_bytes_data,         \* Slice::m_bytes_data: per macroblock, the input it was coded from
  m_macroblocks,        \* Slice::m_macroblocks, macroblock a at a + 1
  filter_mb,            \* the macroblock LoopFilter::Filter is called for
  frames,               \* every YUVFrame a slice allocated; the last one is m_frame_data
  m_frames,             \* Dpb::m_frames, newest first, as indices into frames
  out_stream,           \* the NAL units written
  out_handle            \* the pictures in reconstruct.yuv

vars == <<config, pc, m_tick, encoded_frame_count, yuv_frame, m_header, m_bytes_data,
          m_macroblocks, filter_mb, frames, m_frames, out_stream, out_handle>>

\* What a slice changes; the rest belongs to Encode.
sliceVars == <<m_header, m_bytes_data, m_macroblocks, filter_mb, frames, m_frames>>

-----------------------------------------------------------------------------
(* Values.                                                                 *)

\* The samples of a buffer that was only allocated, and of an input picture
\* past the end of the file: fread's result is not looked at, so the buffer
\* keeps what the allocator returned.
Uninitialised == -1

mb_num == config.width_in_mb * config.height_in_mb

\* A picture of so many macroblocks in the file, in units of 128 bytes.
PictureSize(mbs) == 3 * mbs

\* Where fseek goes: tick * width * height * 3 is an unsigned number of 32 bits,
\* so half of it wraps at 2^31 bytes.
Offset(tick) == (tick * PictureSize(mb_num)) % OffsetLimit

\* The samples read, by their place in the file; what is not all there is
\* something else.
InputPicture(tick) ==
  IF Offset(tick) + PictureSize(mb_num) <= InputFrames * PictureSize(mb_num)
  THEN Offset(tick) ELSE Uninitialised

MbAddr == 0..(mb_num - 1)

Sample(input) == [input |-> input, filtered |-> <<>>]

NewFrame == [a \in MbAddr |-> Sample(Uninitialised)]

\* ConstructSPS, ConstructPPS: the fields the slices depend on.
SPS == [nal |-> "SPS",
        max_num_ref_frames |-> config.ref_frame_num,
        log2_max_frame_num |-> FieldBits(1 + config.frames_to_encode),
        log2_max_pic_order_cnt_lsb |-> FieldBits(1 + 2 * config.frames_to_encode)]

PPS == [nal |-> "PPS", num_ref_idx_l0_default_active |-> config.ref_frame_num]

\* Faulty variant of DecideSliceType: asks the input picture's number.
DecideSliceTypeByInput(frame_index) == IF m_tick = 0 THEN "I" ELSE "P"

\* DecideSliceType.
DecideSliceType(frame_index) == IF frame_index = 0 THEN "I" ELSE "P"

\* Slice::Construct and SliceHeader::Construct.
SliceHeader(tick, slice_type) ==
  [tick |-> tick,
   idr_pic_flag |-> tick = 0 /\ slice_type = "I",
   slice_type |-> slice_type,
   frame_num |-> tick,
   pic_order_cnt_lsb |-> (2 * tick) % 2^SPS.log2_max_pic_order_cnt_lsb,
   active_list0_ref_num |-> Len(m_frames)]

\* Faulty variant of HeaderBits: frame_num is not cut to its field.
HeaderBitsUncut(header) ==
  [idr_pic_flag |-> header.idr_pic_flag,
   slice_type |-> header.slice_type,
   frame_num |-> header.frame_num,
   pic_order_cnt_lsb |-> header.pic_order_cnt_lsb,
   active_list0_ref_num |-> IF header.slice_type = "P" THEN header.active_list0_ref_num ELSE 0]

\* Convert2BytesData: the fields as the bit stream holds them.  U_V keeps the
\* low bits of frame_num; the reference count is written for P slices only.
HeaderBits(header) ==
  [idr_pic_flag |-> header.idr_pic_flag,
   slice_type |-> header.slice_type,
   frame_num |-> header.frame_num % 2^SPS.log2_max_frame_num,
   pic_order_cnt_lsb |-> header.pic_order_cnt_lsb,
   active_list0_ref_num |-> IF header.slice_type = "P" THEN header.active_list0_ref_num ELSE 0]

-----------------------------------------------------------------------------
(* Macroblocks.                                                            *)

LeftOf(addr) == IF addr % config.width_in_mb = 0 THEN {} ELSE {addr - 1}

UpOf(addr) == IF addr < config.width_in_mb THEN {} ELSE {addr - config.width_in_mb}

\* CollectFrameData.
CollectFrameData(frame, addr, sample) == [frame EXCEPT ![addr] = sample]

\* Faulty variant of CollectAllFrameData: the call is missing.
CollectNothing(frame) == frame

\* CollectAllFrameData.
CollectAllFrameData(frame) == [a \in DOMAIN frame |-> m_macroblocks[a + 1]]

Through(sample, pass) ==
  [input |-> sample.input, filtered |-> Append(sample.filtered, pass)]

\* A pass may change samples of the macroblocks on both sides of its edges.
Filtered(mbs, addrs, pass) ==
  [i \in DOMAIN mbs |-> IF i - 1 \in addrs THEN Through(mbs[i], pass) ELSE mbs[i]]

FilterVerticalEdges(mbs, addr) == Filtered(mbs, {addr} \cup LeftOf(addr), <<"vertical", addr>>)

FilterHorizontalEdges(mbs, addr) == Filtered(mbs, {addr} \cup UpOf(addr), <<"horizontal", addr>>)

\* Faulty variant of PushBack: each macroblock is filtered once it is coded.
PushBackFiltered(mbs, sample) == FilterVerticalEdges(Append(mbs, sample), Len(mbs))

\* m_macroblocks.push_back.
PushBack(mbs, sample) == Append(mbs, sample)

\* Faulty variant of AllocateFrame: one buffer serves all slices.
AllocateFrameOnce == IF frames = <<>> THEN <<NewFrame>> ELSE frames

\* make_shared<YUVFrame> at the start of Slice::Encode.
AllocateFrame == Append(frames, NewFrame)

\* Faulty variant of InsertFrame: the new picture goes to the back.
InsertFrameBack(frame) == Append(m_frames, frame)

\* Dpb::InsertFrame: emplace_front, and nothing is ever dropped.
InsertFrame(frame) == <<frame>> \o m_frames

-----------------------------------------------------------------------------
(* Encode.                                                                 *)

Init ==
  /\ config \in Config
  /\ pc = "prepare"
  /\ m_tick = 0
  /\ encoded_frame_count = 0
  /\ yuv_frame = Uninitialised
  /\ m_header = <<>>
  /\ m_bytes_data = <<>>
  /\ m_macroblocks = <<>>
  /\ filter_mb = 0
  /\ frames = <<>>
  /\ m_frames = <<>>
  /\ out_stream = <<>>
  /\ out_handle = <<>>

\* CreateFileOStream returns no stream when the file cannot be opened, and
\* the first write through it ends the process.
PrepareContext ==
  /\ pc = "prepare"
  /\ pc' \in {"parameters", "crashed"}
  /\ UNCHANGED <<config, m_tick, encoded_frame_count, yuv_frame, out_stream, out_handle>>
  /\ UNCHANGED sliceVars

WriteParameterSets ==
  /\ pc = "parameters"
  /\ out_stream' = <<SPS, PPS>>
  /\ pc' = "open"
  /\ UNCHANGED <<config, m_tick, encoded_frame_count, yuv_frame, out_handle>>
  /\ UNCHANGED sliceVars

\* Encode returns false when reconstruct.yuv cannot be opened.
OpenReconstruct ==
  /\ pc = "open"
  /\ pc' \in {"frame", "failed"}
  /\ UNCHANGED <<config, m_tick, encoded_frame_count, yuv_frame, out_stream, out_handle>>
  /\ UNCHANGED sliceVars

\* Faulty variant of AfterFrame: one picture too many.
AfterFrameLate(count) == IF count > config.frames_to_encode THEN "done" ELSE "frame"

\* The test at the end of the loop body.
AfterFrame(count) == IF count = config.frames_to_encode THEN "done" ELSE "frame"

\* Faulty variant of SkipFrame: ++m_tick moved into the branch that encodes.
SkipFrameNoTick ==
  /\ pc = "frame"
  /\ m_tick < config.start_frame
  /\ pc' = AfterFrame(encoded_frame_count)
  /\ UNCHANGED <<config, m_tick, encoded_frame_count, yuv_frame, out_stream, out_handle>>
  /\ UNCHANGED sliceVars

\* The loop body for a picture before start_frame.
SkipFrame ==
  /\ pc = "frame"
  /\ m_tick < MaxTicks
  /\ m_tick < config.start_frame
  /\ m_tick' = m_tick + 1
  /\ pc' = AfterFrame(encoded_frame_count)
  /\ UNCHANGED <<config, encoded_frame_count, yuv_frame, out_stream, out_handle>>
  /\ UNCHANGED sliceVars

\* Up to the macroblock loop of Slice::Encode.
BeginSlice ==
  /\ pc = "frame"
  /\ m_tick < MaxTicks
  /\ m_tick >= config.start_frame
  /\ yuv_frame' = InputPicture(m_tick)
  /\ m_header' = SliceHeader(encoded_frame_count, DecideSliceType(encoded_frame_count))
  /\ m_bytes_data' = <<>>
  /\ m_macroblocks' = <<>>
  /\ filter_mb' = 0
  /\ frames' = AllocateFrame
  /\ pc' = "macroblock"
  /\ UNCHANGED <<config, m_tick, encoded_frame_count, m_frames, out_stream, out_handle>>

\* Macroblock::Encode, push_back and CollectFrameData for the next address.
EncodeMacroblock ==
  LET addr == Len(m_macroblocks)
  IN  /\ pc = "macroblock"
      /\ m_bytes_data' = Append(m_bytes_data, yuv_frame)
      /\ m_macroblocks' = PushBack(m_macroblocks, Sample(yuv_frame))
      /\ frames' = [frames EXCEPT ![Len(frames)] = CollectFrameData(@, addr, Sample(yuv_frame))]
      /\ pc' = IF addr + 1 = mb_num THEN "vertical" ELSE "macroblock"
      /\ UNCHANGED <<config, m_tick, encoded_frame_count, yuv_frame, m_header, filter_mb,
                     m_frames, out_stream, out_handle>>

FilterVertical ==
  /\ pc = "vertical"
  /\ m_macroblocks' = FilterVerticalEdges(m_macroblocks, filter_mb)
  /\ pc' = "horizontal"
  /\ UNCHANGED <<config, m_tick, encoded_frame_count, yuv_frame, m_header, m_bytes_data,
                 filter_mb, frames, m_frames, out_stream, out_handle>>

\* Faulty variant of AfterFilter: the loop runs once too often.
AfterFilterLate(addr) == IF addr = mb_num THEN "collect" ELSE "vertical"

\* The loop of DeblockFilter.
AfterFilter(addr) == IF addr + 1 = mb_num THEN "collect" ELSE "vertical"

FilterHorizontal ==
  /\ pc = "horizontal"
  /\ m_macroblocks' = FilterHorizontalEdges(m_macroblocks, filter_mb)
  /\ filter_mb' = filter_mb + 1
  /\ pc' = AfterFilter(filter_mb)
  /\ UNCHANGED <<config, m_tick, encoded_frame_count, yuv_frame, m_header, m_bytes_data,
                 frames, m_frames, out_stream, out_handle>>

\* CollectAllFrameData, AddToDPB (emplace_front) and m_macroblocks.clear().
FinishSlice ==
  /\ pc = "collect"
  /\ frames' = [frames EXCEPT ![Len(frames)] = CollectAllFrameData(@)]
  /\ m_frames' = InsertFrame(Len(frames))
  /\ m_macroblocks' = <<>>
  /\ pc' = "serial"
  /\ UNCHANGED <<config, m_tick, encoded_frame_count, yuv_frame, m_header, m_bytes_data,
                 filter_mb, out_stream, out_handle>>

\* Slice::Serial: the unit type follows the slice's tick, not its header.
SerialSlice ==
  /\ pc = "serial"
  /\ out_stream' = Append(out_stream,
                     [nal |-> IF m_header.tick = 0 THEN "IDR" ELSE "Slice",
                      header |-> HeaderBits(m_header),
                      macroblocks |-> m_bytes_data])
  /\ pc' = "reconstruct"
  /\ UNCHANGED <<config, m_tick, encoded_frame_count, yuv_frame, out_handle>>
  /\ UNCHANGED sliceVars

\* The rest of the loop body.
WriteReconstruct ==
  /\ pc = "reconstruct"
  /\ out_handle' = Append(out_handle, frames[Len(frames)])
  /\ encoded_frame_count' = encoded_frame_count + 1
  /\ m_tick' = m_tick + 1
  /\ pc' = AfterFrame(encoded_frame_count + 1)
  /\ UNCHANGED <<config, yuv_frame, out_stream>>
  /\ UNCHANGED sliceVars

Next ==
  \/ PrepareContext
  \/ WriteParameterSets
  \/ OpenReconstruct
  \/ SkipFrame
  \/ BeginSlice
  \/ EncodeMacroblock
  \/ FilterVertical
  \/ FilterHorizontal
  \/ FinishSlice
  \/ SerialSlice
  \/ WriteReconstruct

Spec == Init /\ [][Next]_vars

\* One thread runs the loop and nothing in it waits.
FairSpec == Spec /\ WF_vars(Next)

-----------------------------------------------------------------------------
(* Properties.                                                             *)

AppendIf(condition, passes, pass) == IF condition THEN Append(passes, pass) ELSE passes

\* The passes a receiver's deblocking puts the samples of a macroblock
\* through: its own left and upper edges, then, if they are inside the picture,
\* the left edge of the macroblock to its right and the upper edge of the one
\* below it.
StandardPasses(width, height) ==
  [a \in 0..(width * height - 1) |->
     AppendIf(a + width < width * height,
              AppendIf((a + 1) % width # 0,
                       <<<<"vertical", a>>, <<"horizontal", a>>>>,
                       <<"vertical", a + 1>>),
              <<"horizontal", a + width>>)]

Pass == {"vertical", "horizontal"} \X Nat

MbSample == [input : Nat \cup {Uninitialised}, filtered : Seq(Pass)]

Frame == [MbAddr -> MbSample]

Phase == {"prepare", "parameters", "open", "frame", "macroblock", "vertical", "horizontal",
          "collect", "serial", "reconstruct", "done", "failed", "crashed"}

InSlice == pc \in {"macroblock", "vertical", "horizontal", "collect", "serial", "reconstruct"}

\* Every index stays inside what it indexes: the macroblock the filter is
\* called for exists, the macroblock loop never runs past the picture, and the
\* buffer holds each picture once.
TypeOK ==
  /\ config \in Config
  /\ pc \in Phase
  /\ m_tick \in Nat
  /\ encoded_frame_count \in Nat
  /\ yuv_frame \in Nat \cup {Uninitialised}
  /\ m_macroblocks \in Seq(MbSample)
  /\ frames \in Seq(Frame)
  /\ m_frames \in Seq(1..Len(frames))
  /\ pc = "macroblock" => Len(m_macroblocks) < mb_num /\ filter_mb = 0
  /\ pc \in {"vertical", "horizontal"} => filter_mb \in MbAddr
  /\ pc \in {"vertical", "horizontal", "collect"} => Len(m_macroblocks) = mb_num
  /\ InSlice => frames # <<>>

\* A picture motion search can read has been through every deblocking pass of
\* a receiver, in the receiver's order, for every macroblock of one input
\* picture: AddToDPB runs after CollectAllFrameData and DeblockFilter.
ReferencesAreFinished ==
  \A i \in DOMAIN m_frames : \A a \in MbAddr :
    /\ frames[m_frames[i]][a].filtered
         = StandardPasses(config.width_in_mb, config.height_in_mb)[a]
    /\ frames[m_frames[i]][a].input = frames[m_frames[i]][0].input

\* A picture that was put into the buffer is never written again and never
\* leaves it: the slices that follow collect into a YUVFrame of their own.
KeepsReferences ==
  \A i \in DOMAIN m_frames :
    /\ frames'[m_frames[i]] = frames[m_frames[i]]
    /\ \E j \in DOMAIN m_frames' : m_frames'[j] = m_frames[i]

\* No step of the encoder changes a picture motion search may read, or drops
\* it (Dpb::InsertFrame; Slice::Encode allocates a YUVFrame per slice).
ReferencesFrozen == [][KeepsReferences]_vars

\* While macroblocks are coded, the neighbours intra prediction reads (through
\* Slice::GetMacroblock) are unfiltered samples of the picture being coded.
NeighboursUnfiltered ==
  pc = "macroblock" =>
    \A i \in DOMAIN m_macroblocks : m_macroblocks[i] = Sample(yuv_frame)

\* When the loop ends it has written as many pictures as were asked for, to
\* both files, and it never writes more unless none were asked for.
StopsAtRequest ==
  /\ pc = "done" => /\ Len(out_handle) = config.frames_to_encode
                    /\ Len(out_stream) = 2 + config.frames_to_encode
  /\ config.frames_to_encode > 0 => Len(out_handle) <= config.frames_to_encode

\* A run that was asked for pictures ends, whatever start_frame is.
Terminates ==
  config.frames_to_encode > 0 ~> pc \in {"done", "failed", "crashed"}
=============================================================================
