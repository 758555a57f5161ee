--------------------------- MODULE EncoderStream ---------------------------
(***************************************************************************)
(* The encoder's output seen from a receiver: the pictures the bit stream  *)
(* describes, the references a receiver holds for each, and the refinement *)
(* of VideoSequence.                                                       *)
(***************************************************************************)
EXTENDS Encoder, Receiver

\* frames_to_encode is read by std::stoi, and the larger field counts twice as
\* many.  Without a limit frame_num has four bits, so that with 16 references or
\* more the oldest one would have the frame_num of the picture being decoded.
ASSUME LimitsAssumption ==
  \A c \in Config : /\ c.frames_to_encode <= 2147483647
                    /\ c.frames_to_encode = 0 => c.ref_frame_num < 16

VARIABLE received  \* what a receiver has made of the slices written so far

\* The receiver reads a slice as it is written; nothing it does reaches back.
StreamInit == Init /\ received = NoPictures

StreamNext ==
  /\ Next
  /\ received' = IF pc = "serial" THEN Receive(out_stream[1], received, HeaderBits(m_header)) ELSE received

StreamSpec == StreamInit /\ [][StreamNext]_<<vars, received>>

\* One thread runs the loop and nothing in it waits.
FairStreamSpec == StreamSpec /\ WF_<<vars, received>>(StreamNext)

\* What it will make of the slice being coded, whose header is fixed already.
ReceivedCurrent ==
  Receive(SPS, received, HeaderBits(m_header)).pics[Len(received.pics) + 1]

\* The units after the parameter sets.
SliceUnits == SubSeq(out_stream, 3, Len(out_stream))

\* One input picture per slice: the one all its macroblocks were coded from.
SliceInput(unit) ==
  IF Len(unit.macroblocks) = mb_num /\ \A i \in 1..mb_num : unit.macroblocks[i] = unit.macroblocks[1]
  THEN unit.macroblocks[1] ELSE -2

Coded ==
  [n \in DOMAIN SliceUnits |->
     [input |-> SliceInput(SliceUnits[n]),
      order |-> received.pics[n].order,
      lost  |-> received.pics[n].lost,
      intra |-> SliceUnits[n].header.slice_type = "I"]]

\* What a picture of the input is: the samples at its place in the file.  Past
\* the end of the file, and of one longer than fseek can tell past the limit,
\* the program codes whatever it finds.
SamplesOf(mbs, k) ==
  LET place == k * PictureSize(mbs)
  IN  IF k < InputFrames /\ place < OffsetLimit THEN {place}
      ELSE 0..(InputFrames * PictureSize(mbs)) \cup {Uninitialised}

Sequence ==
  INSTANCE VideoSequence
    WITH coded <- Coded, shown <- out_handle, Standard <- StandardPasses, InputSamples <- SamplesOf

\* The bit stream and reconstruct.yuv hold what VideoSequence promises: every
\* slice a receiver decodes is one requested input picture, its order count is
\* twice its place in the stream and no frame_num gap appears, however the
\* fields of the header wrap; it is the right one whenever the file has it below
\* the limit of fseek's offset; and the picture shown after it went through the
\* receiver's own deblocking.
ImplementsVideoSequence == Sequence!Spec

\* The pictures motion search finds at reference ids below max_num_ref_frames
\* are those a receiver has in its list at the same indices, and the number of
\* references the header announces is the number the encoder searches.
ReceiverSharesReferences ==
  pc = "macroblock" /\ m_header.slice_type = "P" =>
    /\ HeaderBits(m_header).active_list0_ref_num = Len(m_frames)
    /\ \A i \in 1..Len(m_frames) : i <= config.ref_frame_num =>
         /\ i <= Len(ReceivedCurrent.list0)
         /\ ReceivedCurrent.list0[i] = m_frames[i]

\* The parameter sets come first, and the type of every slice unit agrees with
\* the header inside it: a receiver parses idr_pic_id by the one, the encoder
\* wrote it by the other (Slice::Serial against SliceHeader::Construct).
UnitsMatchHeaders ==
  \A k \in DOMAIN out_stream :
    /\ (k <= 2) <=> out_stream[k].nal \in {"SPS", "PPS"}
    /\ (k = 3) <=> out_stream[k].nal = "IDR"
    /\ k > 2 => /\ out_stream[k].header.idr_pic_flag <=> k = 3
                /\ (out_stream[k].header.slice_type = "I") <=> k = 3
=============================================================================
