------------------------ MODULE EncoderStreamProofs ------------------------
(***************************************************************************)
(* Proofs about Encoder and EncoderStream, for every set of                *)
(* configurations: picture sizes, numbers of pictures and starts.  First   *)
(* the encoding loop by itself; then the output stream: the receiver that  *)
(* listens does not change what the encoder does, so the theorems about    *)
(* Encoder hold of it; the units of the stream agree with the headers      *)
(* inside them; the receiver has the references the encoder searches; and  *)
(* the stream implements VideoSequence.                                    *)
(***************************************************************************)
EXTENDS EncoderStream, SequenceTheorems, FiniteSetTheorems, TLAPS

-----------------------------------------------------------------------------
(* Arithmetic and sequences.                                               *)

LEMMA ConfigType ==
  ASSUME TypeOK
  PROVE  /\ config.width_in_mb \in Nat \ {0}
         /\ config.height_in_mb \in Nat \ {0}
         /\ config.frames_to_encode \in Nat
         /\ config.start_frame \in Nat
  BY ConfigAssumption DEF TypeOK

LEMMA PositiveProduct ==
  ASSUME NEW w \in Nat \ {0}, NEW h \in Nat \ {0}
  PROVE  w * h \in Nat \ {0}
  <1>1. w * h >= w  BY SMT
  <1> QED  BY <1>1

LEMMA ProductIsMultiple ==
  ASSUME NEW w \in Nat \ {0}, NEW h \in Nat \ {0}
  PROVE  (w * h) % w = 0
  BY SMT

LEMMA MbNumType ==
  ASSUME TypeOK
  PROVE  mb_num \in Nat \ {0} /\ 0 \in MbAddr
  BY ConfigType, PositiveProduct DEF mb_num, MbAddr

LEMMA ThroughSample ==
  ASSUME NEW input, NEW passes, NEW pass
  PROVE  Through([input |-> input, filtered |-> passes], pass)
           = [input |-> input, filtered |-> Append(passes, pass)]
  BY DEF Through

\* A filter pass keeps the macroblocks and appends itself to those it touches.
LEMMA FilteredSamples ==
  ASSUME NEW mbs \in Seq(MbSample), NEW addrs, NEW pass \in Pass
  PROVE  /\ Filtered(mbs, addrs, pass) \in Seq(MbSample)
         /\ Len(Filtered(mbs, addrs, pass)) = Len(mbs)
         /\ \A i \in 1..Len(mbs) :
              Filtered(mbs, addrs, pass)[i] =
                IF i - 1 \in addrs THEN Through(mbs[i], pass) ELSE mbs[i]
  <1> DEFINE out == Filtered(mbs, addrs, pass)
  <1>1. PICK n \in Nat : n = Len(mbs) /\ DOMAIN mbs = 1..n
    BY LenProperties
  <1>2. out = [i \in 1..n |-> IF i - 1 \in addrs
                              THEN Through(mbs[i], pass) ELSE mbs[i]]
    BY <1>1 DEF Filtered
  <1>3. ASSUME NEW i \in 1..n
        PROVE  out[i] \in MbSample
    <2>1. mbs[i] \in MbSample
      BY <1>1, ElementOfSeq
    <2>2. Append(mbs[i].filtered, pass) \in Seq(Pass)
      BY <2>1, AppendProperties DEF MbSample
    <2>3. Through(mbs[i], pass) \in MbSample
      BY <2>1, <2>2 DEF MbSample, Through
    <2> QED  BY <1>2, <2>1, <2>3
  <1>4. out \in Seq(MbSample) /\ Len(out) = n
    <2>1. out \in [1..n -> MbSample]
      BY <1>2, <1>3
    <2> QED  BY <2>1, IsASeq, LenProperties
  <1> QED  BY <1>1, <1>2, <1>4

LEMMA SampleType ==
  ASSUME NEW input \in Nat \cup {Uninitialised}
  PROVE  Sample(input) \in MbSample
  BY EmptySeq DEF Sample, MbSample

LEMMA ProductType ==
  ASSUME NEW m \in Nat, NEW n \in Nat
  PROVE  m * n \in Nat
  BY SMT

LEMMA LargerProduct ==
  ASSUME NEW m \in Nat, NEW n \in Nat, NEW s \in Nat, m <= n
  PROVE  m * s <= n * s
  BY SMT

\* The samples read are some of the file's, and those of the picture asked for
\* when fseek finds it.
LEMMA SamplesRead ==
  ASSUME TypeOK, NEW k \in Nat
  PROVE  InputPicture(k) \in SamplesOf(mb_num, k)
  <1> DEFINE size == PictureSize(mb_num)
             place == k * size
             file == InputFrames * size
  <1>1. size \in Nat
    BY MbNumType DEF PictureSize
  <1> HIDE DEF size
  <1>2. place \in Nat /\ file \in Nat
    BY <1>1, ProductType, InputFramesAssumption
  <1>3. Offset(k) = place % OffsetLimit
    BY DEF Offset, size
  <1>4. InputPicture(k) = IF Offset(k) + size <= file THEN Offset(k) ELSE Uninitialised
    BY DEF InputPicture, size
  <1>5. SamplesOf(mb_num, k) = IF k < InputFrames /\ place < OffsetLimit THEN {place}
                               ELSE 0..file \cup {Uninitialised}
    BY DEF SamplesOf, size
  <1>6. CASE k < InputFrames /\ place < OffsetLimit
    <2>1. (k + 1) * size <= file
      <3>1. k + 1 <= InputFrames /\ k + 1 \in Nat
        BY <1>6, InputFramesAssumption
      <3> QED
        BY <1>1, <3>1, LargerProduct, InputFramesAssumption
    <2>2. (k + 1) * size = place + size
      BY <1>1
    <2> HIDE DEF place, file
    <2>3. place % OffsetLimit = place
      BY <1>2, <1>6, OffsetAssumption
    <2> QED
      BY <1>3, <1>4, <1>5, <1>6, <2>1, <2>2, <2>3
  <1>7. CASE ~(k < InputFrames /\ place < OffsetLimit)
    <2> HIDE DEF place, file
    <2>1. place % OffsetLimit \in Nat
      BY <1>2, OffsetAssumption
    <2>2. Offset(k) + size <= file => Offset(k) \in 0..file
      BY <1>1, <1>2, <1>3, <2>1
    <2> QED
      BY <1>4, <1>5, <1>7, <2>2
  <1> QED
    BY <1>6, <1>7

LEMMA InputPictureType ==
  ASSUME TypeOK, NEW k \in Nat
  PROVE  InputPicture(k) \in Nat \cup {Uninitialised}
  <1>1. k * PictureSize(mb_num) \in Nat
    BY MbNumType, ProductType DEF PictureSize
  <1>2. Offset(k) \in Nat
    BY <1>1, OffsetAssumption DEF Offset
  <1> QED
    BY <1>2 DEF InputPicture

\* Writing one element of a sequence keeps it a sequence of the same length.
LEMMA UpdateSeq ==
  ASSUME NEW S, NEW s \in Seq(S), NEW i \in 1..Len(s), NEW e \in S
  PROVE  /\ [s EXCEPT ![i] = e] \in Seq(S)
         /\ Len([s EXCEPT ![i] = e]) = Len(s)
  BY ExceptSeq

-----------------------------------------------------------------------------
(* Type correctness.                                                       *)

LEMMA InitType == Init => TypeOK
  BY EmptySeq DEF Init, TypeOK, Phase, InSlice

\* config never changes, and with it the size of a picture.
LEMMA ConfigFixed ==
  ASSUME [Next]_vars
  PROVE  /\ config' = config
         /\ mb_num' = mb_num
         /\ MbAddr' = MbAddr
         /\ Frame' = Frame
  <1>1. config' = config
    BY DEF Next, vars, PrepareContext, WriteParameterSets, OpenReconstruct, SkipFrame,
           BeginSlice, EncodeMacroblock, FilterVertical, FilterHorizontal, FinishSlice,
           SerialSlice, WriteReconstruct
  <1> QED  BY <1>1 DEF mb_num, MbAddr, Frame

LEMMA BeginSliceType ==
  ASSUME TypeOK, BeginSlice
  PROVE  TypeOK'
  <1>1. /\ config' = config /\ mb_num' = mb_num /\ MbAddr' = MbAddr /\ Frame' = Frame
    BY ConfigFixed DEF Next
  <1>2. yuv_frame' \in Nat \cup {Uninitialised}
    BY InputPictureType DEF TypeOK, BeginSlice
  <1>3. NewFrame \in Frame
    BY SampleType DEF NewFrame, Frame
  <1>4. /\ frames' \in Seq(Frame)
        /\ Len(frames') = Len(frames) + 1
    BY <1>3, AppendProperties DEF TypeOK, BeginSlice, AllocateFrame
  <1>5. /\ m_frames' \in Seq(1..Len(frames'))
    <2>1. PICK n \in Nat : n = Len(frames)
      BY LenProperties DEF TypeOK
    <2>2. 1..n \subseteq 1..(n + 1)
      OBVIOUS
    <2>3. Seq(1..n) \subseteq Seq(1..(n + 1))
      BY <2>2, SeqMonotonic
    <2> QED  BY <1>4, <2>1, <2>3 DEF TypeOK, BeginSlice
  <1>6. frames' # <<>>
    BY <1>4, LenProperties, EmptySeq DEF TypeOK
  <1>7. m_macroblocks' \in Seq(MbSample) /\ Len(m_macroblocks') = 0
    BY EmptySeq DEF BeginSlice
  <1> QED
    BY <1>1, <1>2, <1>4, <1>5, <1>6, <1>7, MbNumType DEF TypeOK, BeginSlice, Phase, InSlice

LEMMA EncodeMacroblockType ==
  ASSUME TypeOK, EncodeMacroblock
  PROVE  TypeOK'
  <1>1. /\ config' = config /\ mb_num' = mb_num /\ MbAddr' = MbAddr /\ Frame' = Frame
    BY ConfigFixed DEF Next
  <1>2. PICK n \in Nat : n = Len(m_macroblocks)
    BY LenProperties DEF TypeOK
  <1>3. n < mb_num /\ n \in MbAddr
    BY <1>2, MbNumType DEF TypeOK, EncodeMacroblock, MbAddr
  <1>4. Sample(yuv_frame) \in MbSample
    BY SampleType DEF TypeOK
  <1>5. /\ m_macroblocks' \in Seq(MbSample)
        /\ Len(m_macroblocks') = n + 1
    BY <1>2, <1>4, AppendProperties DEF TypeOK, EncodeMacroblock, PushBack
  <1>6. Len(frames) \in 1..Len(frames)
    BY LenProperties, EmptySeq DEF TypeOK, EncodeMacroblock, InSlice
  <1>7. CollectFrameData(frames[Len(frames)], n, Sample(yuv_frame)) \in Frame
    <2>1. frames[Len(frames)] \in Frame
      BY <1>6, ElementOfSeq DEF TypeOK
    <2> QED  BY <1>3, <1>4, <2>1 DEF CollectFrameData, Frame
  <1>8. frames' \in Seq(Frame) /\ Len(frames') = Len(frames) /\ frames' # <<>>
    BY <1>2, <1>6, <1>7, UpdateSeq, EmptySeq DEF TypeOK, EncodeMacroblock
  <1>9. m_frames' \in Seq(1..Len(frames'))
    BY <1>8 DEF TypeOK, EncodeMacroblock
  <1>10. /\ pc' \in Phase
         /\ pc' = "macroblock" => n + 1 < mb_num /\ filter_mb' = 0
         /\ pc' = "vertical" => n + 1 = mb_num /\ filter_mb' = 0
         /\ pc' \in {"macroblock", "vertical"}
    BY <1>2, <1>3, MbNumType DEF TypeOK, EncodeMacroblock, Phase
  <1> QED
    BY <1>1, <1>5, <1>8, <1>9, <1>10, MbNumType DEF TypeOK, EncodeMacroblock

LEMMA FilterVerticalType ==
  ASSUME TypeOK, FilterVertical
  PROVE  TypeOK'
  <1>1. /\ config' = config /\ mb_num' = mb_num /\ MbAddr' = MbAddr /\ Frame' = Frame
    BY ConfigFixed DEF Next
  <1>2. <<"vertical", filter_mb>> \in Pass
    BY MbNumType DEF TypeOK, FilterVertical, Pass, MbAddr
  <1>3. /\ m_macroblocks' \in Seq(MbSample)
        /\ Len(m_macroblocks') = Len(m_macroblocks)
    BY <1>2, FilteredSamples DEF TypeOK, FilterVertical, FilterVerticalEdges
  <1> QED
    BY <1>1, <1>3 DEF TypeOK, FilterVertical, Phase, InSlice

LEMMA FilterHorizontalType ==
  ASSUME TypeOK, FilterHorizontal
  PROVE  TypeOK'
  <1>1. /\ config' = config /\ mb_num' = mb_num /\ MbAddr' = MbAddr /\ Frame' = Frame
    BY ConfigFixed DEF Next
  <1>2. <<"horizontal", filter_mb>> \in Pass
    BY MbNumType DEF TypeOK, FilterHorizontal, Pass, MbAddr
  <1>3. /\ m_macroblocks' \in Seq(MbSample)
        /\ Len(m_macroblocks') = Len(m_macroblocks)
    BY <1>2, FilteredSamples DEF TypeOK, FilterHorizontal, FilterHorizontalEdges
  <1>4. /\ pc' = "vertical" => filter_mb' \in MbAddr
        /\ pc' \in {"vertical", "collect"}
    BY MbNumType DEF TypeOK, FilterHorizontal, AfterFilter, MbAddr
  <1> QED
    BY <1>1, <1>3, <1>4 DEF TypeOK, FilterHorizontal, Phase, InSlice

LEMMA FinishSliceType ==
  ASSUME TypeOK, FinishSlice
  PROVE  TypeOK'
  <1>1. /\ config' = config /\ mb_num' = mb_num /\ MbAddr' = MbAddr /\ Frame' = Frame
    BY ConfigFixed DEF Next
  <1>2. Len(frames) \in 1..Len(frames)
    BY LenProperties, EmptySeq DEF TypeOK, FinishSlice, InSlice
  <1>3. CollectAllFrameData(frames[Len(frames)]) \in Frame
    <2>1. frames[Len(frames)] \in Frame
      BY <1>2, ElementOfSeq DEF TypeOK
    <2>2. ASSUME NEW a \in MbAddr
          PROVE  m_macroblocks[a + 1] \in MbSample
      <3>1. a + 1 \in 1..Len(m_macroblocks)
        BY MbNumType DEF TypeOK, FinishSlice, MbAddr
      <3> QED  BY <3>1, ElementOfSeq DEF TypeOK
    <2> QED  BY <2>1, <2>2 DEF CollectAllFrameData, Frame
  <1>4. frames' \in Seq(Frame) /\ Len(frames') = Len(frames) /\ frames' # <<>>
    BY <1>2, <1>3, UpdateSeq, EmptySeq DEF TypeOK, FinishSlice
  <1>5. m_frames' \in Seq(1..Len(frames'))
    <2>1. <<Len(frames)>> \in Seq(1..Len(frames))
      BY <1>2
    <2> QED  BY <1>4, <2>1, ConcatProperties DEF TypeOK, FinishSlice, InsertFrame
  <1>6. m_macroblocks' \in Seq(MbSample)
    BY EmptySeq DEF FinishSlice
  <1> QED
    BY <1>1, <1>4, <1>5, <1>6 DEF TypeOK, FinishSlice, Phase, InSlice

LEMMA TypeStep ==
  ASSUME TypeOK, [Next]_vars
  PROVE  TypeOK'
  <1>0. /\ config' = config /\ mb_num' = mb_num /\ MbAddr' = MbAddr /\ Frame' = Frame
    BY ConfigFixed
  <1>1. CASE PrepareContext
    BY <1>0, <1>1 DEF TypeOK, PrepareContext, sliceVars, Phase, InSlice
  <1>2. CASE WriteParameterSets
    BY <1>0, <1>2 DEF TypeOK, WriteParameterSets, sliceVars, Phase, InSlice
  <1>3. CASE OpenReconstruct
    BY <1>0, <1>3 DEF TypeOK, OpenReconstruct, sliceVars, Phase, InSlice
  <1>4. CASE SkipFrame
    BY <1>0, <1>4 DEF TypeOK, SkipFrame, AfterFrame, sliceVars, Phase, InSlice
  <1>5. CASE BeginSlice
    BY <1>5, BeginSliceType
  <1>6. CASE EncodeMacroblock
    BY <1>6, EncodeMacroblockType
  <1>7. CASE FilterVertical
    BY <1>7, FilterVerticalType
  <1>8. CASE FilterHorizontal
    BY <1>8, FilterHorizontalType
  <1>9. CASE FinishSlice
    BY <1>9, FinishSliceType
  <1>10. CASE SerialSlice
    BY <1>0, <1>10 DEF TypeOK, SerialSlice, sliceVars, Phase, InSlice
  <1>11. CASE WriteReconstruct
    BY <1>0, <1>11 DEF TypeOK, WriteReconstruct, AfterFrame, sliceVars, Phase, InSlice
  <1>12. CASE UNCHANGED vars
    BY <1>0, <1>12 DEF TypeOK, vars, InSlice
  <1> QED
    BY <1>1, <1>2, <1>3, <1>4, <1>5, <1>6, <1>7, <1>8, <1>9, <1>10, <1>11, <1>12 DEF Next

\* Type correctness: every index the encoder uses stays in its range, whatever
\* the picture size, the number of pictures and the start (Encoder::Encode and
\* the loops of Slice::Encode).
THEOREM TypeCorrect == Spec => []TypeOK
  BY InitType, TypeStep, PTL DEF Spec

-----------------------------------------------------------------------------
(* How far deblocking has come.  Before the passes of macroblock f (and in  *)
(* the second half of its turn, after its vertical edges), macroblock a has *)
(* been through those of StandardPasses whose turn is over.                 *)

OwnPasses(a, f, half) ==
  IF a < f THEN <<<<"vertical", a>>, <<"horizontal", a>>>>
  ELSE IF half /\ a = f THEN <<<<"vertical", a>>>> ELSE <<>>

PassesBefore(a, f, half) ==
  AppendIf(a + config.width_in_mb < mb_num /\ a + config.width_in_mb < f,
           AppendIf((a + 1) % config.width_in_mb # 0 /\ (a + 1 < f \/ (half /\ a + 1 = f)),
                    OwnPasses(a, f, half),
                    <<"vertical", a + 1>>),
           <<"horizontal", a + config.width_in_mb>>)

Deblocked(f, half) ==
  \A a \in MbAddr : m_macroblocks[a + 1] = [input |-> yuv_frame,
                                            filtered |-> PassesBefore(a, f, half)]

\* The picture being coded is not a reference yet.
Private == \A i \in DOMAIN m_frames : m_frames[i] < Len(frames)

\* NeighboursUnfiltered and ReferencesAreFinished with what connects them: the
\* progress of the filter between the last macroblock and the buffer.
IInv ==
  /\ TypeOK
  /\ NeighboursUnfiltered
  /\ ReferencesAreFinished
  /\ pc = "vertical" => Deblocked(filter_mb, FALSE)
  /\ pc = "horizontal" => Deblocked(filter_mb, TRUE)
  /\ pc = "collect" => Deblocked(mb_num, FALSE)
  /\ pc \in {"macroblock", "vertical", "horizontal", "collect"} => Private

LEMMA AppendedPairs ==
  ASSUME NEW S, NEW x \in S, NEW y \in S
  PROVE  /\ Append(<<>>, x) = <<x>>
         /\ Append(<<x>>, y) = <<x, y>>
  <1>1. /\ <<>> \in Seq(S) /\ Len(<<>>) = 0
        /\ <<x>> \in Seq(S) /\ Len(<<x>>) = 1 /\ <<x>>[1] = x
        /\ <<x, y>> \in Seq(S) /\ Len(<<x, y>>) = 2 /\ <<x, y>>[1] = x /\ <<x, y>>[2] = y
    BY EmptySeq
  <1>2. /\ Append(<<>>, x) \in Seq(S) /\ Len(Append(<<>>, x)) = 1
        /\ Append(<<>>, x)[1] = x
    BY <1>1, AppendProperties
  <1>3. /\ Append(<<x>>, y) \in Seq(S) /\ Len(Append(<<x>>, y)) = 2
        /\ Append(<<x>>, y)[1] = x /\ Append(<<x>>, y)[2] = y
    BY <1>1, AppendProperties
  <1>4. Append(<<>>, x) = <<x>>
    BY <1>1, <1>2, SeqEqual
  <1>5. Append(<<x>>, y) = <<x, y>>
    <2>1. \A i \in 1..2 : Append(<<x>>, y)[i] = <<x, y>>[i]
      BY <1>1, <1>3
    <2> QED  BY <1>1, <1>3, <2>1, SeqEqual
  <1> QED  BY <1>4, <1>5

LEMMA NothingBefore ==
  ASSUME TypeOK, NEW a \in MbAddr
  PROVE  PassesBefore(a, 0, FALSE) = <<>>
  <1>1. config.width_in_mb \in Nat \ {0} /\ a \in Nat
    BY ConfigType, MbNumType DEF MbAddr
  <1>2. ~(a < 0) /\ ~(a + 1 < 0) /\ ~(a + config.width_in_mb < 0)
    BY <1>1
  <1> QED  BY <1>2 DEF PassesBefore, OwnPasses, AppendIf

LEMMA AllBefore ==
  ASSUME TypeOK, NEW a \in MbAddr
  PROVE  PassesBefore(a, mb_num, FALSE)
           = StandardPasses(config.width_in_mb, config.height_in_mb)[a]
  <1> DEFINE w == config.width_in_mb
  <1>1. /\ w \in Nat \ {0} /\ config.height_in_mb \in Nat \ {0}
        /\ a \in Nat /\ mb_num \in Nat /\ a < mb_num
    BY ConfigType, MbNumType DEF MbAddr
  <1>2. (a + 1) % w # 0 => a + 1 < mb_num
    <2>1. mb_num % w = 0
      BY <1>1, ProductIsMultiple DEF mb_num
    <2>2. a + 1 = mb_num => (a + 1) % w = 0
      BY <2>1
    <2> QED  BY <1>1, <2>2
  <1>3. a \in 0..(config.width_in_mb * config.height_in_mb - 1)
    BY DEF MbAddr, mb_num
  <1> QED  BY <1>1, <1>2, <1>3 DEF PassesBefore, OwnPasses, AppendIf, StandardPasses, mb_num

\* The vertical edges of macroblock f: the next pass of f and of its left
\* neighbour, of nobody else.
LEMMA VerticalTurn ==
  ASSUME TypeOK, NEW f \in MbAddr, NEW a \in MbAddr
  PROVE  PassesBefore(a, f, TRUE) =
           IF a \in {f} \cup LeftOf(f)
           THEN Append(PassesBefore(a, f, FALSE), <<"vertical", f>>)
           ELSE PassesBefore(a, f, FALSE)
  <1> DEFINE w == config.width_in_mb
  <1>1. /\ w \in Nat \ {0} /\ a \in Nat /\ f \in Nat
    BY ConfigType, MbNumType DEF MbAddr
  <1>2. CASE a = f
    <2>1. /\ PassesBefore(a, f, FALSE) = <<>>
          /\ PassesBefore(a, f, TRUE) = <<<<"vertical", f>>>>
      BY <1>1, <1>2 DEF PassesBefore, OwnPasses, AppendIf
    <2>2. <<"vertical", f>> \in Pass
      BY <1>1 DEF Pass
    <2>3. Append(<<>>, <<"vertical", f>>) = <<<<"vertical", f>>>>
      BY <2>2, AppendedPairs
    <2> QED  BY <1>2, <2>1, <2>3
  <1>3. CASE a + 1 = f /\ f % w # 0
    <2>1. /\ PassesBefore(a, f, FALSE) = <<<<"vertical", a>>, <<"horizontal", a>>>>
          /\ PassesBefore(a, f, TRUE)
               = Append(<<<<"vertical", a>>, <<"horizontal", a>>>>, <<"vertical", f>>)
      BY <1>1, <1>3 DEF PassesBefore, OwnPasses, AppendIf
    <2>2. a \in LeftOf(f)
      BY <1>1, <1>3 DEF LeftOf
    <2> QED  BY <2>1, <2>2
  <1>4. CASE a # f /\ ~(a + 1 = f /\ f % w # 0)
    <2>1. a \notin {f} \cup LeftOf(f)
      BY <1>1, <1>4 DEF LeftOf
    <2>2. PassesBefore(a, f, TRUE) = PassesBefore(a, f, FALSE)
      BY <1>1, <1>4 DEF PassesBefore, OwnPasses, AppendIf
    <2> QED  BY <2>1, <2>2
  <1> QED  BY <1>2, <1>3, <1>4

\* The horizontal edges of macroblock f: the next pass of f and of the one
\* above it.
LEMMA HorizontalTurn ==
  ASSUME TypeOK, NEW f \in MbAddr, NEW a \in MbAddr
  PROVE  PassesBefore(a, f + 1, FALSE) =
           IF a \in {f} \cup UpOf(f)
           THEN Append(PassesBefore(a, f, TRUE), <<"horizontal", f>>)
           ELSE PassesBefore(a, f, TRUE)
  <1> DEFINE w == config.width_in_mb
  <1>1. /\ w \in Nat \ {0} /\ a \in Nat /\ f \in Nat /\ f < mb_num /\ mb_num \in Nat
    BY ConfigType, MbNumType DEF MbAddr
  <1>2. CASE a = f
    <2>1. /\ PassesBefore(a, f, TRUE) = <<<<"vertical", f>>>>
          /\ PassesBefore(a, f + 1, FALSE) = <<<<"vertical", f>>, <<"horizontal", f>>>>
      BY <1>1, <1>2 DEF PassesBefore, OwnPasses, AppendIf
    <2>2. <<"vertical", f>> \in Pass /\ <<"horizontal", f>> \in Pass
      BY <1>1 DEF Pass
    <2>3. Append(<<<<"vertical", f>>>>, <<"horizontal", f>>)
            = <<<<"vertical", f>>, <<"horizontal", f>>>>
      BY <2>2, AppendedPairs
    <2> QED  BY <1>2, <2>1, <2>3
  <1>3. CASE a + w = f
    <2>1. a < f /\ a + 1 < f + 1 /\ (a + 1 < f \/ a + 1 = f) /\ a + w < mb_num
      BY <1>1, <1>3
    <2>2. a \in UpOf(f)
      BY <1>1, <1>3 DEF UpOf
    <2>3. CASE (a + 1) % w = 0
      BY <1>1, <1>3, <2>1, <2>2, <2>3, SMTT(30) DEF PassesBefore, OwnPasses, AppendIf
    <2>4. CASE (a + 1) % w # 0
      BY <1>1, <1>3, <2>1, <2>2, <2>4 DEF PassesBefore, OwnPasses, AppendIf
    <2> QED  BY <2>3, <2>4
  <1>4. CASE a # f /\ a + w # f
    <2>1. a \notin {f} \cup UpOf(f)
      BY <1>1, <1>4 DEF UpOf
    <2>2. PassesBefore(a, f + 1, FALSE) = PassesBefore(a, f, TRUE)
      BY <1>1, <1>4 DEF PassesBefore, OwnPasses, AppendIf
    <2> QED  BY <2>1, <2>2
  <1> QED  BY <1>2, <1>3, <1>4

-----------------------------------------------------------------------------
(* The inductive invariant.                                                *)

LEMMA InitIInv == Init => IInv
  BY InitType, EmptySeq DEF Init, IInv, NeighboursUnfiltered, ReferencesAreFinished

\* What an action that leaves slices alone leaves true.
LEMMA SliceUntouched ==
  ASSUME IInv, TypeOK', config' = config, UNCHANGED sliceVars,
         pc' \notin {"macroblock", "vertical", "horizontal", "collect"}
  PROVE  IInv'
  <1>1. MbAddr' = MbAddr
    BY DEF MbAddr, mb_num
  <1> QED
    BY <1>1 DEF IInv, NeighboursUnfiltered, ReferencesAreFinished, sliceVars

LEMMA BeginSliceIInv ==
  ASSUME IInv, BeginSlice
  PROVE  IInv'
  <1>1. TypeOK /\ TypeOK'
    BY BeginSliceType DEF IInv
  <1>2. /\ config' = config /\ MbAddr' = MbAddr
    BY ConfigFixed DEF Next
  <1>3. PICK n \in Nat : n = Len(frames)
    BY <1>1, LenProperties DEF TypeOK
  <1>4. ASSUME NEW i \in DOMAIN m_frames
        PROVE  m_frames[i] \in 1..n /\ frames'[m_frames[i]] = frames[m_frames[i]]
    <2>1. m_frames[i] \in 1..n
      BY <1>1, <1>3, ElementOfSeq, LenProperties DEF TypeOK
    <2>2. NewFrame \in Frame
      BY <1>1, SampleType DEF NewFrame, Frame
    <2> QED
      BY <1>1, <1>3, <2>1, <2>2, AppendProperties DEF TypeOK, BeginSlice, AllocateFrame
  <1>5. Len(frames') = n + 1
    <2>1. NewFrame \in Frame
      BY <1>1, SampleType DEF NewFrame, Frame
    <2> QED  BY <1>1, <1>3, <2>1, AppendProperties DEF TypeOK, BeginSlice, AllocateFrame
  <1>6. m_frames' = m_frames /\ m_macroblocks' = <<>> /\ pc' = "macroblock"
    BY DEF BeginSlice
  <1>7. Private'
    BY <1>3, <1>4, <1>5, <1>6 DEF Private
  <1>8. ReferencesAreFinished'
    BY <1>2, <1>4, <1>6 DEF IInv, ReferencesAreFinished
  <1>9. NeighboursUnfiltered'
    BY <1>6 DEF NeighboursUnfiltered
  <1> QED  BY <1>1, <1>6, <1>7, <1>8, <1>9 DEF IInv

LEMMA EncodeMacroblockIInv ==
  ASSUME IInv, EncodeMacroblock
  PROVE  IInv'
  <1>1. TypeOK /\ TypeOK'
    BY EncodeMacroblockType DEF IInv
  <1>2. /\ config' = config /\ MbAddr' = MbAddr /\ mb_num' = mb_num
    BY ConfigFixed DEF Next
  <1>3. PICK n \in Nat : n = Len(m_macroblocks) /\ DOMAIN m_macroblocks = 1..n
    BY <1>1, LenProperties DEF TypeOK
  <1>4. PICK k \in Nat : k = Len(frames) /\ k \in 1..Len(frames) /\ DOMAIN frames = 1..k
    BY <1>1, LenProperties, EmptySeq DEF TypeOK, EncodeMacroblock, InSlice
  <1>5. /\ m_frames' = m_frames /\ yuv_frame' = yuv_frame /\ filter_mb' = filter_mb
        /\ m_macroblocks' = Append(m_macroblocks, Sample(yuv_frame))
        /\ frames' = [frames EXCEPT ![k] = CollectFrameData(@, n, Sample(yuv_frame))]
        /\ pc = "macroblock"
    BY <1>3, <1>4 DEF EncodeMacroblock, PushBack
  <1>6. \A i \in DOMAIN m_frames : m_frames[i] \in 1..k /\ m_frames[i] < k
    BY <1>1, <1>4, <1>5, ElementOfSeq, LenProperties DEF IInv, TypeOK, Private
  <1>7. \A i \in DOMAIN m_frames : frames'[m_frames[i]] = frames[m_frames[i]]
    BY <1>4, <1>5, <1>6
  <1>8. Len(frames') = k
    BY <1>4, <1>5, <1>1, LenProperties DEF TypeOK
  <1>9. ReferencesAreFinished' /\ Private'
    BY <1>2, <1>5, <1>6, <1>7, <1>8 DEF IInv, ReferencesAreFinished, Private
  <1>10. \A i \in 1..(n + 1) : m_macroblocks'[i] = Sample(yuv_frame)
    <2>1. Sample(yuv_frame) \in MbSample
      BY <1>1, SampleType DEF TypeOK
    <2>2. \A i \in 1..n : m_macroblocks[i] = Sample(yuv_frame)
      BY <1>3, <1>5 DEF IInv, NeighboursUnfiltered
    <2>3. \A i \in 1..(n + 1) : i \in 1..n \/ i = n + 1
      OBVIOUS
    <2> QED  BY <1>1, <1>3, <1>5, <2>1, <2>2, <2>3, AppendProperties DEF TypeOK
  <1>11. DOMAIN m_macroblocks' = 1..(n + 1)
    BY <1>1, <1>3, <1>5, SampleType, AppendProperties, LenProperties DEF TypeOK
  <1>12. NeighboursUnfiltered'
    BY <1>5, <1>10, <1>11 DEF NeighboursUnfiltered
  <1>13. CASE pc' = "macroblock"
    BY <1>1, <1>9, <1>12, <1>13 DEF IInv
  <1>14. CASE pc' = "vertical"
    <2>1. n + 1 = mb_num /\ filter_mb' = 0
      BY <1>1, <1>3, <1>5, <1>14 DEF EncodeMacroblock, TypeOK
    <2>2. ASSUME NEW a \in MbAddr'
          PROVE  m_macroblocks'[a + 1] = [input |-> yuv_frame', filtered |-> <<>>]
      <3>1. a + 1 \in 1..(n + 1)
        BY <1>2, <2>1 DEF MbAddr
      <3> QED  BY <1>5, <1>10, <3>1 DEF Sample
    <2>3. \A a \in MbAddr : PassesBefore(a, 0, FALSE) = <<>>
      BY <1>1, NothingBefore
    <2>4. \A a \in MbAddr' : PassesBefore(a, 0, FALSE)' = <<>>
      BY <1>2, <2>3 DEF PassesBefore
    <2>5. Deblocked(filter_mb, FALSE)'
      BY <2>1, <2>2, <2>4 DEF Deblocked, PassesBefore
    <2> QED  BY <1>1, <1>9, <1>12, <1>14, <2>5 DEF IInv
  <1> QED  BY <1>13, <1>14 DEF EncodeMacroblock

\* The filter leaves the buffer and every picture in it alone.
LEMMA ReferencesUntouched ==
  ASSUME IInv, config' = config, m_frames' = m_frames, frames' = frames
  PROVE  ReferencesAreFinished' /\ (Private => Private')
  <1>1. MbAddr' = MbAddr
    BY DEF MbAddr, mb_num
  <1> QED  BY <1>1 DEF IInv, ReferencesAreFinished, Private

LEMMA FilterVerticalIInv ==
  ASSUME IInv, FilterVertical
  PROVE  IInv'
  <1>1. TypeOK /\ TypeOK'
    BY FilterVerticalType DEF IInv
  <1>2. /\ config' = config /\ MbAddr' = MbAddr /\ mb_num' = mb_num
    BY ConfigFixed DEF Next
  <1>3. /\ filter_mb' = filter_mb /\ yuv_frame' = yuv_frame /\ pc' = "horizontal"
        /\ m_frames' = m_frames /\ frames' = frames /\ pc = "vertical"
        /\ m_macroblocks' = Filtered(m_macroblocks, {filter_mb} \cup LeftOf(filter_mb),
                                     <<"vertical", filter_mb>>)
    BY DEF FilterVertical, FilterVerticalEdges
  <1>4. /\ filter_mb \in MbAddr /\ filter_mb \in Nat /\ <<"vertical", filter_mb>> \in Pass
        /\ Len(m_macroblocks) = mb_num
    BY <1>1, <1>3, MbNumType DEF TypeOK, MbAddr, Pass
  <1>5. ASSUME NEW a \in MbAddr
        PROVE  m_macroblocks'[a + 1] = [input |-> yuv_frame,
                                        filtered |-> PassesBefore(a, filter_mb, TRUE)]
    <2>1. a + 1 \in 1..Len(m_macroblocks) /\ (a + 1) - 1 = a
      BY <1>1, <1>4, MbNumType DEF MbAddr
    <2>2. m_macroblocks[a + 1] = [input |-> yuv_frame,
                                  filtered |-> PassesBefore(a, filter_mb, FALSE)]
      BY <1>3 DEF IInv, Deblocked
    <2>3. m_macroblocks'[a + 1] =
            IF a \in {filter_mb} \cup LeftOf(filter_mb)
            THEN Through(m_macroblocks[a + 1], <<"vertical", filter_mb>>)
            ELSE m_macroblocks[a + 1]
      <3>1. \A i \in 1..Len(m_macroblocks) :
              m_macroblocks'[i] =
                IF i - 1 \in {filter_mb} \cup LeftOf(filter_mb)
                THEN Through(m_macroblocks[i], <<"vertical", filter_mb>>)
                ELSE m_macroblocks[i]
        <4>1. m_macroblocks \in Seq(MbSample)
          BY <1>1 DEF TypeOK
        <4> QED  BY <1>3, <1>4, <4>1, FilteredSamples
      <3> QED  BY <2>1, <3>1
    <2>4. CASE a \in {filter_mb} \cup LeftOf(filter_mb)
      <3>1. m_macroblocks'[a + 1] =
              Through([input |-> yuv_frame, filtered |-> PassesBefore(a, filter_mb, FALSE)],
                      <<"vertical", filter_mb>>)
        BY <2>2, <2>3, <2>4
      <3>2. PassesBefore(a, filter_mb, TRUE)
              = Append(PassesBefore(a, filter_mb, FALSE), <<"vertical", filter_mb>>)
        BY <1>1, <1>4, <2>4, VerticalTurn
      <3>3. Through([input |-> yuv_frame, filtered |-> PassesBefore(a, filter_mb, FALSE)],
                    <<"vertical", filter_mb>>)
              = [input |-> yuv_frame,
                 filtered |-> Append(PassesBefore(a, filter_mb, FALSE), <<"vertical", filter_mb>>)]
        BY ThroughSample, Zenon
      <3> QED  BY <3>1, <3>2, <3>3, Zenon
    <2>5. CASE a \notin {filter_mb} \cup LeftOf(filter_mb)
      BY <1>1, <1>4, <2>2, <2>3, <2>5, VerticalTurn
    <2> QED  BY <2>4, <2>5
  <1>6. Deblocked(filter_mb, TRUE)'
    BY <1>2, <1>3, <1>5 DEF Deblocked, PassesBefore
  <1>7. ReferencesAreFinished' /\ Private'
    BY <1>2, <1>3, ReferencesUntouched DEF IInv
  <1> QED  BY <1>1, <1>3, <1>6, <1>7 DEF IInv, NeighboursUnfiltered

LEMMA FilterHorizontalIInv ==
  ASSUME IInv, FilterHorizontal
  PROVE  IInv'
  <1>1. TypeOK /\ TypeOK'
    BY FilterHorizontalType DEF IInv
  <1>2. /\ config' = config /\ MbAddr' = MbAddr /\ mb_num' = mb_num
    BY ConfigFixed DEF Next
  <1>3. /\ filter_mb' = filter_mb + 1 /\ yuv_frame' = yuv_frame
        /\ pc' = IF filter_mb + 1 = mb_num THEN "collect" ELSE "vertical"
        /\ m_frames' = m_frames /\ frames' = frames /\ pc = "horizontal"
        /\ m_macroblocks' = Filtered(m_macroblocks, {filter_mb} \cup UpOf(filter_mb),
                                     <<"horizontal", filter_mb>>)
    BY DEF FilterHorizontal, FilterHorizontalEdges, AfterFilter
  <1>4. /\ filter_mb \in MbAddr /\ filter_mb \in Nat /\ <<"horizontal", filter_mb>> \in Pass
        /\ Len(m_macroblocks) = mb_num
    BY <1>1, <1>3, MbNumType DEF TypeOK, MbAddr, Pass
  <1>5. ASSUME NEW a \in MbAddr
        PROVE  m_macroblocks'[a + 1] = [input |-> yuv_frame,
                                        filtered |-> PassesBefore(a, filter_mb + 1, FALSE)]
    <2>1. a + 1 \in 1..Len(m_macroblocks) /\ (a + 1) - 1 = a
      BY <1>1, <1>4, MbNumType DEF MbAddr
    <2>2. m_macroblocks[a + 1] = [input |-> yuv_frame,
                                  filtered |-> PassesBefore(a, filter_mb, TRUE)]
      BY <1>3 DEF IInv, Deblocked
    <2>3. m_macroblocks'[a + 1] =
            IF a \in {filter_mb} \cup UpOf(filter_mb)
            THEN Through(m_macroblocks[a + 1], <<"horizontal", filter_mb>>)
            ELSE m_macroblocks[a + 1]
      <3>1. \A i \in 1..Len(m_macroblocks) :
              m_macroblocks'[i] =
                IF i - 1 \in {filter_mb} \cup UpOf(filter_mb)
                THEN Through(m_macroblocks[i], <<"horizontal", filter_mb>>)
                ELSE m_macroblocks[i]
        <4>1. m_macroblocks \in Seq(MbSample)
          BY <1>1 DEF TypeOK
        <4> DEFINE addrs == {filter_mb} \cup UpOf(filter_mb)
                   pass == <<"horizontal", filter_mb>>
        <4>2. pass \in Pass
          BY <1>4
        <4>3. m_macroblocks' = Filtered(m_macroblocks, addrs, pass)
          BY <1>3
        <4> HIDE DEF addrs, pass
        <4>4. \A i \in 1..Len(m_macroblocks) :
                Filtered(m_macroblocks, addrs, pass)[i] =
                  IF i - 1 \in addrs THEN Through(m_macroblocks[i], pass) ELSE m_macroblocks[i]
          BY <4>1, <4>2, FilteredSamples
        <4>5. \A i \in 1..Len(m_macroblocks) :
                m_macroblocks'[i] = IF i - 1 \in addrs THEN Through(m_macroblocks[i], pass) ELSE m_macroblocks[i]
          BY <4>3, <4>4
        <4> QED  BY <4>5 DEF addrs, pass
      <3> QED  BY <2>1, <3>1
    <2>4. CASE a \in {filter_mb} \cup UpOf(filter_mb)
      <3>1. m_macroblocks'[a + 1] =
              Through([input |-> yuv_frame, filtered |-> PassesBefore(a, filter_mb, TRUE)],
                      <<"horizontal", filter_mb>>)
        BY <2>2, <2>3, <2>4
      <3>2. PassesBefore(a, filter_mb + 1, FALSE)
              = Append(PassesBefore(a, filter_mb, TRUE), <<"horizontal", filter_mb>>)
        BY <1>1, <1>4, <2>4, HorizontalTurn
      <3>3. Through([input |-> yuv_frame, filtered |-> PassesBefore(a, filter_mb, TRUE)],
                    <<"horizontal", filter_mb>>)
              = [input |-> yuv_frame,
                 filtered |-> Append(PassesBefore(a, filter_mb, TRUE), <<"horizontal", filter_mb>>)]
        BY ThroughSample, Zenon
      <3> QED  BY <3>1, <3>2, <3>3, Zenon
    <2>5. CASE a \notin {filter_mb} \cup UpOf(filter_mb)
      BY <1>1, <1>4, <2>2, <2>3, <2>5, HorizontalTurn
    <2> QED  BY <2>4, <2>5
  <1>6. Deblocked(filter_mb, FALSE)'
    <2>1. \A a \in MbAddr : PassesBefore(a, filter_mb, FALSE)' = PassesBefore(a, filter_mb + 1, FALSE)
      BY <1>2, <1>3 DEF PassesBefore
    <2> QED  BY <1>2, <1>3, <1>5, <2>1 DEF Deblocked
  <1>7. pc' = "collect" => Deblocked(mb_num, FALSE)'
    <2>1. pc' = "collect" => mb_num' = filter_mb'
      BY <1>2, <1>3
    <2> QED  BY <1>6, <2>1 DEF Deblocked, PassesBefore
  <1>8. ReferencesAreFinished' /\ Private'
    BY <1>2, <1>3, ReferencesUntouched DEF IInv
  <1> QED  BY <1>1, <1>3, <1>6, <1>7, <1>8 DEF IInv, NeighboursUnfiltered

\* What CollectAllFrameData leaves in the frame.
LEMMA FinishedFrame ==
  ASSUME IInv, FinishSlice
  PROVE  \A a \in MbAddr :
           frames'[Len(frames)][a] =
             [input |-> yuv_frame,
              filtered |-> StandardPasses(config.width_in_mb, config.height_in_mb)[a]]
  <1>1. TypeOK
    BY DEF IInv
  <1>2. PICK k \in Nat : k = Len(frames) /\ k \in 1..Len(frames) /\ DOMAIN frames = 1..k
    BY <1>1, LenProperties, EmptySeq DEF TypeOK, FinishSlice, InSlice
  <1>3. /\ frames' = [frames EXCEPT ![k] = CollectAllFrameData(@)]
        /\ pc = "collect"
    BY <1>2 DEF FinishSlice
  <1>4. ASSUME NEW a \in MbAddr
        PROVE  frames'[k][a] = [input |-> yuv_frame,
                 filtered |-> StandardPasses(config.width_in_mb, config.height_in_mb)[a]]
    <2>1. DOMAIN frames[k] = MbAddr
      BY <1>1, <1>2, ElementOfSeq DEF TypeOK, Frame
    <2>2. m_macroblocks[a + 1] = [input |-> yuv_frame, filtered |-> PassesBefore(a, mb_num, FALSE)]
      BY <1>3 DEF IInv, Deblocked
    <2> QED  BY <1>1, <1>2, <1>3, <2>1, <2>2, AllBefore DEF CollectAllFrameData
  <1> QED  BY <1>2, <1>4

LEMMA FinishSliceIInv ==
  ASSUME IInv, FinishSlice
  PROVE  IInv'
  <1>1. TypeOK /\ TypeOK'
    BY FinishSliceType DEF IInv
  <1>2. /\ config' = config /\ MbAddr' = MbAddr /\ mb_num' = mb_num
    BY ConfigFixed DEF Next
  <1>3. PICK k \in Nat : k = Len(frames) /\ k \in 1..Len(frames) /\ DOMAIN frames = 1..k
    BY <1>1, LenProperties, EmptySeq DEF TypeOK, FinishSlice, InSlice
  <1>4. /\ m_frames' = <<k>> \o m_frames
        /\ frames' = [frames EXCEPT ![k] = CollectAllFrameData(@)]
        /\ pc = "collect" /\ pc' = "serial"
    BY <1>3 DEF FinishSlice, InsertFrame
  <1>5. \A a \in MbAddr :
          frames'[k][a] = [input |-> yuv_frame,
                 filtered |-> StandardPasses(config.width_in_mb, config.height_in_mb)[a]]
    BY <1>3, FinishedFrame
  <1>6. \A i \in DOMAIN m_frames : m_frames[i] \in 1..k /\ m_frames[i] < k
    BY <1>1, <1>3, <1>4, ElementOfSeq, LenProperties DEF IInv, TypeOK, Private
  <1>7. \A f \in 1..k : f # k => frames'[f] = frames[f]
    BY <1>3, <1>4
  <1>8. ASSUME NEW i \in DOMAIN m_frames'
        PROVE  m_frames'[i] = k \/ \E j \in DOMAIN m_frames : m_frames'[i] = m_frames[j]
    <2>1. PICK n \in Nat : n = Len(m_frames) /\ DOMAIN m_frames = 1..n
      BY <1>1, LenProperties DEF TypeOK
    <2>2. <<k>> \in Seq(1..k) /\ Len(<<k>>) = 1 /\ <<k>>[1] = k /\ m_frames \in Seq(1..k)
      BY <1>1, <1>3 DEF TypeOK
    <2>3. /\ Len(m_frames') = n + 1
          /\ m_frames' \in Seq(1..k)
          /\ \A j \in 1..(n + 1) : m_frames'[j] = IF j <= 1 THEN <<k>>[j] ELSE m_frames[j - 1]
      BY <1>4, <2>1, <2>2, ConcatProperties
    <2>4. i \in 1..(n + 1)
      BY <2>3, LenProperties
    <2>5. CASE i = 1
      BY <2>2, <2>3, <2>4, <2>5
    <2>6. CASE i # 1
      <3>1. i - 1 \in 1..n /\ ~(i <= 1)
        BY <2>4, <2>6
      <3> QED  BY <2>1, <2>3, <2>4, <3>1
    <2> QED  BY <2>5, <2>6
  <1>9. ReferencesAreFinished'
    <2>1. 0 \in MbAddr
      BY <1>1, MbNumType
    <2>2. ASSUME NEW a \in MbAddr
          PROVE  /\ frames'[k][a].filtered
                      = StandardPasses(config.width_in_mb, config.height_in_mb)[a]
                 /\ frames'[k][a].input = frames'[k][0].input
      <3>1. /\ frames'[k][a].filtered
                 = StandardPasses(config.width_in_mb, config.height_in_mb)[a]
            /\ frames'[k][a].input = yuv_frame
        <4>1. frames'[k][a] = [input |-> yuv_frame,
                filtered |-> StandardPasses(config.width_in_mb, config.height_in_mb)[a]]
          BY <1>5
        <4> QED  BY <4>1
      <3>2. frames'[k][0].input = yuv_frame
        <4>1. frames'[k][0] = [input |-> yuv_frame,
                filtered |-> StandardPasses(config.width_in_mb, config.height_in_mb)[0]]
          BY <1>5, <2>1
        <4> QED  BY <4>1
      <3> QED  BY <3>1, <3>2
    <2> QED
      BY <1>2, <1>6, <1>7, <1>8, <2>2 DEF IInv, ReferencesAreFinished
  <1> QED  BY <1>1, <1>4, <1>9 DEF IInv, NeighboursUnfiltered

LEMMA NextIInv ==
  ASSUME IInv, [Next]_vars
  PROVE  IInv'
  <1>0. TypeOK' /\ config' = config
    BY TypeStep, ConfigFixed DEF IInv
  <1>1. CASE PrepareContext
    BY <1>0, <1>1, SliceUntouched DEF PrepareContext
  <1>2. CASE WriteParameterSets
    BY <1>0, <1>2, SliceUntouched DEF WriteParameterSets
  <1>3. CASE OpenReconstruct
    BY <1>0, <1>3, SliceUntouched DEF OpenReconstruct
  <1>4. CASE SkipFrame
    BY <1>0, <1>4, SliceUntouched DEF SkipFrame, AfterFrame
  <1>5. CASE BeginSlice
    BY <1>5, BeginSliceIInv
  <1>6. CASE EncodeMacroblock
    BY <1>6, EncodeMacroblockIInv
  <1>7. CASE FilterVertical
    BY <1>7, FilterVerticalIInv
  <1>8. CASE FilterHorizontal
    BY <1>8, FilterHorizontalIInv
  <1>9. CASE FinishSlice
    BY <1>9, FinishSliceIInv
  <1>10. CASE SerialSlice
    BY <1>0, <1>10, SliceUntouched DEF SerialSlice
  <1>11. CASE WriteReconstruct
    BY <1>0, <1>11, SliceUntouched DEF WriteReconstruct, AfterFrame
  <1>12. CASE UNCHANGED vars
    <2>1. UNCHANGED <<pc, yuv_frame, m_macroblocks, filter_mb, frames, m_frames, config>>
      BY <1>12 DEF vars
    <2>2. MbAddr' = MbAddr /\ mb_num' = mb_num
      BY <2>1 DEF MbAddr, mb_num
    <2>3. ReferencesAreFinished' /\ (Private => Private')
      BY <2>1, ReferencesUntouched
    <2>4. NeighboursUnfiltered'
      BY <2>1 DEF IInv, NeighboursUnfiltered
    <2>5. /\ pc' = "vertical" => Deblocked(filter_mb, FALSE)'
          /\ pc' = "horizontal" => Deblocked(filter_mb, TRUE)'
          /\ pc' = "collect" => Deblocked(mb_num, FALSE)'
      <3>1. /\ Deblocked(filter_mb, FALSE)' = Deblocked(filter_mb, FALSE)
            /\ Deblocked(filter_mb, TRUE)' = Deblocked(filter_mb, TRUE)
            /\ Deblocked(mb_num, FALSE)' = Deblocked(mb_num, FALSE)
        BY <2>1, <2>2 DEF Deblocked, PassesBefore
      <3> QED  BY <2>1, <3>1 DEF IInv
    <2> QED  BY <1>0, <2>1, <2>3, <2>4, <2>5 DEF IInv
  <1> QED
    BY <1>1, <1>2, <1>3, <1>4, <1>5, <1>6, <1>7, <1>8, <1>9, <1>10, <1>11, <1>12 DEF Next

LEMMA InvariantHolds == Spec => []IInv
  BY InitIInv, NextIInv, PTL DEF Spec

\* Every picture a P slice can predict from is a fully deblocked picture, for
\* every picture size and sequence length (Slice::DeblockFilter,
\* CollectAllFrameData, AddToDPB).
THEOREM ReferencesFinished == Spec => []ReferencesAreFinished
  <1>1. IInv => ReferencesAreFinished
    BY DEF IInv
  <1> QED  BY <1>1, InvariantHolds, PTL

\* Intra prediction never sees a filtered sample (Slice::Encode).
THEOREM IntraUnfiltered == Spec => []NeighboursUnfiltered
  <1>1. IInv => NeighboursUnfiltered
    BY DEF IInv
  <1> QED  BY <1>1, InvariantHolds, PTL

-----------------------------------------------------------------------------
(* Pictures in the buffer stay as they are.                                *)

LEMMA SameReferences ==
  ASSUME m_frames' = m_frames,
         \A i \in DOMAIN m_frames : frames'[m_frames[i]] = frames[m_frames[i]]
  PROVE  KeepsReferences
  BY DEF KeepsReferences

LEMMA KeepsStep ==
  ASSUME IInv, Next
  PROVE  KeepsReferences
  <1>1. TypeOK
    BY DEF IInv
  <1>2. PICK k \in Nat : k = Len(frames) /\ DOMAIN frames = 1..k
    BY <1>1, LenProperties DEF TypeOK
  <1>3. PICK n \in Nat : n = Len(m_frames) /\ DOMAIN m_frames = 1..n
    BY <1>1, LenProperties DEF TypeOK
  <1>4. \A i \in DOMAIN m_frames : m_frames[i] \in 1..k
    BY <1>1, <1>2, <1>3, ElementOfSeq DEF TypeOK
  <1>5. CASE BeginSlice
    <2>1. NewFrame \in Frame
      BY <1>1, SampleType DEF NewFrame, Frame
    <2>2. \A j \in 1..k : frames'[j] = frames[j]
      BY <1>1, <1>2, <1>5, <2>1, AppendProperties DEF TypeOK, BeginSlice, AllocateFrame
    <2> QED  BY <1>4, <1>5, <2>2, SameReferences DEF BeginSlice
  <1>6. CASE EncodeMacroblock
    <2>1. \A i \in DOMAIN m_frames : m_frames[i] < k
      BY <1>2, <1>6 DEF IInv, Private, EncodeMacroblock
    <2>2. \A j \in 1..k : j # k => frames'[j] = frames[j]
      BY <1>2, <1>6 DEF EncodeMacroblock
    <2>3. m_frames' = m_frames
      BY <1>6 DEF EncodeMacroblock
    <2> QED  BY <1>4, <2>1, <2>2, <2>3, SameReferences
  <1>7. CASE FinishSlice
    <2>1. \A i \in DOMAIN m_frames : m_frames[i] < k
      BY <1>2, <1>7 DEF IInv, Private, FinishSlice
    <2>2. \A j \in 1..k : j # k => frames'[j] = frames[j]
      BY <1>2, <1>7 DEF FinishSlice
    <2>3. ASSUME NEW i \in 1..n
          PROVE  \E j \in DOMAIN m_frames' : m_frames'[j] = m_frames[i]
      <3>1. k \in 1..k
        BY <1>2, <1>1, <1>7, EmptySeq, LenProperties DEF TypeOK, FinishSlice, InSlice
      <3>2. <<k>> \in Seq(1..k) /\ Len(<<k>>) = 1 /\ m_frames \in Seq(1..k)
        BY <1>1, <1>2, <3>1 DEF TypeOK
      <3>3. m_frames' = <<k>> \o m_frames
        BY <1>2, <1>7 DEF FinishSlice, InsertFrame
      <3>4. /\ m_frames' \in Seq(1..k)
            /\ Len(m_frames') = n + 1
            /\ \A j \in 1..(n + 1) :
                 m_frames'[j] = IF j <= 1 THEN <<k>>[j] ELSE m_frames[j - 1]
        BY <1>3, <3>2, <3>3, ConcatProperties
      <3>5. i + 1 \in 1..(n + 1) /\ ~(i + 1 <= 1) /\ (i + 1) - 1 = i
        OBVIOUS
      <3>6. DOMAIN m_frames' = 1..(n + 1)
        BY <3>4, LenProperties
      <3>7. i + 1 \in DOMAIN m_frames' /\ m_frames'[i + 1] = m_frames[i]
        BY <3>4, <3>5, <3>6
      <3> QED  BY <3>7
    <2> QED  BY <1>3, <1>4, <2>1, <2>2, <2>3 DEF KeepsReferences
  <1>8. CASE PrepareContext \/ WriteParameterSets \/ OpenReconstruct \/ SkipFrame
              \/ FilterVertical \/ FilterHorizontal \/ SerialSlice \/ WriteReconstruct
    <2>1. m_frames' = m_frames /\ frames' = frames
      BY <1>8 DEF PrepareContext, WriteParameterSets, OpenReconstruct, SkipFrame,
                  FilterVertical, FilterHorizontal, SerialSlice, WriteReconstruct, sliceVars
    <2> QED  BY <2>1, SameReferences
  <1> QED  BY <1>5, <1>6, <1>7, <1>8 DEF Next

\* A reference never changes again once motion search can read it, and is never
\* dropped, however many pictures follow.
THEOREM ReferencesStayFrozen == Spec => ReferencesFrozen
  <1>1. IInv /\ [Next]_vars => [KeepsReferences]_vars
    BY KeepsStep
  <1> QED  BY <1>1, InvariantHolds, PTL DEF Spec, ReferencesFrozen

-----------------------------------------------------------------------------
(* Counting pictures: both files and the loop's counter agree at every      *)
(* step, with the one slice in between that is written but not shown.       *)

Elements(s) == {s[k] : k \in DOMAIN s}

Counted ==
  /\ out_stream \in Seq(Elements(out_stream))
  /\ out_handle \in Seq(Elements(out_handle))
  /\ Len(out_handle) = encoded_frame_count
  /\ pc \in {"prepare", "parameters", "open", "failed", "crashed"} => encoded_frame_count = 0
  /\ pc \in {"open", "frame", "macroblock", "vertical", "horizontal", "collect", "serial", "done"}
       => Len(out_stream) = 2 + encoded_frame_count
  /\ pc = "reconstruct" => Len(out_stream) = 3 + encoded_frame_count
  /\ pc = "done" => encoded_frame_count = config.frames_to_encode
  /\ (pc = "frame" \/ InSlice) /\ config.frames_to_encode > 0 =>
       encoded_frame_count < config.frames_to_encode

LEMMA AppendElement ==
  ASSUME NEW s, s \in Seq(Elements(s)), NEW e
  PROVE  /\ Append(s, e) \in Seq(Elements(Append(s, e)))
         /\ Len(Append(s, e)) = Len(s) + 1
  <1> DEFINE S == Elements(s) \cup {e}
             t == Append(s, e)
  <1>1. s \in Seq(S)
    BY SeqMonotonic
  <1>2. t \in Seq(S) /\ Len(t) = Len(s) + 1
    BY <1>1, AppendProperties
  <1>3. PICK n \in Nat : n = Len(t) /\ DOMAIN t = 1..n
    BY <1>2, LenProperties
  <1>4. t \in [1..n -> S]
    BY <1>2, <1>3, LenProperties
  <1>5. t \in [1..n -> Elements(t)]
    BY <1>3, <1>4 DEF Elements
  <1>6. t = [i \in 1..n |-> t[i]] /\ \A i \in 1..n : t[i] \in Elements(t)
    BY <1>5
  <1>7. t \in Seq(Elements(t))
    BY <1>5, SeqDef
  <1> QED  BY <1>2, <1>7

LEMMA InitCounted == Init => Counted
  BY EmptySeq DEF Init, Counted, InSlice

LEMMA CountedStep ==
  ASSUME TypeOK, Counted, [Next]_vars
  PROVE  Counted'
  <1>0. /\ config' = config
        /\ encoded_frame_count \in Nat /\ config.frames_to_encode \in Nat
    BY ConfigFixed, ConfigType DEF TypeOK
  <1>1. CASE PrepareContext
    BY <1>0, <1>1 DEF Counted, PrepareContext, InSlice
  <1>2. CASE WriteParameterSets
    <2>1. out_stream' = <<SPS, PPS>>
      BY <1>2 DEF WriteParameterSets
    <2>2. out_stream' \in Seq({SPS, PPS}) /\ Len(out_stream') = 2
      BY <2>1
    <2>3. Elements(out_stream') = {SPS, PPS}
      BY <2>1 DEF Elements
    <2>4. out_stream' \in Seq(Elements(out_stream'))
      BY <2>2, <2>3
    <2> QED  BY <1>0, <1>2, <2>2, <2>4 DEF Counted, WriteParameterSets, InSlice
  <1>3. CASE OpenReconstruct
    BY <1>0, <1>3 DEF Counted, OpenReconstruct, InSlice
  <1>4. CASE SkipFrame
    BY <1>0, <1>4 DEF Counted, SkipFrame, AfterFrame, InSlice
  <1>5. CASE BeginSlice
    BY <1>0, <1>5 DEF Counted, BeginSlice, InSlice
  <1>6. CASE EncodeMacroblock
    BY <1>0, <1>6 DEF Counted, EncodeMacroblock, InSlice
  <1>7. CASE FilterVertical
    BY <1>0, <1>7 DEF Counted, FilterVertical, InSlice
  <1>8. CASE FilterHorizontal
    BY <1>0, <1>8 DEF Counted, FilterHorizontal, AfterFilter, InSlice
  <1>9. CASE FinishSlice
    BY <1>0, <1>9 DEF Counted, FinishSlice, InSlice
  <1>10. CASE SerialSlice
    <2>1. PICK u : out_stream' = Append(out_stream, u)
      BY <1>10 DEF SerialSlice
    <2>2. out_stream' \in Seq(Elements(out_stream')) /\ Len(out_stream') = Len(out_stream) + 1
      BY <2>1, AppendElement DEF Counted
    <2> QED  BY <1>0, <1>10, <2>2 DEF Counted, SerialSlice, InSlice
  <1>11. CASE WriteReconstruct
    <2>1. PICK f : out_handle' = Append(out_handle, f)
      BY <1>11 DEF WriteReconstruct
    <2>2. out_handle' \in Seq(Elements(out_handle')) /\ Len(out_handle') = Len(out_handle) + 1
      BY <2>1, AppendElement DEF Counted
    <2> QED  BY <1>0, <1>11, <2>2 DEF Counted, WriteReconstruct, AfterFrame, InSlice
  <1>12. CASE UNCHANGED vars
    BY <1>0, <1>12 DEF Counted, vars, InSlice
  <1> QED
    BY <1>1, <1>2, <1>3, <1>4, <1>5, <1>6, <1>7, <1>8, <1>9, <1>10, <1>11, <1>12 DEF Next

LEMMA CountedStops ==
  ASSUME TypeOK, Counted
  PROVE  StopsAtRequest
  BY ConfigType DEF TypeOK, Counted, StopsAtRequest, InSlice, Phase

\* Encode leaves its loop with exactly the pictures asked for in both files, for
\* every start and number of pictures, and writes no picture more before.
THEOREM EncodesRequested == Spec => []StopsAtRequest
  <1>1. Spec => [](TypeOK /\ Counted)
    <2>1. TypeOK /\ Counted /\ [Next]_vars => (TypeOK /\ Counted)'
      BY TypeStep, CountedStep
    <2> QED  BY <2>1, InitType, InitCounted, PTL DEF Spec
  <1> QED  BY <1>1, CountedStops, PTL

-----------------------------------------------------------------------------
(* EncoderStream: the encoder with the receiver of its units.              *)

\* A step of the output with its receiver is a step of the encoder.
THEOREM StreamImplementsEncoder == StreamSpec => Spec
  <1>1. StreamInit => Init
    BY DEF StreamInit
  <1>2. [StreamNext]_<<vars, received>> => [Next]_vars
    BY DEF StreamNext
  <1> QED  BY <1>1, <1>2, PTL DEF StreamSpec, Spec

-----------------------------------------------------------------------------
(* The headers.  What Serial decides from the tick of the slice agrees with *)
(* what Construct decided from the counter, since the counter has not moved *)
(* in between; and the counter is the number of slice units written.        *)

\* The header of the slice being coded is the one its place calls for.
HeaderMatchesCount ==
  InSlice =>
    /\ m_header.tick = encoded_frame_count
    /\ m_header.idr_pic_flag <=> encoded_frame_count = 0
    /\ m_header.slice_type = IF encoded_frame_count = 0 THEN "I" ELSE "P"

Headed == HeaderMatchesCount /\ UnitsMatchHeaders

LEMMA InitHeaded == Init => Headed
  BY DEF Init, Headed, HeaderMatchesCount, UnitsMatchHeaders, InSlice

\* The headers of the steps that leave the stream alone.
LEMMA SameStream ==
  ASSUME UnitsMatchHeaders, out_stream' = out_stream
  PROVE  UnitsMatchHeaders'
  BY DEF UnitsMatchHeaders

LEMMA SameHeader ==
  ASSUME HeaderMatchesCount, InSlice, m_header' = m_header,
         encoded_frame_count' = encoded_frame_count
  PROVE  HeaderMatchesCount'
  BY DEF HeaderMatchesCount

\* Slice::Construct: type and flags from the counter.
LEMMA BeginSliceHeaded ==
  ASSUME TypeOK, Headed, BeginSlice
  PROVE  Headed'
  <1>1. m_header' = SliceHeader(encoded_frame_count, DecideSliceType(encoded_frame_count))
        /\ encoded_frame_count' = encoded_frame_count /\ out_stream' = out_stream
    BY DEF BeginSlice
  <1>2. HeaderMatchesCount'
    BY <1>1 DEF HeaderMatchesCount, SliceHeader, DecideSliceType
  <1> QED  BY <1>1, <1>2, SameStream DEF Headed

LEMMA WriteParameterSetsHeaded ==
  ASSUME WriteParameterSets
  PROVE  Headed'
  <1>1. out_stream' = <<SPS, PPS>> /\ SPS.nal = "SPS" /\ PPS.nal = "PPS"
    BY DEF WriteParameterSets, SPS, PPS
  <1>2. DOMAIN out_stream' = 1..2 /\ out_stream'[1] = SPS /\ out_stream'[2] = PPS
    BY <1>1
  <1>3. UnitsMatchHeaders'
    BY <1>1, <1>2 DEF UnitsMatchHeaders
  <1> QED  BY <1>3 DEF Headed, WriteParameterSets, HeaderMatchesCount, InSlice

\* Slice::Serial: the unit is the third exactly when the counter is zero.
LEMMA SerialSliceHeaded ==
  ASSUME TypeOK, Counted, Headed, SerialSlice
  PROVE  Headed'
  <1> DEFINE nal  == IF m_header.tick = 0 THEN "IDR" ELSE "Slice"
             unit == [nal |-> nal, header |-> HeaderBits(m_header), macroblocks |-> m_bytes_data]
             n    == encoded_frame_count
  <1>1. n \in Nat /\ InSlice
    BY DEF TypeOK, SerialSlice, InSlice
  <1>2. out_stream \in Seq(Elements(out_stream)) /\ Len(out_stream) = 2 + n
    BY DEF Counted, SerialSlice
  <1>3. out_stream' = Append(out_stream, unit)
    BY DEF SerialSlice
  <1>4. /\ DOMAIN out_stream' = 1..(3 + n)
        /\ out_stream'[3 + n] = unit
        /\ \A k \in 1..(2 + n) : k \in DOMAIN out_stream /\ out_stream'[k] = out_stream[k]
    <2>1. DOMAIN out_stream = 1..(2 + n)
      BY <1>2, LenProperties
    <2>2. out_stream \in Seq(Elements(out_stream) \cup {unit})
      BY <1>2, SeqMonotonic
    <2>3. /\ Append(out_stream, unit) \in Seq(Elements(out_stream) \cup {unit})
          /\ Len(Append(out_stream, unit)) = 3 + n
          /\ \A k \in 1..(2 + n) : Append(out_stream, unit)[k] = out_stream[k]
          /\ Append(out_stream, unit)[3 + n] = unit
      BY <1>1, <1>2, <2>2, AppendProperties
    <2> HIDE DEF unit
    <2> QED  BY <1>1, <1>3, <2>1, <2>3, LenProperties
  <1>5. /\ unit.nal \notin {"SPS", "PPS"}
        /\ (unit.nal = "IDR") <=> n = 0
        /\ unit.header.idr_pic_flag <=> n = 0
        /\ (unit.header.slice_type = "I") <=> n = 0
    BY <1>1 DEF Headed, HeaderMatchesCount, HeaderBits
  <1> HIDE DEF unit
  <1>6. UnitsMatchHeaders'
    <2> SUFFICES ASSUME NEW k \in 1..(3 + n)
                 PROVE  /\ (k <= 2) <=> out_stream'[k].nal \in {"SPS", "PPS"}
                        /\ (k = 3) <=> out_stream'[k].nal = "IDR"
                        /\ k > 2 => /\ out_stream'[k].header.idr_pic_flag <=> k = 3
                                    /\ (out_stream'[k].header.slice_type = "I") <=> k = 3
      BY <1>4 DEF UnitsMatchHeaders
    <2>1. CASE k = 3 + n
      BY <1>1, <1>4, <1>5, <2>1
    <2>2. CASE k \in 1..(2 + n)
      BY <1>4, <2>2 DEF Headed, UnitsMatchHeaders
    <2> QED  BY <1>1, <2>1, <2>2
  <1>7. HeaderMatchesCount'
    BY <1>1, SameHeader DEF Headed, SerialSlice, sliceVars
  <1> QED  BY <1>6, <1>7 DEF Headed

LEMMA HeadedStep ==
  ASSUME TypeOK, Counted, Headed, [Next]_vars
  PROVE  Headed'
  <1> USE SameStream, SameHeader DEF Headed
  <1>1. CASE PrepareContext
    BY <1>1 DEF PrepareContext, HeaderMatchesCount, InSlice
  <1>2. CASE WriteParameterSets
    BY <1>2, WriteParameterSetsHeaded
  <1>3. CASE OpenReconstruct
    BY <1>3 DEF OpenReconstruct, HeaderMatchesCount, InSlice
  <1>4. CASE SkipFrame
    BY <1>4 DEF SkipFrame, AfterFrame, HeaderMatchesCount, InSlice
  <1>5. CASE BeginSlice
    BY <1>5, BeginSliceHeaded
  <1>6. CASE EncodeMacroblock
    BY <1>6 DEF EncodeMacroblock, InSlice
  <1>7. CASE FilterVertical
    BY <1>7 DEF FilterVertical, InSlice
  <1>8. CASE FilterHorizontal
    BY <1>8 DEF FilterHorizontal, InSlice
  <1>9. CASE FinishSlice
    BY <1>9 DEF FinishSlice, InSlice
  <1>10. CASE SerialSlice
    BY <1>10, SerialSliceHeaded
  <1>11. CASE WriteReconstruct
    BY <1>11 DEF WriteReconstruct, AfterFrame, HeaderMatchesCount, InSlice
  <1>12. CASE UNCHANGED vars
    BY <1>12 DEF vars, HeaderMatchesCount, InSlice
  <1> QED
    BY <1>1, <1>2, <1>3, <1>4, <1>5, <1>6, <1>7, <1>8, <1>9, <1>10, <1>11, <1>12 DEF Next

\* The type of a NAL unit and the header inside it never disagree, and only the
\* first slice is an IDR picture, for every configuration.
THEOREM HeadersMatchUnits == StreamSpec => []UnitsMatchHeaders
  <1>1. Spec => [](TypeOK /\ Counted /\ Headed)
    <2>1. TypeOK /\ Counted /\ Headed /\ [Next]_vars => (TypeOK /\ Counted /\ Headed)'
      BY TypeStep, CountedStep, HeadedStep
    <2> QED  BY <2>1, InitType, InitCounted, InitHeaded, PTL DEF Spec
  <1>2. Headed => UnitsMatchHeaders
    BY DEF Headed
  <1> QED  BY <1>1, <1>2, StreamImplementsEncoder, PTL

\* What is proved of the encoder holds of the output stream a receiver reads:
\* it holds the pictures asked for (Encode), and the references are finished
\* and frozen (Slice::Encode).
THEOREM StreamKeepsPromises ==
  StreamSpec => [](StopsAtRequest /\ ReferencesAreFinished /\ NeighboursUnfiltered)
  BY StreamImplementsEncoder, EncodesRequested, ReferencesFinished, IntraUnfiltered, PTL

-----------------------------------------------------------------------------
(* Fields of the header: wide enough for what they count, or wrapping at    *)
(* 16.                                                                      *)

LEMMA Powers32 ==
  /\ 2^0 = 1 /\ 2^1 = 2 /\ 2^2 = 4 /\ 2^3 = 8 /\ 2^4 = 16 /\ 2^5 = 32 /\ 2^6 = 64 /\ 2^7 = 128
  /\ 2^8 = 256 /\ 2^9 = 512 /\ 2^10 = 1024 /\ 2^11 = 2048 /\ 2^12 = 4096 /\ 2^13 = 8192
  /\ 2^14 = 16384 /\ 2^15 = 32768 /\ 2^16 = 65536 /\ 2^17 = 131072 /\ 2^18 = 262144
  /\ 2^19 = 524288 /\ 2^20 = 1048576 /\ 2^21 = 2097152 /\ 2^22 = 4194304 /\ 2^23 = 8388608
  /\ 2^24 = 16777216 /\ 2^25 = 33554432 /\ 2^26 = 67108864 /\ 2^27 = 134217728
  /\ 2^28 = 268435456 /\ 2^29 = 536870912 /\ 2^30 = 1073741824 /\ 2^31 = 2147483648
  /\ 2^32 = 4294967296
  BY SMT

\* CeilLog2 finds a width that holds value - 1.
LEMMA CeilLog2Bounds ==
  ASSUME NEW v \in Nat, v <= 2^32, v > 1
  PROVE  CeilLog2(v) \in 1..32 /\ v <= 2^CeilLog2(v)
  <1> DEFINE P(n) == 2^(n - 1) < v /\ v <= 2^n
  <1>1. \/ P(1) \/ P(2) \/ P(3) \/ P(4) \/ P(5) \/ P(6) \/ P(7) \/ P(8)
        \/ P(9) \/ P(10) \/ P(11) \/ P(12) \/ P(13) \/ P(14) \/ P(15) \/ P(16)
        \/ P(17) \/ P(18) \/ P(19) \/ P(20) \/ P(21) \/ P(22) \/ P(23) \/ P(24)
        \/ P(25) \/ P(26) \/ P(27) \/ P(28) \/ P(29) \/ P(30) \/ P(31) \/ P(32)
    BY Powers32, SMT
  <1>2. CeilLog2(v) = CHOOSE n \in 1..32 : P(n)
    <2>1. ~(v <= 1)
      OBVIOUS
    <2> QED
      BY <2>1, Zenon DEF CeilLog2
  <1> HIDE DEF P
  <1>3. \E n \in 1..32 : P(n)
    BY <1>1, SMT
  <1>4. CeilLog2(v) \in 1..32 /\ P(CeilLog2(v))
    BY <1>2, <1>3, Zenon
  <1> QED
    BY <1>4 DEF P

\* A field is four bits wide or as wide as its largest value needs.
LEMMA FieldWidth ==
  ASSUME NEW v \in Nat, v <= 2^32
  PROVE  FieldBits(v) \in 4..32 /\ v <= 2^FieldBits(v)
  <1>1. CASE v <= 1
    BY <1>1, Powers32, SMT DEF FieldBits, CeilLog2
  <1>2. CASE v > 1
    <2>1. CeilLog2(v) \in 1..32 /\ v <= 2^CeilLog2(v)
      BY <1>2, CeilLog2Bounds
    <2>2. CASE CeilLog2(v) > 4
      BY <2>1, <2>2 DEF FieldBits
    <2>3. CASE CeilLog2(v) <= 4
      <3>1. FieldBits(v) = 4
        BY <2>1, <2>3 DEF FieldBits
      <3>2. PICK n \in 1..4 : n = CeilLog2(v)
        BY <2>1, <2>3
      <3>3. 2^n <= 2^4 /\ 2^n \in Nat /\ 2^4 \in Nat
        <4> DEFINE Q(k) == 2^k <= 2^4 /\ 2^k \in Nat /\ 2^4 \in Nat
        <4>1. Q(1) /\ Q(2) /\ Q(3) /\ Q(4)
          BY Powers32, SMT
        <4> HIDE DEF Q
        <4>2. Q(n)
          BY <4>1
        <4> QED
          BY <4>2 DEF Q
      <3> QED
        BY <2>1, <3>1, <3>2, <3>3
    <2> QED
      BY <2>1, <2>2, <2>3
  <1> QED
    BY <1>1, <1>2

\* What the order count needs of its field.
LEMMA EvenPower ==
  ASSUME NEW n \in 4..32
  PROVE  2^n \in Nat /\ 2^n % 2 = 0 /\ 2^n >= 16
  <1> DEFINE Q(k) == 2^k \in Nat /\ 2^k % 2 = 0 /\ 2^k >= 16
  <1>1. /\ Q(4) /\ Q(5) /\ Q(6) /\ Q(7) /\ Q(8) /\ Q(9) /\ Q(10) /\ Q(11) /\ Q(12) /\ Q(13)
        /\ Q(14) /\ Q(15) /\ Q(16) /\ Q(17) /\ Q(18) /\ Q(19) /\ Q(20) /\ Q(21) /\ Q(22) /\ Q(23)
        /\ Q(24) /\ Q(25) /\ Q(26) /\ Q(27) /\ Q(28) /\ Q(29) /\ Q(30) /\ Q(31) /\ Q(32)
    BY Powers32, SMT
  <1> HIDE DEF Q
  <1>2. Q(n)
    BY <1>1, SMT
  <1> QED
    BY <1>2 DEF Q

-----------------------------------------------------------------------------
(* What a receiver reads from wrapped numbers.                              *)

\* A picture d before the current one, seen from its number.
LEMMA WrappedNumber ==
  ASSUME NEW m \in Nat, NEW k \in Nat, NEW d \in 1..k, (m = 16 /\ d < 16) \/ k < m
  PROVE  FrameNumWrap(m, k % m, (k - d) % m) = (k % m) - d
  <1>1. CASE m = 16 /\ d < 16
    BY <1>1 DEF FrameNumWrap
  <1>2. CASE k < m
    <2>1. k % m = k /\ (k - d) % m = k - d
      BY <1>2
    <2> QED
      BY <2>1 DEF FrameNumWrap
  <1> QED
    BY <1>1, <1>2

\* No gap: the number expected after that of picture k - 1 is that of k.
LEMMA NextNumber ==
  ASSUME NEW m \in Nat, NEW k \in Nat, k > 0, m = 16 \/ k < m
  PROVE  (((k - 1) % m) + 1) % m = k % m
  <1>1. CASE m = 16
    BY <1>1
  <1>2. CASE k < m
    BY <1>2
  <1> QED
    BY <1>1, <1>2

\* The two ways the low bits of an order count go up.
LEMMA OrderCountRises ==
  ASSUME NEW m \in Nat, NEW acc, acc.lsb \in Nat, acc.msb \in Int, NEW lsb \in Nat
  PROVE  /\ (lsb < acc.lsb /\ acc.lsb - lsb >= m \div 2) => OrderCountMsb(m, acc, lsb) = acc.msb + m
         /\ (lsb > acc.lsb /\ lsb - acc.lsb <= m \div 2) => OrderCountMsb(m, acc, lsb) = acc.msb
  BY DEF OrderCountMsb

\* The order count of picture k, recovered from its low bits.
LEMMA NextOrderCount ==
  ASSUME NEW m \in Nat, NEW k \in Nat, k > 0, m % 2 = 0, m >= 16, m = 16 \/ 2 * k < m,
         NEW acc, acc.lsb = (2 * (k - 1)) % m, acc.msb = 2 * (k - 1) - acc.lsb
  PROVE  OrderCountMsb(m, acc, (2 * k) % m) = 2 * k - ((2 * k) % m)
  <1>1. CASE m = 16
    <2>1. PICK b \in 0..15 : b = (2 * (k - 1)) % 16 /\ (2 * k) % 16 = IF b >= 14 THEN b - 14 ELSE b + 2
      OBVIOUS
    <2>2. b % 2 = 0
      BY <2>1
    <2>3. acc.lsb = b /\ acc.msb = 2 * (k - 1) - b /\ b # 15
      BY <1>1, <2>1, <2>2
    <2>4. CASE b = 14
      <3>1. /\ acc.lsb = 14 /\ (2 * k) % m = 0 /\ m \div 2 = 8
            /\ acc.msb = 2 * k - 16
        BY <1>1, <2>1, <2>3, <2>4
      <3>2. OrderCountMsb(m, acc, 0) = acc.msb + m
        BY <3>1, OrderCountRises
      <3>3. acc.msb + m = 2 * k - 0
        BY <1>1, <3>1
      <3> QED
        BY <3>1, <3>2, <3>3, Zenon
    <2>5. CASE b < 14
      <3>1. /\ acc.lsb = b /\ (2 * k) % m = b + 2 /\ m \div 2 = 8
            /\ acc.msb = 2 * k - (b + 2)
        BY <1>1, <2>1, <2>3, <2>5
      <3>2. b + 2 > acc.lsb /\ (b + 2) - acc.lsb <= m \div 2 /\ b + 2 \in Nat /\ acc.lsb \in Nat /\ acc.msb \in Int
        BY <3>1
      <3>3. OrderCountMsb(m, acc, b + 2) = acc.msb
        BY <3>2, OrderCountRises
      <3> QED
        BY <3>1, <3>3, Zenon
    <2> QED
      BY <2>3, <2>4, <2>5
  <1>2. CASE 2 * k < m
    <2>1. acc.lsb = 2 * k - 2 /\ acc.msb = 0 /\ (2 * k) % m = 2 * k
      BY <1>2
    <2>2. m \div 2 >= 2
      OBVIOUS
    <2> QED
      BY <2>1, <2>2, OrderCountRises
  <1> QED
    BY <1>1, <1>2

-----------------------------------------------------------------------------
(* Sequences given by their elements.                                       *)

LEMMA FunctionIsSequence ==
  ASSUME NEW n \in Nat, NEW S, NEW f \in [1..n -> S]
  PROVE  f \in Seq(S) /\ Len(f) = n
  BY SeqDef, LenProperties

\* Appending the element after the first k.
LEMMA AppendNext ==
  ASSUME NEW k \in Nat, NEW long, NEW short,
         long = [i \in 1..(k + 1) |-> long[i]], short = [i \in 1..k |-> long[i]]
  PROVE  Append(short, long[k + 1]) = long
  <1> DEFINE S == {long[i] : i \in 1..(k + 1)}
  <1>1. short \in [1..k -> S] /\ long \in [1..(k + 1) -> S]
    OBVIOUS
  <1>2. short \in Seq(S) /\ Len(short) = k /\ long \in Seq(S) /\ Len(long) = k + 1
    <2>1. k \in Nat /\ k + 1 \in Nat
      OBVIOUS
    <2> HIDE DEF S
    <2>2. short \in Seq(S) /\ Len(short) = k
      BY <1>1, <2>1, FunctionIsSequence
    <2>3. long \in Seq(S) /\ Len(long) = k + 1
      BY <1>1, <2>1, FunctionIsSequence
    <2> QED
      BY <2>2, <2>3
  <1>3. /\ Append(short, long[k + 1]) \in Seq(S)
        /\ Len(Append(short, long[k + 1])) = k + 1
        /\ \A i \in 1..k : Append(short, long[k + 1])[i] = short[i]
        /\ Append(short, long[k + 1])[k + 1] = long[k + 1]
    <2>1. long[k + 1] \in S
      OBVIOUS
    <2> HIDE DEF S
    <2> QED
      BY <1>2, <2>1, AppendProperties
  <1>4. \A i \in 1..(k + 1) : Append(short, long[k + 1])[i] = long[i]
    <2>1. \A i \in 1..k : short[i] = long[i]
      OBVIOUS
    <2>2. \A i \in 1..(k + 1) : i \in 1..k \/ i = k + 1
      OBVIOUS
    <2> QED
      BY <1>3, <2>1, <2>2
  <1> HIDE DEF S
  <1> QED
    BY <1>2, <1>3, <1>4, SeqEqual

-----------------------------------------------------------------------------
(* The receiver's list and window on references in coding order.            *)

\* n references, numbered upwards to the one before picture number c.
Numbered(m, refs, n, current, c) ==
  /\ n \in Nat /\ c \in Int /\ refs = [i \in 1..n |-> refs[i]]
  /\ \A i \in 1..n : PicNum(m, refs, current, i) = c - (n - i + 1)

Reversed(refs, n) == [k \in 1..n |-> refs[n + 1 - k].pic]

\* The initial list is the window backwards.
LEMMA NewestFirst ==
  ASSUME NEW m, NEW n, NEW refs, NEW current, NEW c, Numbered(m, refs, n, current, c)
  PROVE  InitialList(m, refs, current) = Reversed(refs, n)
  <1> USE DEF Numbered
  <1> DEFINE above(i) == {j \in DOMAIN refs : PicNum(m, refs, current, j) > PicNum(m, refs, current, i)}
  <1>1. DOMAIN refs = 1..n
    OBVIOUS
  <1>2. ASSUME NEW i \in 1..n
        PROVE  Cardinality(above(i)) = n - i
    <2>1. above(i) = (i + 1)..n
      BY <1>1
    <2> QED
      <3>1. i + 1 \in Int /\ n \in Int
        OBVIOUS
      <3>2. Cardinality((i + 1)..n) = IF i + 1 > n THEN 0 ELSE n - (i + 1) + 1
        BY <3>1, FS_Interval
      <3>3. Cardinality((i + 1)..n) = n - i
        BY <3>2
      <3> HIDE DEF above
      <3> QED
        BY <2>1, <3>3, Zenon
  <1>3. ASSUME NEW k \in 1..n
        PROVE  (CHOOSE i \in DOMAIN refs : Cardinality(above(i)) = k - 1) = n + 1 - k
    <2> HIDE DEF above
    <2>1. n + 1 - k \in DOMAIN refs /\ Cardinality(above(n + 1 - k)) = k - 1
      BY <1>1, <1>2
    <2>2. \A i \in DOMAIN refs : Cardinality(above(i)) = k - 1 => i = n + 1 - k
      BY <1>1, <1>2
    <2> QED
      BY <2>1, <2>2
  <1>4. InitialList(m, refs, current)
          = [k \in 1..n |-> refs[CHOOSE i \in DOMAIN refs : Cardinality(above(i)) = k - 1].pic]
    BY <1>1 DEF InitialList
  <1> HIDE DEF above
  <1> QED
    BY <1>3, <1>4 DEF Reversed

\* The window with room for one more.
Slid(refs, n, size) == IF n < size THEN refs ELSE [k \in 1..(n - 1) |-> refs[k + 1]]

\* It is the first of the window that leaves.
LEMMA OldestLeaves ==
  ASSUME NEW m, NEW n, NEW refs, NEW current, NEW c, Numbered(m, refs, n, current, c),
         NEW size \in Nat \ {0}, Len(refs) = n
  PROVE  SlideWindow(m, size, refs, current) = Slid(refs, n, size)
  <1> USE DEF Numbered, Slid
  <1>1. DOMAIN refs = 1..n
    OBVIOUS
  <1> DEFINE oldest == CHOOSE i \in DOMAIN refs :
                         \A j \in DOMAIN refs : PicNum(m, refs, current, i) <= PicNum(m, refs, current, j)
  <1>2. CASE n < size
    BY <1>2 DEF SlideWindow
  <1>3. CASE ~(n < size)
    <2>1. 1 \in DOMAIN refs
      BY <1>1, <1>3
    <2>2. \A j \in DOMAIN refs : PicNum(m, refs, current, 1) <= PicNum(m, refs, current, j)
      BY <1>1, <2>1
    <2>3. oldest \in DOMAIN refs /\ PicNum(m, refs, current, oldest) <= PicNum(m, refs, current, 1)
      BY <2>1, <2>2
    <2>4. oldest = 1
      <3> HIDE DEF oldest
      <3> QED
        BY <1>1, <2>1, <2>3
    <2>5. SlideWindow(m, size, refs, current)
            = [k \in 1..(n - 1) |-> IF k < oldest THEN refs[k] ELSE refs[k + 1]]
      BY <1>3 DEF SlideWindow
    <2> HIDE DEF oldest
    <2> QED
      <3>1. \A k \in 1..(n - 1) : ~(k < oldest)
        BY <2>4
      <3> QED
        BY <1>3, <2>5, <3>1
  <1> QED
    BY <1>2, <1>3

-----------------------------------------------------------------------------
(* A receiver that has seen k pictures, in closed form.                     *)

MaxNum == 2^SPS.log2_max_frame_num

MaxLsb == 2^SPS.log2_max_pic_order_cnt_lsb

\* Either a field holds every picture of the run, or none were asked for, the
\* field has four bits and there are fewer references than numbers.
LEMMA FieldSizes ==
  ASSUME config \in Config, NEW k \in Nat,
         config.frames_to_encode > 0 => k < config.frames_to_encode
  PROVE  /\ config.ref_frame_num \in Nat \ {0}
         /\ MaxNum \in Nat /\ ((MaxNum = 16 /\ config.ref_frame_num < 16) \/ k < MaxNum)
         /\ MaxLsb \in Nat /\ MaxLsb % 2 = 0 /\ MaxLsb >= 16
         /\ MaxLsb = 16 \/ 2 * k < MaxLsb
  <1> DEFINE f == config.frames_to_encode
  <1>1. f \in Nat /\ f <= 2147483647 /\ (f = 0 => config.ref_frame_num < 16) /\ config.ref_frame_num \in Nat \ {0}
    BY ConfigAssumption, LimitsAssumption
  <1>2. MaxNum = 2^FieldBits(1 + f) /\ MaxLsb = 2^FieldBits(1 + 2 * f)
    BY DEF MaxNum, MaxLsb, SPS
  <1> HIDE DEF f
  <1>3. 1 + f \in Nat /\ 1 + f <= 2^32 /\ 1 + 2 * f \in Nat /\ 1 + 2 * f <= 2^32
    BY <1>1, Powers32, SMT
  <1>4. FieldBits(1 + f) \in 4..32 /\ FieldBits(1 + 2 * f) \in 4..32
    BY <1>3, FieldWidth
  <1>5. MaxNum \in Nat /\ MaxLsb \in Nat /\ MaxLsb % 2 = 0 /\ MaxLsb >= 16
    BY <1>2, <1>4, EvenPower
  <1>6. CASE f = 0
    <2>1. FieldBits(1 + f) = 4 /\ FieldBits(1 + 2 * f) = 4
      <3>1. 1 + f = 1 /\ 1 + 2 * f = 1
        BY <1>6
      <3>2. FieldBits(1) = 4
        BY DEF FieldBits, CeilLog2
      <3> QED
        BY <3>1, <3>2
    <2>2. 2^4 = 16
      BY Powers32, SMT
    <2>3. MaxNum = 16 /\ MaxLsb = 16
      BY <1>2, <2>1, <2>2, Zenon
    <2> QED
      BY <1>1, <1>5, <1>6, <2>3
  <1>7. CASE f > 0
    <2>1. k < f
      BY <1>7 DEF f
    <2>2. 1 + f <= MaxNum /\ 1 + 2 * f <= MaxLsb
      BY <1>2, <1>3, FieldWidth
    <2> QED
      BY <1>1, <1>5, <2>1, <2>2
  <1> QED
    BY <1>1, <1>6, <1>7

\* References in the window.
Held(k) == IF k < config.ref_frame_num THEN k ELSE config.ref_frame_num

Reference(p) == [frame_num |-> (p - 1) % MaxNum, pic |-> p]

List0(k) == [i \in 1..Held(k) |-> k + 1 - i]

PictureSeen(p) == [order |-> 2 * (p - 1), lost |-> FALSE, list0 |-> List0(p - 1)]

\* What the receiver holds.
After(k) ==
  [pics |-> [p \in 1..k |-> PictureSeen(p)],
   refs |-> [i \in 1..Held(k) |-> Reference((k - Held(k)) + i)],
   msb  |-> IF k = 0 THEN 0 ELSE 2 * (k - 1) - ((2 * (k - 1)) % MaxLsb),
   lsb  |-> IF k = 0 THEN 0 ELSE (2 * (k - 1)) % MaxLsb]

\* The header of picture k.
HeaderAt(k) ==
  [tick |-> k, idr_pic_flag |-> k = 0, slice_type |-> IF k = 0 THEN "I" ELSE "P",
   frame_num |-> k, pic_order_cnt_lsb |-> (2 * k) % MaxLsb, active_list0_ref_num |-> k]

\* Picture k, from 0, is one of those asked for.
Coding(k) == config \in Config /\ k \in Nat /\ (config.frames_to_encode > 0 => k < config.frames_to_encode)

\* The window in order of picture numbers, with the current one above them.
LEMMA ReferencesNumbered ==
  ASSUME NEW k, Coding(k), NEW i \in 1..Held(k)
  PROVE  PicNum(MaxNum, After(k).refs, k % MaxNum, i) = (k % MaxNum) - (Held(k) - i + 1)
  <1> DEFINE n == Held(k)
             d == n - i + 1
  <1>1. k \in Nat /\ config.ref_frame_num \in Nat /\ MaxNum \in Nat
        /\ ((MaxNum = 16 /\ config.ref_frame_num < 16) \/ k < MaxNum)
    BY FieldSizes DEF Coding
  <1>2. n \in Nat /\ n <= k /\ n <= config.ref_frame_num /\ i \in 1..n
    BY <1>1 DEF Held
  <1>3. After(k).refs[i].frame_num = (((k - n) + i) - 1) % MaxNum
    <2>1. After(k).refs = [j \in 1..n |-> Reference((k - n) + j)]
      BY DEF After
    <2>2. After(k).refs[i] = Reference((k - n) + i)
      BY <2>1
    <2>3. ((k - n) + i) - 1 = ((k - n) + i) - 1
      BY <1>1, <1>2
    <2> QED
      BY <2>2, <2>3 DEF Reference
  <1> HIDE DEF n
  <1>4. d \in 1..k /\ ((k - n) + i) - 1 = k - d /\ ((MaxNum = 16 /\ d < 16) \/ k < MaxNum)
    BY <1>1, <1>2
  <1> HIDE DEF d
  <1>5. FrameNumWrap(MaxNum, k % MaxNum, (k - d) % MaxNum) = (k % MaxNum) - d
    BY <1>1, <1>4, WrappedNumber
  <1> QED
    BY <1>3, <1>4, <1>5 DEF PicNum, d, n

\* What a receiver makes of the next header.
LEMMA ReceivesNext ==
  ASSUME NEW k, Coding(k)
  PROVE  Receive(SPS, After(k), HeaderBits(HeaderAt(k))) = After(k + 1)
  <1> DEFINE m == MaxNum
             acc == After(k)
             n == Held(k)
             slice == HeaderBits(HeaderAt(k))
             list == InitialList(m, acc.refs, slice.frame_num)
             kept == SlideWindow(m, config.ref_frame_num, acc.refs, slice.frame_num)
             msb == OrderCountMsb(MaxLsb, acc, slice.pic_order_cnt_lsb)
             expected == IF acc.refs = <<>> THEN 0 ELSE (acc.refs[Len(acc.refs)].frame_num + 1) % m
  <1>1. /\ k \in Nat /\ config.ref_frame_num \in Nat \ {0}
        /\ m \in Nat /\ ((m = 16 /\ config.ref_frame_num < 16) \/ k < m)
        /\ MaxLsb \in Nat /\ MaxLsb % 2 = 0 /\ MaxLsb >= 16
        /\ MaxLsb = 16 \/ 2 * k < MaxLsb
    BY FieldSizes DEF Coding
  <1>2. n \in Nat /\ n <= k /\ n <= config.ref_frame_num
    BY <1>1 DEF Held
  <1>3. /\ slice.idr_pic_flag <=> k = 0
        /\ slice.frame_num = k % m
        /\ slice.pic_order_cnt_lsb = (2 * k) % MaxLsb
    BY DEF HeaderBits, HeaderAt, MaxNum
  <1>4. /\ acc.pics = [p \in 1..k |-> PictureSeen(p)]
        /\ acc.refs = [i \in 1..n |-> Reference((k - n) + i)]
        /\ acc.msb = IF k = 0 THEN 0 ELSE 2 * (k - 1) - ((2 * (k - 1)) % MaxLsb)
        /\ acc.lsb = IF k = 0 THEN 0 ELSE (2 * (k - 1)) % MaxLsb
    BY DEF After
  <1>5. /\ Len(acc.pics) = k /\ Len(acc.refs) = n
        /\ (n = 0 <=> acc.refs = <<>>) /\ (k = 0 => acc.pics = <<>>)
    <2> HIDE DEF n, acc
    <2>1. acc.pics \in Seq({acc.pics[p] : p \in 1..k}) /\ Len(acc.pics) = k
      BY <1>1, <1>4, FunctionIsSequence
    <2>2. acc.refs \in Seq({acc.refs[p] : p \in 1..n}) /\ Len(acc.refs) = n
      BY <1>2, <1>4, FunctionIsSequence
    <2> QED
      BY <2>1, <2>2, EmptySeq
  <1>6. k = 0 => acc = NoPictures
    <2>1. k = 0 => acc.pics = <<>> /\ acc.refs = <<>> /\ acc.msb = 0 /\ acc.lsb = 0
      BY <1>1, <1>2, <1>4, <1>5
    <2>2. acc = [pics |-> acc.pics, refs |-> acc.refs, msb |-> acc.msb, lsb |-> acc.lsb]
      BY DEF After
    <2> HIDE DEF acc
    <2> QED
      BY <2>1, <2>2 DEF NoPictures
  <1>7. Numbered(m, acc.refs, n, slice.frame_num, k % m)
    <2> HIDE DEF acc, slice, n, m
    <2>1. acc.refs = [i \in 1..n |-> acc.refs[i]]
      BY <1>4
    <2>2. k % m \in Int
      BY <1>1
    <2>3. \A i \in 1..n : PicNum(m, acc.refs, slice.frame_num, i) = (k % m) - (n - i + 1)
      BY <1>3, ReferencesNumbered DEF acc, n, m
    <2> QED
      BY <1>2, <2>1, <2>2, <2>3 DEF Numbered
  <1>8. list = List0(k)
    <2> HIDE DEF acc, slice, n, m
    <2>1. list = Reversed(acc.refs, n)
      BY <1>7, NewestFirst
    <2> HIDE DEF list
    <2>2. ASSUME NEW i \in 1..n
          PROVE  acc.refs[n + 1 - i].pic = k + 1 - i
      <3>1. n + 1 - i \in 1..n /\ (k - n) + (n + 1 - i) = k + 1 - i
        BY <1>1, <1>2
      <3>2. acc.refs[n + 1 - i] = Reference((k - n) + (n + 1 - i))
        BY <1>4, <3>1
      <3> QED
        BY <3>1, <3>2 DEF Reference
    <2> QED
      BY <2>1, <2>2 DEF List0, Reversed, n
  <1>9. Len(kept) = Held(k + 1) - 1 /\ kept = [i \in 1..(Held(k + 1) - 1) |-> Reference(((k + 1) - Held(k + 1)) + i)]
    <2> HIDE DEF acc, slice, m
    <2>1. kept = Slid(acc.refs, n, config.ref_frame_num)
      BY <1>1, <1>5, <1>7, OldestLeaves
    <2> HIDE DEF kept
    <2>2. CASE k < config.ref_frame_num
      <3>1. n = k /\ Held(k + 1) = k + 1
        BY <1>1, <2>2 DEF Held
      <3>2. \A i \in 1..k : (k - k) + i = i /\ ((k + 1) - (k + 1)) + i = i
        BY <1>1
      <3> QED
        BY <1>1, <1>4, <1>5, <2>1, <2>2, <3>1, <3>2 DEF Slid
    <2>3. CASE k >= config.ref_frame_num
      <3>1. n = config.ref_frame_num /\ Held(k + 1) = n /\ n - 1 \in Nat
        BY <1>1, <2>3 DEF Held
      <3>2. \A i \in 1..(n - 1) : i + 1 \in 1..n /\ (k - n) + (i + 1) = ((k + 1) - n) + i
        BY <1>1, <1>2
      <3> HIDE DEF n
      <3>3. kept = [i \in 1..(n - 1) |-> acc.refs[i + 1]]
        BY <1>2, <2>1, <3>1 DEF Slid
      <3>4. kept = [i \in 1..(n - 1) |-> Reference(((k + 1) - n) + i)]
        BY <1>4, <3>2, <3>3
      <3> QED
        BY <3>1, <3>4, FunctionIsSequence
    <2> QED
      BY <1>1, <2>2, <2>3
  <1>10. expected = k % m
    <2> HIDE DEF acc, slice
    <2>1. CASE n = 0
      <3>1. k = 0
        BY <1>1, <2>1 DEF Held
      <3> QED
        BY <1>1, <1>5, <2>1, <3>1
    <2>2. CASE n > 0
      <3>1. k > 0 /\ acc.refs # <<>> /\ k - n + n = k
        BY <1>1, <1>2, <1>5, <2>2
      <3>2. acc.refs[n] = Reference(k)
        BY <1>2, <1>4, <2>2, <3>1
      <3>3. expected = (((k - 1) % m) + 1) % m
        BY <1>5, <3>1, <3>2 DEF Reference
      <3> QED
        BY <1>1, <3>1, <3>3, NextNumber
    <2> QED
      BY <1>2, <2>1, <2>2
  <1>11. msb = 2 * k - ((2 * k) % MaxLsb)
    <2> HIDE DEF acc, slice
    <2>1. CASE k = 0
      <3>1. acc.msb = 0 /\ acc.lsb = 0 /\ (2 * k) % MaxLsb = 0 /\ 2 * k = 0
        BY <1>1, <1>4, <2>1
      <3>2. OrderCountMsb(MaxLsb, acc, 0) = 0
        BY <1>1, <3>1 DEF OrderCountMsb
      <3>3. 2 * k - ((2 * k) % MaxLsb) = 0
        BY <3>1
      <3> QED
        BY <1>3, <3>1, <3>2, <3>3, Zenon
    <2>2. CASE k > 0
      BY <1>1, <1>3, <1>4, <2>2, NextOrderCount
    <2> QED
      BY <1>1, <2>1, <2>2
  <1> DEFINE reference == [frame_num |-> slice.frame_num, pic |-> k + 1]
             picture == [order |-> msb + slice.pic_order_cnt_lsb, lost |-> slice.frame_num # expected,
                         list0 |-> list]
  <1>12. Append(kept, reference) = After(k + 1).refs
    <2> DEFINE h == Held(k + 1)
               long == After(k + 1).refs
    <2>1. h - 1 \in Nat /\ h = (h - 1) + 1
      BY <1>1 DEF Held
    <2>2. long = [i \in 1..h |-> Reference(((k + 1) - h) + i)]
      BY DEF After
    <2> HIDE DEF h, kept, long, slice
    <2>3. reference = long[h]
      <3>1. ((k + 1) - h) + h = k + 1 /\ (k + 1) - 1 = k /\ h \in 1..h
        BY <1>1, <2>1
      <3> QED
        BY <1>3, <2>2, <3>1 DEF Reference
    <2>4. kept = [i \in 1..(h - 1) |-> long[i]]
      <3>1. \A i \in 1..(h - 1) : i \in 1..h
        BY <2>1
      <3> QED
        BY <1>9, <2>2, <3>1 DEF h
    <2> HIDE DEF reference
    <2>5. long = [i \in 1..((h - 1) + 1) |-> long[i]]
      BY <2>1, <2>2
    <2>6. Append(kept, long[(h - 1) + 1]) = long
      BY <2>1, <2>4, <2>5, AppendNext
    <2> QED
      BY <2>1, <2>3, <2>6 DEF long
  <1>13. Append(acc.pics, picture) = After(k + 1).pics
    <2> DEFINE long == After(k + 1).pics
               short == acc.pics
    <2>1. long = [p \in 1..(k + 1) |-> PictureSeen(p)]
      BY DEF After
    <2> HIDE DEF list, msb, expected, acc, slice, long
    <2>2. msb + slice.pic_order_cnt_lsb = 2 * k
      BY <1>1, <1>3, <1>11
    <2>3. picture = PictureSeen(k + 1)
      <3>1. (k + 1) - 1 = k
        BY <1>1
      <3> QED
        BY <1>3, <1>8, <1>10, <2>2, <3>1 DEF PictureSeen
    <2> HIDE DEF picture
    <2>4. long = [p \in 1..(k + 1) |-> long[p]] /\ short = [p \in 1..k |-> long[p]] /\ long[k + 1] = picture
      BY <1>1, <1>4, <2>1, <2>3
    <2> HIDE DEF short
    <2>5. Append(short, long[k + 1]) = long
      BY <1>1, <2>4, AppendNext
    <2> QED
      BY <2>4, <2>5 DEF short, long
  <1>14. Receive(SPS, acc, slice)
          = [pics |-> Append(acc.pics, picture), refs |-> Append(kept, reference),
             msb |-> msb, lsb |-> slice.pic_order_cnt_lsb]
    <2> DEFINE start == IF slice.idr_pic_flag THEN [NoPictures EXCEPT !.pics = acc.pics] ELSE acc
    <2>1. start = acc
      <3> HIDE DEF acc, slice
      <3>1. k = 0 => [NoPictures EXCEPT !.pics = acc.pics] = acc
        BY <1>5, <1>6 DEF NoPictures
      <3> QED
        BY <1>3, <3>1
    <2> DEFINE from(a) ==
          [pics |-> Append(acc.pics,
                      [order |-> OrderCountMsb(MaxLsb, a, slice.pic_order_cnt_lsb) + slice.pic_order_cnt_lsb,
                       lost  |-> slice.frame_num # IF a.refs = <<>> THEN 0
                                                   ELSE (a.refs[Len(a.refs)].frame_num + 1) % m,
                       list0 |-> InitialList(m, a.refs, slice.frame_num)]),
           refs |-> Append(SlideWindow(m, SPS.max_num_ref_frames, a.refs, slice.frame_num),
                           [frame_num |-> slice.frame_num, pic |-> Len(acc.pics) + 1]),
           msb  |-> OrderCountMsb(MaxLsb, a, slice.pic_order_cnt_lsb),
           lsb  |-> slice.pic_order_cnt_lsb]
    <2>2. Receive(SPS, acc, slice) = from(start)
      <3> HIDE DEF acc, slice
      <3> QED
        BY DEF Receive, MaxNum, MaxLsb
    <2>3. SPS.max_num_ref_frames = config.ref_frame_num
      BY DEF SPS
    <2>4. from(start) = from(acc)
      <3> HIDE DEF from, start, acc
      <3> QED
        BY <2>1
    <2> HIDE DEF start, slice, acc
    <2> QED
      BY <1>5, <2>2, <2>3, <2>4, Zenon
  <1> HIDE DEF acc, slice, msb, reference, picture, kept
  <1>15. k + 1 # 0 /\ (k + 1) - 1 = k
    BY <1>1
  <1>16. Receive(SPS, acc, slice)
          = [pics |-> After(k + 1).pics, refs |-> After(k + 1).refs, msb |-> 2 * k - ((2 * k) % MaxLsb),
             lsb |-> (2 * k) % MaxLsb]
    BY <1>3, <1>11, <1>12, <1>13, <1>14
  <1> QED
    BY <1>15, <1>16 DEF After, acc, slice

-----------------------------------------------------------------------------
(* The stream in closed form: what the encoder holds and what it has        *)
(* written follow from the number of pictures it has coded.                 *)

\* Slices in the stream: one more than shown between Serial and the write to
\* reconstruct.yuv.
Written == encoded_frame_count + (IF pc = "reconstruct" THEN 1 ELSE 0)

\* Pictures in the buffer.
Buffered == encoded_frame_count + (IF pc \in {"serial", "reconstruct"} THEN 1 ELSE 0)

\* The input picture looked at: up to the first slice the one before start_frame.
TickInv ==
  /\ InSlice => m_tick = config.start_frame + encoded_frame_count /\ yuv_frame = InputPicture(m_tick)
  /\ \/ encoded_frame_count = 0 /\ m_tick <= config.start_frame
     \/ m_tick = config.start_frame + encoded_frame_count

\* Every picture is in the buffer, the newest first.
BufferInv ==
  /\ Len(frames) = encoded_frame_count + (IF InSlice THEN 1 ELSE 0)
  /\ m_frames = [i \in 1..Buffered |-> Buffered + 1 - i]

HeaderInv == InSlice => m_header = HeaderAt(encoded_frame_count)

\* All macroblocks of a slice come from one input picture.
BytesInv ==
  InSlice =>
    LET coded == IF pc = "macroblock" THEN Len(m_macroblocks) ELSE mb_num
    IN  m_bytes_data = [i \in 1..coded |-> yuv_frame]

\* The picture a slice leaves behind.
FinishedInv ==
  pc \in {"serial", "reconstruct"} =>
    \A a \in MbAddr :
      frames[Len(frames)][a] = [input |-> yuv_frame,
                                filtered |-> StandardPasses(config.width_in_mb, config.height_in_mb)[a]]

\* The samples the n-th slice is coded from.
InputAt(n) == InputPicture(config.start_frame + (n - 1))

\* What VideoSequence calls the n-th picture, and the picture shown after it.
PictureAt(n) == Sequence!Picture(n, InputAt(n))
ShownAt(n) == Sequence!Shown(InputAt(n))

\* The unit of the n-th slice, and the stream after n of them.
Unit(n) ==
  [nal |-> IF n = 1 THEN "IDR" ELSE "Slice",
   header |-> HeaderBits(HeaderAt(n - 1)),
   macroblocks |-> [i \in 1..mb_num |-> InputAt(n)]]

Stream(n) ==
  [j \in 1..(n + 2) |-> IF j = 1 THEN SPS ELSE IF j = 2 THEN PPS ELSE Unit(j - 2)]

\* The parameter sets and every slice so far.
StreamInv ==
  out_stream = IF pc \in {"prepare", "parameters", "crashed"} THEN <<>> ELSE Stream(Written)

\* The pictures in reconstruct.yuv.
ShownInv == out_handle = [n \in 1..encoded_frame_count |-> ShownAt(n)]

\* The receiver follows the stream.
ReceivedInv == received = After(Written)

\* All of it.
ClosedForm ==
  TickInv /\ BufferInv /\ HeaderInv /\ BytesInv /\ FinishedInv /\ StreamInv /\ ShownInv /\ ReceivedInv

LEMMA NewFrameType ==
  ASSUME TypeOK
  PROVE  NewFrame \in Frame
  BY SampleType DEF NewFrame, Frame

LEMMA SameLength ==
  ASSUME NEW S, NEW s \in Seq(S), NEW i, NEW e
  PROVE  Len([s EXCEPT ![i] = e]) = Len(s)
  <1>1. PICK n \in Nat : n = Len(s) /\ s \in [1..n -> S]
    BY LenProperties
  <1>2. [s EXCEPT ![i] = e] \in [1..n -> S \cup {e}]
    BY <1>1
  <1> QED
    BY <1>1, <1>2, FunctionIsSequence

\* What is computed from the configuration alone stays.
LEMMA Steady ==
  ASSUME [Next]_vars
  PROVE  /\ SPS' = SPS /\ PPS' = PPS /\ MaxNum' = MaxNum /\ MaxLsb' = MaxLsb
         /\ \A n : HeaderAt(n)' = HeaderAt(n) /\ After(n)' = After(n)
         /\ \A n : Unit(n)' = Unit(n) /\ Stream(n)' = Stream(n)
         /\ \A n : ShownAt(n)' = ShownAt(n) /\ PictureAt(n)' = PictureAt(n)
  <1>1. config' = config /\ mb_num' = mb_num
    BY ConfigFixed
  <1>2. SPS' = SPS /\ PPS' = PPS /\ MaxNum' = MaxNum /\ MaxLsb' = MaxLsb
    BY <1>1 DEF SPS, PPS, MaxNum, MaxLsb
  <1>3. \A n : Held(n)' = Held(n) /\ Reference(n)' = Reference(n)
    BY <1>1, <1>2 DEF Held, Reference
  <1>4. \A n : List0(n)' = List0(n)
    BY <1>3 DEF List0
  <1>5. \A n : PictureSeen(n)' = PictureSeen(n)
    BY <1>4 DEF PictureSeen
  <1>6. \A n : HeaderAt(n)' = HeaderAt(n) /\ After(n)' = After(n)
    BY <1>2, <1>3, <1>5 DEF HeaderAt, After
  <1>7. \A n : InputAt(n)' = InputAt(n)
    BY <1>1 DEF InputAt, InputPicture, Offset, PictureSize
  <1>8. \A n : Unit(n)' = Unit(n)
    BY <1>1, <1>2, <1>6, <1>7 DEF Unit, HeaderBits
  <1>9. \A n : Stream(n)' = Stream(n)
    BY <1>2, <1>8 DEF Stream
  <1>10. \A n : ShownAt(n)' = ShownAt(n) /\ PictureAt(n)' = PictureAt(n)
    BY <1>1, <1>7 DEF ShownAt, PictureAt, Sequence!Shown, Sequence!Picture
  <1> QED
    BY <1>2, <1>6, <1>8, <1>9, <1>10

-----------------------------------------------------------------------------
(* Every step keeps the closed form.                                        *)

LEMMA TickStep ==
  ASSUME TypeOK, Counted, TickInv, [Next]_vars
  PROVE  TickInv'
  <1>0. /\ config' = config /\ config.start_frame \in Nat
        /\ m_tick \in Nat /\ encoded_frame_count \in Nat
    BY ConfigFixed, ConfigType DEF TypeOK
  <1>a. m_tick' = m_tick => InputPicture(m_tick)' = InputPicture(m_tick)
    BY ConfigFixed DEF InputPicture, Offset, PictureSize
  <1>1. CASE PrepareContext \/ WriteParameterSets \/ OpenReconstruct
    BY <1>0, <1>1 DEF TickInv, PrepareContext, WriteParameterSets, OpenReconstruct, InSlice
  <1>2. CASE SkipFrame
    BY <1>0, <1>2 DEF TickInv, SkipFrame, AfterFrame, InSlice
  <1>3. CASE BeginSlice
    BY <1>0, <1>3, <1>a DEF TickInv, BeginSlice, InSlice
  <1>4. CASE EncodeMacroblock
    BY <1>0, <1>4, <1>a DEF TickInv, EncodeMacroblock, InSlice
  <1>5. CASE FilterVertical \/ FilterHorizontal \/ FinishSlice \/ SerialSlice
    BY <1>0, <1>5, <1>a DEF TickInv, FilterVertical, FilterHorizontal, FinishSlice, SerialSlice, sliceVars, InSlice
  <1>6. CASE WriteReconstruct
    <2>1. /\ m_tick' = m_tick + 1 /\ encoded_frame_count' = encoded_frame_count + 1
          /\ pc' \in {"frame", "done"} /\ InSlice
      BY <1>6 DEF WriteReconstruct, AfterFrame, InSlice
    <2>2. m_tick = config.start_frame + encoded_frame_count
      BY <2>1 DEF TickInv
    <2> QED
      BY <1>0, <2>1, <2>2 DEF TickInv, InSlice
  <1>7. CASE UNCHANGED vars
    BY <1>7, <1>a DEF TickInv, vars, InSlice
  <1> QED
    BY <1>1, <1>2, <1>3, <1>4, <1>5, <1>6, <1>7 DEF Next

LEMMA BufferStep ==
  ASSUME TypeOK, BufferInv, [Next]_vars
  PROVE  BufferInv'
  <1> DEFINE n == encoded_frame_count
  <1>0. n \in Nat
    BY DEF TypeOK
  <1>1. CASE PrepareContext \/ WriteParameterSets \/ OpenReconstruct \/ SkipFrame
    BY <1>0, <1>1 DEF BufferInv, Buffered, PrepareContext, WriteParameterSets, OpenReconstruct,
                      SkipFrame, AfterFrame, sliceVars, InSlice
  <1>2. CASE BeginSlice
    <2>1. Len(frames') = Len(frames) + 1
      BY <1>2, NewFrameType, AppendProperties DEF TypeOK, BeginSlice, AllocateFrame
    <2> QED
      BY <1>0, <1>2, <2>1 DEF BufferInv, Buffered, BeginSlice, InSlice
  <1>3. CASE EncodeMacroblock
    <2>1. Len(frames') = Len(frames)
      BY <1>3, SameLength DEF TypeOK, EncodeMacroblock
    <2> QED
      BY <1>0, <1>3, <2>1 DEF BufferInv, Buffered, EncodeMacroblock, InSlice
  <1>4. CASE FilterVertical \/ FilterHorizontal
    BY <1>0, <1>4 DEF BufferInv, Buffered, FilterVertical, FilterHorizontal, AfterFilter, InSlice
  <1>5. CASE FinishSlice
    <2>1. Len(frames') = Len(frames) /\ Len(frames) = n + 1
      BY <1>5, SameLength DEF TypeOK, FinishSlice, BufferInv, InSlice
    <2>2. m_frames = [i \in 1..n |-> n + 1 - i]
      BY <1>0, <1>5 DEF FinishSlice, BufferInv, Buffered
    <2>3. m_frames' = [i \in 1..(n + 1) |-> (n + 1) + 1 - i]
      <3> DEFINE T == 1..(n + 1)
      <3>1. <<n + 1>> \in Seq(T) /\ Len(<<n + 1>>) = 1 /\ <<n + 1>>[1] = n + 1
        BY <1>0
      <3>2. m_frames \in Seq(T) /\ Len(m_frames) = n
        BY <1>0, <2>2, FunctionIsSequence
      <3>3. m_frames' = <<n + 1>> \o m_frames
        BY <1>5, <2>1 DEF FinishSlice, InsertFrame
      <3>4. /\ m_frames' \in Seq(T) /\ Len(m_frames') = n + 1
            /\ \A i \in 1..(n + 1) : m_frames'[i] = IF i <= 1 THEN <<n + 1>>[i] ELSE m_frames[i - 1]
        BY <1>0, <3>1, <3>2, <3>3, ConcatProperties
      <3>5. ASSUME NEW i \in 1..(n + 1)
            PROVE  m_frames'[i] = (n + 1) + 1 - i
        <4>1. CASE i = 1
          BY <1>0, <3>1, <3>4, <4>1
        <4>2. CASE i > 1
          <5>1. i - 1 \in 1..n /\ ~(i <= 1) /\ n + 1 - (i - 1) = (n + 1) + 1 - i
            BY <1>0, <4>2
          <5> QED
            BY <2>2, <3>4, <5>1
        <4> QED
          BY <1>0, <4>1, <4>2
      <3>6. m_frames' = [i \in 1..(n + 1) |-> m_frames'[i]]
        BY <3>4, LenProperties
      <3> QED
        BY <3>5, <3>6
    <2> QED
      BY <1>0, <1>5, <2>1, <2>3 DEF BufferInv, Buffered, FinishSlice, InSlice
  <1>6. CASE SerialSlice
    BY <1>0, <1>6 DEF BufferInv, Buffered, SerialSlice, sliceVars, InSlice
  <1>7. CASE WriteReconstruct
    BY <1>0, <1>7 DEF BufferInv, Buffered, WriteReconstruct, AfterFrame, sliceVars, InSlice
  <1>8. CASE UNCHANGED vars
    BY <1>8 DEF BufferInv, Buffered, vars, InSlice
  <1> QED
    BY <1>1, <1>2, <1>3, <1>4, <1>5, <1>6, <1>7, <1>8 DEF Next

LEMMA HeaderStep ==
  ASSUME TypeOK, BufferInv, HeaderInv, [Next]_vars
  PROVE  HeaderInv'
  <1> DEFINE n == encoded_frame_count
  <1>0. n \in Nat /\ \A k : HeaderAt(k)' = HeaderAt(k)
    BY Steady DEF TypeOK
  <1>1. CASE PrepareContext \/ WriteParameterSets \/ OpenReconstruct \/ SkipFrame \/ WriteReconstruct
    BY <1>1 DEF HeaderInv, PrepareContext, WriteParameterSets, OpenReconstruct,
                SkipFrame, WriteReconstruct, AfterFrame, InSlice
  <1>2. CASE BeginSlice
    <2>1. Len(m_frames) = n
      <3>1. m_frames = [i \in 1..n |-> n + 1 - i]
        BY <1>0, <1>2 DEF BeginSlice, BufferInv, Buffered
      <3> QED
        BY <1>0, <3>1, LenProperties DEF TypeOK
    <2>2. m_header' = HeaderAt(n)
      BY <1>2, <2>1 DEF BeginSlice, SliceHeader, DecideSliceType, HeaderAt, MaxLsb
    <2> QED
      BY <1>0, <1>2, <2>2 DEF BeginSlice, HeaderInv
  <1>3. CASE EncodeMacroblock \/ FilterVertical \/ FilterHorizontal \/ FinishSlice \/ SerialSlice
    <2>1. m_header' = m_header /\ encoded_frame_count' = encoded_frame_count /\ InSlice
      BY <1>3 DEF EncodeMacroblock, FilterVertical, FilterHorizontal, FinishSlice, SerialSlice,
                  sliceVars, InSlice
    <2> QED
      BY <1>0, <2>1 DEF HeaderInv
  <1>4. CASE UNCHANGED vars
    BY <1>0, <1>4 DEF HeaderInv, vars, InSlice
  <1> QED
    BY <1>1, <1>2, <1>3, <1>4 DEF Next

LEMMA BytesStep ==
  ASSUME TypeOK, BytesInv, [Next]_vars
  PROVE  BytesInv'
  <1>0. mb_num' = mb_num /\ mb_num \in Nat
    BY ConfigFixed, MbNumType
  <1>1. CASE PrepareContext \/ WriteParameterSets \/ OpenReconstruct \/ SkipFrame \/ WriteReconstruct
    BY <1>1 DEF BytesInv, PrepareContext, WriteParameterSets, OpenReconstruct,
                SkipFrame, WriteReconstruct, AfterFrame, InSlice
  <1>2. CASE BeginSlice
    <2>1. pc' = "macroblock" /\ Len(m_macroblocks') = 0 /\ m_bytes_data' = <<>>
      BY <1>2, EmptySeq DEF BeginSlice
    <2> QED
      BY <2>1 DEF BytesInv
  <1>3. CASE EncodeMacroblock
    <2> DEFINE n == Len(m_macroblocks)
               long == [i \in 1..(n + 1) |-> yuv_frame]
               short == [i \in 1..n |-> yuv_frame]
    <2>1. n \in Nat /\ Len(m_macroblocks') = n + 1
      BY <1>3, SampleType, LenProperties, AppendProperties DEF TypeOK, EncodeMacroblock, PushBack
    <2>2. m_bytes_data = short
      BY <1>3 DEF BytesInv, EncodeMacroblock, InSlice
    <2>3. Append(short, long[n + 1]) = long
      <3>1. long = [i \in 1..(n + 1) |-> long[i]] /\ short = [i \in 1..n |-> long[i]]
        BY <2>1
      <3> HIDE DEF long, short
      <3> QED
        BY <2>1, <3>1, AppendNext
    <2>4. m_bytes_data' = long
      <3>1. long[n + 1] = yuv_frame
        BY <2>1
      <3>2. m_bytes_data' = Append(m_bytes_data, yuv_frame)
        BY <1>3 DEF EncodeMacroblock
      <3> HIDE DEF long, short
      <3> QED
        BY <2>2, <2>3, <3>1, <3>2
    <2>5. /\ yuv_frame' = yuv_frame
          /\ n + 1 = mb_num => pc' = "vertical"
          /\ n + 1 # mb_num => pc' = "macroblock"
      BY <1>3 DEF EncodeMacroblock
    <2> QED
      BY <1>0, <2>1, <2>4, <2>5 DEF BytesInv
  <1>4. CASE FilterVertical \/ FilterHorizontal \/ FinishSlice \/ SerialSlice
    <2>1. /\ m_bytes_data' = m_bytes_data /\ yuv_frame' = yuv_frame
          /\ InSlice /\ pc # "macroblock" /\ pc' # "macroblock"
      BY <1>4 DEF FilterVertical, FilterHorizontal, AfterFilter, FinishSlice, SerialSlice,
                  sliceVars, InSlice
    <2> QED
      BY <1>0, <2>1 DEF BytesInv
  <1>5. CASE UNCHANGED vars
    BY <1>0, <1>5 DEF BytesInv, vars, InSlice
  <1> QED
    BY <1>1, <1>2, <1>3, <1>4, <1>5 DEF Next

LEMMA FinishedStep ==
  ASSUME IInv, FinishedInv, [Next]_vars
  PROVE  FinishedInv'
  <1>0. config' = config /\ MbAddr' = MbAddr
    BY ConfigFixed
  <1>1. CASE PrepareContext \/ WriteParameterSets \/ OpenReconstruct \/ SkipFrame \/ BeginSlice
               \/ EncodeMacroblock \/ FilterVertical \/ FilterHorizontal \/ WriteReconstruct
    BY <1>1 DEF FinishedInv, PrepareContext, WriteParameterSets, OpenReconstruct, SkipFrame, BeginSlice,
                EncodeMacroblock, FilterVertical, FilterHorizontal, AfterFilter, WriteReconstruct, AfterFrame
  <1>2. CASE FinishSlice
    <2>1. Len(frames') = Len(frames) /\ yuv_frame' = yuv_frame
      BY <1>2, SameLength DEF IInv, TypeOK, FinishSlice
    <2>2. \A a \in MbAddr :
            frames'[Len(frames)][a] =
              [input |-> yuv_frame,
               filtered |-> StandardPasses(config.width_in_mb, config.height_in_mb)[a]]
      BY <1>2, FinishedFrame
    <2> QED
      BY <1>0, <2>1, <2>2 DEF FinishedInv
  <1>3. CASE SerialSlice
    <2>1. pc = "serial" /\ frames' = frames /\ yuv_frame' = yuv_frame
      BY <1>3 DEF SerialSlice, sliceVars
    <2> QED
      BY <1>0, <2>1 DEF FinishedInv
  <1>4. CASE UNCHANGED vars
    BY <1>0, <1>4 DEF FinishedInv, vars
  <1> QED
    BY <1>1, <1>2, <1>3, <1>4 DEF Next

\* Appending the next unit.
LEMMA StreamGrows ==
  ASSUME NEW n \in Nat
  PROVE  Append(Stream(n), Unit(n + 1)) = Stream(n + 1)
  <1> DEFINE long == Stream(n + 1)
             short == Stream(n)
             k == n + 2
  <1>1. k \in Nat /\ (n + 1) + 2 = k + 1
    OBVIOUS
  <1>2. long = [j \in 1..(k + 1) |-> IF j = 1 THEN SPS ELSE IF j = 2 THEN PPS ELSE Unit(j - 2)]
    BY <1>1 DEF Stream
  <1>3. short = [j \in 1..k |-> IF j = 1 THEN SPS ELSE IF j = 2 THEN PPS ELSE Unit(j - 2)]
    BY DEF Stream
  <1>4. k + 1 # 1 /\ k + 1 # 2 /\ (k + 1) - 2 = n + 1 /\ k + 1 \in 1..(k + 1)
    OBVIOUS
  <1> HIDE DEF long, short, k
  <1>5. long[k + 1] = Unit(n + 1)
    BY <1>2, <1>4
  <1>6. long = [j \in 1..(k + 1) |-> long[j]] /\ short = [j \in 1..k |-> long[j]]
    BY <1>1, <1>2, <1>3
  <1>7. Append(short, long[k + 1]) = long
    BY <1>1, <1>6, AppendNext
  <1> QED
    BY <1>5, <1>7 DEF long, short

LEMMA StreamStep ==
  ASSUME TypeOK, Counted, TickInv, HeaderInv, BytesInv, StreamInv, [Next]_vars
  PROVE  StreamInv'
  <1> DEFINE n == encoded_frame_count
  <1>0. n \in Nat /\ \A k : Stream(k)' = Stream(k)
    BY Steady DEF TypeOK
  <1>1. CASE PrepareContext
    BY <1>0, <1>1 DEF StreamInv, PrepareContext
  <1>2. CASE WriteParameterSets
    <2>1. pc' = "open" /\ n = 0 /\ encoded_frame_count' = n /\ out_stream' = <<SPS, PPS>>
      BY <1>2 DEF Counted, WriteParameterSets
    <2>2. Stream(0) = <<SPS, PPS>>
      <3>1. Stream(0) = [j \in 1..2 |-> IF j = 1 THEN SPS ELSE IF j = 2 THEN PPS ELSE Unit(j - 2)]
        BY DEF Stream
      <3>2. Stream(0) = [j \in 1..2 |-> IF j = 1 THEN SPS ELSE PPS]
        BY <3>1
      <3> QED
        BY <3>2
    <2>3. Written' = 0
      BY <2>1 DEF Written
    <2> QED
      BY <1>0, <2>1, <2>2, <2>3 DEF StreamInv
  <1>3. CASE OpenReconstruct \/ SkipFrame \/ BeginSlice \/ EncodeMacroblock \/ FilterVertical
               \/ FilterHorizontal \/ FinishSlice \/ UNCHANGED vars
    <2>1. out_stream' = out_stream /\ encoded_frame_count' = encoded_frame_count
      BY <1>3 DEF OpenReconstruct, SkipFrame, BeginSlice, EncodeMacroblock, FilterVertical,
                  FilterHorizontal, FinishSlice, vars
    <2>2. /\ pc' = "reconstruct" <=> pc = "reconstruct"
          /\ pc' \in {"prepare", "parameters", "crashed"} <=> pc \in {"prepare", "parameters", "crashed"}
      BY <1>3 DEF OpenReconstruct, SkipFrame, AfterFrame, BeginSlice, EncodeMacroblock, FilterVertical,
                  FilterHorizontal, AfterFilter, FinishSlice, vars
    <2> QED
      BY <1>0, <2>1, <2>2 DEF StreamInv, Written
  <1>4. CASE SerialSlice
    <2>1. /\ pc = "serial" /\ pc' = "reconstruct" /\ encoded_frame_count' = n
          /\ out_stream' = Append(out_stream,
                             [nal |-> IF m_header.tick = 0 THEN "IDR" ELSE "Slice",
                              header |-> HeaderBits(m_header),
                              macroblocks |-> m_bytes_data])
      BY <1>4 DEF SerialSlice
    <2>2. out_stream = Stream(n) /\ InSlice
      BY <1>0, <2>1 DEF StreamInv, Written, InSlice
    <2>3. m_header = HeaderAt(n) /\ m_header.tick = n
      BY <2>2 DEF HeaderInv, HeaderAt
    <2>4. m_bytes_data = [i \in 1..mb_num |-> InputPicture(config.start_frame + n)]
      BY <2>1, <2>2 DEF BytesInv, TickInv
    <2>5. out_stream' = Append(Stream(n), Unit(n + 1))
      <3>1. (n + 1) - 1 = n /\ (n + 1 = 1 <=> n = 0)
        BY <1>0
      <3>2. Unit(n + 1) = [nal |-> IF n = 0 THEN "IDR" ELSE "Slice",
                           header |-> HeaderBits(HeaderAt(n)),
                           macroblocks |-> [i \in 1..mb_num |-> InputPicture(config.start_frame + n)]]
        BY <3>1 DEF Unit, InputAt
      <3> QED
        BY <2>1, <2>2, <2>3, <2>4, <3>2
    <2>6. out_stream' = Stream(n + 1) /\ Written' = n + 1
      BY <1>0, <2>1, <2>5, StreamGrows DEF Written
    <2> QED
      BY <1>0, <2>1, <2>6 DEF StreamInv
  <1>5. CASE WriteReconstruct
    <2>1. pc = "reconstruct" /\ pc' \in {"frame", "done"} /\ encoded_frame_count' = n + 1
          /\ out_stream' = out_stream
      BY <1>5 DEF WriteReconstruct, AfterFrame
    <2>2. Written = n + 1 /\ Written' = n + 1
      BY <1>0, <2>1 DEF Written
    <2> QED
      BY <1>0, <2>1, <2>2 DEF StreamInv
  <1> QED
    BY <1>1, <1>2, <1>3, <1>4, <1>5 DEF Next

\* The picture WriteReconstruct writes.
LEMMA ShownPicture ==
  ASSUME TypeOK, TickInv, FinishedInv, pc = "reconstruct"
  PROVE  frames[Len(frames)] = ShownAt(encoded_frame_count + 1)
  <1> DEFINE n == encoded_frame_count
             passes == StandardPasses(config.width_in_mb, config.height_in_mb)
  <1>1. n \in Nat /\ (n + 1) - 1 = n /\ InSlice
    BY DEF TypeOK, InSlice
  <1>2. Len(frames) \in 1..Len(frames)
    BY <1>1, LenProperties, EmptySeq DEF TypeOK
  <1>3. frames[Len(frames)] \in [MbAddr -> MbSample]
    BY <1>2, ElementOfSeq DEF TypeOK, Frame
  <1>4. yuv_frame = InputPicture(config.start_frame + n)
    BY <1>1 DEF TickInv
  <1>5. \A a \in MbAddr : frames[Len(frames)][a] = [input |-> InputPicture(config.start_frame + n),
                                                    filtered |-> passes[a]]
    BY <1>4 DEF FinishedInv
  <1>6. DOMAIN passes = MbAddr
    BY DEF StandardPasses, MbAddr, mb_num
  <1>7. ShownAt(n + 1) = [a \in MbAddr |-> [input |-> InputPicture(config.start_frame + n),
                                                   filtered |-> passes[a]]]
    <2> HIDE DEF n
    <2> QED
      BY <1>1, <1>6 DEF ShownAt, InputAt, Sequence!Shown
  <1> HIDE DEF passes
  <1> QED
    BY <1>3, <1>5, <1>7

LEMMA ShownStep ==
  ASSUME TypeOK, TickInv, FinishedInv, ShownInv, [Next]_vars
  PROVE  ShownInv'
  <1> DEFINE n == encoded_frame_count
  <1>0. n \in Nat /\ \A k : ShownAt(k)' = ShownAt(k)
    BY Steady DEF TypeOK
  <1>1. CASE WriteReconstruct
    <2>1. /\ pc = "reconstruct" /\ encoded_frame_count' = n + 1
          /\ out_handle' = Append(out_handle, frames[Len(frames)])
      BY <1>1 DEF WriteReconstruct
    <2> DEFINE long == [k \in 1..(n + 1) |-> ShownAt(k)]
               short == [k \in 1..n |-> ShownAt(k)]
    <2>2. long = [k \in 1..(n + 1) |-> long[k]] /\ short = [k \in 1..n |-> long[k]]
          /\ long[n + 1] = ShownAt(n + 1)
      BY <1>0
    <2>3. out_handle = short
      BY DEF ShownInv
    <2> HIDE DEF long, short
    <2>4. Append(short, long[n + 1]) = long
      BY <1>0, <2>2, AppendNext
    <2>5. out_handle' = long
      BY <2>1, <2>2, <2>3, <2>4, ShownPicture
    <2> QED
      BY <1>0, <2>1, <2>5 DEF ShownInv, long
  <1>2. CASE PrepareContext \/ WriteParameterSets \/ OpenReconstruct \/ SkipFrame \/ BeginSlice
               \/ EncodeMacroblock \/ FilterVertical \/ FilterHorizontal \/ FinishSlice \/ SerialSlice
               \/ UNCHANGED vars
    <2>1. out_handle' = out_handle /\ encoded_frame_count' = encoded_frame_count
      BY <1>2 DEF PrepareContext, WriteParameterSets, OpenReconstruct, SkipFrame, BeginSlice,
                  EncodeMacroblock, FilterVertical, FilterHorizontal, FinishSlice, SerialSlice, vars
    <2> QED
      BY <1>0, <2>1 DEF ShownInv
  <1> QED
    BY <1>1, <1>2 DEF Next

\* A slice is only begun for a picture that was asked for.
LEMMA InCoding ==
  ASSUME TypeOK, Counted, InSlice
  PROVE  Coding(encoded_frame_count)
  BY DEF TypeOK, Counted, Coding

LEMMA ReceivedStep ==
  ASSUME TypeOK, Counted, HeaderInv, StreamInv, ReceivedInv, [StreamNext]_<<vars, received>>
  PROVE  ReceivedInv'
  <1> DEFINE n == encoded_frame_count
  <1>0. n \in Nat /\ \A k : After(k)' = After(k)
    BY Steady DEF TypeOK, StreamNext
  <1>1. CASE SerialSlice /\ StreamNext
    <2>1. /\ pc = "serial" /\ pc' = "reconstruct" /\ encoded_frame_count' = n
          /\ received' = Receive(out_stream[1], received, HeaderBits(m_header))
      BY <1>1 DEF SerialSlice, StreamNext
    <2>2. Written = n /\ Written' = n + 1 /\ InSlice
      BY <1>0, <2>1 DEF Written, InSlice
    <2>3. out_stream[1] = SPS
      <3>1. out_stream = Stream(n) /\ 1 \in 1..(n + 2)
        BY <1>0, <2>1, <2>2 DEF StreamInv
      <3> QED
        BY <3>1 DEF Stream
    <2>4. m_header = HeaderAt(n) /\ received = After(n)
      BY <2>2 DEF HeaderInv, ReceivedInv
    <2>5. received' = After(n + 1)
      BY <2>1, <2>2, <2>3, <2>4, InCoding, ReceivesNext
    <2> QED
      BY <1>0, <2>2, <2>5 DEF ReceivedInv
  <1>2. CASE (Next /\ ~SerialSlice) /\ StreamNext
    <2>1. received' = received
      BY <1>2 DEF StreamNext, Next, PrepareContext, WriteParameterSets, OpenReconstruct, SkipFrame,
                  BeginSlice, EncodeMacroblock, FilterVertical, FilterHorizontal, FinishSlice, WriteReconstruct
    <2>2. Written' = Written
      BY <1>0, <1>2 DEF Written, Next, PrepareContext, WriteParameterSets, OpenReconstruct, SkipFrame,
                        AfterFrame, BeginSlice, EncodeMacroblock, FilterVertical, FilterHorizontal,
                        AfterFilter, FinishSlice, WriteReconstruct
    <2> QED
      BY <1>0, <2>1, <2>2 DEF ReceivedInv
  <1>3. CASE UNCHANGED <<vars, received>>
    BY <1>0, <1>3 DEF ReceivedInv, Written, vars
  <1> QED
    BY <1>1, <1>2, <1>3 DEF StreamNext

-----------------------------------------------------------------------------
(* The invariant of the stream.                                            *)

\* The initial state.
LEMMA InitClosedForm == StreamInit => ClosedForm
  <1> SUFFICES ASSUME StreamInit
               PROVE  ClosedForm
    OBVIOUS
  <1>1. /\ Init /\ received = NoPictures /\ pc = "prepare" /\ encoded_frame_count = 0
        /\ m_tick = 0 /\ frames = <<>> /\ m_frames = <<>> /\ out_stream = <<>> /\ out_handle = <<>>
        /\ config \in Config
    BY DEF StreamInit, Init
  <1>2. config.start_frame \in Nat /\ config.ref_frame_num \in Nat \ {0}
    BY <1>1, ConfigAssumption
  <1>3. ~InSlice /\ Written = 0 /\ Buffered = 0
    BY <1>1 DEF InSlice, Written, Buffered
  <1>4. TickInv
    BY <1>1, <1>2, <1>3 DEF TickInv
  <1>5. BufferInv
    BY <1>1, <1>3, EmptySeq DEF BufferInv
  <1>6. HeaderInv /\ BytesInv /\ FinishedInv /\ StreamInv
    BY <1>1, <1>3 DEF HeaderInv, BytesInv, FinishedInv, StreamInv
  <1>7. ShownInv
    BY <1>1 DEF ShownInv
  <1>8. ReceivedInv
    <2>1. Held(0) = 0
      BY <1>2 DEF Held
    <2>2. After(0) = [pics |-> <<>>, refs |-> <<>>, msb |-> 0, lsb |-> 0]
      BY <2>1 DEF After
    <2> QED
      BY <1>1, <1>3, <2>2 DEF ReceivedInv, NoPictures
  <1> QED
    BY <1>4, <1>5, <1>6, <1>7, <1>8 DEF ClosedForm

\* With the invariants of the encoder each part follows from those before it.
FullInv == IInv /\ Counted /\ ClosedForm

LEMMA FullStep ==
  ASSUME FullInv, [StreamNext]_<<vars, received>>
  PROVE  FullInv'
  <1>1. [Next]_vars
    BY DEF StreamNext
  <1>2. TypeOK /\ IInv /\ Counted /\ TickInv /\ BufferInv /\ HeaderInv /\ BytesInv /\ FinishedInv
        /\ StreamInv /\ ShownInv /\ ReceivedInv
    BY DEF FullInv, ClosedForm, IInv
  <1>3. IInv' /\ Counted'
    BY <1>1, <1>2, NextIInv, CountedStep
  <1>4. TickInv' /\ BufferInv' /\ HeaderInv' /\ BytesInv'
    BY <1>1, <1>2, TickStep, BufferStep, HeaderStep, BytesStep
  <1>5. FinishedInv' /\ StreamInv' /\ ShownInv' /\ ReceivedInv'
    BY <1>1, <1>2, FinishedStep, StreamStep, ShownStep, ReceivedStep
  <1> QED
    BY <1>3, <1>4, <1>5 DEF FullInv, ClosedForm

\* After n pictures the encoder's buffer, the stream, the reconstruction file
\* and a receiver hold exactly what n says (Encoder::Encode, Slice::Encode,
\* Slice::Serial, Dpb::InsertFrame).
THEOREM StreamFollowsCount == StreamSpec => []FullInv
  <1>1. StreamInit => FullInv
    BY InitIInv, InitCounted, InitClosedForm DEF FullInv, StreamInit
  <1> QED
    BY <1>1, FullStep, PTL DEF StreamSpec

-----------------------------------------------------------------------------
(* The receiver's references.                                              *)

\* The pictures motion search finds at reference ids below max_num_ref_frames
\* (Dpb::GetFrame) are those a receiver has in its list at the same indices,
\* and the slice header announces as many as the encoder searches, for every
\* configuration: also when frame_num wraps in its field.
THEOREM SharesReferences == StreamSpec => []ReceiverSharesReferences
  <1>1. FullInv => ReceiverSharesReferences
    <2> SUFFICES ASSUME FullInv, pc = "macroblock", m_header.slice_type = "P"
                 PROVE  /\ HeaderBits(m_header).active_list0_ref_num = Len(m_frames)
                        /\ \A i \in 1..Len(m_frames) : i <= config.ref_frame_num =>
                             /\ i <= Len(ReceivedCurrent.list0)
                             /\ ReceivedCurrent.list0[i] = m_frames[i]
      BY DEF ReceiverSharesReferences
    <2> DEFINE k == encoded_frame_count
    <2>1. TypeOK /\ Counted /\ BufferInv /\ HeaderInv /\ ReceivedInv /\ InSlice
      BY DEF FullInv, ClosedForm, IInv, InSlice
    <2>2. k \in Nat /\ Coding(k) /\ config.ref_frame_num \in Nat
      BY <2>1, InCoding, ConfigAssumption DEF TypeOK
    <2>3. Buffered = k /\ Written = k
      BY <2>2 DEF Buffered, Written
    <2> HIDE DEF k
    <2>4. m_frames = [i \in 1..k |-> k + 1 - i] /\ Len(m_frames) = k
      BY <2>1, <2>2, <2>3, LenProperties DEF BufferInv, TypeOK
    <2>5. m_header = HeaderAt(k) /\ received = After(k)
      BY <2>1, <2>3 DEF HeaderInv, ReceivedInv, k
    <2>6. HeaderBits(m_header).active_list0_ref_num = k
      BY <2>5 DEF HeaderBits, HeaderAt
    <2>7. Receive(SPS, received, HeaderBits(m_header)) = After(k + 1)
      BY <2>2, <2>5, ReceivesNext
    <2>8. received.pics = [p \in 1..k |-> PictureSeen(p)] /\ Len(received.pics) = k
      <3>1. received.pics = [p \in 1..k |-> PictureSeen(p)]
        BY <2>5 DEF After
      <3>2. received.pics \in [1..k -> {PictureSeen(p) : p \in 1..k}]
        BY <3>1
      <3> QED
        BY <2>2, <3>1, <3>2, FunctionIsSequence
    <2>9. ReceivedCurrent = PictureSeen(k + 1)
      <3>1. After(k + 1).pics = [p \in 1..(k + 1) |-> PictureSeen(p)]
        BY DEF After
      <3>2. ReceivedCurrent = After(k + 1).pics[k + 1]
        BY <2>7, <2>8 DEF ReceivedCurrent
      <3> QED
        BY <2>2, <3>1, <3>2
    <2>10. ReceivedCurrent.list0 = List0(k)
      BY <2>2, <2>9 DEF PictureSeen
    <2>11. Held(k) \in Nat /\ Len(List0(k)) = Held(k)
      <3>1. Held(k) \in Nat
        BY <2>2 DEF Held
      <3>2. List0(k) \in [1..Held(k) -> Int]
        BY <2>2 DEF List0
      <3> QED
        BY <3>1, <3>2, FunctionIsSequence
    <2>12. ASSUME NEW i \in 1..k, i <= config.ref_frame_num
           PROVE  i <= Len(ReceivedCurrent.list0) /\ ReceivedCurrent.list0[i] = m_frames[i]
      <3>1. i \in 1..Held(k)
        BY <2>2, <2>12 DEF Held
      <3> QED
        BY <2>4, <2>10, <2>11, <3>1 DEF List0
    <2> QED
      BY <2>4, <2>6, <2>12
  <1> QED
    BY <1>1, StreamFollowsCount, PTL

-----------------------------------------------------------------------------
(* The stream and the file as a video sequence.                            *)

\* What VideoSequence calls coded.
CodedInv == Coded = [n \in 1..Written |-> PictureAt(n)]

\* The slice units of a stream of n pictures.
LEMMA UnitsAfterParameterSets ==
  ASSUME NEW n \in Nat, out_stream = Stream(n)
  PROVE  DOMAIN SliceUnits = 1..n /\ \A i \in 1..n : SliceUnits[i] = Unit(i)
  <1> DEFINE k == n + 2
             S == {Stream(n)[j] : j \in 1..k}
  <1>1. Stream(n) = [j \in 1..k |-> IF j = 1 THEN SPS ELSE IF j = 2 THEN PPS ELSE Unit(j - 2)]
    BY DEF Stream
  <1>2. k \in Nat /\ k - 3 + 1 = n /\ (3 <= k <=> n > 0)
    OBVIOUS
  <1>3. Stream(n) \in [1..k -> S]
    BY <1>1
  <1> HIDE DEF k
  <1>4. Len(Stream(n)) = k
    <2> HIDE DEF S
    <2> QED
      BY <1>2, <1>3, FunctionIsSequence
  <1>5. \A j \in 3..k : Stream(n)[j] \in S
    BY <1>2
  <1>6. /\ SliceUnits \in Seq(S)
        /\ Len(SliceUnits) = IF 3 <= k THEN k - 3 + 1 ELSE 0
        /\ \A i \in 1..(k - 3 + 1) : SliceUnits[i] = Stream(n)[3 + i - 1]
    <2> HIDE DEF S
    <2>1. SliceUnits = SubSeq(Stream(n), 3, k)
      BY <1>4 DEF SliceUnits
    <2> QED
      BY <1>2, <1>5, <2>1, SubSeqProperties
  <1>7. Len(SliceUnits) = n
    BY <1>2, <1>6
  <1>8. ASSUME NEW i \in 1..n
        PROVE  SliceUnits[i] = Unit(i)
    <2>1. 3 + i - 1 \in 1..k /\ 3 + i - 1 # 1 /\ 3 + i - 1 # 2 /\ (3 + i - 1) - 2 = i
      BY DEF k
    <2>2. SliceUnits[i] = Stream(n)[3 + i - 1]
      BY <1>2, <1>6
    <2> QED
      BY <1>1, <2>1, <2>2
  <1> QED
    BY <1>6, <1>7, <1>8, LenProperties

\* All macroblocks of a unit are those of its input picture.
LEMMA UnitInput ==
  ASSUME TypeOK, NEW n \in Nat
  PROVE  SliceInput(Unit(n)) = InputAt(n)
  <1> DEFINE mbs == Unit(n).macroblocks
             input == InputAt(n)
  <1>1. mb_num \in Nat /\ 1 \in 1..mb_num
    BY MbNumType
  <1>2. mbs = [i \in 1..mb_num |-> input]
    BY DEF Unit
  <1>3. mbs \in [1..mb_num -> {input}]
    BY <1>2
  <1> HIDE DEF mbs, input
  <1>4. Len(mbs) = mb_num
    BY <1>1, <1>3, FunctionIsSequence
  <1> QED
    BY <1>1, <1>2, <1>4 DEF SliceInput, mbs, input

LEMMA CodedFollows ==
  ASSUME FullInv
  PROVE  CodedInv
  <1> DEFINE n == Written
             picture(i) == [input |-> SliceInput(SliceUnits[i]), order |-> received.pics[i].order,
                            lost |-> received.pics[i].lost,
                            intra |-> SliceUnits[i].header.slice_type = "I"]
  <1>1. TypeOK /\ Counted /\ StreamInv /\ ReceivedInv
    BY DEF FullInv, ClosedForm, IInv
  <1>2. n \in Nat
    BY <1>1 DEF TypeOK, Written
  <1>3. Coded = [i \in DOMAIN SliceUnits |-> picture(i)]
    BY DEF Coded
  <1>4. CASE pc \in {"prepare", "parameters", "crashed"}
    <2>1. out_stream = <<>> /\ n = 0
      BY <1>1, <1>4 DEF StreamInv, Counted, Written
    <2>2. SliceUnits = <<>>
      <3>1. Len(out_stream) = 0
        BY <2>1, EmptySeq
      <3> QED
        BY <3>1, SubSeqEmpty DEF SliceUnits
    <2>3. DOMAIN SliceUnits = 1..0
      BY <2>2
    <2> HIDE DEF n, picture
    <2> QED
      BY <1>3, <2>1, <2>3 DEF CodedInv, n
  <1>5. CASE pc \notin {"prepare", "parameters", "crashed"}
    <2>1. out_stream = Stream(n) /\ received = After(n)
      BY <1>1, <1>5 DEF StreamInv, ReceivedInv
    <2> HIDE DEF n
    <2>2. DOMAIN SliceUnits = 1..n /\ \A i \in 1..n : SliceUnits[i] = Unit(i)
      BY <1>2, <2>1, UnitsAfterParameterSets
    <2>3. received.pics = [p \in 1..n |-> PictureSeen(p)]
      BY <2>1 DEF After
    <2>4. ASSUME NEW i \in 1..n
          PROVE  picture(i) = PictureAt(i)
      <3>1. i \in Nat /\ (i = 1 <=> i - 1 = 0)
        BY <1>2
      <3>2. SliceInput(SliceUnits[i]) = InputAt(i)
        BY <1>1, <2>2, <3>1, UnitInput
      <3>3. received.pics[i].order = 2 * (i - 1) /\ received.pics[i].lost = FALSE
        BY <2>3 DEF PictureSeen
      <3>4. (SliceUnits[i].header.slice_type = "I") = (i = 1)
        BY <2>2, <3>1 DEF Unit, HeaderBits, HeaderAt
      <3> QED
        BY <3>2, <3>3, <3>4 DEF PictureAt, Sequence!Picture
    <2> HIDE DEF picture
    <2> QED
      BY <1>3, <2>2, <2>4 DEF CodedInv, n
  <1> QED
    BY <1>4, <1>5

-----------------------------------------------------------------------------
(* Each step of the stream is one of VideoSequence or none.                 *)

LEMMA InitMaps == StreamInit /\ CodedInv => Sequence!Init
  <1> SUFFICES ASSUME StreamInit, CodedInv
               PROVE  Sequence!Init
    OBVIOUS
  <1>1. Written = 0 /\ out_handle = <<>>
    BY DEF StreamInit, Init, Written
  <1>2. Coded = <<>>
    BY <1>1 DEF CodedInv
  <1> QED
    BY <1>1, <1>2 DEF Sequence!Init

\* Slice::Serial is CodePicture.
LEMMA SerialCodes ==
  ASSUME FullInv, CodedInv, CodedInv', SerialSlice
  PROVE  Sequence!CodePicture
  <1> DEFINE n == encoded_frame_count
             long == [i \in 1..(n + 1) |-> PictureAt(i)]
             short == [i \in 1..n |-> PictureAt(i)]
  <1>1. [Next]_vars /\ TypeOK /\ Counted /\ n \in Nat /\ config.frames_to_encode \in Nat
    BY ConfigType DEF FullInv, IInv, TypeOK, Next
  <1>2. /\ pc = "serial" /\ pc' = "reconstruct" /\ encoded_frame_count' = n
        /\ config' = config /\ out_handle' = out_handle
    BY DEF SerialSlice
  <1>3. Written = n /\ Written' = n + 1
    BY <1>1, <1>2 DEF Written
  <1>4. Coded = short /\ Coded' = long
    <2>1. Coded = short
      BY <1>3 DEF CodedInv
    <2>2. \A i : PictureAt(i)' = PictureAt(i)
      BY <1>1, Steady
    <2>3. Coded' = [i \in 1..Written' |-> PictureAt(i)']
      BY DEF CodedInv
    <2>4. Coded' = long
      BY <1>3, <2>2, <2>3
    <2> QED
      BY <2>1, <2>4
  <1>5. long = [i \in 1..(n + 1) |-> long[i]] /\ short = [i \in 1..n |-> long[i]]
        /\ long[n + 1] = PictureAt(n + 1)
        /\ short \in [1..n -> {PictureAt(i) : i \in 1..n}]
    BY <1>1
  <1>6. Len(out_handle) = n /\ (config.frames_to_encode = 0 \/ n < config.frames_to_encode)
    BY <1>1, <1>2 DEF Counted, InSlice
  <1> HIDE DEF n, long, short
  <1>7. Len(short) = n /\ Append(short, long[n + 1]) = long
    BY <1>1, <1>5, FunctionIsSequence, AppendNext
  <1>8. Coded' = Append(Coded, PictureAt(Len(Coded) + 1))
    BY <1>4, <1>5, <1>7
  <1>9. InputAt(Len(Coded) + 1) \in Sequence!Inputs(Len(Coded) + 1)
    <2>1. config.start_frame + n \in Nat /\ (n + 1) - 1 = n
      BY <1>1, ConfigType
    <2>2. InputPicture(config.start_frame + n) \in SamplesOf(mb_num, config.start_frame + n)
      BY <1>1, <2>1, SamplesRead
    <2> QED
      BY <1>4, <1>7, <2>1, <2>2 DEF InputAt, Sequence!Inputs, mb_num
  <1> QED
    BY <1>2, <1>4, <1>6, <1>7, <1>8, <1>9 DEF PictureAt, Sequence!CodePicture, Sequence!Requested

\* Writing reconstruct.yuv is ShowPicture.
LEMMA WriteShows ==
  ASSUME FullInv, CodedInv, CodedInv', WriteReconstruct
  PROVE  Sequence!ShowPicture
  <1> DEFINE n == encoded_frame_count
  <1>1. [Next]_vars /\ TypeOK /\ Counted /\ TickInv /\ FinishedInv /\ n \in Nat
    BY DEF FullInv, ClosedForm, IInv, TypeOK, Next
  <1>2. /\ pc = "reconstruct" /\ pc' # "reconstruct" /\ encoded_frame_count' = n + 1
        /\ config' = config /\ out_handle' = Append(out_handle, frames[Len(frames)])
    BY DEF WriteReconstruct, AfterFrame
  <1>3. Written = n + 1 /\ Written' = n + 1
    BY <1>1, <1>2 DEF Written
  <1>4. frames[Len(frames)] = ShownAt(n + 1)
    BY <1>1, <1>2, ShownPicture
  <1>5. Coded' = Coded
    <2>1. \A i : PictureAt(i)' = PictureAt(i)
      BY <1>1, Steady
    <2>2. Coded' = [i \in 1..Written' |-> PictureAt(i)']
      BY DEF CodedInv
    <2> QED
      BY <1>3, <2>1, <2>2 DEF CodedInv
  <1>6. Len(Coded) = n + 1
    <2> DEFINE pictures == [i \in 1..(n + 1) |-> PictureAt(i)]
    <2>1. pictures \in [1..(n + 1) -> {PictureAt(i) : i \in 1..(n + 1)}] /\ Coded = pictures
      BY <1>3 DEF CodedInv
    <2>2. n + 1 \in Nat
      BY <1>1
    <2> HIDE DEF pictures, n
    <2> QED
      BY <2>1, <2>2, FunctionIsSequence
  <1>7. Len(out_handle) = n
    BY <1>1 DEF Counted
  <1>8. Coded[Len(Coded)].input = InputAt(n + 1)
    BY <1>1, <1>3, <1>6 DEF CodedInv, PictureAt, Sequence!Picture
  <1> QED
    BY <1>1, <1>2, <1>4, <1>5, <1>6, <1>7, <1>8 DEF ShownAt, Sequence!ShowPicture

\* Every other step leaves both sequences alone.
LEMMA OtherStepsStutter ==
  ASSUME FullInv, CodedInv, CodedInv', [Next]_vars, ~SerialSlice, ~WriteReconstruct
  PROVE  UNCHANGED Sequence!vars
  <1>1. config' = config /\ encoded_frame_count \in Nat
    BY ConfigFixed DEF FullInv, IInv, TypeOK
  <1>2. Written' = Written /\ out_handle' = out_handle
    BY <1>1 DEF Written, Next, vars, PrepareContext, WriteParameterSets, OpenReconstruct, SkipFrame,
                AfterFrame, BeginSlice, EncodeMacroblock, FilterVertical, FilterHorizontal,
                AfterFilter, FinishSlice
  <1>3. Coded' = Coded
    <2>1. \A i : PictureAt(i)' = PictureAt(i)
      BY Steady
    <2>2. Coded' = [i \in 1..Written' |-> PictureAt(i)']
      BY DEF CodedInv
    <2> QED
      BY <1>2, <2>1, <2>2 DEF CodedInv
  <1> QED
    BY <1>1, <1>2, <1>3 DEF Sequence!vars

LEMMA StepMaps ==
  ASSUME FullInv, CodedInv, CodedInv', [StreamNext]_<<vars, received>>
  PROVE  [Sequence!Next]_Sequence!vars
  <1>1. [Next]_vars
    BY DEF StreamNext
  <1>2. CASE SerialSlice
    BY <1>2, SerialCodes DEF Sequence!Next
  <1>3. CASE WriteReconstruct
    BY <1>3, WriteShows DEF Sequence!Next
  <1>4. CASE ~SerialSlice /\ ~WriteReconstruct
    BY <1>1, <1>4, OtherStepsStutter
  <1> QED
    BY <1>2, <1>3, <1>4

\* The encoder implements VideoSequence, for every configuration: slice by
\* slice the stream holds the requested input pictures with order counts and
\* frame numbers a receiver reads without a gap, and reconstruct.yuv the
\* pictures it shows (Encoder::Encode, Slice::Serial, WriteReconstruct).
THEOREM StreamImplementsSequence == StreamSpec => ImplementsVideoSequence
  <1>1. StreamSpec => [](FullInv /\ CodedInv)
    BY CodedFollows, StreamFollowsCount, PTL
  <1>2. StreamInit /\ CodedInv => Sequence!Init
    BY InitMaps
  <1>3. (FullInv /\ CodedInv) /\ (FullInv /\ CodedInv)' /\ [StreamNext]_<<vars, received>>
          => [Sequence!Next]_Sequence!vars
    BY StepMaps
  <1> QED
    BY <1>1, <1>2, <1>3, PTL DEF StreamSpec, ImplementsVideoSequence, Sequence!Spec
=============================================================================
