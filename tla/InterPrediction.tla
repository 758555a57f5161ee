--------------------------- MODULE InterPrediction ---------------------------
(***************************************************************************)
(* The inter macroblocks of a stream: the choice of a type                  *)
(* (MBInterRDOptimizer), the motion left in the map, the elements with the   *)
(* run of skipped macroblocks, and the samples of the prediction: whole      *)
(* luma samples (DataUtil::ObtainDataInBlock, CostUtil::CalculateLumaSAD)    *)
(* and chroma blocks of two by two samples, whose motion is read back from   *)
(* the map and which are interpolated to an eighth                           *)
(* (InterP2x2ChromaPredictor, InterpolateUtil).                             *)
(*                                                                         *)
(* A sample is not a number here but where it comes from.  Luma: a position *)
(* in quarter samples.  Chroma: in either direction the one or two samples  *)
(* that are mixed, with weights of sum eight; the four cases of the code's  *)
(* interpolation are the products of the two directions, and its roundings  *)
(* agree with that of the product.  A receiver moves every single sample    *)
(* coordinate into the picture, the encoder moves the position of a block.  *)
(***************************************************************************)
EXTENDS InterPartitions

CONSTANT
  Settings  \* level_idc, allowed_mb_types, costs (what turns out cheapest), pictures

ASSUME SettingsAssumption ==
  \A s \in Settings :
    /\ s.allowed_mb_types \in Seq(MBTypes) \ {<<>>}
    /\ s.pictures \in Nat
    /\ \A c \in s.costs : /\ c.candidate \in Nat /\ c.sub \in Nat
                          /\ c.best \in 1..Len(s.allowed_mb_types)

VARIABLES
  setting,
  picture,         \* number of the inter picture, and of its references
  m_mb_addr,
  cost,            \* candidate, type and way of cutting that are cheapest here
  tried,           \* types of the list tried
  pc,
  m_mb_type,
  m_parts,         \* the partitions of the flow
  m_motion_infos,
  mb_run,          \* macroblocks skipped since the last one written
  received         \* the receiver's blocks and macroblocks

inter_vars ==
  <<setting, picture, m_mb_addr, cost, tried, pc, m_mb_type, m_parts, m_motion_infos, mb_run, received>>

\* Of the picture, in luma samples.
width == 16 * m_width_in_mb

height == 16 * m_height_in_mb

mb_num == m_width_in_mb * m_height_in_mb

\* Dpb::GetRefFrameNum: no picture ever leaves the buffer.
ref_num == picture

\* Position of the macroblock, in luma samples.
GetPosition == [x |-> 4 * MBPosition(m_mb_addr).x, y |-> 4 * MBPosition(m_mb_addr).y]

-----------------------------------------------------------------------------
(* Luma.                                                                   *)

\* C++ division rounds toward zero.
Quotient(n, d) == IF n >= 0 THEN n \div d ELSE -((-n) \div d)

\* Faulty variant of ObtainData: only the start of the block is clamped.
ObtainDataFromStart(start, i, size) == Clamp(Clamp(start, <<0, size - 1>>) + i, <<0, size - 1>>)

\* DataUtil::ObtainDataInBlock in one direction: the i-th sample of a block.
ObtainData(start, i, size) == Clamp(start + i, <<0, size - 1>>)

\* Faulty variant of SADPointer: the pointer moves whatever is left of it.
SADPointerMoving(start, i, size) ==
  LET walk[n \in 0..i] ==
        IF n = 0 THEN Clamp(start, <<0, size - 1>>)
        ELSE IF start + n - 1 < size - 1 THEN walk[n - 1] + 1 ELSE walk[n - 1]
  IN  walk[i]

\* CalculateLumaSAD in one direction: where ref_data_ptr is at the i-th sample.
SADPointer(start, i, size) ==
  LET walk[n \in 0..i] ==
        IF n = 0 THEN Clamp(start, <<0, size - 1>>)
        ELSE IF start + n - 1 >= 0 /\ start + n - 1 < size - 1 THEN walk[n - 1] + 1 ELSE walk[n - 1]
  IN  walk[i]

\* The places of a partition's samples, by a walk or by clamping.
PartLuma(decided) ==
  LET start == PositionInBlock(m_mb_addr, decided.part)
  IN  [x |-> [i \in 0..(4 * decided.part.w - 1) |->
                ObtainData(4 * start.x + Quotient(decided.motion.mv.x, 4), i, width)],
       y |-> [i \in 0..(4 * decided.part.h - 1) |->
                ObtainData(4 * start.y + Quotient(decided.motion.mv.y, 4), i, height)]]

PartCompared(decided) ==
  LET start == PositionInBlock(m_mb_addr, decided.part)
  IN  [x |-> [i \in 0..(4 * decided.part.w - 1) |->
                SADPointer(4 * start.x + Quotient(decided.compared.x, 4), i, width)],
       y |-> [i \in 0..(4 * decided.part.h - 1) |->
                SADPointer(4 * start.y + Quotient(decided.compared.y, 4), i, height)]]

\* The i-th block of 4x4 of a partition's prediction.
PartBlock(decided, i) ==
  LET samples == PartLuma(decided)
      column == 4 * (i % decided.part.w)
      row == 4 * (i \div decided.part.w)
  IN  [x |-> [k \in 0..3 |-> samples.x[column + k]], y |-> [k \in 0..3 |-> samples.y[row + k]]]

NoBlock == [x |-> <<>>, y |-> <<>>]

\* The i-th block is block b.
Place(blocks, b) == CHOOSE i \in DOMAIN blocks : blocks[i] = b

\* The prediction the residual is added to, by block (FillPredictedData,
\* Reconstruct): a later partition replaces what an earlier one filled.
m_predicted_luma ==
  LET filled(b) == {n \in DOMAIN m_parts : \E i \in DOMAIN m_parts[n].part.fill : m_parts[n].part.fill[i] = b}
      Latest(b) == m_parts[Max(filled(b))]
  IN  [b \in 0..15 |-> IF filled(b) = {} THEN NoBlock ELSE PartBlock(Latest(b), Place(Latest(b).part.fill, b))]

\* FillDiffData: which original block less which prediction.
m_diff_datas ==
  LET given(b) == {n \in DOMAIN m_parts : \E i \in DOMAIN m_parts[n].part.diff : m_parts[n].part.diff[i] = b}
      Of(decided, i) == [original |-> decided.part.orig[i], predicted |-> PartBlock(decided, i)]
      Latest(b) == m_parts[Max(given(b))]
  IN  [b \in 0..15 |-> IF given(b) = {} THEN [original |-> b, predicted |-> NoBlock]
                       ELSE Of(Latest(b), Place(Latest(b).part.diff, b))]

-----------------------------------------------------------------------------
(* Chroma.                                                                 *)

\* GetInterploatedChromaPixel in one direction: where x is a multiple of
\* eight the sample itself, else it and the next.
Taps(x) ==
  IF x % 8 = 0 THEN {<<x \div 8, 8>>}
  ELSE {<<x \div 8, 8 - (x % 8)>>, <<(x \div 8) + 1, x % 8>>}

\* Faulty variant of InterpolateChroma: the samples of the block are not clamped.
InterpolateChromaUnclamped(start, i, size) == Taps(start + i * 8)

\* InterpolateChromaBlock in one direction, for sample i of a block.
InterpolateChroma(start, i, size) == Taps(Clamp(start + i * 8, <<0, (size - 1) * 8>>))

\* Where the block starts, in eighths of a chroma sample.
Start(position, component, size) == Clamp(4 * position + component, <<0, (size - 1) * 8>>)

\* Faulty variant of BlockOf: the blocks in the order of the rows.
BlockOfInRows(s) == [x |-> s % 4, y |-> s \div 4]

\* The 4x4 luma block of segment s: four quarters, four blocks in each.
BlockOf(s) ==
  LET quarter == s \div 4
      sub == s % 4
  IN  [x |-> 2 * (quarter % 2) + (sub % 2), y |-> 2 * (quarter \div 2) + (sub \div 2)]

\* FillPredictedData: the segment a chroma sample belongs to, and its place in it.
SegmentOf(p) == 8 * (p[2] \div 4) + 4 * (p[1] \div 4) + 2 * ((p[2] % 4) \div 2) + ((p[1] % 4) \div 2)

\* The samples of the macroblock's chroma blocks.
Samples == (0..7) \X (0..7)

\* The two by two samples of a segment: its block's motion is read from the map.
PredictedSample(p) ==
  LET block == BlockOf(SegmentOf(p))
      start == MBPosition(m_mb_addr)
      mv == m_motion_infos[GetBlockIndex(start.x + block.x, start.y + block.y)].mv
      new_x == Start(GetPosition.x + 4 * block.x, mv.x, width \div 2)
      new_y == Start(GetPosition.y + 4 * block.y, mv.y, height \div 2)
  IN  [x |-> InterpolateChroma(new_x, p[1] % 2, width \div 2),
       y |-> InterpolateChroma(new_y, p[2] % 2, height \div 2)]

\* InterChromaFlow::Predict, after the luma flow has entered its motion in the map.
m_predicted_chroma == [p \in Samples |-> PredictedSample(p)]

-----------------------------------------------------------------------------
(* A receiver (clause 8.4.2.2 of the standard), in one direction.          *)

ReceiverLuma(position, component, i, size) ==
  4 * Clamp(position + i + (component \div 4), <<0, size - 1>>) + (component % 4)

\* Sample i of the macroblock's chroma, both neighbours moved into the plane.
ReceiverChroma(position, component, i, size) ==
  LET whole == (position \div 2) + (component \div 8) + i
      near == Clamp(whole, <<0, size - 1>>)
      far == Clamp(whole + 1, <<0, size - 1>>)
      weight == component % 8
  IN  IF near = far \/ weight = 0 THEN {<<near, 8>>} ELSE {<<near, 8 - weight>>, <<far, weight>>}

-----------------------------------------------------------------------------
(* The macroblocks of the inter pictures.                                  *)

allowed_mb_types == setting.allowed_mb_types

\* What can turn out cheapest among the references of a picture.
Costs(s, pic) == {c \in s.costs : c.candidate < Len(search_motion_vectors) * pic}

search ==
  [mb_addr |-> m_mb_addr, ref_num |-> ref_num, level_idc |-> setting.level_idc,
   candidate |-> cost.candidate, sub |-> cost.sub]

\* The first picture is intra coded and leaves the map alone.
Init ==
  /\ setting \in Settings
  /\ picture = 1
  /\ m_mb_addr = 0
  /\ cost \in Costs(setting, 1)
  /\ tried = 0
  /\ pc = "try"
  /\ m_mb_type = "PSkip"
  /\ m_parts = <<>>
  /\ m_motion_infos = [b \in BlockIndices |-> NoMotion]
  /\ mb_run = 0
  /\ received = [map |-> [b \in BlockIndices |-> NoMotion], parsed |-> 0]

\* CreateFlow, Frontend and Backend of a type.
RunFlow(mb_type) ==
  LET flow == Backend(Frontend(m_motion_infos, search, mb_type), search)
  IN  /\ m_mb_type' = mb_type
      /\ m_parts' = flow.parts
      /\ m_motion_infos' = flow.map

\* MBInterRDOptimizer::Encode: the types in their order, and once more the best
\* if it was not the last.
TryType ==
  /\ pc = "try"
  /\ RunFlow(allowed_mb_types[tried + 1])
  /\ tried' = tried + 1
  /\ pc' = CASE tried' < Len(allowed_mb_types) -> "try"
             [] tried' = Len(allowed_mb_types) /\ m_mb_type' # allowed_mb_types[cost.best] -> "again"
             [] OTHER -> "output"
  /\ UNCHANGED <<setting, picture, m_mb_addr, cost, mb_run, received>>

TryBestAgain ==
  /\ pc = "again"
  /\ RunFlow(allowed_mb_types[cost.best])
  /\ pc' = "output"
  /\ UNCHANGED <<setting, picture, m_mb_addr, cost, tried, mb_run, received>>

\* MBInterRDOptimizer::OutputMB: what is written, and the run after it.
OutputMB ==
  LET skipped == m_mb_type = "PSkip"
      last == m_mb_addr = mb_num - 1
      elements == CASE skipped /\ ~last -> <<>>
                    [] skipped /\ last -> <<<<"ue(v)", mb_run + 1>>>>
                    [] ~skipped -> <<<<"ue(v)", mb_run>>>> \o MBElements(m_mb_type, m_parts, search)
  IN  /\ pc = "output"
      /\ mb_run' = IF skipped /\ ~last THEN mb_run + 1 ELSE 0
      /\ received' = Receive(received, elements, ref_num)
      /\ pc' = "next"
      /\ UNCHANGED <<setting, picture, m_mb_addr, cost, tried, m_mb_type, m_parts, m_motion_infos>>

NextMB ==
  /\ pc = "next"
  /\ m_mb_addr < mb_num - 1
  /\ m_mb_addr' = m_mb_addr + 1
  /\ cost' \in Costs(setting, picture)
  /\ pc' = "try"
  /\ tried' = 0
  /\ m_mb_type' = "PSkip"
  /\ m_parts' = <<>>
  /\ UNCHANGED <<setting, picture, m_motion_infos, mb_run, received>>

\* The map is not cleared between pictures.
NextPicture ==
  /\ pc = "next"
  /\ m_mb_addr = mb_num - 1
  /\ picture < setting.pictures
  /\ picture' = picture + 1
  /\ m_mb_addr' = 0
  /\ cost' \in Costs(setting, picture')
  /\ pc' = "try"
  /\ tried' = 0
  /\ m_mb_type' = "PSkip"
  /\ m_parts' = <<>>
  /\ received' = [map |-> [b \in BlockIndices |-> NoMotion], parsed |-> 0]
  /\ UNCHANGED <<setting, m_motion_infos, mb_run>>

Next == TryType \/ TryBestAgain \/ OutputMB \/ NextMB \/ NextPicture

Spec == Init /\ [][Next]_inter_vars

-----------------------------------------------------------------------------
(* Properties.                                                             *)

\* From the elements of this picture alone a receiver finds the type, the
\* references and the vectors of every macroblock as the encoder has them: no
\* prediction reads the motion a type tried before, or an earlier picture, left
\* in the map; the edges and the order of the partitions are treated as the
\* standard does; clipping a vector does not separate it from its difference;
\* and the run of skipped macroblocks accounts for each of them, to the last.
ReceiverRecoversMotion ==
  pc = "next" =>
    /\ received.parsed # Unreadable
    /\ received.parsed + mb_run = m_mb_addr + 1
    /\ m_mb_addr = mb_num - 1 => mb_run = 0
    /\ \A a \in 0..(received.parsed - 1) : \A b \in GetBlockIndices(a, P16x16) :
         received.map[b] = m_motion_infos[b]

\* No vector leaves the range the standard gives the level, however predictions
\* and offsets add up, skipped macroblocks and types that lost included.
MotionWithinLevel ==
  \A b \in BlockIndices : AllowedByLevel(m_motion_infos[b].mv, setting.level_idc)

\* Whatever the vector, no sample outside the planes is read.  The pointer of
\* the search is moved by one at a time; the second sample of an interpolation
\* is past the edge only where its weight is zero and it is not looked at.
ReadsStayInside ==
  pc = "next" =>
    /\ \A n \in DOMAIN m_parts :
         LET walked == PartCompared(m_parts[n])
         IN  /\ \A i \in DOMAIN walked.x : walked.x[i] \in 0..(width - 1)
             /\ \A i \in DOMAIN walked.y : walked.y[i] \in 0..(height - 1)
    /\ LET chroma == m_predicted_chroma
       IN  \A p \in Samples :
             /\ \A tap \in chroma[p].x : tap[1] \in 0..((width \div 2) - 1)
             /\ \A tap \in chroma[p].y : tap[1] \in 0..((height \div 2) - 1)

\* The samples the search compared are those the prediction is made of, past
\* every edge too, unless the vector was cut off at the level's limit after it
\* had been chosen.
SearchComparesPrediction ==
  pc = "next" =>
    \A n \in DOMAIN m_parts :
      m_parts[n].compared = m_parts[n].motion.mv => PartCompared(m_parts[n]) = PartLuma(m_parts[n])

\* The residual of every block is that block's samples less the prediction its
\* reconstruction is later added to, however the macroblock is cut: the indices
\* each predictor fills, the rectangle of the original it reads and the place
\* its prediction is put back agree.
ResidualMatchesPrediction ==
  pc = "next" /\ m_mb_type # "PSkip" =>
    LET predicted == m_predicted_luma
        diffs == m_diff_datas
    IN  \A b \in 0..15 : diffs[b] = [original |-> b, predicted |-> predicted[b]]

\* What a receiver will know of this macroblock when the run ends.
seen == ReceiveSkips(received, mb_run)

\* With the vectors it finds in the elements, a receiver predicts the very luma
\* samples, on every side of the picture.  Of whole vectors only: one the level
\* cuts off at its largest component is not whole, and the encoder drops the
\* quarters a receiver interpolates.
LumaMatchesReceiver ==
  pc = "next" =>
    LET here == MBPosition(m_mb_addr)
        predicted == m_predicted_luma
        found == seen.map
    IN  \A b \in 0..15 :
          LET x == here.x + (b % 4)
              y == here.y + (b \div 4)
              mv == found[GetBlockIndex(x, y)].mv
          IN  /\ mv.x % 4 = 0 =>
                   \A k \in 0..3 : 4 * predicted[b].x[k] = ReceiverLuma(4 * x, mv.x, k, width)
              /\ mv.y % 4 = 0 =>
                   \A k \in 0..3 : 4 * predicted[b].y[k] = ReceiverLuma(4 * y, mv.y, k, height)

\* The chroma prediction is a receiver's wherever the vector does not start left
\* of or above the picture: past the other two edges, and inside, the encoder
\* predicts what a receiver does.
ChromaMatchesUnlessBefore ==
  pc = "next" =>
    LET here == MBPosition(m_mb_addr)
        predicted == m_predicted_chroma
        found == seen.map
    IN  \A p \in Samples :
          LET mv == found[GetBlockIndex(here.x + (p[1] \div 2), here.y + (p[2] \div 2))].mv
          IN  /\ 4 * (4 * here.x + 2 * (p[1] - (p[1] % 2))) + mv.x >= 0
              /\ 4 * (4 * here.y + 2 * (p[2] - (p[2] % 2))) + mv.y >= 0
              => /\ predicted[p].x = ReceiverChroma(4 * here.x, mv.x, p[1], width \div 2)
                 /\ predicted[p].y = ReceiverChroma(4 * here.y, mv.y, p[2], height \div 2)
=============================================================================
