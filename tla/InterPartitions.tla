--------------------------- MODULE InterPartitions ---------------------------
(***************************************************************************)
(* The partitions an inter macroblock is cut into: the predictors and luma  *)
(* flows of the types PSkip, P16x16, P16x8, P8x16 and P8x8 with its four     *)
(* ways to cut a quarter (SMB8x8, SMB8x4, SMB4x8, SMB4x4), the order they    *)
(* search and enter their motion in the map, the elements they write        *)
(* (MBInterHeaderBinaryer, OutputMotionInfo), and a receiver that reads      *)
(* them.  The repository tries P16x16 alone; the other types are complete   *)
(* but taken off the list of MBInterRDOptimizer::Encode.                    *)
(*                                                                         *)
(* Of a partition's i-th block of 4x4 samples: "orig" is the block of the    *)
(* macroblock its original samples are taken from, "diff" the entry of       *)
(* m_diff_datas its residual goes to, "fill" the block its prediction is     *)
(* added back in.  Blocks of a macroblock are numbered by rows.             *)
(***************************************************************************)
EXTENDS MotionPrediction, SequencesExt

MBTypes == {"PSkip", "P16x16", "P16x8", "P8x16", "P8x8"}

SubMBTypes == <<"SMB8x8", "SMB8x4", "SMB4x8", "SMB4x4">>

-----------------------------------------------------------------------------
(* Where partitions are.                                                   *)

\* SegmentUtil::GetLumaDataRect, in blocks: of a macroblock, and of a quarter.
GetLumaDataRect(w, h, segment) ==
  [x |-> (segment % (4 \div w)) * w, y |-> (segment \div (4 \div w)) * h]

GetSubLumaDataRect(w, h, segment, sub) ==
  [x |-> 2 * (segment % 2) + (sub % (2 \div w)) * w,
   y |-> 2 * (segment \div 2) + (sub \div (2 \div w)) * h]

\* MBUtil::GetPositionInBlock, within the macroblock.
QuarterPosition(segment) == [x |-> 2 * (segment % 2), y |-> 2 * (segment \div 2)]

\* The i-th block of a rectangle of width w at start.
BlockIn(start, w, i) == (start.x + (i % w)) + 4 * (start.y + (i \div w))

\* Faulty variant of P16x16: the residual's blocks in coding order, by quarters.
P16x16DiffInQuarters ==
  LET blocks == [i \in 0..15 |-> i]
  IN  [x |-> 0, y |-> 0, w |-> 4, h |-> 4, orig |-> blocks,
       diff |-> [i \in 0..15 |-> BlockIn(QuarterPosition(i \div 4), 2, i % 4)], fill |-> blocks]

P16x16 ==
  LET blocks == [i \in 0..15 |-> i]
  IN  [x |-> 0, y |-> 0, w |-> 4, h |-> 4, orig |-> blocks, diff |-> blocks, fill |-> blocks]

P16x8(segment) ==
  LET rect == [i \in 0..7 |-> BlockIn(GetLumaDataRect(4, 2, segment), 4, i)]
  IN  [x |-> 0, y |-> 2 * segment, w |-> 4, h |-> 2,
       orig |-> rect, diff |-> [i \in 0..7 |-> 8 * segment + i], fill |-> rect]

P8x16Diff(segment, i) == 4 * (i \div 2) + (i % 2) + 2 * segment

P8x16(segment) ==
  LET rect == [i \in 0..7 |-> BlockIn(GetLumaDataRect(2, 4, segment), 2, i)]
  IN  [x |-> 2 * segment, y |-> 0, w |-> 2, h |-> 4,
       orig |-> rect, diff |-> [i \in 0..7 |-> P8x16Diff(segment, i)], fill |-> rect]

P8x8(segment) ==
  LET start == QuarterPosition(segment)
      rect == [i \in 0..3 |-> BlockIn(GetLumaDataRect(2, 2, segment), 2, i)]
  IN  [x |-> start.x, y |-> start.y, w |-> 2, h |-> 2,
       orig |-> rect, diff |-> [i \in 0..3 |-> BlockIn(start, 2, i)], fill |-> rect]

\* The place of a block of a node's 8x8 samples, put back where the quarter is.
InQuarter(segment, x, y) == BlockIn(GetLumaDataRect(2, 2, segment), 2, x + 2 * y)

P8x4(segment, sub) ==
  LET start == [QuarterPosition(segment) EXCEPT !.y = @ + sub]
  IN  [x |-> start.x, y |-> start.y, w |-> 2, h |-> 1,
       orig |-> [i \in 0..1 |-> BlockIn(GetSubLumaDataRect(2, 1, segment, sub), 2, i)],
       diff |-> [i \in 0..1 |-> start.x + i + 4 * start.y],
       fill |-> [i \in 0..1 |-> InQuarter(segment, i, sub)]]

P4x8(segment, sub) ==
  LET start == [QuarterPosition(segment) EXCEPT !.x = @ + sub]
  IN  [x |-> start.x, y |-> start.y, w |-> 1, h |-> 2,
       orig |-> [i \in 0..1 |-> BlockIn(GetSubLumaDataRect(1, 2, segment, sub), 1, i)],
       diff |-> [i \in 0..1 |-> start.x + 4 * (start.y + i)],
       fill |-> [i \in 0..1 |-> InQuarter(segment, sub, i)]]

P4x4(segment, sub) ==
  LET start == [x |-> QuarterPosition(segment).x + (sub % 2), y |-> QuarterPosition(segment).y + (sub \div 2)]
  IN  [x |-> start.x, y |-> start.y, w |-> 1, h |-> 1,
       orig |-> [i \in {0} |-> BlockIn(GetSubLumaDataRect(1, 1, segment, sub), 1, 0)],
       diff |-> [i \in {0} |-> start.x + 4 * start.y],
       fill |-> [i \in {0} |-> InQuarter(segment, sub % 2, sub \div 2)]]

\* The partitions of the two flows of halves, in their order.
P16x8Halves == <<P16x8(0), P16x8(1)>>

P8x16Halves == <<P8x16(0), P8x16(1)>>

\* The partitions of a quarter, in the order in which its node decides them,
\* gives their differences, enters their motion and writes it.
Node8x8(segment) == <<P8x8(segment)>>

Node8x4(segment) == <<P8x4(segment, 0), P8x4(segment, 1)>>

Node4x8(segment) == <<P4x8(segment, 0), P4x8(segment, 1)>>

Node4x4(segment) == <<P4x4(segment, 0), P4x4(segment, 1), P4x4(segment, 2), P4x4(segment, 3)>>

\* InterP8x8LumaFlowNodeBase::Create.
Node(sub_mb_type, segment) ==
  CASE sub_mb_type = "SMB8x8" -> Node8x8(segment)
    [] sub_mb_type = "SMB8x4" -> Node8x4(segment)
    [] sub_mb_type = "SMB4x8" -> Node4x8(segment)
    [] sub_mb_type = "SMB4x4" -> Node4x4(segment)

-----------------------------------------------------------------------------
(* The flows.  A flow is the map it leaves and the partitions it decided.   *)

Enter(map, search, decided) == SetMotionInfos(map, search.mb_addr, decided.part, decided.motion)

\* Decide and UpdateMotionInfo, partition by partition.
PredictAll(flow, search, parts) ==
  LET Decide(done, decided) ==
        [map |-> Enter(done.map, search, decided), parts |-> Append(done.parts, decided)]
  IN  FoldLeft(LAMBDA done, part : Decide(done, FindBestMotionInfo(done.map, search, part)), flow, parts)

\* Which way of cutting a quarter turns out cheapest, another for every quarter.
BestSubType(search, segment) == SubMBTypes[1 + ((search.sub + segment) % 4)]

\* One quarter of P8x8: every way of cutting it leaves its motion in the map,
\* and the best is predicted again after them.
PredictQuarter(flow, search, segment) ==
  LET Try(map, sub_mb_type) ==
        PredictAll([map |-> map, parts |-> <<>>], search, Node(sub_mb_type, segment)).map
      tried == FoldLeft(Try, flow.map, SubMBTypes)
  IN  PredictAll([flow EXCEPT !.map = tried], search, Node(BestSubType(search, segment), segment))

\* InterPSkipLumaPredictor::Decide: no search, the vector is the prediction.
DecideSkip(map, search) ==
  LET mv == GetPredictorMVPSkip(map, MBPosition(search.mb_addr), P16x16, 0)
  IN  [part |-> P16x16, motion |-> [ref_id |-> 0, mv |-> mv], mvd |-> Zero, compared |-> mv]

\* The flow of a skipped macroblock: it has no residual.
PSkipFlow(map, search) == [map |-> map, parts |-> <<DecideSkip(map, search)>>]

\* The flow of a whole macroblock enters nothing in the map before its Backend.
P16x16Flow(map, search) == [map |-> map, parts |-> <<FindBestMotionInfo(map, search, P16x16)>>]

Frontend(map, search, mb_type) ==
  LET start == [map |-> map, parts |-> <<>>]
  IN  CASE mb_type = "PSkip" -> PSkipFlow(map, search)
        [] mb_type = "P16x16" -> P16x16Flow(map, search)
        [] mb_type = "P16x8" -> PredictAll(start, search, P16x8Halves)
        [] mb_type = "P8x16" -> PredictAll(start, search, P8x16Halves)
        [] mb_type = "P8x8" ->
             FoldLeft(LAMBDA flow, segment : PredictQuarter(flow, search, segment), start, <<0, 1, 2, 3>>)

Backend(flow, search) ==
  [flow EXCEPT !.map = FoldLeft(LAMBDA map, decided : Enter(map, search, decided), @, flow.parts)]

-----------------------------------------------------------------------------
(* The elements of a macroblock: how each is coded and its value.           *)

\* CodingRefID: one inverted bit for two references, and nothing else.
CodingRefID(ref_id, ref_num) == IF ref_num = 2 THEN <<<<"u(1)", 1 - ref_id>>>> ELSE <<>>

\* OutputMBType; a P8x8 is announced as one whose references are all zero.
MBTypeCode(mb_type) ==
  CASE mb_type = "P16x16" -> 0 [] mb_type = "P16x8" -> 1 [] mb_type = "P8x16" -> 2 [] mb_type = "P8x8" -> 4

OutputSubMBTypes(mb_type, search) ==
  IF mb_type # "P8x8" THEN <<>>
  ELSE [s \in 1..4 |-> <<"ue(v)", (search.sub + s - 1) % 4>>]

\* Only the flow of P16x16 writes its reference.
OutputMotionInfo(mb_type, parts, ref_num) ==
  LET mvds == [i \in 1..(2 * Len(parts)) |->
                 <<"se(v)", IF i % 2 = 1 THEN parts[(i + 1) \div 2].mvd.x ELSE parts[i \div 2].mvd.y>>]
  IN  IF mb_type = "P16x16" THEN CodingRefID(parts[1].motion.ref_id, ref_num) \o mvds ELSE mvds

\* Of a macroblock that is not skipped, after its mb_skip_run.
MBElements(mb_type, parts, search) ==
  <<<<"ue(v)", MBTypeCode(mb_type)>>>>
  \o OutputSubMBTypes(mb_type, search) \o OutputMotionInfo(mb_type, parts, search.ref_num)

-----------------------------------------------------------------------------
(* A receiver (clauses 7.3.4, 7.3.5 and 6.4.2 of the standard): the blocks'  *)
(* motion and the number of macroblocks it has, none if it cannot read on.  *)

Unreadable == -1

\* A rectangle of W by H blocks cut into parts of w by h, by rows.
Cut(x, y, W, H, w, h) ==
  [i \in 1..((W \div w) * (H \div h)) |->
     [x |-> x + ((i - 1) % (W \div w)) * w, y |-> y + ((i - 1) \div (W \div w)) * h, w |-> w, h |-> h]]

Whole == Cut(0, 0, 4, 4, 4, 4)

SubSize == <<<<2, 2>>, <<2, 1>>, <<1, 2>>, <<1, 1>>>>

\* The partitions a macroblock's type and, of an 8x8, its sub types announce.
ReceiverParts(code, subs) ==
  CASE code = 0 -> Whole
    [] code = 1 -> Cut(0, 0, 4, 4, 4, 2)
    [] code = 2 -> Cut(0, 0, 4, 4, 2, 4)
    [] code > 2 ->
         LET Sub(s) == Cut(2 * (s % 2), 2 * (s \div 2), 2, 2, SubSize[subs[s + 1] + 1][1], SubSize[subs[s + 1] + 1][2])
         IN  Sub(0) \o Sub(1) \o Sub(2) \o Sub(3)

Received(state, part, motion) ==
  [state EXCEPT !.map = SetMotionInfos(@, state.parsed, part, motion)]

ReceiveSkip(state) ==
  LET mv == ReceiverSkipPrediction(state.map, MBPosition(state.parsed), Whole[1])
  IN  [Received(state, Whole[1], [ref_id |-> 0, mv |-> mv]) EXCEPT !.parsed = @ + 1]

\* mb_skip_run macroblocks.
ReceiveSkips(state, run) == FoldLeft(LAMBDA s, i : ReceiveSkip(s), state, [i \in 1..run |-> i])

\* The macroblock of these elements.  A reference is a te(v) for every
\* partition of the types 0 to 2; type 4 has none.
ReceiveMB(state, elements, ref_num) ==
  LET code == elements[1][2]
      subs == IF code = 4 THEN [s \in 1..4 |-> elements[s + 1][2]] ELSE <<>>
      parts == ReceiverParts(code, subs)
      refs == IF code = 4 \/ ref_num = 1 THEN 0 ELSE Len(parts)
      first == 1 + Len(subs)
      expected == [i \in 1..(first + refs + 2 * Len(parts)) |->
                     IF i <= first THEN "ue(v)"
                     ELSE IF i > first + refs THEN "se(v)"
                     ELSE IF ref_num = 2 THEN "u(1)" ELSE "ue(v)"]
      Reference(i) == IF refs = 0 THEN 0
                      ELSE IF ref_num = 2 THEN 1 - elements[first + i][2] ELSE elements[first + i][2]
      Difference(i) == [x |-> elements[first + refs + 2 * i - 1][2], y |-> elements[first + refs + 2 * i][2]]
      ReceivePart(s, i) ==
        LET ref_id == Reference(i)
            pred == ReceiverPrediction(s.map, PositionInBlock(s.parsed, parts[i]), parts[i], ref_id)
        IN  Received(s, parts[i], [ref_id |-> ref_id, mv |-> Plus(pred, Difference(i))])
  IN  IF [i \in DOMAIN elements |-> elements[i][1]] # expected
      THEN [state EXCEPT !.parsed = Unreadable]
      ELSE [FoldLeft(ReceivePart, state, [i \in DOMAIN parts |-> i]) EXCEPT !.parsed = @ + 1]

\* What one call of OutputMB wrote: nothing, a run that ends the picture, or a
\* run and a macroblock.
Receive(state, elements, ref_num) ==
  CASE state.parsed = Unreadable \/ elements = <<>> -> state
    [] state.parsed # Unreadable /\ Len(elements) = 1 -> ReceiveSkips(state, elements[1][2])
    [] state.parsed # Unreadable /\ Len(elements) > 1 ->
         ReceiveMB(ReceiveSkips(state, elements[1][2]), Tail(elements), ref_num)
=============================================================================
