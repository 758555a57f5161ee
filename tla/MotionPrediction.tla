-------------------------- MODULE MotionPrediction --------------------------
(***************************************************************************)
(* Motion vectors: the map of motion the predictions read                  *)
(* (MotionInfoContext, BlockUtil), the prediction of a vector from it      *)
(* (MEUtil::GetPredictorMV), the search around the prediction              *)
(* (FullSearchUtil::FindBestMotionInfo) and the limits of the level         *)
(* (ConformanceUtil).  Beside them the prediction a receiver makes.         *)
(*                                                                         *)
(* A place is in blocks of 4x4 samples.  A partition is a rectangle of      *)
(* them, [x, y, w, h], with its place in the macroblock.  Which candidate   *)
(* is cheapest depends on the samples and is an input here: a number the    *)
(* candidate is counted off with, in another way for every partition.       *)
(***************************************************************************)
EXTENDS Integers, Sequences, FiniteSets

CONSTANTS
  m_width_in_mb, m_height_in_mb,
  search_motion_vectors  \* the offsets searched around the prediction, in order

Vector == [x : Int, y : Int]

ASSUME SizeAssumption ==
  /\ m_width_in_mb \in Nat \ {0}
  /\ m_height_in_mb \in Nat \ {0}

ASSUME SearchAssumption == search_motion_vectors \in Seq(Vector) \ {<<>>}

-----------------------------------------------------------------------------
(* Vectors.                                                                *)

Zero == [x |-> 0, y |-> 0]

Plus(v, w) == [x |-> v.x + w.x, y |-> v.y + w.y]

Minus(v, w) == [x |-> v.x - w.x, y |-> v.y - w.y]

Clamp(value, limit) ==
  IF value < limit[1] THEN limit[1] ELSE IF value > limit[2] THEN limit[2] ELSE value

Median(a, b, c) ==
  IF a > b THEN IF b > c THEN b ELSE IF a > c THEN c ELSE a
  ELSE IF a > c THEN a ELSE IF b > c THEN c ELSE b

-----------------------------------------------------------------------------
(* The limits of a level, in quarter samples.                              *)

\* The levels GetLevelIndex knows, in the order of their indices; no level has
\* the third index, LEVEL_1_1.
LevelIds == <<10, 9, -1, 12, 13, 20, 21, 22, 30, 31, 32, 40, 41, 42, 50, 51, 52, 60, 61, 62, 0>>

GetLevelIndex(level_idc) ==
  IF \E i \in DOMAIN LevelIds : LevelIds[i] = level_idc
  THEN (CHOOSE i \in DOMAIN LevelIds : LevelIds[i] = level_idc) - 1
  ELSE 17

Within(limit) == <<-limit, limit - 1>>

mv_vertical_limit(level_idc) ==
  LET index == GetLevelIndex(level_idc)
  IN  Within(CASE index <= 1 -> 256
               [] index \in 2..5 -> 512
               [] index \in 6..8 -> 1024
               [] index \in 9..16 -> 2048
               [] index > 16 -> 32768)

mv_horizontal_limit(level_idc) == Within(IF GetLevelIndex(level_idc) < 17 THEN 8192 ELSE 32768)

\* Faulty variant of ClipMVRange: the vertical component is forgotten.
ClipMVRangeHorizontal(mv, level_idc) ==
  [x |-> Clamp(mv.x, mv_horizontal_limit(level_idc)), y |-> mv.y]

ClipMVRange(mv, level_idc) ==
  [x |-> Clamp(mv.x, mv_horizontal_limit(level_idc)), y |-> Clamp(mv.y, mv_vertical_limit(level_idc))]

\* Table A-1 of the standard, by level, in whole samples.
LevelVertical(level_idc) ==
  CASE level_idc \in {9, 10} -> 64
    [] level_idc \in {11, 12, 13, 20} -> 128
    [] level_idc \in {21, 22, 30} -> 256
    [] level_idc \in 31..52 -> 512
    [] level_idc \in 60..62 -> 8192

LevelHorizontal(level_idc) == IF level_idc < 60 THEN 2048 ELSE 8192

AllowedByLevel(mv, level_idc) ==
  /\ mv.x \in (-4 * LevelHorizontal(level_idc))..(4 * LevelHorizontal(level_idc) - 1)
  /\ mv.y \in (-4 * LevelVertical(level_idc))..(4 * LevelVertical(level_idc) - 1)

-----------------------------------------------------------------------------
(* The map.                                                                *)

frame_width_in_block == 4 * m_width_in_mb

NoMotion == [ref_id |-> -1, mv |-> Zero]

BlockIndices == 0..(16 * m_width_in_mb * m_height_in_mb - 1)

GetBlockIndex(x, y) == x + y * frame_width_in_block

\* Where a macroblock starts, and a partition of it.
MBPosition(mb_addr) ==
  [x |-> 4 * (mb_addr % m_width_in_mb), y |-> 4 * (mb_addr \div m_width_in_mb)]

PositionInBlock(mb_addr, part) ==
  [x |-> MBPosition(mb_addr).x + part.x, y |-> MBPosition(mb_addr).y + part.y]

\* BlockUtil::GetBlockIndices of a partition.
GetBlockIndices(mb_addr, part) ==
  LET p == PositionInBlock(mb_addr, part)
  IN  {GetBlockIndex(p.x + j, p.y + i) : i \in 0..(part.h - 1), j \in 0..(part.w - 1)}

SetMotionInfos(map, mb_addr, part, motion_info) ==
  LET indices == GetBlockIndices(mb_addr, part)
  IN  [b \in BlockIndices |-> IF b \in indices THEN motion_info ELSE map[b]]

\* Faulty variant of IsPreDecoded: every block above has been decoded.
IsAbove(new, p) == new.y < p.y

\* Whether the block at new was decoded before the one at p: macroblocks in
\* their order, the quarters of a macroblock in theirs, in a quarter by rows.
\* MotionC asks for blocks of the row above only, so of two blocks in the same
\* row of a quarter the order is never asked.
IsPreDecoded(new, p) ==
  LET Before(a, b) == a.y < b.y \/ (a.y = b.y /\ a.x < b.x)
      Unit(a, size) == [x |-> a.x \div size, y |-> a.y \div size]
  IN  CASE Unit(new, 4) # Unit(p, 4) -> Before(Unit(new, 4), Unit(p, 4))
        [] Unit(new, 4) = Unit(p, 4) /\ Unit(new, 2) # Unit(p, 2) -> Before(Unit(new, 2), Unit(p, 2))
        [] OTHER -> new.y < p.y

\* A block that is not in the picture, or not decoded, has no motion.
MotionA(map, p) == IF p.x > 0 THEN map[GetBlockIndex(p.x - 1, p.y)] ELSE NoMotion

MotionB(map, p) == IF p.y > 0 THEN map[GetBlockIndex(p.x, p.y - 1)] ELSE NoMotion

\* The block above and to the right, else the one above and to the left.
MotionC(map, p, width_in_block) ==
  LET right == [x |-> p.x + width_in_block, y |-> p.y - 1]
  IN  IF right.x < frame_width_in_block /\ p.y > 0 /\ IsPreDecoded(right, p)
      THEN map[GetBlockIndex(right.x, right.y)]
      ELSE IF p.x > 0 /\ p.y > 0 THEN map[GetBlockIndex(p.x - 1, p.y - 1)] ELSE NoMotion

-----------------------------------------------------------------------------
(* The prediction of a vector.                                             *)

\* Which neighbour alone gives the prediction, by reference and by shape.
MVPredType(a, b, c, p, part, ref_id) ==
  LET same == <<a.ref_id = ref_id, b.ref_id = ref_id, c.ref_id = ref_id>>
      alone == CASE same = <<TRUE, FALSE, FALSE>> -> "L"
                 [] same = <<FALSE, TRUE, FALSE>> -> "U"
                 [] same = <<FALSE, FALSE, TRUE>> -> "UR"
                 [] OTHER -> "MEDIAN"
  IN  CASE part.w = 2 /\ part.h = 4 /\ p.x % 4 = 0 /\ same[1] -> "L"
        [] part.w = 2 /\ part.h = 4 /\ p.x % 4 # 0 /\ same[2] -> "UR"
        [] part.w = 4 /\ part.h = 2 /\ p.y % 4 = 0 /\ same[2] -> "U"
        [] part.w = 4 /\ part.h = 2 /\ p.y % 4 # 0 /\ same[1] -> "L"
        [] OTHER -> alone

\* The prediction from the three neighbours.  Of a median the left one stands
\* alone where there is no other; one that has no motion has the vector zero.
FromNeighbours(type, a, b, c) ==
  CASE type = "L" -> a.mv
    [] type = "U" -> b.mv
    [] type = "UR" -> c.mv
    [] type = "MEDIAN" /\ (b.ref_id = -1 \/ c.ref_id = -1) -> a.mv
    [] type = "MEDIAN" /\ b.ref_id # -1 /\ c.ref_id # -1 ->
         [x |-> Median(a.mv.x, b.mv.x, c.mv.x), y |-> Median(a.mv.y, b.mv.y, c.mv.y)]

\* MEUtil::GetPredictorMV.
GetPredictorMV(map, p, part, ref_id) ==
  LET Predictor(a, b, c) == FromNeighbours(MVPredType(a, b, c, p, part, ref_id), a, b, c)
  IN  Predictor(MotionA(map, p), MotionB(map, p), MotionC(map, p, part.w))

Still(motion) == motion.ref_id = -1 \/ (motion.ref_id = 0 /\ motion.mv = Zero)

\* MEUtil::GetPredictorMVPSkip.
GetPredictorMVPSkip(map, p, part, ref_id) ==
  IF Still(MotionA(map, p)) \/ Still(MotionB(map, p)) THEN Zero
  ELSE GetPredictorMV(map, p, part, ref_id)

\* FullSearchUtil::FindBestMotionInfo.  The vector is clipped after it was
\* chosen, and the difference is taken after that.
FindBestMotionInfo(map, search, part) ==
  LET p == PositionInBlock(search.mb_addr, part)
      number == Len(search_motion_vectors)
      ref_id == (search.candidate \div number) % search.ref_num
      counted == search.candidate + p.x + (2 * p.y) + part.w + part.h
      offset == search_motion_vectors[1 + (counted % number)]
      Decided(pred_mv, cand_mv, best_mv) ==
        [part |-> part,
         motion |-> [ref_id |-> ref_id, mv |-> best_mv],
         mvd |-> Minus(best_mv, pred_mv),
         compared |-> cand_mv]
      Around(pred_mv, cand_mv) == Decided(pred_mv, cand_mv, ClipMVRange(cand_mv, search.level_idc))
      Search(pred_mv) == Around(pred_mv, Plus(pred_mv, offset))
  IN  Search(GetPredictorMV(map, p, part, ref_id))

-----------------------------------------------------------------------------
(* A receiver's prediction (clause 8.4.1.3 of the standard).  Its map holds *)
(* what it has decoded so far; what it has not decoded is not available.    *)

Decoded(map, x, y) ==
  IF x \in 0..(frame_width_in_block - 1) /\ y >= 0 THEN map[GetBlockIndex(x, y)] ELSE NoMotion

ReceiverPrediction(map, p, part, ref_id) ==
  LET a == Decoded(map, p.x - 1, p.y)
      b == Decoded(map, p.x, p.y - 1)
      right == Decoded(map, p.x + part.w, p.y - 1)
      c == IF right # NoMotion THEN right ELSE Decoded(map, p.x - 1, p.y - 1)
      \* A partition of half a macroblock asks one neighbour first.
      asked == CASE part.w = 4 /\ part.h = 2 -> IF part.y = 0 THEN b ELSE a
                 [] part.w = 2 /\ part.h = 4 -> IF part.x = 0 THEN a ELSE c
                 [] OTHER -> NoMotion
      near == IF b = NoMotion /\ c = NoMotion THEN <<a, a, a>> ELSE <<a, b, c>>
      same == {i \in 1..3 : near[i].ref_id = ref_id}
      Middle(s) == CHOOSE v \in {s[1], s[2], s[3]} :
                     \E i, j \in 1..3 : \E k \in 1..3 \ {i, j} :
                       i # j /\ v = s[k] /\ s[i] <= v /\ v <= s[j]
  IN  CASE asked.ref_id = ref_id -> asked.mv
        [] asked.ref_id # ref_id /\ Cardinality(same) = 1 -> near[CHOOSE i \in same : TRUE].mv
        [] OTHER -> [x |-> Middle([i \in 1..3 |-> near[i].mv.x]), y |-> Middle([i \in 1..3 |-> near[i].mv.y])]

\* 8.4.1.1: a macroblock that is skipped.
ReceiverSkipPrediction(map, p, part) ==
  LET a == Decoded(map, p.x - 1, p.y)
      b == Decoded(map, p.x, p.y - 1)
  IN  IF a = NoMotion \/ b = NoMotion \/ [ref_id |-> 0, mv |-> Zero] \in {a, b} THEN Zero
      ELSE ReceiverPrediction(map, p, part, 0)
=============================================================================
