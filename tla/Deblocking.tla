----------------------------- MODULE Deblocking -----------------------------
(***************************************************************************)
(* The deblocking of one line of samples: across the left or the upper     *)
(* edges of a macroblock, from the last samples of its neighbour to its    *)
(* own last ones (LoopFilter::FilterVerticalEdgesLuma and its siblings,    *)
(* FilterUtil).  In which order macroblocks and directions come is in      *)
(* Encoder.                                                                *)
(*                                                                         *)
(* One action is one edge.  The edges of a line overlap: each filter reads *)
(* what the one before wrote.  "received" is the same line in a receiver,  *)
(* which derives the strength of an edge from the samples beside it and    *)
(* filters by the equations of the standard (clause 8.7.2).  All           *)
(* macroblocks have the quantiser parameter of the configuration, and a    *)
(* picture is either all intra or all P16x16.                              *)
(***************************************************************************)
EXTENDS Integers, Sequences, FiniteSets

CONSTANTS
  Inputs  \* bound: the lines filtered, with what their strengths depend on

\* FilterConstantValues, by index from 0.
s_alpha_table ==
  <<0, 0, 0, 0, 0, 0, 0, 0, 0, 0, 0, 0, 0, 0, 0, 0, 4, 4, 5, 6, 7, 8, 9, 10, 12, 13, 15, 17,
    20, 22, 25, 28, 32, 36, 40, 45, 50, 56, 63, 71, 80, 90, 101, 113,
    127, 144, 162, 182, 203, 226, 255, 255>>

s_beta_table ==
  <<0, 0, 0, 0, 0, 0, 0, 0, 0, 0, 0, 0, 0, 0, 0, 0, 2, 2, 2, 3, 3, 3, 3, 4, 4, 4, 6, 6,
    7, 7, 8, 8, 9, 9, 10, 10, 11, 11, 12, 12, 13, 13, 14, 14, 15, 15, 16, 16, 17, 17, 18, 18>>

\* By strength; the strength of four has no use of it.
s_clip_table ==
  << <<0, 0, 0, 0, 0, 0, 0, 0, 0, 0, 0, 0, 0, 0, 0, 0, 0, 0, 0, 0, 0, 0, 0, 1, 1, 1, 1, 1, 1, 1, 1, 1,
       1, 2, 2, 2, 2, 3, 3, 3, 4, 4, 4, 5, 6, 6, 7, 8, 9, 10, 11, 13>>,
     <<0, 0, 0, 0, 0, 0, 0, 0, 0, 0, 0, 0, 0, 0, 0, 0, 0, 0, 0, 0, 0, 1, 1, 1, 1, 1, 1, 1, 1, 1, 1, 2,
       2, 2, 2, 3, 3, 3, 4, 4, 5, 5, 6, 7, 8, 8, 10, 11, 12, 13, 15, 17>>,
     <<0, 0, 0, 0, 0, 0, 0, 0, 0, 0, 0, 0, 0, 0, 0, 0, 0, 1, 1, 1, 1, 1, 1, 1, 1, 1, 1, 2, 2, 2, 2, 3,
       3, 3, 4, 4, 4, 5, 6, 6, 7, 8, 9, 10, 11, 13, 14, 16, 18, 20, 23, 25>> >>

Directions == {"vertical", "horizontal"}
Blocks == (0..3) \X (0..3)
Motion == [ref_id : Nat, mv : [x : Int, y : Int]]

\* at is the 4x4 block, along the edge, the line goes through; m_mb_p is FALSE
\* at the edge of the picture.
ASSUME InputsAssumption ==
  \A i \in Inputs :
    /\ i.direction \in Directions
    /\ i.plane \in {"luma", "chroma"}
    /\ i.at \in 0..3
    /\ i.has_neighbour \in BOOLEAN
    /\ i.intra \in BOOLEAN
    /\ i.p_cbp \subseteq Blocks /\ i.q_cbp \subseteq Blocks
    /\ i.p_motion \in Motion /\ i.q_motion \in Motion
    /\ i.qp \in 0..51
    /\ i.line \in [-16..15 -> 0..255]

VARIABLES
  mbs,      \* an input: the macroblocks mb_p and mb_q
  edge,     \* the edge that is filtered next
  line,     \* the samples of mb_p below 0, those of mb_q from 0
  received  \* ghost: the samples in a receiver

vars == <<mbs, edge, line, received>>

-----------------------------------------------------------------------------
RightShift(value, bits) == (value + 2^(bits - 1)) \div 2^bits

Clamp(value, least, largest) ==
  IF value < least THEN least ELSE IF value > largest THEN largest ELSE value

Abs(n) == IF n < 0 THEN -n ELSE n

\* Samples of a macroblock along the line: all edges are four samples apart.
Size == IF mbs.plane = "luma" THEN 16 ELSE 8

-----------------------------------------------------------------------------
(* Strengths.                                                              *)

\* The blocks on either side of a luma edge, the first one of mb_p for edge 0.
PBlock(e) ==
  LET before == IF e = 0 THEN 3 ELSE e - 1
  IN  IF mbs.direction = "vertical" THEN <<before, mbs.at>> ELSE <<mbs.at, before>>

\* Faulty variant of QBlock: an index of the other direction.
QBlockTransposed(e) == <<e, mbs.at>>

QBlock(e) == IF mbs.direction = "vertical" THEN <<e, mbs.at>> ELSE <<mbs.at, e>>

IsLumaAllZero(e) ==
  /\ PBlock(e) \notin (IF e = 0 THEN mbs.p_cbp ELSE mbs.q_cbp)
  /\ QBlock(e) \notin mbs.q_cbp

mv_different_threshold == 4

IsMotionDifferent(p, q) ==
  \/ p.ref_id # q.ref_id
  \/ Abs(p.mv.x - q.mv.x) >= mv_different_threshold
  \/ Abs(p.mv.y - q.mv.y) >= mv_different_threshold

\* FilterUtil's strength of a luma edge; a P16x16 macroblock has one motion.
Strength(e) ==
  CASE mbs.intra                           -> IF e = 0 THEN 4 ELSE 3
    [] ~mbs.intra /\ ~IsLumaAllZero(e)     -> 2
    [] ~mbs.intra /\ IsLumaAllZero(e)      ->
         IF e = 0 /\ IsMotionDifferent(mbs.p_motion, mbs.q_motion) THEN 1 ELSE 0

\* Chroma takes the strength of the luma edge at the same place.
EdgeStrength == Strength(IF mbs.plane = "luma" THEN edge ELSE 2 * edge)

-----------------------------------------------------------------------------
(* Samples beside an edge, outwards from it.                               *)

\* CalculateAlphaAndBeta: both macroblocks have the same parameter.
index_a == Clamp(RightShift(mbs.qp + mbs.qp, 1), 0, 51)
alpha == s_alpha_table[index_a + 1]
beta == s_beta_table[index_a + 1]

Smooth(p, q) == Abs(q[0] - p[0]) < alpha /\ Abs(q[0] - q[1]) < beta /\ Abs(p[0] - p[1]) < beta

\* One side of the strong filter; l is that side, r the other one.
StrongLuma(l, r) ==
  LET rl0 == l[0] + r[0]
  IN  IF Abs(r[0] - l[0]) < (alpha \div 4) + 2 /\ Abs(l[0] - l[2]) < beta
      THEN [l EXCEPT ![0] = RightShift(r[1] + 2 * (l[1] + rl0) + l[2], 3),
                     ![1] = RightShift(l[2] + l[1] + rl0, 2),
                     ![2] = RightShift(2 * (l[3] + l[2]) + l[2] + l[1] + rl0, 3)]
      ELSE [l EXCEPT ![0] = RightShift(2 * l[1] + l[0] + r[1], 2)]

StrongChroma(l, r) == [l EXCEPT ![0] = RightShift(2 * l[1] + l[0] + r[1], 2)]

\* One side of the normal filter, whose nearest sample moves by dif.
NormalSide(l, r, dif, c0, luma) ==
  LET moved == [l EXCEPT ![0] = Clamp(l[0] + dif, 0, 255)]
  IN  IF luma /\ Abs(l[0] - l[2]) < beta
      THEN [moved EXCEPT ![1] = l[1] + Clamp((l[2] + RightShift(l[0] + r[0], 1) - 2 * l[1]) \div 2, -c0, c0)]
      ELSE moved

\* How far the samples beside the edge may move: one more for every side that
\* is smooth, in chroma one more.
Room(p, q, c0, luma) ==
  IF luma THEN c0 + (IF Abs(p[0] - p[2]) < beta THEN 1 ELSE 0) + (IF Abs(q[0] - q[2]) < beta THEN 1 ELSE 0)
  ELSE c0 + 1

Normal(p, q, c0, luma) ==
  LET tc0 == Room(p, q, c0, luma)
      dif == Clamp(RightShift(4 * (q[0] - p[0]) + (p[1] - q[1]), 3), -tc0, tc0)
  IN  <<NormalSide(p, q, dif, c0, luma), NormalSide(q, p, -dif, c0, luma)>>

DoFilter(strength, p, q) ==
  IF ~Smooth(p, q) THEN <<p, q>>
  ELSE IF strength = 4
  THEN IF mbs.plane = "luma" THEN <<StrongLuma(p, q), StrongLuma(q, p)>>
       ELSE <<StrongChroma(p, q), StrongChroma(q, p)>>
  ELSE Normal(p, q, s_clip_table[strength][index_a + 1], mbs.plane = "luma")

\* Faulty variant of GetLeftData: the samples of mb_p whatever the edge.
GetLeftDataOfNeighbour == [k \in 0..3 |-> line[-1 - k]]

\* The four samples before the edge.  Those before edge 0 are the last ones of
\* the macroblock mb_p, whose line ends at Size - 1 and is kept from -Size on.
GetLeftData ==
  [k \in 0..3 |->
     LET x == ((edge * 4 - 1 + Size) % Size) - k
     IN  line[IF edge = 0 THEN x - Size ELSE x]]

GetRightData == [k \in 0..3 |-> line[edge * 4 + k]]

\* The line with the samples beside the edge replaced.
SetData(p, q) ==
  [x \in DOMAIN line |->
     IF x \in (edge * 4)..(edge * 4 + 3) THEN q[x - edge * 4]
     ELSE IF x \in (edge * 4 - 4)..(edge * 4 - 1) THEN p[edge * 4 - 1 - x]
     ELSE line[x]]

-----------------------------------------------------------------------------
(* A receiver, by clause 8.7.2.                                            *)

\* The quantiser parameter of chroma, from that of luma.
ReceiverQP ==
  LET table == <<29, 30, 31, 32, 32, 33, 34, 34, 35, 35, 36, 36, 37, 37, 37, 38, 38, 38, 39, 39, 39, 39>>
  IN  IF mbs.plane = "luma" \/ mbs.qp < 30 THEN mbs.qp ELSE table[mbs.qp - 29]

ReceiverAlpha ==
  LET table == <<4, 4, 5, 6, 7, 8, 9, 10, 12, 13, 15, 17, 20, 22, 25, 28, 32, 36, 40, 45, 50, 56, 63, 71,
                 80, 90, 101, 113, 127, 144, 162, 182, 203, 226, 255, 255>>
  IN  IF ReceiverQP < 16 THEN 0 ELSE table[ReceiverQP - 15]

ReceiverBeta ==
  CASE ReceiverQP < 16      -> 0
    [] ReceiverQP \in 16..18 -> 2
    [] ReceiverQP \in 19..22 -> 3
    [] ReceiverQP \in 23..25 -> 4
    [] ReceiverQP > 25      -> 6 + ((ReceiverQP - 26) \div 2)

\* The parameters at which the clipping bound grows by one, by strength.
Growth ==
  << <<23, 33, 37, 40, 43, 44, 46, 47, 48, 49, 50, 51, 51>>,
     <<21, 31, 35, 38, 40, 42, 43, 44, 46, 46, 47, 48, 49, 50, 50, 51, 51>>,
     <<17, 27, 31, 34, 37, 38, 40, 41, 42, 43, 44, 45, 45, 46, 47, 47, 48, 48, 49, 49, 50, 50, 50, 51, 51>> >>

\* As many as the parameter has reached.
ReceiverBound(strength) ==
  CHOOSE n \in 0..Len(Growth[strength]) :
    /\ n > 0 => Growth[strength][n] <= ReceiverQP
    /\ n < Len(Growth[strength]) => ReceiverQP < Growth[strength][n + 1]

\* The block of a luma sample at x across the edges.
BlockAt(x) ==
  LET across == (x % 16) \div 4
  IN  IF mbs.direction = "vertical" THEN <<across, mbs.at>> ELSE <<mbs.at, across>>

Coded(x) == BlockAt(x) \in (IF x < 0 THEN mbs.p_cbp ELSE mbs.q_cbp)

MotionAt(x) == IF x < 0 THEN mbs.p_motion ELSE mbs.q_motion

\* The strength of the edge before the luma sample at x.
ReceiverStrength(x) ==
  LET p == MotionAt(x - 1)
      q == MotionAt(x)
  IN  CASE mbs.intra /\ x = 0 -> 4
        [] mbs.intra /\ x # 0 -> 3
        [] ~mbs.intra /\ (Coded(x - 1) \/ Coded(x)) -> 2
        [] ~mbs.intra /\ ~Coded(x - 1) /\ ~Coded(x) ->
             IF p.ref_id # q.ref_id \/ Abs(p.mv.x - q.mv.x) >= 4 \/ Abs(p.mv.y - q.mv.y) >= 4 THEN 1 ELSE 0

\* Edge e of the plane lies before the luma sample at the same place.
ReceiverEdgeStrength(e) == ReceiverStrength(IF mbs.plane = "luma" THEN 4 * e ELSE 2 * (4 * e))

Small(s) == Abs(s[2] - s[0]) < ReceiverBeta /\ mbs.plane = "luma"

\* What is added to the sample before the edge and taken from the one after it.
ReceiverDelta(strength, p, q) ==
  LET smooth == {s \in {<<"p", p>>, <<"q", q>>} : Small(s[2])}
      bound  == ReceiverBound(strength) + (IF mbs.plane = "luma" THEN Cardinality(smooth) ELSE 1)
  IN  Clamp((4 * (q[0] - p[0]) + (p[1] - q[1]) + 4) \div 8, -bound, bound)

\* The new samples of one side, p of its own and q of the other one.
ReceiverNormal(strength, p, q, delta) ==
  LET c == ReceiverBound(strength)
  IN  [p EXCEPT ![0] = Clamp(p[0] + delta, 0, 255),
                ![1] = IF Small(p)
                       THEN p[1] + Clamp((p[2] + ((p[0] + q[0] + 1) \div 2) - 2 * p[1]) \div 2, -c, c)
                       ELSE p[1]]

ReceiverStrong(p, q) ==
  IF Small(p) /\ Abs(p[0] - q[0]) < (ReceiverAlpha \div 4) + 2
  THEN [p EXCEPT ![0] = (p[2] + 2 * p[1] + 2 * p[0] + 2 * q[0] + q[1] + 4) \div 8,
                 ![1] = (p[2] + p[1] + p[0] + q[0] + 2) \div 4,
                 ![2] = (2 * p[3] + 3 * p[2] + p[1] + p[0] + q[0] + 4) \div 8]
  ELSE [p EXCEPT ![0] = (2 * p[1] + p[0] + q[1] + 2) \div 4]

\* The line after edge e.
ReceiverEdge(e, samples) ==
  LET x == 4 * e
      p == [k \in 0..3 |-> samples[x - 1 - k]]
      q == [k \in 0..3 |-> samples[x + k]]
      strength == ReceiverEdgeStrength(e)
      delta == ReceiverDelta(strength, p, q)
      new_p == IF strength = 4 THEN ReceiverStrong(p, q) ELSE ReceiverNormal(strength, p, q, delta)
      new_q == IF strength = 4 THEN ReceiverStrong(q, p) ELSE ReceiverNormal(strength, q, p, -delta)
      filtered == /\ strength # 0
                  /\ Abs(p[0] - q[0]) < ReceiverAlpha
                  /\ Abs(p[1] - p[0]) < ReceiverBeta
                  /\ Abs(q[1] - q[0]) < ReceiverBeta
  IN  IF filtered
      THEN [y \in DOMAIN samples |->
              IF y \in x..(x + 3) THEN new_q[y - x]
              ELSE IF y \in (x - 4)..(x - 1) THEN new_p[x - 1 - y]
              ELSE samples[y]]
      ELSE samples

-----------------------------------------------------------------------------
Init ==
  /\ mbs \in Inputs
  /\ edge = 0
  /\ line = mbs.line
  /\ received = mbs.line

\* No edge is filtered at the edge of the picture.
SkipEdge ==
  /\ edge = 0
  /\ ~mbs.has_neighbour
  /\ edge' = 1
  /\ UNCHANGED <<mbs, line, received>>

FilterEdge ==
  /\ edge < Size \div 4
  /\ edge > 0 \/ mbs.has_neighbour
  /\ LET filtered == DoFilter(EdgeStrength, GetLeftData, GetRightData)
     IN  line' = IF EdgeStrength = 0 THEN line ELSE SetData(filtered[1], filtered[2])
  /\ received' = ReceiverEdge(edge, received)
  /\ edge' = edge + 1
  /\ UNCHANGED mbs

Next == SkipEdge \/ FilterEdge

Spec == Init /\ [][Next]_vars

-----------------------------------------------------------------------------
(* Properties.                                                             *)

\* The strength FilterUtil gives an edge, from indices of blocks and the type
\* of the macroblock, is the one a receiver gives the samples beside it, inside
\* a macroblock, across two and in chroma, whose edges are fewer.
StrengthsAreReceivers ==
  edge < Size \div 4 /\ (edge > 0 \/ mbs.has_neighbour) => EdgeStrength = ReceiverEdgeStrength(edge)

\* The samples are a receiver's after every edge, in chroma as long as its
\* quantiser parameter is that of luma: filters that overlap, both filters of
\* both planes, all thresholds, and clipping.
FilteredAsReceiver == mbs.plane = "luma" \/ mbs.qp < 30 => line = received
=============================================================================
