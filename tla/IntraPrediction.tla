--------------------------- MODULE IntraPrediction ---------------------------
(***************************************************************************)
(* The samples the intra predictions are made of, on top of the modes of    *)
(* Intra4Modes: the nine modes of a 4x4 block from the samples around it    *)
(* (BlockNeighbors, Intra4LumaPredictor), and the four types of a 16x16     *)
(* luma and an 8x8 chroma prediction from the edges of the macroblocks      *)
(* beside it (Intra16LumaPredictor, Intra8ChromaPredictor).                 *)
(*                                                                         *)
(* What a block is reconstructed to is given by its place alone, whatever   *)
(* mode is chosen; before that its samples are zero.                        *)
(***************************************************************************)
EXTENDS Intra4Modes

CONSTANT
  Reconstructed(_, _, _)  \* sample (x, y) of a plane once it is reconstructed

VARIABLES
  m_predicted_data,     \* what the predictor of the 4x4 block holds
  m_predicted_data_map  \* predictions of the macroblock, by plane and type, while they are compared

prediction_vars == <<vars, m_predicted_data, m_predicted_data_map>>

s_default_color_value == 128

\* f[1] + ... + f[n].
SumTo(f, n) ==
  LET sum[k \in 0..n] == IF k = 0 THEN 0 ELSE sum[k - 1] + f[k]
  IN  sum[n]

\* MathUtil::RightShift of an int, and of an unsigned of 32 bits.
RightShift(value, bits) == (value + 2^(bits - 1)) \div 2^bits

UnsignedRightShift(value, bits) ==
  IF value + 2^(bits - 1) >= 0 THEN RightShift(value, bits)
  ELSE 2^(32 - bits) + RightShift(value, bits)

ClampColor(value) == IF value < 0 THEN 0 ELSE IF value > 255 THEN 255 ELSE value

-----------------------------------------------------------------------------
(* Prediction of a 4x4 block.                                              *)

\* Index in coding order of the block at place p.
CodingIndex(p) == 8 * (p.y \div 2) + 4 * (p.x \div 2) + 2 * (p.y % 2) + (p.x % 2)

\* BlockNeighbors::GetPixelValue: this macroblock's block data, or the slice's frame.
GetPixelValue(x, y) ==
  LET addr == (y \div 16) * width_in_mb + (x \div 16)
      block == [x |-> (x % 16) \div 4, y |-> (y % 16) \div 4]
  IN  IF addr < m_addr \/ (addr = m_addr /\ CodingIndex(block) < index)
      THEN Reconstructed("luma", x, y) ELSE 0

\* Faulty variant of HasUpRight: one of the blocks whose neighbour comes later is forgotten.
HasUpRightForgetful(p) ==
  /\ ~(p.x = 3 /\ p.y > 0)
  /\ ~(p.x = 1 /\ p.y = 1)
  /\ InPicture(p).x + 1 < 4 * width_in_mb

\* Whether the four samples above and to the right are read.
HasUpRight(p) ==
  /\ ~(p.x = 3 /\ p.y > 0)
  /\ ~(p.x = 1 /\ p.y \in {1, 3})
  /\ InPicture(p).x + 1 < 4 * width_in_mb

Edges == {<<x, -1>> : x \in -1..7} \cup {<<-1, y>> : y \in 0..3}

\* BlockNeighbors::Init: the samples a to h above, i to l on the left, m at the corner.
EdgeData(p) ==
  LET x == 4 * InPicture(p).x
      y == 4 * InPicture(p).y
      Exists(e) == (e[1] >= 0 \/ IsLeftAvailable(p)) /\ (e[2] >= 0 \/ IsUpAvailable(p))
  IN  [e \in Edges |->
         CASE ~Exists(e) -> s_default_color_value
           [] Exists(e) /\ e[1] > 3 /\ ~HasUpRight(p) -> GetPixelValue(x + 3, y - 1)
           [] OTHER -> GetPixelValue(x + e[1], y + e[2])]

Up(e, x) == e[<<x, -1>>]

Left(e, y) == e[<<-1, y>>]

Mean(a, b) == RightShift(a + b, 1)

WeightedMean(a, b, c) == RightShift(a + 2 * b + c, 2)

DCMode(p, e) ==
  LET ups == SumTo([i \in 1..4 |-> Up(e, i - 1)], 4)
      lefts == SumTo([i \in 1..4 |-> Left(e, i - 1)], 4)
  IN  CASE IsLeftAvailable(p) /\ IsUpAvailable(p) -> RightShift(ups + lefts, 3)
        [] IsLeftAvailable(p) /\ ~IsUpAvailable(p) -> RightShift(lefts, 2)
        [] ~IsLeftAvailable(p) /\ IsUpAvailable(p) -> RightShift(ups, 2)
        [] OTHER -> s_default_color_value

DownLeftMode(e, x, y) ==
  IF x = 3 /\ y = 3 THEN RightShift(Up(e, 6) + 3 * Up(e, 7), 2)
  ELSE WeightedMean(Up(e, x + y), Up(e, x + y + 1), Up(e, x + y + 2))

DownRightMode(e, x, y) ==
  CASE x > y -> WeightedMean(Up(e, x - y - 2), Up(e, x - y - 1), Up(e, x - y))
    [] x < y -> WeightedMean(Left(e, y - x - 2), Left(e, y - x - 1), Left(e, y - x))
    [] x = y -> WeightedMean(Up(e, 0), Up(e, -1), Left(e, 0))

VerticalRightMode(e, x, y) ==
  LET z_vr == 2 * x - y
      column == x - (y \div 2)
  IN  CASE z_vr \in {0, 2, 4, 6} -> Mean(Up(e, column - 1), Up(e, column))
        [] z_vr \in {1, 3, 5} -> WeightedMean(Up(e, column - 2), Up(e, column - 1), Up(e, column))
        [] z_vr = -1 -> WeightedMean(Left(e, 0), Up(e, -1), Up(e, 0))
        [] OTHER -> WeightedMean(Left(e, y - 1), Left(e, y - 2), Left(e, y - 3))

\* The same code with rows and columns exchanged.
HorizontalDownMode(e, x, y) ==
  LET exchanged == [k \in {<<i[2], i[1]>> : i \in Edges} |-> e[<<k[2], k[1]>>]]
  IN  VerticalRightMode(exchanged, y, x)

VerticalLeftMode(e, x, y) ==
  LET column == x + (y \div 2)
  IN  IF y \in {0, 2} THEN Mean(Up(e, column), Up(e, column + 1))
      ELSE WeightedMean(Up(e, column), Up(e, column + 1), Up(e, column + 2))

HorizontalUpMode(e, x, y) ==
  LET z_hu == x + 2 * y
      row == y + (x \div 2)
  IN  CASE z_hu \in {0, 2, 4} -> Mean(Left(e, row), Left(e, row + 1))
        [] z_hu \in {1, 3} -> WeightedMean(Left(e, row), Left(e, row + 1), Left(e, row + 2))
        [] z_hu = 5 -> RightShift(Left(e, 2) + 3 * Left(e, 3), 2)
        [] OTHER -> Left(e, 3)

SamplesOf(size) == (0..(size - 1)) \X (0..(size - 1))

Calculate(p, type) ==
  LET e == EdgeData(p)
  IN  [s \in SamplesOf(4) |->
         CASE type = Vertical -> Up(e, s[1])
           [] type = Horizontal -> Left(e, s[2])
           [] type = DC -> DCMode(p, e)
           [] type = DownLeft -> DownLeftMode(e, s[1], s[2])
           [] type = DownRight -> DownRightMode(e, s[1], s[2])
           [] type = VerticalRight -> VerticalRightMode(e, s[1], s[2])
           [] type = HorizontalDown -> HorizontalDownMode(e, s[1], s[2])
           [] type = VerticalLeft -> VerticalLeftMode(e, s[1], s[2])
           [] type = HorizontalUp -> HorizontalUpMode(e, s[1], s[2])]

-----------------------------------------------------------------------------
(* Predictions of a whole macroblock.                                      *)

PlaneTypes == {"luma", "cb", "cr"}

Size(plane) == IF plane = "luma" THEN 16 ELSE 8

\* The frames hold samples of eight bits.
ASSUME PictureAssumption ==
  \A plane \in PlaneTypes :
    \A x \in 0..(Size(plane) * width_in_mb - 1), y \in 0..(Size(plane) * height_in_mb - 1) :
      Reconstructed(plane, x, y) \in 0..255

MBLeftAvailable == m_addr % width_in_mb # 0

MBUpAvailable == m_addr >= width_in_mb

\* MBNeighbors::ObtainLeftAndUpEdge: the sides of the macroblocks beside this one
\* that face it; index -1 is the element they meet in.
LeftData(plane) ==
  LET n == Size(plane)
      x == n * (m_addr % width_in_mb)
      y == n * (m_addr \div width_in_mb)
  IN  [i \in -1..(n - 1) |-> Reconstructed(plane, x - 1, y + i)]

UpData(plane) ==
  LET n == Size(plane)
      x == n * (m_addr % width_in_mb)
      y == n * (m_addr \div width_in_mb)
  IN  [i \in -1..(n - 1) |-> Reconstructed(plane, x + i, y - 1)]

SumOf(data, first, n) == SumTo([i \in 1..n |-> data[first + i - 1]], n)

LumaDC ==
  LET lefts == SumOf(LeftData("luma"), 0, 16)
      ups == SumOf(UpData("luma"), 0, 16)
  IN  CASE MBLeftAvailable /\ MBUpAvailable -> RightShift(lefts + ups, 5)
        [] MBLeftAvailable /\ ~MBUpAvailable -> RightShift(lefts, 4)
        [] ~MBLeftAvailable /\ MBUpAvailable -> RightShift(ups, 4)
        [] OTHER -> s_default_color_value

\* One value per 4x4 block: from both sides on the diagonal, else from the side it
\* touches, if there is one.
ChromaDC(plane, x_in_block, y_in_block) ==
  LET lefts == SumOf(LeftData(plane), 4 * y_in_block, 4)
      ups == SumOf(UpData(plane), 4 * x_in_block, 4)
      on_diagonal == x_in_block = y_in_block
      use_left == MBLeftAvailable /\ (on_diagonal \/ y_in_block = 1 \/ ~MBUpAvailable)
      use_up == MBUpAvailable /\ (on_diagonal \/ x_in_block = 1 \/ ~MBLeftAvailable)
  IN  CASE use_left /\ use_up -> RightShift(lefts + ups, 3)
        [] use_left /\ ~use_up -> RightShift(lefts, 2)
        [] ~use_left /\ use_up -> RightShift(ups, 2)
        [] OTHER -> s_default_color_value

\* The slope of an edge: differences of samples around its middle, the last of which
\* meets the corner.
Slope(data, n) ==
  SumTo([i \in 1..(n \div 2) |-> i * (data[(n \div 2) - 1 + i] - data[(n \div 2) - 1 - i])], n \div 2)

\* The loops count in unsigned integers, and with them the sum is one.
PlaneMode(plane) ==
  LET n == Size(plane)
      factor == IF n = 16 THEN 5 ELSE 34
      a == 16 * (LeftData(plane)[n - 1] + UpData(plane)[n - 1])
      b == RightShift(factor * Slope(UpData(plane), n), 6)
      c == RightShift(factor * Slope(LeftData(plane), n), 6)
      middle == (n \div 2) - 1
  IN  [s \in SamplesOf(n) |->
         ClampColor(UnsignedRightShift(a + b * (s[1] - middle) + c * (s[2] - middle), 5))]

DCPrediction(plane) ==
  IF plane = "luma" THEN LET dc == LumaDC IN [s \in SamplesOf(16) |-> dc]
  ELSE LET dc == [b \in SamplesOf(2) |-> ChromaDC(plane, b[1], b[2])]
       IN  [s \in SamplesOf(8) |-> dc[<<s[1] \div 4, s[2] \div 4>>]]

AllowedTypes ==
  {"DC"} \cup (IF MBLeftAvailable THEN {"Horizontal"} ELSE {})
         \cup (IF MBUpAvailable THEN {"Vertical"} ELSE {})
         \cup (IF MBLeftAvailable /\ MBUpAvailable THEN {"Plane"} ELSE {})

CalculateAllPredictionData(plane, type) ==
  LET up == UpData(plane)
      left == LeftData(plane)
  IN  CASE type = "DC" -> DCPrediction(plane)
        [] type = "Vertical" -> [s \in SamplesOf(Size(plane)) |-> up[s[1]]]
        [] type = "Horizontal" -> [s \in SamplesOf(Size(plane)) |-> left[s[2]]]
        [] type = "Plane" -> PlaneMode(plane)

-----------------------------------------------------------------------------
(* A receiver (clauses 8.3.1.2, 8.3.3 and 8.3.4 of the standard).          *)

\* A sample it has decoded before the block it is at.
Decoded(x, y) ==
  LET addr == (y \div 16) * width_in_mb + (x \div 16)
  IN  /\ x \in 0..(16 * width_in_mb - 1)
      /\ y >= 0
      /\ addr < m_addr \/ (addr = m_addr /\ CodingIndex([x |-> (x % 16) \div 4, y |-> (y % 16) \div 4]) < index)

\* The thirteen samples around a block as one line: from the lowest on the left,
\* -4, past the corner, 0, to the last above, 8.  Those above and to the right that
\* are not decoded are the last one above; one past the end is the end.
Line(p) ==
  LET x == 4 * InPicture(p).x
      y == 4 * InPicture(p).y
  IN  [k \in -4..9 |->
         CASE k <= 0 -> Reconstructed("luma", x - 1, y - 1 - k)
           [] k \in 1..4 -> Reconstructed("luma", x + k - 1, y - 1)
           [] OTHER -> Reconstructed("luma", x + (IF Decoded(x + 4, y - 1) THEN Smaller(k, 8) ELSE 4) - 1, y - 1)]

\* The modes that need no sample that is not decoded.
ReceiverAllows(p, type) ==
  LET x == 4 * InPicture(p).x
      y == 4 * InPicture(p).y
  IN  CASE type \in {Vertical, DownLeft, VerticalLeft} -> Decoded(x, y - 1)
        [] type \in {Horizontal, HorizontalUp} -> Decoded(x - 1, y)
        [] type = DC -> TRUE
        [] OTHER -> Decoded(x, y - 1) /\ Decoded(x - 1, y) /\ Decoded(x - 1, y - 1)

\* Filters along the line: around a sample, and between it and the next.
Around(l, k) == (l[k - 1] + 2 * l[k] + l[k + 1] + 2) \div 4

Between(l, k) == (l[k] + l[k + 1] + 1) \div 2

\* VerticalRight along a line; HorizontalDown is the same along its reverse.
ReceiverSteep(l, x, y) ==
  LET z == 2 * x - y
      k == x - (y \div 2)
  IN  CASE z >= 0 /\ z % 2 = 0 -> Between(l, k)
        [] z >= -1 /\ z % 2 = 1 -> Around(l, k)
        [] OTHER -> Around(l, 1 - y)

\* The left samples, of which the last goes on for ever.
ReceiverHorizontalUp(l, x, y) ==
  LET left == [j \in 0..6 |-> l[-(Smaller(j, 3) + 1)]]
      j == y + (x \div 2)
  IN  IF x % 2 = 0 THEN (left[j] + left[j + 1] + 1) \div 2
      ELSE (left[j] + 2 * left[j + 1] + left[j + 2] + 2) \div 4

\* The mean of the samples that are decoded, 128 if none is.
ReceiverMean(lefts, ups) ==
  LET sum == SumTo(lefts, Len(lefts)) + SumTo(ups, Len(ups))
      count == Len(lefts) + Len(ups)
  IN  IF count = 0 THEN 128 ELSE (sum + (count \div 2)) \div count

ReceiverBlock(p, type) ==
  LET l == Line(p)
      reverse == [k \in -4..4 |-> l[-k]]
      dc == ReceiverMean(IF ReceiverAllows(p, Horizontal) THEN <<l[-1], l[-2], l[-3], l[-4]>> ELSE <<>>,
                         IF ReceiverAllows(p, Vertical) THEN <<l[1], l[2], l[3], l[4]>> ELSE <<>>)
      At(x, y) ==
        CASE type = Vertical -> l[x + 1]
          [] type = Horizontal -> l[-(y + 1)]
          [] type = DC -> dc
          [] type = DownLeft -> IF x + y = 6 THEN (l[7] + 3 * l[8] + 2) \div 4 ELSE Around(l, x + y + 2)
          [] type = DownRight -> Around(l, x - y)
          [] type = VerticalRight -> ReceiverSteep(l, x, y)
          [] type = HorizontalDown -> ReceiverSteep(reverse, y, x)
          [] type = VerticalLeft ->
               IF y % 2 = 0 THEN Between(l, x + (y \div 2) + 1) ELSE Around(l, x + (y \div 2) + 2)
          [] type = HorizontalUp -> ReceiverHorizontalUp(l, x, y)
  IN  [s \in SamplesOf(4) |-> At(s[1], s[2])]

\* Sample (x, y) of a plane of this macroblock, counted from its corner.
ReceivedSample(plane, x, y) ==
  Reconstructed(plane, Size(plane) * (m_addr % width_in_mb) + x, Size(plane) * (m_addr \div width_in_mb) + y)

\* The plane through the edges, before it is clipped to a colour.
ReceiverPlane(plane) ==
  LET n == Size(plane)
      half == n \div 2
      P(x, y) == ReceivedSample(plane, x, y)
      factor == IF plane = "luma" THEN 5 ELSE 34
      H == SumTo([i \in 1..half |-> i * (P(half - 1 + i, -1) - P(half - 1 - i, -1))], half)
      V == SumTo([i \in 1..half |-> i * (P(-1, half - 1 + i) - P(-1, half - 1 - i))], half)
      a == 16 * (P(-1, n - 1) + P(n - 1, -1))
      b == (factor * H + 32) \div 64
      c == (factor * V + 32) \div 64
  IN  [s \in SamplesOf(n) |-> (a + b * (s[1] - half + 1) + c * (s[2] - half + 1) + 16) \div 32]

\* The sides a block of the macroblock takes its mean from; chroma blocks off the
\* diagonal prefer one.
ReceiverDC(plane) ==
  LET n == IF plane = "luma" THEN 16 ELSE 4
      lefts(y) == IF m_addr % width_in_mb = 0 THEN <<>> ELSE [i \in 1..n |-> ReceivedSample(plane, -1, n * y + i - 1)]
      ups(x) == IF m_addr < width_in_mb THEN <<>> ELSE [i \in 1..n |-> ReceivedSample(plane, n * x + i - 1, -1)]
      Of(x, y) ==
        CASE x > y /\ ups(x) # <<>> -> ReceiverMean(<<>>, ups(x))
          [] x < y /\ lefts(y) # <<>> -> ReceiverMean(lefts(y), <<>>)
          [] OTHER -> ReceiverMean(lefts(y), ups(x))
      values == [b \in SamplesOf(Size(plane) \div n) |-> Of(b[1], b[2])]
  IN  [s \in SamplesOf(Size(plane)) |-> values[<<s[1] \div n, s[2] \div n>>]]

ReceiverMacroblock(plane, type) ==
  CASE type = "DC" -> ReceiverDC(plane)
    [] type = "Vertical" -> [s \in SamplesOf(Size(plane)) |-> ReceivedSample(plane, s[1], -1)]
    [] type = "Horizontal" -> [s \in SamplesOf(Size(plane)) |-> ReceivedSample(plane, -1, s[2])]
    [] type = "Plane" -> LET samples == ReceiverPlane(plane) IN [s \in DOMAIN samples |-> ClampColor(samples[s])]

ReceiverTypes ==
  {type \in {"DC", "Horizontal", "Vertical", "Plane"} :
     /\ type \in {"Horizontal", "Plane"} => m_addr % width_in_mb > 0
     /\ type \in {"Vertical", "Plane"} => m_addr >= width_in_mb}

-----------------------------------------------------------------------------
BlankBlock == [s \in SamplesOf(4) |-> 0]

NothingPredicted == [k \in {} |-> BlankBlock]

PredictionInit ==
  /\ Init
  /\ m_predicted_data = BlankBlock
  /\ m_predicted_data_map = NothingPredicted

\* The chroma and the 16x16 predictors each prepare all types to choose from.
PredictMacroblock ==
  /\ TryIntra16
  /\ m_predicted_data_map' =
       [k \in PlaneTypes \X AllowedTypes |-> CalculateAllPredictionData(k[1], k[2])]
  /\ UNCHANGED m_predicted_data

\* A mode that is not predictable leaves the samples of an earlier trial, as it
\* leaves the mode.
PredictBlock ==
  /\ TryMode
  /\ m_predicted_data' =
       IF Predictable(Place(index), trial) THEN Calculate(Place(index), trial) ELSE m_predicted_data
  /\ m_predicted_data_map' = NothingPredicted

\* The next block has a predictor of its own.
ReconstructBlock ==
  /\ DecideMode
  /\ m_predicted_data' = BlankBlock
  /\ UNCHANGED m_predicted_data_map

OtherStep ==
  /\ ChooseIntra4 \/ ChooseIntra16 \/ NextMB
  /\ UNCHANGED <<m_predicted_data, m_predicted_data_map>>

PredictionNext == PredictMacroblock \/ PredictBlock \/ ReconstructBlock \/ OtherStep

PredictionSpec == PredictionInit /\ [][PredictionNext]_prediction_vars

-----------------------------------------------------------------------------
(* Properties.                                                             *)

\* Every 4x4 mode a receiver allows is tried with the receiver's samples: at the
\* edges of the picture, where the samples above and to the right belong to a block
\* that is coded later, and with blocks of this macroblock not yet reconstructed.
BlocksAreReceivers ==
  pc = "trial" /\ trial > 0 /\ ReceiverAllows(Place(index), trial - 1) =>
    m_predicted_data = ReceiverBlock(Place(index), trial - 1)

\* The macroblock's own predictions are the receiver's, of the types it allows; a
\* sample of the plane where the plane lies below all colours is left out.
MacroblocksAreReceivers ==
  m_predicted_data_map # NothingPredicted =>
    /\ DOMAIN m_predicted_data_map = PlaneTypes \X ReceiverTypes
    /\ \A k \in DOMAIN m_predicted_data_map :
         LET expected == ReceiverMacroblock(k[1], k[2])
             exact == ReceiverPlane(k[1])
         IN  \A s \in DOMAIN expected :
               (k[2] = "Plane" /\ exact[s] < 0) \/ m_predicted_data_map[k][s] = expected[s]

PredictionIsReceivers == BlocksAreReceivers /\ MacroblocksAreReceivers

\* Where the plane lies below all colours it is clipped to the darkest.
PlaneIsReceivers ==
  \A k \in DOMAIN m_predicted_data_map :
    k[2] = "Plane" => m_predicted_data_map[k] = ReceiverMacroblock(k[1], k[2])
=============================================================================
