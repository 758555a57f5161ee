----------------------------- MODULE Transform -----------------------------
(***************************************************************************)
(* The residual of one block: difference, transform, quantisation, inverse *)
(* quantisation, inverse transform and reconstruction, as the flows of the *)
(* encoder run them:                                                       *)
(*   "4x4"     a luma block of an intra 4x4 or an inter macroblock         *)
(*             (Intra4LumaFlowNode, InterLumaFlowBase);                    *)
(*   "luma16"  the luma of an intra 16x16 macroblock, sixteen blocks and   *)
(*             the block of their DC coefficients (Intra16LumaFlow);       *)
(*   "chroma"  one chroma plane, four blocks and their DC coefficients     *)
(*             (IntraChromaFlow, InterChromaFlow).                         *)
(* Beside them stands a receiver that knows the quantised levels and the   *)
(* prediction.  Which cheap coefficients are dropped is InterResidual's    *)
(* subject; here none are.                                                 *)
(*                                                                         *)
(* A block is a tuple of rows.                                             *)
(***************************************************************************)
EXTENDS Integers, Sequences

CONSTANTS
  Inputs,  \* records [kind, original, predicted]: blocks of samples
  QPs

ASSUME QPAssumption == QPs \subseteq 0..51

\* The blocks a flow transforms together.
BlocksOf(kind) == CASE kind = "4x4" -> 1 [] kind = "luma16" -> 16 [] kind = "chroma" -> 4

Samples == [1..4 -> [1..4 -> 0..255]]

ASSUME InputsAssumption ==
  \A i \in Inputs :
    /\ i.kind \in {"4x4", "luma16", "chroma"}
    /\ i.original \in [1..BlocksOf(i.kind) -> Samples]
    /\ i.predicted \in [1..BlocksOf(i.kind) -> Samples]

VARIABLES
  pc,               \* the step that comes next
  input,            \* the samples and their prediction
  qp,
  is_intra,         \* the slice type as the quantiser is told it
  m_blocks,         \* difference, coefficients, levels and back
  m_dc_block,       \* <<>> for a 4x4 block
  levels,           \* ghost: what is handed to the entropy coder
  m_reconstructed   \* the samples the encoder predicts from

vars == <<pc, input, qp, is_intra, m_blocks, m_dc_block, levels, m_reconstructed>>

-----------------------------------------------------------------------------
(* Blocks.                                                                 *)

Column(b, x) == <<b[1][x], b[2][x], b[3][x], b[4][x]>>

Transpose4(b) == <<Column(b, 1), Column(b, 2), Column(b, 3), Column(b, 4)>>

\* A one-dimensional transform of every row.
Rows(Pass(_), b) == <<Pass(b[1]), Pass(b[2]), Pass(b[3]), Pass(b[4])>>

\* First the rows, then the columns.
RowsThenColumns(Pass(_), b) == Transpose4(Rows(Pass, Transpose4(Rows(Pass, b))))

Each(Op(_), b) == [y \in DOMAIN b |-> [x \in DOMAIN b[y] |-> Op(b[y][x])]]

\* x >> n of a signed number.
Shift(v, n) == v \div 2^n

\* MathUtil::RightShift rounds to nearest.
RightShift(v, n) == (v + 2^(n - 1)) \div 2^n

Magnitude(v) == IF v < 0 THEN -v ELSE v

Clamp(v) == IF v < 0 THEN 0 ELSE IF v > 255 THEN 255 ELSE v

-----------------------------------------------------------------------------
(* TransformUtil.                                                          *)

HadamardPass(p) ==
  LET t0 == p[1] + p[4]
      t1 == p[2] + p[3]
      t2 == p[2] - p[3]
      t3 == p[1] - p[4]
  IN  <<t0 + t1, t2 + t3, t0 - t1, t3 - t2>>

Hadamard4x4(b, shift_bits) == Each(LAMBDA v : Shift(v, shift_bits), RowsThenColumns(HadamardPass, b))

Hadamard2x2(b) ==
  <<<<b[1][1] + b[1][2] + b[2][1] + b[2][2], b[1][1] - b[1][2] + b[2][1] - b[2][2]>>,
    <<b[1][1] + b[1][2] - b[2][1] - b[2][2], b[1][1] - b[1][2] - b[2][1] + b[2][2]>>>>

DCTPass(p) ==
  LET t0 == p[1] + p[4]
      t1 == p[2] + p[3]
      t2 == p[2] - p[3]
      t3 == p[1] - p[4]
  IN  <<t0 + t1, 2 * t3 + t2, t0 - t1, t3 - 2 * t2>>

DCT(b) == RowsThenColumns(DCTPass, b)

InversePass(p) ==
  LET t0 == p[1] + p[3]
      t1 == p[1] - p[3]
      t2 == Shift(p[2], 1) - p[4]
      t3 == p[2] + Shift(p[4], 1)
  IN  <<t0 + t3, t1 + t2, t1 - t2, t0 - t3>>

\* Faulty variant of InverseDCT: the columns first.  Only the rounding of the
\* halves tells the two apart.
InverseDCTColumnsFirst(b) == Rows(InversePass, Transpose4(Rows(InversePass, Transpose4(b))))

InverseDCT(b) == RowsThenColumns(InversePass, b)

-----------------------------------------------------------------------------
(* QuantizeUtil.  The matrices have one value where both indices are even,  *)
(* one where one is odd and one where both are.                            *)

s_quant_matrix ==
  <<<<13107, 8066, 5243>>, <<11916, 7490, 4660>>, <<10082, 6554, 4194>>,
    <<9362, 5825, 3647>>, <<8192, 5243, 3355>>, <<7282, 4559, 2893>>>>

s_dequant_matrix ==
  <<<<10, 13, 16>>, <<11, 14, 18>>, <<13, 16, 20>>, <<14, 18, 23>>, <<16, 20, 25>>, <<18, 23, 29>>>>

Odd(i) == IF i % 2 = 1 THEN 1 ELSE 0

\* The entry of a matrix at zero-based x, y.
At(matrix, x, y) == matrix[(qp % 6) + 1][1 + Odd(x) + Odd(y)]

QBits == 15 + qp \div 6

\* 682 / 2048 of a step for intra slices, 342 / 2048 for inter.
QOffset == (IF is_intra THEN 682 ELSE 342) * 2^(QBits - 11)

Quantized(val, factor, offset, bits) ==
  LET positive_val == (Magnitude(val) * factor + offset) \div 2^bits
  IN  IF val >= 0 THEN positive_val ELSE -positive_val

\* Faulty variant of QuantizeDC: the shift of the Hadamard transform is missed.
QuantizeDCNoShift(b) == Each(LAMBDA v : Quantized(v, At(s_quant_matrix, 0, 0), QOffset, QBits), b)

QuantizeDC(b) == Each(LAMBDA v : Quantized(v, At(s_quant_matrix, 0, 0), 2 * QOffset, QBits + 1), b)

QuantizeNormal(b) ==
  [y \in 1..4 |-> [x \in 1..4 |-> Quantized(b[y][x], At(s_quant_matrix, x - 1, y - 1), QOffset, QBits)]]

\* The DC coefficient of the result stays zero.
QuantizeAC(b) == [QuantizeNormal(b) EXCEPT ![1][1] = 0]

\* Faulty variant of InverseQuantizeNormal: the entry of the first row for
\* every row.
InverseQuantizeNormalFlat(b) ==
  [y \in 1..4 |-> [x \in 1..4 |-> b[y][x] * At(s_dequant_matrix, x - 1, 0) * 2^(qp \div 6)]]

InverseQuantizeNormal(b) ==
  [y \in 1..4 |-> [x \in 1..4 |-> b[y][x] * At(s_dequant_matrix, x - 1, y - 1) * 2^(qp \div 6)]]

\* InverseQuantizeDC: a shift of two for luma, of one for chroma.
InverseQuantizeDC(b, shift) ==
  Each(LAMBDA v : RightShift(v * At(s_dequant_matrix, 0, 0) * 2^(qp \div 6), shift), b)

-----------------------------------------------------------------------------
(* The flows.                                                              *)

DCSide == IF input.kind = "luma16" THEN 4 ELSE 2

\* The block of DC coefficients, block i of a plane at x = i % side, y = i / side.
DCOf(blocks) ==
  [y \in 1..DCSide |-> [x \in 1..DCSide |-> blocks[(y - 1) * DCSide + x][1][1]]]

DCAt(dc, i) == dc[((i - 1) \div DCSide) + 1][((i - 1) % DCSide) + 1]

\* The difference of two blocks of samples.
Difference(a, b) == [y \in 1..4 |-> [x \in 1..4 |-> a[y][x] - b[y][x]]]

Init ==
  /\ input \in Inputs
  /\ qp \in QPs
  /\ is_intra \in IF input.kind = "luma16" THEN {TRUE} ELSE BOOLEAN
  /\ pc = "transform"
  /\ m_blocks = [i \in DOMAIN input.original |-> Difference(input.original[i], input.predicted[i])]
  /\ m_dc_block = <<>>
  /\ levels = <<>>
  /\ m_reconstructed = <<>>

\* DCT of every block; Luma16Transformer and ChromaTransformer then transform
\* the DC coefficients.
TransformBlocks ==
  /\ pc = "transform"
  /\ LET coefficients == [i \in DOMAIN m_blocks |-> DCT(m_blocks[i])]
     IN  /\ m_blocks' = coefficients
         /\ m_dc_block' = CASE input.kind = "4x4"    -> <<>>
                            [] input.kind = "luma16" -> Hadamard4x4(DCOf(coefficients), 1)
                            [] input.kind = "chroma" -> Hadamard2x2(DCOf(coefficients))
  /\ pc' = "quantize"
  /\ UNCHANGED <<input, qp, is_intra, levels, m_reconstructed>>

\* QuantizeNormal, or Luma16Quantizer and ChromaQuantizer.
Quantize ==
  /\ pc = "quantize"
  /\ m_dc_block' = QuantizeDC(m_dc_block)
  /\ m_blocks' = [i \in DOMAIN m_blocks |->
                    IF input.kind = "4x4" THEN QuantizeNormal(m_blocks[i]) ELSE QuantizeAC(m_blocks[i])]
  /\ levels' = [dc |-> m_dc_block', blocks |-> m_blocks']
  /\ pc' = "inverse_quantize"
  /\ UNCHANGED <<input, qp, is_intra, m_reconstructed>>

\* InverseHadamard of the DC levels, then InverseIntra16LumaQuantizer or
\* InverseChromaQuantizer, which put the DC coefficients in their places.
InverseQuantize ==
  /\ pc = "inverse_quantize"
  /\ m_dc_block' = CASE input.kind = "4x4"    -> <<>>
                     [] input.kind = "luma16" -> InverseQuantizeDC(Hadamard4x4(m_dc_block, 0), 2)
                     [] input.kind = "chroma" -> InverseQuantizeDC(Hadamard2x2(m_dc_block), 1)
  /\ m_blocks' = [i \in DOMAIN m_blocks |->
                    IF input.kind = "4x4" THEN InverseQuantizeNormal(m_blocks[i])
                    ELSE [InverseQuantizeNormal(m_blocks[i]) EXCEPT ![1][1] = DCAt(m_dc_block', i)]]
  /\ pc' = "inverse_transform"
  /\ UNCHANGED <<input, qp, is_intra, levels, m_reconstructed>>

InverseTransform ==
  /\ pc = "inverse_transform"
  /\ m_blocks' = [i \in DOMAIN m_blocks |-> InverseDCT(m_blocks[i])]
  /\ pc' = "reconstruct"
  /\ UNCHANGED <<input, qp, is_intra, m_dc_block, levels, m_reconstructed>>

\* ReconstructUtil::Reconstruct of every sample.
Reconstruct ==
  /\ pc = "reconstruct"
  /\ m_reconstructed' =
       [i \in DOMAIN m_blocks |-> [y \in 1..4 |-> [x \in 1..4 |->
          Clamp(RightShift(m_blocks[i][y][x] + input.predicted[i][y][x] * 2^6, 6))]]]
  /\ pc' = "done"
  /\ UNCHANGED <<input, qp, is_intra, m_blocks, m_dc_block, levels>>

Next == TransformBlocks \/ Quantize \/ InverseQuantize \/ InverseTransform \/ Reconstruct

Spec == Init /\ [][Next]_vars

-----------------------------------------------------------------------------
(* A receiver: clause 8.5 of the standard, from the levels, the prediction *)
(* and the quantiser parameter.  Its arithmetic is written as the standard *)
(* writes it: scaling by 16 times the weight, rounding that depends on the *)
(* parameter, transforms as products with the matrices.                    *)

\* Table 8-15, from a luma parameter of 30 on.
ChromaQPTable == <<29, 30, 31, 32, 32, 33, 34, 34, 35, 35, 36, 36, 37, 37, 37, 38, 38, 38, 39, 39, 39, 39>>

ReceiverQP ==
  IF input.kind = "chroma" /\ qp >= 30 THEN ChromaQPTable[qp - 29] ELSE qp

Weights == <<<<10, 16, 13>>, <<11, 18, 14>>, <<13, 20, 16>>, <<14, 23, 18>>, <<16, 25, 20>>, <<18, 29, 23>>>>

LevelScale(x, y) ==
  LET w == Weights[(ReceiverQP % 6) + 1]
  IN  16 * (IF x % 2 = 0 /\ y % 2 = 0 THEN w[1] ELSE IF x % 2 = 1 /\ y % 2 = 1 THEN w[2] ELSE w[3])

ScaledBy(v, x, y) ==
  LET per == ReceiverQP \div 6
  IN  IF per >= 4 THEN v * LevelScale(x, y) * 2^(per - 4)
      ELSE (v * LevelScale(x, y) + 2^(3 - per)) \div 2^(4 - per)

Signs4 == <<<<1, 1, 1, 1>>, <<1, 1, -1, -1>>, <<1, -1, -1, 1>>, <<1, -1, 1, -1>>>>
Signs2 == <<<<1, 1>>, <<1, -1>>>>

\* Row r of a matrix against column c of another.
Product(a, b, r, c) ==
  IF Len(b) = 2 THEN a[r][1] * b[1][c] + a[r][2] * b[2][c]
  ELSE a[r][1] * b[1][c] + a[r][2] * b[2][c] + a[r][3] * b[3][c] + a[r][4] * b[4][c]

Times(a, b) == [r \in DOMAIN a |-> [c \in DOMAIN b |-> Product(a, b, r, c)]]

ReceivedDC(c) ==
  LET signs == IF input.kind = "luma16" THEN Signs4 ELSE Signs2
      f     == Times(Times(signs, c), signs)
      per   == ReceiverQP \div 6
      Scaled(v) ==
        IF input.kind = "chroma" THEN (v * LevelScale(0, 0) * 2^per) \div 2^5
        ELSE IF per >= 6 THEN v * LevelScale(0, 0) * 2^(per - 6)
        ELSE (v * LevelScale(0, 0) + 2^(5 - per)) \div 2^(6 - per)
  IN  Each(Scaled, f)

\* The coefficients of block i.
ReceivedCoefficients(i) ==
  [y \in 1..4 |-> [x \in 1..4 |->
     IF x = 1 /\ y = 1 /\ input.kind # "4x4" THEN DCAt(ReceivedDC(levels.dc), i)
     ELSE ScaledBy(levels.blocks[i][y][x], x - 1, y - 1)]]

Half(v) == v \div 2

ReceiverPass(d) ==
  <<d[1] + d[2] + d[3] + Half(d[4]), d[1] + Half(d[2]) - d[3] - d[4],
    d[1] - Half(d[2]) - d[3] + d[4], d[1] - d[2] + d[3] - Half(d[4])>>

ReceivedSamples(i) ==
  LET r == RowsThenColumns(ReceiverPass, ReceivedCoefficients(i))
  IN  [y \in 1..4 |-> [x \in 1..4 |-> Clamp(input.predicted[i][y][x] + (r[y][x] + 32) \div 64)]]

-----------------------------------------------------------------------------
(* Properties.                                                             *)

\* The samples the encoder goes on to filter and to predict from are those
\* a receiver reconstructs: the two quantisers, the two places of the DC
\* coefficients, every rounding and every order of passes agree.  Chroma is
\* excepted where the encoder is known to differ: from a luma parameter of
\* 30 on it quantises chroma with the luma parameter, and at 1 and 2 it
\* rounds the chroma DC coefficients where the standard truncates
\* (InverseQuantizeDC, QuantizeUtil).
SamplesAreReceivers ==
  (pc = "done" /\ (input.kind = "chroma" => qp < 30 /\ qp \notin {1, 2})) =>
    \A i \in DOMAIN m_reconstructed : m_reconstructed[i] = ReceivedSamples(i)

\* The magnitude the escape of a level reaches at every suffix length: 15
\* levels before it and eleven bits beside the sign (CavlcNonCdcCoder).
EscapeLimit == 15 + 2^11

\* No level is larger than the escape of the entropy coder can say.  True at
\* every parameter of blocks without DC transform; from a parameter of 4 on
\* for chroma and of 10 for the DC coefficients of intra 16x16.
LevelsFitEscape ==
  (levels # <<>> /\ (input.kind = "chroma" => qp >= 4) /\ (input.kind = "luma16" => qp >= 10)) =>
    /\ \A y \in DOMAIN levels.dc : \A x \in DOMAIN levels.dc[y] : Magnitude(levels.dc[y][x]) <= EscapeLimit
    /\ \A i \in DOMAIN levels.blocks : \A y, x \in 1..4 : Magnitude(levels.blocks[i][y][x]) <= EscapeLimit

\* The quantiser step in samples, rounded up: the weight of a DC coefficient,
\* 10 to 18, doubles with every six parameters and stands for a sixteenth.
Step == (At(s_dequant_matrix, 0, 0) * 2^(qp \div 6) + 15) \div 16

\* No sample is further from the original than quantisation explains: forward
\* and inverse transform, scaling and clipping undo each other.  A level stands
\* for a coefficient up to 5/6 of a step away; should all sixteen of a block be
\* that far off and move one sample the same way, and with them the sixteen DC
\* levels of intra 16x16, the errors add up to four steps.
ErrorWithinStep ==
  pc = "done" =>
    \A i \in DOMAIN m_reconstructed : \A y, x \in 1..4 :
      Magnitude(m_reconstructed[i][y][x] - input.original[i][y][x]) <= 4 * Step + 1

=============================================================================
