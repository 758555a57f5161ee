-------------------------- MODULE TransformProofs --------------------------
(***************************************************************************)
(* Proofs about Transform, for all samples, predictions and parameters: a  *)
(* receiver reconstructs the samples the encoder goes on with, every level *)
(* fits the escape of the entropy coder, and no sample is further from the *)
(* original than four quantiser steps and one.                             *)
(***************************************************************************)
EXTENDS Transform, SequenceTheorems, TLAPS

IntRow(p) == p[1] \in Int /\ p[2] \in Int /\ p[3] \in Int /\ p[4] \in Int

IntBlock(b) == IntRow(b[1]) /\ IntRow(b[2]) /\ IntRow(b[3]) /\ IntRow(b[4])

-----------------------------------------------------------------------------
(* The inverse transform.                                                  *)

LEMMA PassesAgree ==
  ASSUME NEW p, IntRow(p)
  PROVE  InversePass(p) = ReceiverPass(p) /\ IntRow(ReceiverPass(p))
<1>0. Shift(p[2], 1) = Half(p[2]) /\ Shift(p[4], 1) = Half(p[4])
  BY DEF IntRow, Shift, Half
<1>1. Half(p[2]) \in Int /\ Half(p[4]) \in Int
  BY DEF IntRow, Half
<1>2. /\ p[1] + p[3] + (p[2] + Half(p[4])) = p[1] + p[2] + p[3] + Half(p[4])
      /\ p[1] - p[3] + (Half(p[2]) - p[4]) = p[1] + Half(p[2]) - p[3] - p[4]
      /\ p[1] - p[3] - (Half(p[2]) - p[4]) = p[1] - Half(p[2]) - p[3] + p[4]
      /\ (p[1] + p[3]) - (p[2] + Half(p[4])) = p[1] - p[2] + p[3] - Half(p[4])
  BY <1>1 DEF IntRow
<1>3. InversePass(p) =
        <<p[1] + p[3] + (p[2] + Half(p[4])), p[1] - p[3] + (Half(p[2]) - p[4]),
          p[1] - p[3] - (Half(p[2]) - p[4]), (p[1] + p[3]) - (p[2] + Half(p[4]))>>
  BY <1>0 DEF InversePass
<1>4. InversePass(p) = ReceiverPass(p)
  BY <1>2, <1>3 DEF ReceiverPass
<1>5. IntRow(ReceiverPass(p))
  BY <1>1 DEF ReceiverPass, IntRow
<1> QED
  BY <1>4, <1>5

LEMMA TransposedInts ==
  ASSUME NEW b, IntBlock(b)
  PROVE  IntBlock(Transpose4(b))
  BY DEF IntBlock, IntRow, Transpose4, Column

LEMMA RowsAgree ==
  ASSUME NEW b, IntBlock(b)
  PROVE  Rows(InversePass, b) = Rows(ReceiverPass, b) /\ IntBlock(Rows(ReceiverPass, b))
<1>1. /\ InversePass(b[1]) = ReceiverPass(b[1]) /\ IntRow(ReceiverPass(b[1]))
      /\ InversePass(b[2]) = ReceiverPass(b[2]) /\ IntRow(ReceiverPass(b[2]))
      /\ InversePass(b[3]) = ReceiverPass(b[3]) /\ IntRow(ReceiverPass(b[3]))
      /\ InversePass(b[4]) = ReceiverPass(b[4]) /\ IntRow(ReceiverPass(b[4]))
  BY PassesAgree DEF IntBlock
<1> QED
  BY <1>1 DEF Rows, IntBlock

\* The rows, then the columns, of the encoder and of the standard.
LEMMA InverseAgrees ==
  ASSUME NEW b, IntBlock(b)
  PROVE  /\ InverseDCT(b) = RowsThenColumns(ReceiverPass, b)
         /\ IntBlock(RowsThenColumns(ReceiverPass, b))
<1> DEFINE half == Transpose4(Rows(ReceiverPass, b))
<1>1. Rows(InversePass, b) = Rows(ReceiverPass, b) /\ IntBlock(half)
  BY RowsAgree, TransposedInts
<1>2. Rows(InversePass, half) = Rows(ReceiverPass, half) /\ IntBlock(Transpose4(Rows(ReceiverPass, half)))
  BY <1>1, RowsAgree, TransposedInts
<1> QED
  BY <1>1, <1>2 DEF InverseDCT, RowsThenColumns

-----------------------------------------------------------------------------
(* Scaling.                                                                *)

LEMMA Powers ==
  /\ 2^0 = 1 /\ 2^1 = 2 /\ 2^2 = 4 /\ 2^3 = 8 /\ 2^4 = 16
  /\ 2^5 = 32 /\ 2^6 = 64 /\ 2^7 = 128 /\ 2^8 = 256
  OBVIOUS

\* The weight of the encoder's matrix and that of the standard's.
LEMMA WeightsAgree ==
  ASSUME qp \in 0..51, ReceiverQP = qp, NEW x \in 0..3, NEW y \in 0..3
  PROVE  /\ At(s_dequant_matrix, x, y) \in 10..29
         /\ LevelScale(x, y) = 16 * At(s_dequant_matrix, x, y)
<1> DEFINE r == qp % 6
<1>1. r \in {0, 1, 2, 3, 4, 5}
  OBVIOUS
<1>2. At(s_dequant_matrix, x, y) = s_dequant_matrix[r + 1][1 + Odd(x) + Odd(y)]
  BY DEF At
<1>3. LevelScale(x, y) = 16 * (IF x % 2 = 0 /\ y % 2 = 0 THEN Weights[r + 1][1]
                               ELSE IF x % 2 = 1 /\ y % 2 = 1 THEN Weights[r + 1][2] ELSE Weights[r + 1][3])
  BY DEF LevelScale
<1>4. /\ Odd(x) = x % 2 /\ Odd(y) = y % 2 /\ x % 2 \in {0, 1} /\ y % 2 \in {0, 1}
  BY DEF Odd
<1> HIDE DEF r
<1>5. \A k \in {0, 1, 2, 3, 4, 5} :
        /\ s_dequant_matrix[k + 1][1] = Weights[k + 1][1]
        /\ s_dequant_matrix[k + 1][3] = Weights[k + 1][2]
        /\ s_dequant_matrix[k + 1][2] = Weights[k + 1][3]
        /\ \A n \in {1, 2, 3} : Weights[k + 1][n] \in 10..29
  BY DEF s_dequant_matrix, Weights
<1> QED
  BY <1>1, <1>2, <1>3, <1>4, <1>5

\* The exponent of the scaling.
LEMMA Exponent ==
  ASSUME qp \in 0..51
  PROVE  qp \div 6 \in {0, 1, 2, 3, 4, 5, 6, 7, 8}
  OBVIOUS

\* Of a level outside the DC blocks: sixteen times the weight and a shift that
\* depends on the parameter is the weight and a shift.
LEMMA ScalesAgree ==
  ASSUME qp \in 0..51, ReceiverQP = qp, NEW x \in 0..3, NEW y \in 0..3, NEW v \in Int
  PROVE  /\ v * At(s_dequant_matrix, x, y) * 2^(qp \div 6) = ScaledBy(v, x, y)
         /\ ScaledBy(v, x, y) \in Int
<1>1. PICK w \in 10..29 : w = At(s_dequant_matrix, x, y)
  BY WeightsAgree
<1>2. PICK k \in Int : k = v * w
  OBVIOUS
<1>3. v * LevelScale(x, y) = 16 * k
  <2>1. LevelScale(x, y) = 16 * w
    BY <1>1, WeightsAgree
  <2> QED
    BY <1>2, <2>1
<1>4. PICK per \in {0, 1, 2, 3, 4, 5, 6, 7, 8} : per = qp \div 6
  BY Exponent
<1>5. ScaledBy(v, x, y) = IF per >= 4 THEN 16 * k * 2^(per - 4) ELSE (16 * k + 2^(3 - per)) \div 2^(4 - per)
  BY <1>3, <1>4 DEF ScaledBy
<1>6. ScaledBy(v, x, y) = k * 2^per /\ k * 2^per \in Int
  <2>1. CASE per = 0
    BY <1>5, <2>1, Powers
  <2>2. CASE per = 1
    BY <1>5, <2>2, Powers
  <2>3. CASE per = 2
    BY <1>5, <2>3, Powers
  <2>4. CASE per = 3
    BY <1>5, <2>4, Powers
  <2>5. CASE per = 4
    BY <1>5, <2>5, Powers
  <2>6. CASE per = 5
    BY <1>5, <2>6, Powers
  <2>7. CASE per = 6
    BY <1>5, <2>7, Powers
  <2>8. CASE per = 7
    BY <1>5, <2>8, Powers
  <2>9. CASE per = 8
    BY <1>5, <2>9, Powers
  <2> QED
    BY <2>1, <2>2, <2>3, <2>4, <2>5, <2>6, <2>7, <2>8, <2>9
<1> QED
  BY <1>1, <1>2, <1>4, <1>6

-----------------------------------------------------------------------------
(* The transforms of the DC coefficients.                                  *)

\* The four sums a row of four becomes, as the standard's matrix has them.
Sums(p) ==
  <<p[1] + p[2] + p[3] + p[4], p[1] + p[2] + (-p[3]) + (-p[4]),
    p[1] + (-p[2]) + (-p[3]) + p[4], p[1] + (-p[2]) + p[3] + (-p[4])>>

LEMMA HadamardRow ==
  ASSUME NEW p, IntRow(p)
  PROVE  HadamardPass(p) = Sums(p) /\ IntRow(Sums(p))
<1>1. /\ (p[1] + p[4]) + (p[2] + p[3]) = p[1] + p[2] + p[3] + p[4]
      /\ (p[2] - p[3]) + (p[1] - p[4]) = p[1] + p[2] + (-p[3]) + (-p[4])
      /\ (p[1] + p[4]) - (p[2] + p[3]) = p[1] + (-p[2]) + (-p[3]) + p[4]
      /\ (p[1] - p[4]) - (p[2] - p[3]) = p[1] + (-p[2]) + p[3] + (-p[4])
  BY DEF IntRow
<1>2. HadamardPass(p) = Sums(p)
  BY <1>1 DEF HadamardPass, Sums
<1>3. IntRow(Sums(p))
  BY DEF Sums, IntRow
<1> QED
  BY <1>2, <1>3

\* The columns of c summed, a row of which is then summed.
LEMMA HadamardSums ==
  ASSUME NEW c, IntBlock(c)
  PROVE  LET h == RowsThenColumns(HadamardPass, c)
             rows == <<Sums(c[1]), Sums(c[2]), Sums(c[3]), Sums(c[4])>>
         IN  /\ h = Transpose4(<<Sums(Column(rows, 1)), Sums(Column(rows, 2)),
                                 Sums(Column(rows, 3)), Sums(Column(rows, 4))>>)
             /\ IntBlock(rows) /\ IntBlock(h)
<1> DEFINE rows == <<Sums(c[1]), Sums(c[2]), Sums(c[3]), Sums(c[4])>>
           turned == Transpose4(rows)
<1>1. Rows(HadamardPass, c) = rows /\ IntBlock(rows)
  <2>1. /\ HadamardPass(c[1]) = Sums(c[1]) /\ IntRow(Sums(c[1]))
        /\ HadamardPass(c[2]) = Sums(c[2]) /\ IntRow(Sums(c[2]))
        /\ HadamardPass(c[3]) = Sums(c[3]) /\ IntRow(Sums(c[3]))
        /\ HadamardPass(c[4]) = Sums(c[4]) /\ IntRow(Sums(c[4]))
    BY HadamardRow DEF IntBlock
  <2> QED
    BY <2>1 DEF Rows, IntBlock
<1> HIDE DEF rows
<1>2. IntBlock(turned)
  BY <1>1, TransposedInts
<1>3. /\ turned[1] = Column(rows, 1) /\ turned[2] = Column(rows, 2)
      /\ turned[3] = Column(rows, 3) /\ turned[4] = Column(rows, 4)
  BY DEF Transpose4
<1>4. /\ HadamardPass(turned[1]) = Sums(turned[1]) /\ IntRow(Sums(turned[1]))
      /\ HadamardPass(turned[2]) = Sums(turned[2]) /\ IntRow(Sums(turned[2]))
      /\ HadamardPass(turned[3]) = Sums(turned[3]) /\ IntRow(Sums(turned[3]))
      /\ HadamardPass(turned[4]) = Sums(turned[4]) /\ IntRow(Sums(turned[4]))
  BY <1>2, HadamardRow DEF IntBlock
<1> DEFINE summed == <<Sums(Column(rows, 1)), Sums(Column(rows, 2)), Sums(Column(rows, 3)), Sums(Column(rows, 4))>>
<1> HIDE DEF turned
<1>5. Rows(HadamardPass, turned) = summed /\ IntBlock(summed)
  BY <1>3, <1>4 DEF Rows, IntBlock
<1>6. RowsThenColumns(HadamardPass, c) = Transpose4(summed)
  BY <1>1, <1>5 DEF RowsThenColumns, turned
<1>7. IntBlock(Transpose4(summed))
  BY <1>5, TransposedInts
<1> QED
  BY <1>1, <1>6, <1>7 DEF rows

Matrix4 == [1..4 -> [1..4 -> Int]]

LEMMA MatrixLength ==
  ASSUME NEW c \in Matrix4
  PROVE  DOMAIN c = 1..4 /\ Len(c) = 4 /\ \A y \in 1..4 : DOMAIN c[y] = 1..4
<1>1. DOMAIN c = 1..4 /\ \A y \in 1..4 : c[y] \in [1..4 -> Int]
  BY DEF Matrix4
<1>2. c \in Seq([1..4 -> Int])
  BY <1>1, SeqDef DEF Matrix4
<1>3. Len(c) = 4
  BY <1>1, <1>2, LenProperties
<1> QED
  BY <1>1, <1>3

LEMMA MatrixInts ==
  ASSUME NEW c \in Matrix4
  PROVE  IntBlock(c)
  BY DEF Matrix4, IntBlock, IntRow

LEMMA SignsTimes ==
  ASSUME NEW c \in Matrix4
  PROVE  /\ Times(Signs4, c) \in Matrix4
         /\ \A r, k \in 1..4 : Times(Signs4, c)[r][k] = Sums(Column(c, k))[r]
<1>1. DOMAIN c = 1..4 /\ Len(c) = 4 /\ DOMAIN Signs4 = 1..4
  BY MatrixLength DEF Signs4
<1>2. \A r, k \in 1..4 :
        Product(Signs4, c, r, k) =
          Signs4[r][1] * c[1][k] + Signs4[r][2] * c[2][k] + Signs4[r][3] * c[3][k] + Signs4[r][4] * c[4][k]
  BY <1>1 DEF Product
<1>3. \A k \in 1..4 : c[1][k] \in Int /\ c[2][k] \in Int /\ c[3][k] \in Int /\ c[4][k] \in Int
  BY DEF Matrix4
<1>4. ASSUME NEW k \in 1..4
      PROVE  /\ Product(Signs4, c, 1, k) = Sums(Column(c, k))[1]
             /\ Product(Signs4, c, 2, k) = Sums(Column(c, k))[2]
             /\ Product(Signs4, c, 3, k) = Sums(Column(c, k))[3]
             /\ Product(Signs4, c, 4, k) = Sums(Column(c, k))[4]
             /\ IntRow(Sums(Column(c, k)))
  <2>1. PICK p1 \in Int, p2 \in Int, p3 \in Int, p4 \in Int :
          p1 = c[1][k] /\ p2 = c[2][k] /\ p3 = c[3][k] /\ p4 = c[4][k]
    BY <1>3
  <2>2. Sums(Column(c, k)) =
          <<p1 + p2 + p3 + p4, p1 + p2 + (-p3) + (-p4), p1 + (-p2) + (-p3) + p4, p1 + (-p2) + p3 + (-p4)>>
    BY <2>1 DEF Sums, Column
  <2>3. /\ Product(Signs4, c, 1, k) = p1 + p2 + p3 + p4
        /\ Product(Signs4, c, 2, k) = p1 + p2 + (-p3) + (-p4)
        /\ Product(Signs4, c, 3, k) = p1 + (-p2) + (-p3) + p4
        /\ Product(Signs4, c, 4, k) = p1 + (-p2) + p3 + (-p4)
    BY <1>2, <2>1 DEF Signs4
  <2>4. IntRow(Sums(Column(c, k)))
    BY <2>2 DEF IntRow
  <2> QED
    BY <2>2, <2>3, <2>4
<1>5. \A r, k \in 1..4 : Product(Signs4, c, r, k) = Sums(Column(c, k))[r] /\ Product(Signs4, c, r, k) \in Int
  <2>1. \A r \in 1..4 : r = 1 \/ r = 2 \/ r = 3 \/ r = 4
    OBVIOUS
  <2> QED
    BY <1>4, <2>1 DEF IntRow
<1>6. Times(Signs4, c) = [r \in 1..4 |-> [k \in 1..4 |-> Product(Signs4, c, r, k)]]
  BY <1>1 DEF Times
<1> QED
  BY <1>5, <1>6 DEF Matrix4

LEMMA TimesSigns ==
  ASSUME NEW t \in Matrix4
  PROVE  /\ Times(t, Signs4) \in Matrix4
         /\ \A r, k \in 1..4 : Times(t, Signs4)[r][k] = Sums(t[r])[k]
<1>1. DOMAIN t = 1..4 /\ Len(Signs4) = 4 /\ DOMAIN Signs4 = 1..4
  BY MatrixLength DEF Signs4
<1>2. \A r, k \in 1..4 :
        Product(t, Signs4, r, k) =
          t[r][1] * Signs4[1][k] + t[r][2] * Signs4[2][k] + t[r][3] * Signs4[3][k] + t[r][4] * Signs4[4][k]
  BY <1>1 DEF Product
<1>3. \A r \in 1..4 : t[r][1] \in Int /\ t[r][2] \in Int /\ t[r][3] \in Int /\ t[r][4] \in Int
  BY DEF Matrix4
<1>4. ASSUME NEW r \in 1..4
      PROVE  /\ Product(t, Signs4, r, 1) = Sums(t[r])[1]
             /\ Product(t, Signs4, r, 2) = Sums(t[r])[2]
             /\ Product(t, Signs4, r, 3) = Sums(t[r])[3]
             /\ Product(t, Signs4, r, 4) = Sums(t[r])[4]
             /\ IntRow(Sums(t[r]))
  <2>1. PICK p1 \in Int, p2 \in Int, p3 \in Int, p4 \in Int :
          p1 = t[r][1] /\ p2 = t[r][2] /\ p3 = t[r][3] /\ p4 = t[r][4]
    BY <1>3
  <2>2. Sums(t[r]) =
          <<p1 + p2 + p3 + p4, p1 + p2 + (-p3) + (-p4), p1 + (-p2) + (-p3) + p4, p1 + (-p2) + p3 + (-p4)>>
    BY <2>1 DEF Sums
  <2>3. /\ Product(t, Signs4, r, 1) = p1 + p2 + p3 + p4
        /\ Product(t, Signs4, r, 2) = p1 + p2 + (-p3) + (-p4)
        /\ Product(t, Signs4, r, 3) = p1 + (-p2) + (-p3) + p4
        /\ Product(t, Signs4, r, 4) = p1 + (-p2) + p3 + (-p4)
    BY <1>2, <2>1 DEF Signs4
  <2>4. IntRow(Sums(t[r]))
    BY <2>2 DEF IntRow
  <2> QED
    BY <2>2, <2>3, <2>4
<1>5. \A r, k \in 1..4 : Product(t, Signs4, r, k) = Sums(t[r])[k] /\ Product(t, Signs4, r, k) \in Int
  <2>1. \A k \in 1..4 : k = 1 \/ k = 2 \/ k = 3 \/ k = 4
    OBVIOUS
  <2> QED
    BY <1>4, <2>1 DEF IntRow
<1>6. Times(t, Signs4) = [r \in 1..4 |-> [k \in 1..4 |-> Product(t, Signs4, r, k)]]
  BY <1>1 DEF Times
<1> QED
  BY <1>5, <1>6 DEF Matrix4

\* Each sum has signs of its own.
LEMMA Signs ==
  ASSUME NEW k \in 1..4
  PROVE  \E a1, a2, a3, a4 \in Int :
           \A p : IntRow(p) => Sums(p)[k] = a1 * p[1] + a2 * p[2] + a3 * p[3] + a4 * p[4]
<1> DEFINE n == -1
<1> n \in Int
  OBVIOUS
<1> HIDE DEF n
<1>1. CASE k = 1
  <2>1. WITNESS 1 \in Int, 1 \in Int, 1 \in Int, 1 \in Int
  <2> QED
    BY <1>1 DEF Sums, IntRow
<1>2. CASE k = 2
  <2>1. WITNESS 1 \in Int, 1 \in Int, n \in Int, n \in Int
  <2> QED
    BY <1>2 DEF Sums, IntRow, n
<1>3. CASE k = 3
  <2>1. WITNESS 1 \in Int, n \in Int, n \in Int, 1 \in Int
  <2> QED
    BY <1>3 DEF Sums, IntRow, n
<1>4. CASE k = 4
  <2>1. WITNESS 1 \in Int, n \in Int, 1 \in Int, n \in Int
  <2> QED
    BY <1>4 DEF Sums, IntRow, n
<1> QED
  BY <1>1, <1>2, <1>3, <1>4

\* Whether rows or columns are summed first.
LEMMA SumsCommute ==
  ASSUME NEW c \in Matrix4, NEW x \in 1..4, NEW y \in 1..4
  PROVE  Sums(<<Sums(c[1])[x], Sums(c[2])[x], Sums(c[3])[x], Sums(c[4])[x]>>)[y]
           = Sums(<<Sums(Column(c, 1))[y], Sums(Column(c, 2))[y], Sums(Column(c, 3))[y], Sums(Column(c, 4))[y]>>)[x]
<1>1. PICK a1 \in Int, a2 \in Int, a3 \in Int, a4 \in Int :
        \A p : IntRow(p) => Sums(p)[y] = a1 * p[1] + a2 * p[2] + a3 * p[3] + a4 * p[4]
  BY Signs
<1>2. PICK b1 \in Int, b2 \in Int, b3 \in Int, b4 \in Int :
        \A p : IntRow(p) => Sums(p)[x] = b1 * p[1] + b2 * p[2] + b3 * p[3] + b4 * p[4]
  BY Signs
<1>3. \A i, j \in 1..4 : c[i][j] \in Int
  BY DEF Matrix4
<1>4. ASSUME NEW i \in 1..4
      PROVE  /\ Sums(c[i])[x] = b1 * c[i][1] + b2 * c[i][2] + b3 * c[i][3] + b4 * c[i][4]
             /\ Sums(c[i])[x] \in Int
  BY <1>2, <1>3 DEF IntRow
<1>5. ASSUME NEW j \in 1..4
      PROVE  /\ Sums(Column(c, j))[y] = a1 * c[1][j] + a2 * c[2][j] + a3 * c[3][j] + a4 * c[4][j]
             /\ Sums(Column(c, j))[y] \in Int
  <2>1. /\ IntRow(Column(c, j))
        /\ Column(c, j)[1] = c[1][j] /\ Column(c, j)[2] = c[2][j]
        /\ Column(c, j)[3] = c[3][j] /\ Column(c, j)[4] = c[4][j]
    BY <1>3 DEF Column, IntRow
  <2> QED
    BY <1>1, <1>3, <2>1
<1>6. PICK r1 \in Int, r2 \in Int, r3 \in Int, r4 \in Int :
        r1 = Sums(c[1])[x] /\ r2 = Sums(c[2])[x] /\ r3 = Sums(c[3])[x] /\ r4 = Sums(c[4])[x]
  BY <1>4
<1>7. PICK k1 \in Int, k2 \in Int, k3 \in Int, k4 \in Int :
        /\ k1 = Sums(Column(c, 1))[y] /\ k2 = Sums(Column(c, 2))[y]
        /\ k3 = Sums(Column(c, 3))[y] /\ k4 = Sums(Column(c, 4))[y]
  BY <1>5
<1>8. /\ Sums(<<r1, r2, r3, r4>>)[y] = a1 * r1 + a2 * r2 + a3 * r3 + a4 * r4
      /\ Sums(<<k1, k2, k3, k4>>)[x] = b1 * k1 + b2 * k2 + b3 * k3 + b4 * k4
  BY <1>1, <1>2 DEF IntRow
<1>9. a1 * r1 + a2 * r2 + a3 * r3 + a4 * r4 = b1 * k1 + b2 * k2 + b3 * k3 + b4 * k4
  <2>1. PICK d11 \in Int, d12 \in Int, d13 \in Int, d14 \in Int :
          d11 = c[1][1] /\ d12 = c[1][2] /\ d13 = c[1][3] /\ d14 = c[1][4]
    BY MatrixInts DEF IntBlock, IntRow
  <2>2. PICK d21 \in Int, d22 \in Int, d23 \in Int, d24 \in Int :
          d21 = c[2][1] /\ d22 = c[2][2] /\ d23 = c[2][3] /\ d24 = c[2][4]
    BY MatrixInts DEF IntBlock, IntRow
  <2>3. PICK d31 \in Int, d32 \in Int, d33 \in Int, d34 \in Int :
          d31 = c[3][1] /\ d32 = c[3][2] /\ d33 = c[3][3] /\ d34 = c[3][4]
    BY MatrixInts DEF IntBlock, IntRow
  <2>4. PICK d41 \in Int, d42 \in Int, d43 \in Int, d44 \in Int :
          d41 = c[4][1] /\ d42 = c[4][2] /\ d43 = c[4][3] /\ d44 = c[4][4]
    BY MatrixInts DEF IntBlock, IntRow
  <2>5. /\ r1 = b1 * d11 + b2 * d12 + b3 * d13 + b4 * d14
        /\ r2 = b1 * d21 + b2 * d22 + b3 * d23 + b4 * d24
        /\ r3 = b1 * d31 + b2 * d32 + b3 * d33 + b4 * d34
        /\ r4 = b1 * d41 + b2 * d42 + b3 * d43 + b4 * d44
    BY <1>4, <1>6, <2>1, <2>2, <2>3, <2>4
  <2>6. /\ k1 = a1 * d11 + a2 * d21 + a3 * d31 + a4 * d41
        /\ k2 = a1 * d12 + a2 * d22 + a3 * d32 + a4 * d42
        /\ k3 = a1 * d13 + a2 * d23 + a3 * d33 + a4 * d43
        /\ k4 = a1 * d14 + a2 * d24 + a3 * d34 + a4 * d44
    BY <1>5, <1>7, <2>1, <2>2, <2>3, <2>4
  <2> QED
    BY <2>5, <2>6
<1> QED
  BY <1>6, <1>7, <1>8, <1>9

\* The transform of the rows and then the columns is the product with the
\* standard's matrix from both sides.
LEMMA HadamardAgrees ==
  ASSUME NEW c \in Matrix4
  PROVE  /\ Times(Times(Signs4, c), Signs4) \in Matrix4
         /\ RowsThenColumns(HadamardPass, c) = Times(Times(Signs4, c), Signs4)
<1> DEFINE t == Times(Signs4, c)
           f == Times(t, Signs4)
           h == RowsThenColumns(HadamardPass, c)
           rows == <<Sums(c[1]), Sums(c[2]), Sums(c[3]), Sums(c[4])>>
           summed == <<Sums(Column(rows, 1)), Sums(Column(rows, 2)), Sums(Column(rows, 3)), Sums(Column(rows, 4))>>
<1>1. t \in Matrix4 /\ f \in Matrix4
  BY SignsTimes, TimesSigns
<1>2. h = Transpose4(summed)
  BY MatrixInts, HadamardSums
<1>3. \A x \in 1..4 : Column(rows, x) = <<Sums(c[1])[x], Sums(c[2])[x], Sums(c[3])[x], Sums(c[4])[x]>>
  BY DEF Column
<1>4. \A y \in 1..4 : t[y] = <<Sums(Column(c, 1))[y], Sums(Column(c, 2))[y],
                               Sums(Column(c, 3))[y], Sums(Column(c, 4))[y]>>
  <2>1. \A y \in 1..4 : t[y] = <<t[y][1], t[y][2], t[y][3], t[y][4]>>
    BY <1>1 DEF Matrix4
  <2>2. \A r, k \in 1..4 : t[r][k] = Sums(Column(c, k))[r]
    BY SignsTimes
  <2> HIDE DEF t
  <2> QED
    BY <2>1, <2>2
<1> HIDE DEF rows
<1>5. \A y, x \in 1..4 : Sums(Column(rows, x))[y] = f[y][x]
  <2> HIDE DEF t
  <2>1. ASSUME NEW y \in 1..4, NEW x \in 1..4
        PROVE  Sums(Column(rows, x))[y] = Sums(t[y])[x]
    <3>1. Column(rows, x) = <<Sums(c[1])[x], Sums(c[2])[x], Sums(c[3])[x], Sums(c[4])[x]>>
      BY <1>3
    <3>2. t[y] = <<Sums(Column(c, 1))[y], Sums(Column(c, 2))[y], Sums(Column(c, 3))[y], Sums(Column(c, 4))[y]>>
      BY <1>4
    <3>3. Sums(<<Sums(c[1])[x], Sums(c[2])[x], Sums(c[3])[x], Sums(c[4])[x]>>)[y]
            = Sums(<<Sums(Column(c, 1))[y], Sums(Column(c, 2))[y], Sums(Column(c, 3))[y], Sums(Column(c, 4))[y]>>)[x]
      BY SumsCommute
    <3> QED
      BY <3>1, <3>2, <3>3, Zenon
  <2> QED
    BY <1>1, <2>1, TimesSigns
<1>6. h = [y \in 1..4 |-> [x \in 1..4 |-> Sums(Column(rows, x))[y]]]
  <2>1. /\ summed[1] = Sums(Column(rows, 1)) /\ summed[2] = Sums(Column(rows, 2))
        /\ summed[3] = Sums(Column(rows, 3)) /\ summed[4] = Sums(Column(rows, 4))
    OBVIOUS
  <2> HIDE DEF summed, h
  <2>2. h = <<Column(summed, 1), Column(summed, 2), Column(summed, 3), Column(summed, 4)>>
    BY <1>2 DEF Transpose4
  <2>3. \A y \in 1..4 : Column(summed, y) = [x \in 1..4 |-> Sums(Column(rows, x))[y]]
    <3>1. \A y \in 1..4 : Column(summed, y) = <<summed[1][y], summed[2][y], summed[3][y], summed[4][y]>>
      BY DEF Column
    <3> QED
      BY <2>1, <3>1
  <2> QED
    BY <2>2, <2>3
<1>7. f = [y \in 1..4 |-> [x \in 1..4 |-> f[y][x]]]
  <2> HIDE DEF f
  <2> QED
    BY <1>1 DEF Matrix4
<1> QED
  BY <1>1, <1>5, <1>6, <1>7

\* Of the sixteen DC coefficients of luma.
LEMMA LumaDCScale ==
  ASSUME qp \in 0..51, ReceiverQP = qp, NEW v \in Int
  PROVE  LET per == qp \div 6
             scaled == IF per >= 6 THEN v * LevelScale(0, 0) * 2^(per - 6)
                       ELSE (v * LevelScale(0, 0) + 2^(5 - per)) \div 2^(6 - per)
         IN  RightShift(v * At(s_dequant_matrix, 0, 0) * 2^per, 2) = scaled /\ scaled \in Int
<1>1. PICK w \in 10..29 : w = At(s_dequant_matrix, 0, 0) /\ LevelScale(0, 0) = 16 * w
  BY WeightsAgree
<1>2. PICK k \in Int : k = v * w
  OBVIOUS
<1>3. v * LevelScale(0, 0) = 16 * k
  BY <1>1, <1>2
<1>4. PICK per \in {0, 1, 2, 3, 4, 5, 6, 7, 8} : per = qp \div 6
  BY Exponent
<1>5. PICK scaled : scaled = IF per >= 6 THEN v * LevelScale(0, 0) * 2^(per - 6)
                             ELSE (v * LevelScale(0, 0) + 2^(5 - per)) \div 2^(6 - per)
  OBVIOUS
<1>6. scaled = IF per >= 6 THEN 16 * k * 2^(per - 6) ELSE (16 * k + 2^(5 - per)) \div 2^(6 - per)
  BY <1>3, <1>5
<1>7. RightShift(k * 2^per, 2) = (k * 2^per + 2) \div 4
  BY Powers DEF RightShift
<1>8. RightShift(k * 2^per, 2) = scaled /\ scaled \in Int
  <2>1. CASE per = 0
    BY <1>6, <1>7, <2>1, Powers
  <2>2. CASE per = 1
    BY <1>6, <1>7, <2>2, Powers
  <2>3. CASE per = 2
    BY <1>6, <1>7, <2>3, Powers
  <2>4. CASE per = 3
    BY <1>6, <1>7, <2>4, Powers
  <2>5. CASE per = 4
    BY <1>6, <1>7, <2>5, Powers
  <2>6. CASE per = 5
    BY <1>6, <1>7, <2>6, Powers
  <2>7. CASE per = 6
    BY <1>6, <1>7, <2>7, Powers
  <2>8. CASE per = 7
    BY <1>6, <1>7, <2>8, Powers
  <2>9. CASE per = 8
    BY <1>6, <1>7, <2>9, Powers
  <2> QED
    BY <2>1, <2>2, <2>3, <2>4, <2>5, <2>6, <2>7, <2>8, <2>9
<1> QED
  BY <1>1, <1>2, <1>4, <1>5, <1>8

\* Of the four of a chroma plane; where the weight is odd and nothing doubles it,
\* rounding and truncating differ.
LEMMA ChromaDCScale ==
  ASSUME qp \in 0..51, ReceiverQP = qp, qp \notin {1, 2}, qp < 30, NEW v \in Int
  PROVE  LET per == qp \div 6
             scaled == (v * LevelScale(0, 0) * 2^per) \div 2^5
         IN  RightShift(v * At(s_dequant_matrix, 0, 0) * 2^per, 1) = scaled /\ scaled \in Int
<1>1. PICK w \in 10..29 : w = At(s_dequant_matrix, 0, 0) /\ LevelScale(0, 0) = 16 * w
  BY WeightsAgree
<1>2. PICK k \in Int : k = v * w
  OBVIOUS
<1>3. v * LevelScale(0, 0) = 16 * k
  BY <1>1, <1>2
<1>4. PICK per \in {0, 1, 2, 3, 4, 5, 6, 7, 8} : per = qp \div 6
  BY Exponent
<1>5. PICK scaled : scaled = (v * LevelScale(0, 0) * 2^per) \div 2^5
  OBVIOUS
<1>6. scaled = (16 * k * 2^per) \div 32
  BY <1>3, <1>5, Powers
<1>7. RightShift(k * 2^per, 1) = (k * 2^per + 1) \div 2
  BY Powers DEF RightShift
<1>8. per = 0 => \E m \in Int : k = 2 * m
  <2> SUFFICES ASSUME per = 0 PROVE \E m \in Int : k = 2 * m
    OBVIOUS
  <2>1. qp \in {0, 3, 4, 5} /\ qp % 6 = qp
    BY <1>4
  <2>2. w = s_dequant_matrix[(qp % 6) + 1][1]
    BY <1>1 DEF At, Odd
  <2>3. w \in {10, 14, 16, 18}
    BY <2>1, <2>2 DEF s_dequant_matrix
  <2>4. PICK u \in Int : w = 2 * u
    BY <2>3
  <2>5. k = 2 * (v * u) /\ v * u \in Int
    BY <1>2, <2>4
  <2> QED
    BY <2>5
<1>9. RightShift(k * 2^per, 1) = scaled /\ scaled \in Int
  <2>1. CASE per = 0
    <3>1. PICK m \in Int : k = 2 * m
      BY <1>8, <2>1
    <3> QED
      BY <1>6, <1>7, <2>1, <3>1, Powers
  <2>2. CASE per = 1
    BY <1>6, <1>7, <2>2, Powers
  <2>3. CASE per = 2
    BY <1>6, <1>7, <2>3, Powers
  <2>4. CASE per = 3
    BY <1>6, <1>7, <2>4, Powers
  <2>5. CASE per = 4
    BY <1>6, <1>7, <2>5, Powers
  <2>6. CASE per = 5
    BY <1>6, <1>7, <2>6, Powers
  <2>7. CASE per = 6
    BY <1>6, <1>7, <2>7, Powers
  <2>8. CASE per = 7
    BY <1>6, <1>7, <2>8, Powers
  <2>9. CASE per = 8
    BY <1>6, <1>7, <2>9, Powers
  <2> QED
    BY <2>1, <2>2, <2>3, <2>4, <2>5, <2>6, <2>7, <2>8, <2>9
<1> QED
  BY <1>1, <1>2, <1>4, <1>5, <1>9

-----------------------------------------------------------------------------
(* The DC coefficients of a flow, put back.                                *)

LEMMA LumaDCAgrees ==
  ASSUME qp \in 0..51, input.kind = "luma16", NEW c \in Matrix4
  PROVE  /\ InverseQuantizeDC(Hadamard4x4(c, 0), 2) = ReceivedDC(c)
         /\ ReceivedDC(c) \in Matrix4
<1> DEFINE f == Times(Times(Signs4, c), Signs4)
<1>1. f \in Matrix4 /\ RowsThenColumns(HadamardPass, c) = f
  BY HadamardAgrees
<1>2. ReceiverQP = qp
  BY DEF ReceiverQP
<1> HIDE DEF f
<1>3. Hadamard4x4(c, 0) = f
  <2>1. Hadamard4x4(c, 0) = [y \in 1..4 |-> [x \in 1..4 |-> Shift(f[y][x], 0)]]
    BY <1>1, MatrixLength DEF Hadamard4x4, Each
  <2>2. \A y, x \in 1..4 : Shift(f[y][x], 0) = f[y][x]
    <3>1. \A y, x \in 1..4 : f[y][x] \in Int
      BY <1>1 DEF Matrix4
    <3> QED
      BY <3>1, Powers DEF Shift
  <2>3. f = [y \in 1..4 |-> [x \in 1..4 |-> f[y][x]]]
    BY <1>1 DEF Matrix4
  <2> QED
    BY <2>1, <2>2, <2>3
<1> DEFINE Scaled(v) ==
             IF qp \div 6 >= 6 THEN v * LevelScale(0, 0) * 2^((qp \div 6) - 6)
             ELSE (v * LevelScale(0, 0) + 2^(5 - (qp \div 6))) \div 2^(6 - (qp \div 6))
<1>4. ReceivedDC(c) = [y \in 1..4 |-> [x \in 1..4 |-> Scaled(f[y][x])]]
  <2>1. input.kind # "chroma"
    OBVIOUS
  <2>2. ReceivedDC(c) = [y \in DOMAIN f |-> [x \in DOMAIN f[y] |-> Scaled(f[y][x])]]
    BY <1>2, <2>1 DEF ReceivedDC, Each, f
  <2> QED
    BY <1>1, <2>2, MatrixLength
<1>5. InverseQuantizeDC(f, 2) =
        [y \in 1..4 |-> [x \in 1..4 |-> RightShift(f[y][x] * At(s_dequant_matrix, 0, 0) * 2^(qp \div 6), 2)]]
  BY <1>1, MatrixLength DEF InverseQuantizeDC, Each
<1>6. ASSUME NEW y \in 1..4, NEW x \in 1..4
      PROVE  /\ RightShift(f[y][x] * At(s_dequant_matrix, 0, 0) * 2^(qp \div 6), 2) = Scaled(f[y][x])
             /\ Scaled(f[y][x]) \in Int
  <2>1. f[y][x] \in Int
    BY <1>1 DEF Matrix4
  <2> QED
    BY <1>2, <2>1, LumaDCScale
<1> HIDE DEF Scaled
<1> QED
  BY <1>3, <1>4, <1>5, <1>6 DEF Matrix4

Matrix2 == [1..2 -> [1..2 -> Int]]

LEMMA MatrixLength2 ==
  ASSUME NEW c \in Matrix2
  PROVE  /\ DOMAIN c = 1..2 /\ Len(c) = 2 /\ \A y \in 1..2 : DOMAIN c[y] = 1..2
         /\ c[1][1] \in Int /\ c[1][2] \in Int /\ c[2][1] \in Int /\ c[2][2] \in Int
<1>1. DOMAIN c = 1..2 /\ \A y \in 1..2 : c[y] \in [1..2 -> Int]
  BY DEF Matrix2
<1>2. c \in Seq([1..2 -> Int])
  BY <1>1, SeqDef DEF Matrix2
<1>3. Len(c) = 2
  BY <1>1, <1>2, LenProperties
<1> QED
  BY <1>1, <1>3

\* The transform of four coefficients is the product with the standard's
\* matrix from both sides.
LEMMA Hadamard2Agrees ==
  ASSUME NEW c \in Matrix2
  PROVE  /\ Hadamard2x2(c) \in Matrix2
         /\ Times(Times(Signs2, c), Signs2) = Hadamard2x2(c)
<1>1. PICK p \in Int, q \in Int, r \in Int, s \in Int :
        p = c[1][1] /\ q = c[1][2] /\ r = c[2][1] /\ s = c[2][2]
  BY MatrixLength2
<1>2. Hadamard2x2(c) = <<<<p + q + r + s, p - q + r - s>>, <<p + q - r - s, p - q - r + s>>>>
  BY <1>1 DEF Hadamard2x2
<1>3. Hadamard2x2(c) \in Matrix2
  BY <1>2 DEF Matrix2
<1> DEFINE t == Times(Signs2, c)
<1>4. t = <<<<p + r, q + s>>, <<p + (-r), q + (-s)>>>>
  <2>1. DOMAIN c = 1..2 /\ Len(c) = 2 /\ DOMAIN Signs2 = 1..2
    BY MatrixLength2 DEF Signs2
  <2>2. /\ Product(Signs2, c, 1, 1) = p + r /\ Product(Signs2, c, 1, 2) = q + s
        /\ Product(Signs2, c, 2, 1) = p + (-r) /\ Product(Signs2, c, 2, 2) = q + (-s)
    BY <1>1, <2>1 DEF Product, Signs2
  <2>3. t = [k \in 1..2 |-> [m \in 1..2 |-> Product(Signs2, c, k, m)]]
    BY <2>1 DEF Times
  <2> HIDE DEF t
  <2> QED
    BY <2>2, <2>3
<1>5. Times(t, Signs2) = <<<<p + q + r + s, p - q + r - s>>, <<p + q - r - s, p - q - r + s>>>>
  <2>1. DOMAIN t = 1..2 /\ Len(Signs2) = 2 /\ DOMAIN Signs2 = 1..2
    BY <1>4 DEF Signs2
  <2> HIDE DEF t
  <2>2. /\ Product(t, Signs2, 1, 1) = p + q + r + s /\ Product(t, Signs2, 1, 2) = p - q + r - s
        /\ Product(t, Signs2, 2, 1) = p + q - r - s /\ Product(t, Signs2, 2, 2) = p - q - r + s
    BY <1>4, <2>1 DEF Product, Signs2
  <2>3. Times(t, Signs2) = [k \in 1..2 |-> [m \in 1..2 |-> Product(t, Signs2, k, m)]]
    BY <2>1 DEF Times
  <2> QED
    BY <2>2, <2>3
<1> QED
  BY <1>2, <1>3, <1>5

LEMMA ChromaDCAgrees ==
  ASSUME qp \in 0..51, input.kind = "chroma", qp < 30, qp \notin {1, 2}, NEW c \in Matrix2
  PROVE  InverseQuantizeDC(Hadamard2x2(c), 1) = ReceivedDC(c)
<1> DEFINE f == Hadamard2x2(c)
           Scaled(v) == (v * LevelScale(0, 0) * 2^(qp \div 6)) \div 2^5
<1>1. f \in Matrix2 /\ Times(Times(Signs2, c), Signs2) = f
  BY Hadamard2Agrees
<1>2. ReceiverQP = qp
  BY DEF ReceiverQP
<1> HIDE DEF f
<1>3. DOMAIN f = 1..2 /\ \A y \in 1..2 : DOMAIN f[y] = 1..2
  BY <1>1, MatrixLength2
<1>4. ReceivedDC(c) = [y \in 1..2 |-> [x \in 1..2 |-> Scaled(f[y][x])]]
  <2>1. input.kind # "luma16"
    OBVIOUS
  <2>2. ReceivedDC(c) = [y \in DOMAIN f |-> [x \in DOMAIN f[y] |-> Scaled(f[y][x])]]
    BY <1>1, <1>2, <2>1 DEF ReceivedDC, Each
  <2> QED
    BY <1>3, <2>2
<1>5. InverseQuantizeDC(f, 1) =
        [y \in 1..2 |-> [x \in 1..2 |-> RightShift(f[y][x] * At(s_dequant_matrix, 0, 0) * 2^(qp \div 6), 1)]]
  BY <1>3 DEF InverseQuantizeDC, Each
<1>6. ASSUME NEW y \in 1..2, NEW x \in 1..2
      PROVE  RightShift(f[y][x] * At(s_dequant_matrix, 0, 0) * 2^(qp \div 6), 1) = Scaled(f[y][x])
  <2>1. f[y][x] \in Int
    BY <1>1 DEF Matrix2
  <2> QED
    BY <1>2, <2>1, ChromaDCScale
<1> HIDE DEF Scaled
<1> QED
  BY <1>4, <1>5, <1>6 DEF f

-----------------------------------------------------------------------------
(* What each step leaves.                                                  *)

Count == BlocksOf(input.kind)

\* The block of DC coefficients of a flow; a 4x4 block has none.
DCType(dc) ==
  CASE input.kind = "4x4"    -> dc = <<>>
    [] input.kind = "luma16" -> dc \in Matrix4
    [] input.kind = "chroma" -> dc \in Matrix2

InputType ==
  /\ input \in Inputs
  /\ qp \in 0..51
  /\ is_intra \in BOOLEAN

LEMMA Kinds ==
  ASSUME InputType
  PROVE  /\ \/ input.kind = "4x4" /\ Count = 1
            \/ input.kind = "luma16" /\ Count = 16
            \/ input.kind = "chroma" /\ Count = 4
         /\ DOMAIN input.original = 1..Count /\ DOMAIN input.predicted = 1..Count
         /\ \A i \in 1..Count : \A y, x \in 1..4 :
              input.original[i][y][x] \in 0..255 /\ input.predicted[i][y][x] \in 0..255
<1>1. input.kind \in {"4x4", "luma16", "chroma"}
  BY InputsAssumption DEF InputType
<1>2. input.original \in [1..Count -> Samples] /\ input.predicted \in [1..Count -> Samples]
  BY InputsAssumption DEF InputType, Count
<1>3. \/ input.kind = "4x4" /\ Count = 1
      \/ input.kind = "luma16" /\ Count = 16
      \/ input.kind = "chroma" /\ Count = 4
  <2>1. BlocksOf("4x4") = 1 /\ BlocksOf("luma16") = 16 /\ BlocksOf("chroma") = 4
    BY DEF BlocksOf
  <2> QED
    BY <1>1, <2>1 DEF Count
<1>4. \A i \in 1..Count : input.original[i] \in Samples /\ input.predicted[i] \in Samples
  BY <1>2
<1>5. \A b \in Samples : \A y, x \in 1..4 : b[y][x] \in 0..255
  BY DEF Samples
<1>6. ASSUME NEW i \in 1..Count
      PROVE  \A y, x \in 1..4 : /\ input.original[i][y][x] \in 0..255
                                /\ input.predicted[i][y][x] \in 0..255
  <2>1. input.original[i] \in Samples /\ input.predicted[i] \in Samples
    BY <1>4
  <2> QED
    BY <1>5, <2>1, Zenon
<1> QED
  BY <1>2, <1>3, <1>6

LEMMA TransposedMatrix ==
  ASSUME NEW b, IntBlock(b)
  PROVE  Transpose4(b) \in Matrix4
<1>1. /\ Column(b, 1) \in [1..4 -> Int] /\ Column(b, 2) \in [1..4 -> Int]
      /\ Column(b, 3) \in [1..4 -> Int] /\ Column(b, 4) \in [1..4 -> Int]
  BY DEF IntBlock, IntRow, Column
<1> QED
  BY <1>1 DEF Transpose4, Matrix4

-----------------------------------------------------------------------------
(* The quantiser.                                                          *)

LEMMA MorePowers ==
  /\ 2^9 = 512 /\ 2^10 = 1024 /\ 2^11 = 2048 /\ 2^12 = 4096 /\ 2^13 = 8192
  /\ 2^15 = 32768 /\ 2^16 = 65536 /\ 2^17 = 131072 /\ 2^18 = 262144 /\ 2^19 = 524288
  /\ 2^20 = 1048576 /\ 2^21 = 2097152 /\ 2^22 = 4194304 /\ 2^23 = 8388608 /\ 2^24 = 16777216
  OBVIOUS

\* The largest of the six entries of the encoder's matrix at a place.
LargestFactor(x, y) == <<13107, 8066, 5243>>[1 + Odd(x) + Odd(y)]

LEMMA QuantEntries ==
  ASSUME qp \in 0..51, NEW x \in 0..3, NEW y \in 0..3
  PROVE  /\ At(s_quant_matrix, x, y) \in Nat /\ LargestFactor(x, y) \in Nat
         /\ At(s_quant_matrix, x, y) <= LargestFactor(x, y)
<1>1. PICK r \in {0, 1, 2, 3, 4, 5} : r = qp % 6
  OBVIOUS
<1>2. PICK n \in {1, 2, 3} : n = 1 + Odd(x) + Odd(y)
  BY DEF Odd
<1> DEFINE row == s_quant_matrix[r + 1]
<1>3. At(s_quant_matrix, x, y) = row[n] /\ LargestFactor(x, y) = <<13107, 8066, 5243>>[n]
  BY <1>1, <1>2 DEF At, LargestFactor
<1>4. /\ row[1] \in Nat /\ row[2] \in Nat /\ row[3] \in Nat
      /\ row[1] <= 13107 /\ row[2] <= 8066 /\ row[3] <= 5243
  <2>1. CASE r = 0
    <3>1. row = <<13107, 8066, 5243>>
      BY <2>1 DEF s_quant_matrix
    <3> HIDE DEF row
    <3> QED
      BY <3>1
  <2>2. CASE r = 1
    <3>1. row = <<11916, 7490, 4660>>
      BY <2>2 DEF s_quant_matrix
    <3> HIDE DEF row
    <3> QED
      BY <3>1
  <2>3. CASE r = 2
    <3>1. row = <<10082, 6554, 4194>>
      BY <2>3 DEF s_quant_matrix
    <3> HIDE DEF row
    <3> QED
      BY <3>1
  <2>4. CASE r = 3
    <3>1. row = <<9362, 5825, 3647>>
      BY <2>4 DEF s_quant_matrix
    <3> HIDE DEF row
    <3> QED
      BY <3>1
  <2>5. CASE r = 4
    <3>1. row = <<8192, 5243, 3355>>
      BY <2>5 DEF s_quant_matrix
    <3> HIDE DEF row
    <3> QED
      BY <3>1
  <2>6. CASE r = 5
    <3>1. row = <<7282, 4559, 2893>>
      BY <2>6 DEF s_quant_matrix
    <3> HIDE DEF row
    <3> QED
      BY <3>1
  <2> QED
    BY <2>1, <2>2, <2>3, <2>4, <2>5, <2>6
<1> HIDE DEF row
<1>5. CASE n = 1
  BY <1>3, <1>4, <1>5
<1>6. CASE n = 2
  BY <1>3, <1>4, <1>6
<1>7. CASE n = 3
  BY <1>3, <1>4, <1>7
<1> QED
  BY <1>5, <1>6, <1>7

\* The offset is less than a third of a step.
LEMMA Offsets ==
  ASSUME qp \in 0..51, is_intra \in BOOLEAN
  PROVE  /\ QBits \in 15..23 /\ QOffset \in Nat
         /\ 3 * QOffset < 2^QBits /\ 2^(QBits + 1) = 2 * 2^QBits /\ 2^QBits \in Nat
         /\ 32768 <= 2^QBits /\ (qp >= 6 => 65536 <= 2^QBits) /\ (qp >= 12 => 131072 <= 2^QBits)
<1>1. PICK per \in {0, 1, 2, 3, 4, 5, 6, 7, 8} : per = qp \div 6
  BY Exponent
<1>2. QBits = 15 + per
  BY <1>1 DEF QBits
<1>3. PICK n \in {682, 342} : n = IF is_intra THEN 682 ELSE 342
  OBVIOUS
<1>4. QOffset = n * 2^(4 + per)
  <2>1. QBits - 11 = 4 + per
    BY <1>2
  <2> QED
    BY <1>3, <2>1 DEF QOffset
<1>5. /\ n * 2^(4 + per) \in Nat /\ 3 * (n * 2^(4 + per)) < 2^(15 + per)
      /\ 2^(16 + per) = 2 * 2^(15 + per) /\ 2^(15 + per) \in Nat /\ 32768 <= 2^(15 + per)
      /\ (per >= 1 => 65536 <= 2^(15 + per)) /\ (per >= 2 => 131072 <= 2^(15 + per))
  <2>1. CASE per = 0
    BY <2>1, Powers, MorePowers
  <2>2. CASE per = 1
    BY <2>2, Powers, MorePowers
  <2>3. CASE per = 2
    BY <2>3, Powers, MorePowers
  <2>4. CASE per = 3
    BY <2>4, Powers, MorePowers
  <2>5. CASE per = 4
    BY <2>5, Powers, MorePowers
  <2>6. CASE per = 5
    BY <2>6, Powers, MorePowers
  <2>7. CASE per = 6
    BY <2>7, Powers, MorePowers
  <2>8. CASE per = 7
    BY <2>8, Powers, MorePowers
  <2>9. CASE per = 8
    BY <2>9, Powers, MorePowers
  <2> QED
    BY <2>1, <2>2, <2>3, <2>4, <2>5, <2>6, <2>7, <2>8, <2>9
<1>6. QBits + 1 = 16 + per /\ (qp >= 6 => per >= 1) /\ (qp >= 12 => per >= 2)
  BY <1>1, <1>2
<1> QED
  BY <1>2, <1>4, <1>5, <1>6

LevelFits(val, factor, offset, bits) ==
  (offset < 2^bits /\ Magnitude(val) * factor <= 2063 * 2^bits) =>
    Magnitude(Quantized(val, factor, offset, bits)) <= EscapeLimit

\* A product below 2063 steps and an offset below one make a level below the
\* limit.
LEMMA QuantizedBound ==
  ASSUME NEW val \in Int, NEW factor \in Nat, NEW offset \in Nat, NEW bits \in 15..24
  PROVE  /\ Quantized(val, factor, offset, bits) \in Int
         /\ LevelFits(val, factor, offset, bits)
<1>1. PICK m \in Nat : m = Magnitude(val) * factor
  BY DEF Magnitude
<1>2. PICK t \in {32768, 65536, 131072, 262144, 524288, 1048576, 2097152, 4194304, 8388608, 16777216} :
        t = 2^bits
  <2>1. \/ bits = 15 \/ bits = 16 \/ bits = 17 \/ bits = 18 \/ bits = 19
        \/ bits = 20 \/ bits = 21 \/ bits = 22 \/ bits = 23 \/ bits = 24
    OBVIOUS
  <2>2. 2^bits \in {32768, 65536, 131072, 262144, 524288, 1048576, 2097152, 4194304, 8388608, 16777216}
    <3>1. CASE bits = 15
      BY <3>1, MorePowers
    <3>2. CASE bits = 16
      BY <3>2, MorePowers
    <3>3. CASE bits = 17
      BY <3>3, MorePowers
    <3>4. CASE bits = 18
      BY <3>4, MorePowers
    <3>5. CASE bits = 19
      BY <3>5, MorePowers
    <3>6. CASE bits = 20
      BY <3>6, MorePowers
    <3>7. CASE bits = 21
      BY <3>7, MorePowers
    <3>8. CASE bits = 22
      BY <3>8, MorePowers
    <3>9. CASE bits = 23
      BY <3>9, MorePowers
    <3>10. CASE bits = 24
      BY <3>10, MorePowers
    <3> QED
      BY <2>1, <3>1, <3>2, <3>3, <3>4, <3>5, <3>6, <3>7, <3>8, <3>9, <3>10
  <2> QED
    BY <2>2
<1>3. PICK level \in Nat : level = (m + offset) \div t
  OBVIOUS
<1>4. (offset < t /\ m <= 2063 * t) => level <= 2063
  BY <1>3
<1>5. Quantized(val, factor, offset, bits) = IF val >= 0 THEN level ELSE -level
  BY <1>1, <1>2, <1>3 DEF Quantized
<1>6. EscapeLimit = 2063
  BY MorePowers DEF EscapeLimit
<1> QED
  BY <1>1, <1>2, <1>4, <1>5, <1>6 DEF Magnitude, LevelFits

LEMMA InverseInMatrix ==
  ASSUME NEW b, IntBlock(b)
  PROVE  InverseDCT(b) \in Matrix4
<1> DEFINE half == Transpose4(Rows(ReceiverPass, b))
<1>1. Rows(InversePass, b) = Rows(ReceiverPass, b) /\ IntBlock(half)
  BY RowsAgree, TransposedInts
<1>2. Rows(InversePass, half) = Rows(ReceiverPass, half) /\ IntBlock(Rows(ReceiverPass, half))
  BY <1>1, RowsAgree
<1>3. InverseDCT(b) = Transpose4(Rows(ReceiverPass, half))
  BY <1>1, <1>2 DEF InverseDCT, RowsThenColumns
<1> QED
  BY <1>2, <1>3, TransposedMatrix

\* What the quantisers and the inverse quantisers return is of integers.
LEMMA EntryInts ==
  ASSUME InputType, NEW v \in Int, NEW x \in 0..3, NEW y \in 0..3
  PROVE  /\ Quantized(v, At(s_quant_matrix, x, y), QOffset, QBits) \in Int
         /\ Quantized(v, At(s_quant_matrix, 0, 0), 2 * QOffset, QBits + 1) \in Int
         /\ v * At(s_dequant_matrix, x, y) * 2^(qp \div 6) \in Int
         /\ RightShift(v * At(s_dequant_matrix, 0, 0) * 2^(qp \div 6), 1) \in Int
         /\ RightShift(v * At(s_dequant_matrix, 0, 0) * 2^(qp \div 6), 2) \in Int
<1>1. /\ At(s_quant_matrix, x, y) \in Nat /\ At(s_quant_matrix, 0, 0) \in Nat
  BY QuantEntries DEF InputType
<1>2. QBits \in 15..23 /\ QOffset \in Nat
  BY Offsets DEF InputType
<1>3. /\ Quantized(v, At(s_quant_matrix, x, y), QOffset, QBits) \in Int
      /\ Quantized(v, At(s_quant_matrix, 0, 0), 2 * QOffset, QBits + 1) \in Int
  <2>1. QBits \in 15..24 /\ QBits + 1 \in 15..24 /\ 2 * QOffset \in Nat
    BY <1>2
  <2>2. \A factor, offset \in Nat, bits \in 15..24 : Quantized(v, factor, offset, bits) \in Int
    BY QuantizedBound
  <2> QED
    BY <1>1, <1>2, <2>1, <2>2
<1>4. At(s_dequant_matrix, x, y) \in Int /\ At(s_dequant_matrix, 0, 0) \in Int
  <2>1. PICK r \in {0, 1, 2, 3, 4, 5} : r = qp % 6
    BY DEF InputType
  <2>2. PICK n \in {1, 2, 3} : n = 1 + Odd(x) + Odd(y)
    BY DEF Odd
  <2>3. \A k \in {0, 1, 2, 3, 4, 5}, m \in {1, 2, 3} : s_dequant_matrix[k + 1][m] \in Int
    BY DEF s_dequant_matrix
  <2>4. 1 + Odd(0) + Odd(0) = 1
    BY DEF Odd
  <2> QED
    BY <2>1, <2>2, <2>3, <2>4 DEF At
<1>5. 2^(qp \div 6) \in Int
  BY Exponent, Powers DEF InputType
<1>6. PICK k \in Int : k = v * At(s_dequant_matrix, 0, 0) * 2^(qp \div 6)
  BY <1>4, <1>5
<1>7. RightShift(k, 1) \in Int /\ RightShift(k, 2) \in Int
  BY Powers DEF RightShift
<1> QED
  BY <1>3, <1>4, <1>5, <1>6, <1>7

-----------------------------------------------------------------------------
(* How large coefficients become.                                          *)

Within(v, m) == v \in Int /\ v <= m /\ -m <= v

RowWithin(p, m) == Within(p[1], m) /\ Within(p[2], m) /\ Within(p[3], m) /\ Within(p[4], m)

\* The odd coefficients of a row may be larger than the even ones.
RowAlternates(p, m, n) == Within(p[1], m) /\ Within(p[2], n) /\ Within(p[3], m) /\ Within(p[4], n)

CoefficientsWithin(b) ==
  /\ RowAlternates(b[1], 4080, 6120) /\ RowAlternates(b[2], 6120, 9180)
  /\ RowAlternates(b[3], 4080, 6120) /\ RowAlternates(b[4], 6120, 9180)

LEMMA PassWithin ==
  ASSUME NEW p, NEW m \in Nat, RowWithin(p, m)
  PROVE  RowAlternates(DCTPass(p), 4 * m, 6 * m) /\ RowWithin(HadamardPass(p), 4 * m)
<1>1. PICK a \in Int, b \in Int, c \in Int, d \in Int : a = p[1] /\ b = p[2] /\ c = p[3] /\ d = p[4]
  BY DEF RowWithin, Within
<1>2. a <= m /\ -m <= a /\ b <= m /\ -m <= b /\ c <= m /\ -m <= c /\ d <= m /\ -m <= d
  BY <1>1 DEF RowWithin, Within
<1>3. RowAlternates(DCTPass(p), 4 * m, 6 * m)
  <2>1. DCTPass(p) = <<(a + d) + (b + c), 2 * (a - d) + (b - c), (a + d) - (b + c), (a - d) - 2 * (b - c)>>
    BY <1>1 DEF DCTPass
  <2>2. /\ Within((a + d) + (b + c), 4 * m) /\ Within((a + d) - (b + c), 4 * m)
        /\ Within(2 * (a - d) + (b - c), 6 * m) /\ Within((a - d) - 2 * (b - c), 6 * m)
    BY <1>2 DEF Within
  <2> QED
    BY <2>1, <2>2 DEF RowAlternates
<1>4. RowWithin(HadamardPass(p), 4 * m)
  <2>1. HadamardPass(p) = <<(a + d) + (b + c), (b - c) + (a - d), (a + d) - (b + c), (a - d) - (b - c)>>
    BY <1>1 DEF HadamardPass
  <2>2. /\ Within((a + d) + (b + c), 4 * m) /\ Within((a + d) - (b + c), 4 * m)
        /\ Within((b - c) + (a - d), 4 * m) /\ Within((a - d) - (b - c), 4 * m)
    BY <1>2 DEF Within
  <2> QED
    BY <2>1, <2>2 DEF RowWithin
<1> QED
  BY <1>3, <1>4

LEMMA DCTWithin ==
  ASSUME NEW b, \A y \in 1..4 : RowWithin(b[y], 255)
  PROVE  DCT(b) \in Matrix4 /\ CoefficientsWithin(DCT(b))
<1> DEFINE r == Rows(DCTPass, b)
           t == Transpose4(r)
           u == Rows(DCTPass, t)
<1>1. /\ RowAlternates(DCTPass(b[1]), 1020, 1530) /\ RowAlternates(DCTPass(b[2]), 1020, 1530)
      /\ RowAlternates(DCTPass(b[3]), 1020, 1530) /\ RowAlternates(DCTPass(b[4]), 1020, 1530)
  <2>1. \A y \in 1..4 : RowAlternates(DCTPass(b[y]), 4 * 255, 6 * 255)
    BY PassWithin
  <2>2. 4 * 255 = 1020 /\ 6 * 255 = 1530
    OBVIOUS
  <2> QED
    BY <2>1, <2>2
<1>2. /\ RowAlternates(r[1], 1020, 1530) /\ RowAlternates(r[2], 1020, 1530)
      /\ RowAlternates(r[3], 1020, 1530) /\ RowAlternates(r[4], 1020, 1530)
  BY <1>1 DEF Rows
<1> HIDE DEF r
<1>3. RowWithin(t[1], 1020) /\ RowWithin(t[2], 1530) /\ RowWithin(t[3], 1020) /\ RowWithin(t[4], 1530)
  <2>1. /\ t[1] = <<r[1][1], r[2][1], r[3][1], r[4][1]>> /\ t[2] = <<r[1][2], r[2][2], r[3][2], r[4][2]>>
        /\ t[3] = <<r[1][3], r[2][3], r[3][3], r[4][3]>> /\ t[4] = <<r[1][4], r[2][4], r[3][4], r[4][4]>>
    BY DEF Transpose4, Column
  <2> HIDE DEF t
  <2> QED
    BY <1>2, <2>1 DEF RowAlternates, RowWithin
<1> HIDE DEF t
<1>4. /\ RowAlternates(DCTPass(t[1]), 4080, 6120) /\ RowAlternates(DCTPass(t[2]), 6120, 9180)
      /\ RowAlternates(DCTPass(t[3]), 4080, 6120) /\ RowAlternates(DCTPass(t[4]), 6120, 9180)
  <2>1. /\ RowAlternates(DCTPass(t[1]), 4 * 1020, 6 * 1020) /\ RowAlternates(DCTPass(t[2]), 4 * 1530, 6 * 1530)
        /\ RowAlternates(DCTPass(t[3]), 4 * 1020, 6 * 1020) /\ RowAlternates(DCTPass(t[4]), 4 * 1530, 6 * 1530)
    BY <1>3, PassWithin
  <2>2. 4 * 1020 = 4080 /\ 6 * 1020 = 6120 /\ 4 * 1530 = 6120 /\ 6 * 1530 = 9180
    OBVIOUS
  <2> QED
    BY <2>1, <2>2
<1>5. /\ RowAlternates(u[1], 4080, 6120) /\ RowAlternates(u[2], 6120, 9180)
      /\ RowAlternates(u[3], 4080, 6120) /\ RowAlternates(u[4], 6120, 9180)
  BY <1>4 DEF Rows
<1> HIDE DEF u
<1>6. IntBlock(u)
  BY <1>5 DEF RowAlternates, Within, IntBlock, IntRow
<1>7. CoefficientsWithin(Transpose4(u))
  <2> DEFINE c == Transpose4(u)
  <2>1. /\ c[1] = <<u[1][1], u[2][1], u[3][1], u[4][1]>> /\ c[2] = <<u[1][2], u[2][2], u[3][2], u[4][2]>>
        /\ c[3] = <<u[1][3], u[2][3], u[3][3], u[4][3]>> /\ c[4] = <<u[1][4], u[2][4], u[3][4], u[4][4]>>
    BY DEF Transpose4, Column
  <2> HIDE DEF c
  <2>2. /\ RowAlternates(c[1], 4080, 6120) /\ RowAlternates(c[2], 6120, 9180)
        /\ RowAlternates(c[3], 4080, 6120) /\ RowAlternates(c[4], 6120, 9180)
    BY <1>5, <2>1 DEF RowAlternates
  <2> QED
    BY <2>2 DEF CoefficientsWithin, c
<1>8. DCT(b) = Transpose4(u)
  BY DEF DCT, RowsThenColumns, r, t, u
<1> QED
  BY <1>6, <1>7, <1>8, TransposedMatrix

MatrixWithin(c, m) == \A y \in DOMAIN c : \A x \in DOMAIN c[y] : Within(c[y][x], m)

LEMMA LumaDCWithin ==
  ASSUME NEW c \in Matrix4, MatrixWithin(c, 4080)
  PROVE  Hadamard4x4(c, 1) \in Matrix4 /\ MatrixWithin(Hadamard4x4(c, 1), 32640)
<1> DEFINE r == Rows(HadamardPass, c)
           t == Transpose4(r)
           u == Rows(HadamardPass, t)
           h == Transpose4(u)
<1>1. RowWithin(c[1], 4080) /\ RowWithin(c[2], 4080) /\ RowWithin(c[3], 4080) /\ RowWithin(c[4], 4080)
  BY MatrixLength DEF MatrixWithin, RowWithin
<1>2. RowWithin(r[1], 16320) /\ RowWithin(r[2], 16320) /\ RowWithin(r[3], 16320) /\ RowWithin(r[4], 16320)
  <2>1. /\ RowWithin(HadamardPass(c[1]), 4 * 4080) /\ RowWithin(HadamardPass(c[2]), 4 * 4080)
        /\ RowWithin(HadamardPass(c[3]), 4 * 4080) /\ RowWithin(HadamardPass(c[4]), 4 * 4080)
    BY <1>1, PassWithin
  <2>2. 4 * 4080 = 16320
    OBVIOUS
  <2> QED
    BY <2>1, <2>2 DEF Rows
<1> HIDE DEF r
<1>3. RowWithin(t[1], 16320) /\ RowWithin(t[2], 16320) /\ RowWithin(t[3], 16320) /\ RowWithin(t[4], 16320)
  <2>1. /\ t[1] = <<r[1][1], r[2][1], r[3][1], r[4][1]>> /\ t[2] = <<r[1][2], r[2][2], r[3][2], r[4][2]>>
        /\ t[3] = <<r[1][3], r[2][3], r[3][3], r[4][3]>> /\ t[4] = <<r[1][4], r[2][4], r[3][4], r[4][4]>>
    BY DEF Transpose4, Column
  <2> HIDE DEF t
  <2> QED
    BY <1>2, <2>1 DEF RowWithin
<1> HIDE DEF t
<1>4. RowWithin(u[1], 65280) /\ RowWithin(u[2], 65280) /\ RowWithin(u[3], 65280) /\ RowWithin(u[4], 65280)
  <2>1. /\ RowWithin(HadamardPass(t[1]), 4 * 16320) /\ RowWithin(HadamardPass(t[2]), 4 * 16320)
        /\ RowWithin(HadamardPass(t[3]), 4 * 16320) /\ RowWithin(HadamardPass(t[4]), 4 * 16320)
    BY <1>3, PassWithin
  <2>2. 4 * 16320 = 65280
    OBVIOUS
  <2> QED
    BY <2>1, <2>2 DEF Rows
<1> HIDE DEF u
<1>5. h \in Matrix4 /\ \A y, x \in 1..4 : Within(h[y][x], 65280)
  <2>1. IntBlock(u)
    BY <1>4 DEF RowWithin, Within, IntBlock, IntRow
  <2>2. h \in Matrix4
    BY <2>1, TransposedMatrix
  <2>3. /\ h[1] = <<u[1][1], u[2][1], u[3][1], u[4][1]>> /\ h[2] = <<u[1][2], u[2][2], u[3][2], u[4][2]>>
        /\ h[3] = <<u[1][3], u[2][3], u[3][3], u[4][3]>> /\ h[4] = <<u[1][4], u[2][4], u[3][4], u[4][4]>>
    BY DEF Transpose4, Column
  <2> HIDE DEF h
  <2>4. RowWithin(h[1], 65280) /\ RowWithin(h[2], 65280) /\ RowWithin(h[3], 65280) /\ RowWithin(h[4], 65280)
    BY <1>4, <2>3 DEF RowWithin
  <2>5. \A y \in 1..4 : y = 1 \/ y = 2 \/ y = 3 \/ y = 4
    OBVIOUS
  <2> QED
    BY <2>2, <2>4, <2>5 DEF RowWithin
<1> HIDE DEF h
<1>6. Hadamard4x4(c, 1) = [y \in 1..4 |-> [x \in 1..4 |-> Shift(h[y][x], 1)]]
  <2>1. h = RowsThenColumns(HadamardPass, c)
    BY DEF RowsThenColumns, r, t, u, h
  <2> QED
    BY <1>5, <2>1, MatrixLength DEF Hadamard4x4, Each
<1>7. \A v : Within(v, 65280) => Within(Shift(v, 1), 32640)
  BY Powers DEF Within, Shift
<1>8. \A y, x \in 1..4 : Within(Shift(h[y][x], 1), 32640)
  BY <1>5, <1>7
<1>9. \A y, x \in 1..4 : Shift(h[y][x], 1) \in Int
  BY <1>8 DEF Within
<1>10. Hadamard4x4(c, 1) \in Matrix4
  BY <1>6, <1>9 DEF Matrix4
<1> QED
  BY <1>6, <1>8, <1>10 DEF MatrixWithin

LEMMA ChromaDCWithin ==
  ASSUME NEW c \in Matrix2, MatrixWithin(c, 4080)
  PROVE  Hadamard2x2(c) \in Matrix2 /\ MatrixWithin(Hadamard2x2(c), 16320)
<1>1. PICK p \in Int, q \in Int, r \in Int, s \in Int :
        p = c[1][1] /\ q = c[1][2] /\ r = c[2][1] /\ s = c[2][2]
  BY MatrixLength2
<1>2. Within(p, 4080) /\ Within(q, 4080) /\ Within(r, 4080) /\ Within(s, 4080)
  BY <1>1, MatrixLength2 DEF MatrixWithin
<1>3. Hadamard2x2(c) = <<<<p + q + r + s, p - q + r - s>>, <<p + q - r - s, p - q - r + s>>>>
  BY <1>1 DEF Hadamard2x2
<1>4. /\ Within(p + q + r + s, 16320) /\ Within(p - q + r - s, 16320)
      /\ Within(p + q - r - s, 16320) /\ Within(p - q - r + s, 16320)
  BY <1>2 DEF Within
<1> DEFINE h == Hadamard2x2(c)
<1>5. /\ Within(h[1][1], 16320) /\ Within(h[1][2], 16320)
      /\ Within(h[2][1], 16320) /\ Within(h[2][2], 16320)
  BY <1>3, <1>4
<1>6. h \in Matrix2
  BY Hadamard2Agrees
<1> HIDE DEF h
<1>7. MatrixWithin(h, 16320)
  <2>1. \A y \in 1..2 : y = 1 \/ y = 2
    OBVIOUS
  <2> QED
    BY <1>5, <1>6, <2>1, MatrixLength2 DEF MatrixWithin
<1> QED
  BY <1>6, <1>7 DEF h

-----------------------------------------------------------------------------
(* The levels.                                                             *)

LEMMA Products ==
  ASSUME NEW a \in Nat, NEW f \in Nat, NEW m \in Nat, NEW n \in Nat, a <= m, f <= n
  PROVE  a * f <= m * n /\ a * f \in Nat /\ m * n \in Nat
<1>1. a * f <= m * f
  OBVIOUS
<1>2. m * f <= m * n
  OBVIOUS
<1>3. a * f \in Nat /\ m * f \in Nat /\ m * n \in Nat
  OBVIOUS
<1> QED
  BY <1>1, <1>2, <1>3

\* A coefficient at a place, of the largest the transform makes there.
LEMMA NormalLevel ==
  ASSUME qp \in 0..51, is_intra \in BOOLEAN, NEW v, NEW m, NEW x \in 0..3, NEW y \in 0..3, Within(v, m),
         m = <<4080, 6120, 9180>>[1 + Odd(x) + Odd(y)]
  PROVE  Magnitude(Quantized(v, At(s_quant_matrix, x, y), QOffset, QBits)) <= EscapeLimit
<1>1. PICK n \in {1, 2, 3} : n = 1 + Odd(x) + Odd(y)
  BY DEF Odd
<1>2. m = <<4080, 6120, 9180>>[n] /\ LargestFactor(x, y) = <<13107, 8066, 5243>>[n]
  BY <1>1 DEF LargestFactor
<1>3. \/ m = 4080 /\ LargestFactor(x, y) = 13107
      \/ m = 6120 /\ LargestFactor(x, y) = 8066
      \/ m = 9180 /\ LargestFactor(x, y) = 5243
  BY <1>2
<1>4. PICK f \in Nat : f = At(s_quant_matrix, x, y) /\ f <= LargestFactor(x, y)
  BY QuantEntries
<1>5. PICK a \in Nat : a = Magnitude(v) /\ a <= m
  BY <1>3 DEF Magnitude, Within
<1>6. a * f <= m * LargestFactor(x, y) /\ a * f \in Nat
  BY <1>3, <1>4, <1>5, Products
<1>7. m * LargestFactor(x, y) <= 53476560
  BY <1>3
<1>8. PICK t \in Nat : t = 2^QBits
  BY Offsets
<1>9. QBits \in 15..23 /\ QOffset \in Nat /\ QOffset < t /\ 32768 <= t
  <2>1. QBits \in 15..23 /\ QOffset \in Nat /\ 3 * QOffset < 2^QBits /\ 32768 <= 2^QBits
    BY Offsets
  <2> QED
    BY <1>8, <2>1
<1>10. a * f <= 2063 * t
  <2>1. PICK limit \in Nat : limit = m * LargestFactor(x, y)
    BY <1>3
  <2> QED
    BY <1>6, <1>7, <1>9, <2>1
<1>11. QBits \in 15..24 /\ v \in Int
  BY <1>9 DEF Within
<1>12. LevelFits(v, f, QOffset, QBits)
  <2>1. \A factor, offset \in Nat, bits \in 15..24 : LevelFits(v, factor, offset, bits)
    BY ONLY <1>11, QuantizedBound
  <2> QED
    BY <1>9, <1>11, <2>1
<1> QED
  BY <1>4, <1>5, <1>8, <1>9, <1>10, <1>12 DEF LevelFits

\* The DC coefficients of luma from a parameter of 10 on, those of chroma from
\* 4 on.
LEMMA DCLevel ==
  ASSUME qp \in 0..51, is_intra \in BOOLEAN, NEW v, NEW m \in Nat, Within(v, m),
         (m = 32640 /\ qp >= 10) \/ (m = 16320 /\ qp >= 4)
  PROVE  Magnitude(Quantized(v, At(s_quant_matrix, 0, 0), 2 * QOffset, QBits + 1)) <= EscapeLimit
<1>1. PICK f \in Nat : f = At(s_quant_matrix, 0, 0) /\ f <= 13107
  <2>1. LargestFactor(0, 0) = 13107
    BY DEF LargestFactor, Odd
  <2> QED
    BY <2>1, QuantEntries
<1>2. qp % 6 \in {4, 5} => f <= 8192
  <2> SUFFICES ASSUME qp % 6 \in {4, 5} PROVE f <= 8192
    OBVIOUS
  <2>1. f = s_quant_matrix[(qp % 6) + 1][1]
    <3>1. 1 + Odd(0) + Odd(0) = 1
      BY DEF Odd
    <3> QED
      BY <1>1, <3>1 DEF At
  <2>2. CASE qp % 6 = 4
    BY <2>1, <2>2 DEF s_quant_matrix
  <2>3. CASE qp % 6 = 5
    BY <2>1, <2>3 DEF s_quant_matrix
  <2> QED
    BY <2>2, <2>3
<1>3. PICK a \in Nat : a = Magnitude(v) /\ a <= m
  BY DEF Magnitude, Within
<1>4. a * f <= m * 13107 /\ (f <= 8192 => a * f <= m * 8192) /\ a * f \in Nat
  BY <1>1, <1>3, Products
<1>5. PICK t \in Nat : t = 2^QBits
  BY Offsets
<1>6. QBits \in 15..23 /\ QOffset \in Nat /\ 3 * QOffset < t /\ 2^(QBits + 1) = 2 * t
  BY <1>5, Offsets
<1>7. 32768 <= t /\ (qp >= 6 => 65536 <= t) /\ (qp >= 12 => 131072 <= t)
  BY <1>5, Offsets
<1>8. PICK p \in Nat : p = a * f
  BY <1>4
<1>9. p <= 2063 * (2 * t)
  <2>1. CASE m = 32640 /\ qp >= 12
    BY <1>4, <1>7, <1>8, <2>1
  <2>2. CASE m = 32640 /\ qp >= 10 /\ qp < 12
    <3>1. qp % 6 \in {4, 5} /\ qp >= 6
      BY <2>2
    <3> QED
      BY <1>2, <1>4, <1>7, <1>8, <2>2, <3>1
  <2>3. CASE m = 16320 /\ qp >= 6
    BY <1>4, <1>7, <1>8, <2>3
  <2>4. CASE m = 16320 /\ qp >= 4 /\ qp < 6
    <3>1. qp % 6 \in {4, 5}
      BY <2>4
    <3> QED
      BY <1>2, <1>4, <1>7, <1>8, <2>4, <3>1
  <2> QED
    BY <2>1, <2>2, <2>3, <2>4
<1>10. QBits + 1 \in 15..24 /\ 2 * QOffset \in Nat /\ 2 * QOffset < 2 * t /\ v \in Int
  BY <1>6 DEF Within
<1>11. LevelFits(v, f, 2 * QOffset, QBits + 1)
  <2>1. \A factor, offset \in Nat, bits \in 15..24 : LevelFits(v, factor, offset, bits)
    BY ONLY <1>10, QuantizedBound
  <2> QED
    BY <1>10, <2>1
<1> QED
  BY <1>1, <1>3, <1>6, <1>8, <1>9, <1>10, <1>11 DEF LevelFits

-----------------------------------------------------------------------------
(* What each step makes of the blocks.                                     *)

LEMMA Differences ==
  ASSUME InputType
  PROVE  LET blocks == [i \in DOMAIN input.original |-> Difference(input.original[i], input.predicted[i])]
         IN  /\ blocks \in [1..Count -> Matrix4]
             /\ \A i \in 1..Count : \A y \in 1..4 : RowWithin(blocks[i][y], 255)
<1> DEFINE d(i) == Difference(input.original[i], input.predicted[i])
<1>1. ASSUME NEW i \in 1..Count, NEW y \in 1..4, NEW x \in 1..4
      PROVE  Within(d(i)[y][x], 255)
  <2>0. input.original[i][y][x] \in 0..255 /\ input.predicted[i][y][x] \in 0..255
    BY ONLY Kinds, InputType, i \in 1..Count, y \in 1..4, x \in 1..4
  <2>1. PICK a \in 0..255, b \in 0..255 : a = input.original[i][y][x] /\ b = input.predicted[i][y][x]
    BY <2>0
  <2>2. 0 <= a /\ a <= 255 /\ 0 <= b /\ b <= 255
    OBVIOUS
  <2>3. d(i)[y][x] = a - b
    BY <2>1 DEF Difference
  <2> QED
    BY <2>2, <2>3 DEF Within
<1>2. \A i \in 1..Count : d(i) = [y \in 1..4 |-> [x \in 1..4 |-> d(i)[y][x]]]
  BY DEF Difference
<1> HIDE DEF d
<1>3. \A i \in 1..Count : d(i) \in Matrix4
  BY <1>1, <1>2 DEF Matrix4, Within
<1>4. \A i \in 1..Count : \A y \in 1..4 : RowWithin(d(i)[y], 255)
  BY <1>1 DEF RowWithin
<1>5. [i \in DOMAIN input.original |-> d(i)] = [i \in 1..Count |-> d(i)]
  BY Kinds
<1> QED
  BY <1>3, <1>4, <1>5 DEF d

\* What the DC coefficients of a flow may become.
DCWithin(dc) ==
  /\ input.kind = "luma16" => MatrixWithin(dc, 32640)
  /\ input.kind = "chroma" => MatrixWithin(dc, 16320)

\* The transforms of the DC coefficients of the blocks.
LumaTransformed(dc) == Hadamard4x4(dc, 1) \in Matrix4 /\ MatrixWithin(Hadamard4x4(dc, 1), 32640)

ChromaTransformed(dc) == Hadamard2x2(dc) \in Matrix2 /\ MatrixWithin(Hadamard2x2(dc), 16320)

BlocksWithin(blocks) ==
  blocks \in [1..Count -> Matrix4] /\ \A i \in 1..Count : CoefficientsWithin(blocks[i])

LEMMA Transformed ==
  ASSUME InputType, NEW blocks, BlocksWithin(blocks)
  PROVE  /\ input.kind = "luma16" => LumaTransformed(DCOf(blocks))
         /\ input.kind = "chroma" => ChromaTransformed(DCOf(blocks))
<1>1. \A i \in 1..Count : Within(blocks[i][1][1], 4080)
  BY DEF BlocksWithin, CoefficientsWithin, RowAlternates
<1>2. CASE input.kind = "luma16"
  <2>1. Count = 16
    BY <1>2, Kinds
  <2>2. DCOf(blocks) = [y \in 1..4 |-> [x \in 1..4 |-> blocks[(y - 1) * 4 + x][1][1]]]
    BY <1>2 DEF DCOf, DCSide
  <2>3. \A y, x \in 1..4 : (y - 1) * 4 + x \in 1..16
    OBVIOUS
  <2>4. \A y, x \in 1..4 : Within(blocks[(y - 1) * 4 + x][1][1], 4080)
    BY <1>1, <2>1, <2>3
  <2>5. DCOf(blocks) \in Matrix4
    BY <2>2, <2>4 DEF Matrix4, Within
  <2>6. MatrixWithin(DCOf(blocks), 4080)
    <3> DEFINE g(y, x) == blocks[(y - 1) * 4 + x][1][1]
    <3>1. DCOf(blocks) = [y \in 1..4 |-> [x \in 1..4 |-> g(y, x)]] /\ \A y, x \in 1..4 : Within(g(y, x), 4080)
      BY <2>2, <2>4
    <3> HIDE DEF g
    <3> QED
      BY <3>1 DEF MatrixWithin
  <2> QED
    BY <1>2, <2>5, <2>6, LumaDCWithin DEF LumaTransformed
<1>3. CASE input.kind = "chroma"
  <2>1. Count = 4
    BY <1>3, Kinds
  <2>2. DCOf(blocks) = [y \in 1..2 |-> [x \in 1..2 |-> blocks[(y - 1) * 2 + x][1][1]]]
    BY <1>3 DEF DCOf, DCSide
  <2>3. \A y, x \in 1..2 : (y - 1) * 2 + x \in 1..4
    OBVIOUS
  <2>4. \A y, x \in 1..2 : Within(blocks[(y - 1) * 2 + x][1][1], 4080)
    BY <1>1, <2>1, <2>3
  <2>5. DCOf(blocks) \in Matrix2
    BY <2>2, <2>4 DEF Matrix2, Within
  <2>6. MatrixWithin(DCOf(blocks), 4080)
    <3> DEFINE g(y, x) == blocks[(y - 1) * 2 + x][1][1]
    <3>1. DCOf(blocks) = [y \in 1..2 |-> [x \in 1..2 |-> g(y, x)]] /\ \A y, x \in 1..2 : Within(g(y, x), 4080)
      BY <2>2, <2>4
    <3> HIDE DEF g
    <3> QED
      BY <3>1 DEF MatrixWithin
  <2> QED
    BY <1>3, <2>5, <2>6, ChromaDCWithin DEF ChromaTransformed
<1> QED
  BY <1>2, <1>3

\* The levels of the DC coefficients.
LEMMA QuantizedDCs ==
  ASSUME InputType, NEW dc, DCType(dc)
  PROVE  /\ DCType(QuantizeDC(dc))
         /\ (DCWithin(dc) /\ (input.kind = "chroma" => qp >= 4) /\ (input.kind = "luma16" => qp >= 10)) =>
              \A y \in DOMAIN QuantizeDC(dc) : \A x \in DOMAIN QuantizeDC(dc)[y] :
                Magnitude(QuantizeDC(dc)[y][x]) <= EscapeLimit
<1> DEFINE Level(v) == Quantized(v, At(s_quant_matrix, 0, 0), 2 * QOffset, QBits + 1)
<1>1. QuantizeDC(dc) = [y \in DOMAIN dc |-> [x \in DOMAIN dc[y] |-> Level(dc[y][x])]]
  BY DEF QuantizeDC, Each
<1>2. \A v \in Int : Level(v) \in Int
  <2>1. 0 \in 0..3
    OBVIOUS
  <2> QED
    BY <2>1, EntryInts
<1>3. \A v : (Within(v, 32640) /\ qp >= 10) => Magnitude(Level(v)) <= EscapeLimit
  <2>1. 32640 \in Nat
    OBVIOUS
  <2> QED
    BY <2>1, DCLevel DEF InputType
<1>4. \A v : (Within(v, 16320) /\ qp >= 4) => Magnitude(Level(v)) <= EscapeLimit
  <2>1. 16320 \in Nat
    OBVIOUS
  <2> QED
    BY <2>1, DCLevel DEF InputType
<1> HIDE DEF Level
<1>5. CASE input.kind = "4x4"
  <2>1. dc = <<>>
    BY <1>5 DEF DCType
  <2>2. DOMAIN dc = {}
    BY <2>1
  <2>3. QuantizeDC(dc) = <<>> /\ DOMAIN QuantizeDC(dc) = {}
    BY <1>1, <2>1, <2>2
  <2> QED
    BY <1>5, <2>3 DEF DCType
<1>6. CASE input.kind = "luma16"
  <2>1. dc \in Matrix4
    BY <1>6 DEF DCType
  <2>2. QuantizeDC(dc) = [y \in 1..4 |-> [x \in 1..4 |-> Level(dc[y][x])]]
    BY <1>1, <2>1, MatrixLength
  <2>3. \A y, x \in 1..4 : Level(dc[y][x]) \in Int
    BY <1>2, <2>1 DEF Matrix4
  <2>4. QuantizeDC(dc) \in Matrix4
    BY <2>2, <2>3 DEF Matrix4
  <2>5. DCWithin(dc) => \A y, x \in 1..4 : Within(dc[y][x], 32640)
    BY <1>6, <2>1, MatrixLength DEF DCWithin, MatrixWithin
  <2>6. (DCWithin(dc) /\ qp >= 10) => \A y, x \in 1..4 : Magnitude(Level(dc[y][x])) <= EscapeLimit
    BY <1>3, <2>5
  <2>7. DCType(QuantizeDC(dc))
    BY <1>6, <2>4 DEF DCType
  <2> QED
    BY <1>6, <2>2, <2>6, <2>7
<1>7. CASE input.kind = "chroma"
  <2>1. dc \in Matrix2
    BY <1>7 DEF DCType
  <2>2. QuantizeDC(dc) = [y \in 1..2 |-> [x \in 1..2 |-> Level(dc[y][x])]]
    BY <1>1, <2>1, MatrixLength2
  <2>3. \A y, x \in 1..2 : Level(dc[y][x]) \in Int
    BY <1>2, <2>1 DEF Matrix2
  <2>4. QuantizeDC(dc) \in Matrix2
    BY <2>2, <2>3 DEF Matrix2
  <2>5. DCWithin(dc) => \A y, x \in 1..2 : Within(dc[y][x], 16320)
    BY <1>7, <2>1, MatrixLength2 DEF DCWithin, MatrixWithin
  <2>6. (DCWithin(dc) /\ qp >= 4) => \A y, x \in 1..2 : Magnitude(Level(dc[y][x])) <= EscapeLimit
    BY <1>4, <2>5
  <2>7. DCType(QuantizeDC(dc))
    BY <1>7, <2>4 DEF DCType
  <2> QED
    BY <1>7, <2>2, <2>6, <2>7
<1> QED
  BY <1>5, <1>6, <1>7, Kinds

\* The levels of a block.
LEMMA QuantizedBlock ==
  ASSUME InputType, NEW b \in Matrix4
  PROVE  /\ QuantizeNormal(b) \in Matrix4 /\ QuantizeAC(b) \in Matrix4
         /\ CoefficientsWithin(b) =>
              \A y, x \in 1..4 : /\ Magnitude(QuantizeNormal(b)[y][x]) <= EscapeLimit
                                 /\ Magnitude(QuantizeAC(b)[y][x]) <= EscapeLimit
<1> DEFINE q(y, x) == Quantized(b[y][x], At(s_quant_matrix, x - 1, y - 1), QOffset, QBits)
           n == QuantizeNormal(b)
           a == QuantizeAC(b)
<1>1. \A y, x \in 1..4 : b[y][x] \in Int /\ y - 1 \in 0..3 /\ x - 1 \in 0..3
  BY DEF Matrix4
<1>2. \A y, x \in 1..4 : q(y, x) \in Int
  BY <1>1, EntryInts
<1>3. CoefficientsWithin(b) => \A y, x \in 1..4 : Magnitude(q(y, x)) <= EscapeLimit
  <2> SUFFICES ASSUME CoefficientsWithin(b), NEW y \in 1..4, NEW x \in 1..4
               PROVE  Magnitude(q(y, x)) <= EscapeLimit
    OBVIOUS
  <2>1. PICK m \in Nat : m = <<4080, 6120, 9180>>[1 + Odd(x - 1) + Odd(y - 1)] /\ Within(b[y][x], m)
    <3>1. CASE x \in {1, 3} /\ y \in {1, 3}
      <4>1. 1 + Odd(x - 1) + Odd(y - 1) = 1
        BY <3>1 DEF Odd
      <4>2. Within(b[y][x], 4080)
        BY <3>1 DEF CoefficientsWithin, RowAlternates
      <4> QED
        BY <4>1, <4>2
    <3>2. CASE (x \in {1, 3} /\ y \in {2, 4}) \/ (x \in {2, 4} /\ y \in {1, 3})
      <4>1. 1 + Odd(x - 1) + Odd(y - 1) = 2
        BY <3>2 DEF Odd
      <4>2. Within(b[y][x], 6120)
        BY <3>2 DEF CoefficientsWithin, RowAlternates
      <4> QED
        BY <4>1, <4>2
    <3>3. CASE x \in {2, 4} /\ y \in {2, 4}
      <4>1. 1 + Odd(x - 1) + Odd(y - 1) = 3
        BY <3>3 DEF Odd
      <4>2. Within(b[y][x], 9180)
        BY <3>3 DEF CoefficientsWithin, RowAlternates
      <4> QED
        BY <4>1, <4>2
    <3> QED
      BY <3>1, <3>2, <3>3
  <2> QED
    BY <1>1, <2>1, NormalLevel DEF InputType
<1>4. n = [y \in 1..4 |-> [x \in 1..4 |-> q(y, x)]]
  BY DEF QuantizeNormal
<1>5. a = [n EXCEPT ![1][1] = 0]
  BY DEF QuantizeAC
<1> HIDE DEF q, n, a
<1>6. n \in Matrix4
  BY <1>2, <1>4 DEF Matrix4
<1>7. a \in Matrix4 /\ \A y, x \in 1..4 : a[y][x] = 0 \/ a[y][x] = n[y][x]
  BY <1>5, <1>6 DEF Matrix4
<1>8. Magnitude(0) <= EscapeLimit
  BY MorePowers DEF Magnitude, EscapeLimit
<1>9. \A y, x \in 1..4 : n[y][x] = q(y, x)
  BY <1>4
<1> QED
  BY <1>3, <1>6, <1>7, <1>8, <1>9 DEF n, a

\* Where encoder and standard agree on chroma.
Agreed == input.kind = "chroma" => qp < 30 /\ qp \notin {1, 2}

\* The DC coefficients InverseQuantize puts back.
RestoredDC(dc) ==
  CASE input.kind = "4x4"    -> <<>>
    [] input.kind = "luma16" -> InverseQuantizeDC(Hadamard4x4(dc, 0), 2)
    [] input.kind = "chroma" -> InverseQuantizeDC(Hadamard2x2(dc), 1)

Restored(b, dc, i) ==
  IF input.kind = "4x4" THEN InverseQuantizeNormal(b)
  ELSE [InverseQuantizeNormal(b) EXCEPT ![1][1] = DCAt(dc, i)]

LEMMA RestoredDCs ==
  ASSUME InputType, NEW dc, DCType(dc), input.kind # "4x4"
  PROVE  /\ \A i \in 1..Count : DCAt(RestoredDC(dc), i) \in Int
         /\ Agreed => RestoredDC(dc) = ReceivedDC(dc)
<1>1. CASE input.kind = "luma16"
  <2>1. dc \in Matrix4
    BY <1>1 DEF DCType
  <2>2. RestoredDC(dc) = InverseQuantizeDC(Hadamard4x4(dc, 0), 2)
    BY <1>1 DEF RestoredDC
  <2>3. RestoredDC(dc) = ReceivedDC(dc) /\ ReceivedDC(dc) \in Matrix4
    BY <1>1, <2>1, <2>2, LumaDCAgrees DEF InputType
  <2>4. Count = 16 /\ DCSide = 4
    BY <1>1, Kinds DEF DCSide
  <2>5. \A i \in 1..16 : ((i - 1) \div 4) + 1 \in 1..4 /\ ((i - 1) % 4) + 1 \in 1..4
    OBVIOUS
  <2>6. \A i \in 1..16 : DCAt(RestoredDC(dc), i) = RestoredDC(dc)[((i - 1) \div 4) + 1][((i - 1) % 4) + 1]
    BY <2>4 DEF DCAt
  <2>7. \A y, x \in 1..4 : RestoredDC(dc)[y][x] \in Int
    BY <2>3 DEF Matrix4
  <2> QED
    BY <2>3, <2>4, <2>5, <2>6, <2>7
<1>2. CASE input.kind = "chroma"
  <2> DEFINE f == Hadamard2x2(dc)
             Scaled(v) == RightShift(v * At(s_dequant_matrix, 0, 0) * 2^(qp \div 6), 1)
  <2>1. dc \in Matrix2
    BY <1>2 DEF DCType
  <2>2. RestoredDC(dc) = InverseQuantizeDC(f, 1)
    BY <1>2 DEF RestoredDC
  <2>3. Agreed => RestoredDC(dc) = ReceivedDC(dc)
    BY <1>2, <2>1, <2>2, ChromaDCAgrees DEF InputType, Agreed
  <2>4. f \in Matrix2
    BY <2>1, Hadamard2Agrees
  <2>5. \A v \in Int : Scaled(v) \in Int
    <3>1. 0 \in 0..3
      OBVIOUS
    <3> QED
      BY <3>1, EntryInts
  <2>6. InverseQuantizeDC(f, 1) = [y \in DOMAIN f |-> [x \in DOMAIN f[y] |-> Scaled(f[y][x])]]
    BY DEF InverseQuantizeDC, Each
  <2> HIDE DEF f, Scaled
  <2>7. RestoredDC(dc) = [y \in 1..2 |-> [x \in 1..2 |-> Scaled(f[y][x])]]
    BY <2>2, <2>4, <2>6, MatrixLength2
  <2>8. \A y, x \in 1..2 : RestoredDC(dc)[y][x] \in Int
    <3>1. \A y, x \in 1..2 : f[y][x] \in Int
      BY <2>4 DEF Matrix2
    <3> QED
      BY <2>5, <2>7, <3>1
  <2>9. Count = 4 /\ DCSide = 2
    BY <1>2, Kinds DEF DCSide
  <2>10. \A i \in 1..4 : ((i - 1) \div 2) + 1 \in 1..2 /\ ((i - 1) % 2) + 1 \in 1..2
    OBVIOUS
  <2>11. \A i \in 1..4 : DCAt(RestoredDC(dc), i) = RestoredDC(dc)[((i - 1) \div 2) + 1][((i - 1) % 2) + 1]
    BY <2>9 DEF DCAt
  <2> QED
    BY <2>3, <2>8, <2>9, <2>10, <2>11
<1> QED
  BY <1>1, <1>2, Kinds

\* A DC coefficient put back.
LEMMA CornerReplaced ==
  ASSUME NEW n \in Matrix4, NEW dc \in Int
  PROVE  /\ [n EXCEPT ![1][1] = dc] \in Matrix4
         /\ [n EXCEPT ![1][1] = dc] =
              [y \in 1..4 |-> [x \in 1..4 |-> IF x = 1 /\ y = 1 THEN dc ELSE n[y][x]]]
<1>1. /\ n = [y \in 1..4 |-> n[y]]
      /\ \A y \in 1..4 : n[y] = [x \in 1..4 |-> n[y][x]] /\ n[y] \in [1..4 -> Int]
  BY DEF Matrix4
<1>2. [n[1] EXCEPT ![1] = dc] = [x \in 1..4 |-> IF x = 1 THEN dc ELSE n[1][x]]
  BY <1>1
<1>3. [n EXCEPT ![1][1] = dc] = [y \in 1..4 |-> IF y = 1 THEN [n[1] EXCEPT ![1] = dc] ELSE n[y]]
  BY <1>1
<1>4. [n EXCEPT ![1][1] = dc] =
        [y \in 1..4 |-> [x \in 1..4 |-> IF x = 1 /\ y = 1 THEN dc ELSE n[y][x]]]
  BY <1>1, <1>2, <1>3
<1> QED
  BY <1>4 DEF Matrix4

\* The coefficients of a block are the receiver's.
LEMMA RestoredBlock ==
  ASSUME InputType, DCType(levels.dc), levels.blocks \in [1..Count -> Matrix4], NEW i \in 1..Count
  PROVE  LET b == Restored(levels.blocks[i], RestoredDC(levels.dc), i)
         IN  b \in Matrix4 /\ (Agreed => b = ReceivedCoefficients(i))
<1> DEFINE n == InverseQuantizeNormal(levels.blocks[i])
           dc == DCAt(RestoredDC(levels.dc), i)
           e(y, x) == IF x = 1 /\ y = 1 /\ input.kind # "4x4" THEN dc ELSE n[y][x]
           b == Restored(levels.blocks[i], RestoredDC(levels.dc), i)
<1>1. \A y, x \in 1..4 : levels.blocks[i][y][x] \in Int /\ y - 1 \in 0..3 /\ x - 1 \in 0..3
  <2>1. levels.blocks[i] \in Matrix4
    OBVIOUS
  <2>2. \A c \in Matrix4 : \A y, x \in 1..4 : c[y][x] \in Int
    BY DEF Matrix4
  <2> QED
    BY <2>1, <2>2
<1>2. n = [y \in 1..4 |-> [x \in 1..4 |->
             levels.blocks[i][y][x] * At(s_dequant_matrix, x - 1, y - 1) * 2^(qp \div 6)]]
  BY DEF InverseQuantizeNormal
<1>3. \A y, x \in 1..4 :
        levels.blocks[i][y][x] * At(s_dequant_matrix, x - 1, y - 1) * 2^(qp \div 6) \in Int
  BY <1>1, EntryInts
<1>4. b = IF input.kind = "4x4" THEN n ELSE [n EXCEPT ![1][1] = dc]
  BY DEF Restored
<1>5. Agreed => \A y, x \in 1..4 :
        levels.blocks[i][y][x] * At(s_dequant_matrix, x - 1, y - 1) * 2^(qp \div 6)
          = ScaledBy(levels.blocks[i][y][x], x - 1, y - 1)
  <2> SUFFICES ASSUME Agreed
               PROVE  \A y, x \in 1..4 :
                        levels.blocks[i][y][x] * At(s_dequant_matrix, x - 1, y - 1) * 2^(qp \div 6)
                          = ScaledBy(levels.blocks[i][y][x], x - 1, y - 1)
    OBVIOUS
  <2>1. ReceiverQP = qp /\ qp \in 0..51
    BY DEF ReceiverQP, Agreed, InputType
  <2> QED
    BY <1>1, <2>1, ScalesAgree
<1>6. n \in Matrix4 /\ \A y, x \in 1..4 :
        n[y][x] = levels.blocks[i][y][x] * At(s_dequant_matrix, x - 1, y - 1) * 2^(qp \div 6)
  <2> DEFINE w(y, x) == levels.blocks[i][y][x] * At(s_dequant_matrix, x - 1, y - 1) * 2^(qp \div 6)
  <2>1. n = [y \in 1..4 |-> [x \in 1..4 |-> w(y, x)]] /\ \A y, x \in 1..4 : w(y, x) \in Int
    BY <1>2, <1>3
  <2> HIDE DEF n, w
  <2>2. n \in Matrix4 /\ \A y, x \in 1..4 : n[y][x] = w(y, x)
    BY <2>1 DEF Matrix4
  <2> QED
    BY <2>2 DEF w
<1>7. input.kind # "4x4" => dc \in Int /\ (Agreed => dc = DCAt(ReceivedDC(levels.dc), i))
  BY RestoredDCs
<1> HIDE DEF n, dc, b
<1>8. b \in Matrix4 /\ b = [y \in 1..4 |-> [x \in 1..4 |-> e(y, x)]]
  <2>1. CASE input.kind = "4x4"
    BY <1>4, <1>6, <2>1 DEF Matrix4
  <2>2. CASE input.kind # "4x4"
    <3>1. dc \in Int /\ n \in Matrix4 /\ b = [n EXCEPT ![1][1] = dc]
      BY <1>4, <1>6, <1>7, <2>2
    <3>2. [n EXCEPT ![1][1] = dc] =
            [y \in 1..4 |-> [x \in 1..4 |-> IF x = 1 /\ y = 1 THEN dc ELSE n[y][x]]]
      BY <3>1, CornerReplaced
    <3>3. b \in Matrix4
      BY <3>1, CornerReplaced
    <3>4. \A y, x \in 1..4 : e(y, x) = IF x = 1 /\ y = 1 THEN dc ELSE n[y][x]
      BY <2>2
    <3> HIDE DEF e
    <3> QED
      BY <3>1, <3>2, <3>3, <3>4
  <2> QED
    BY <2>1, <2>2
<1>9. Agreed => \A y, x \in 1..4 :
        e(y, x) = IF x = 1 /\ y = 1 /\ input.kind # "4x4" THEN DCAt(ReceivedDC(levels.dc), i)
                  ELSE ScaledBy(levels.blocks[i][y][x], x - 1, y - 1)
  BY <1>5, <1>6, <1>7
<1> HIDE DEF e
<1>10. Agreed => b = ReceivedCoefficients(i)
  BY <1>8, <1>9 DEF ReceivedCoefficients
<1> QED
  BY <1>8, <1>10 DEF b

\* Rounding after the prediction is added, or before.
LEMMA RoundingsAgree ==
  ASSUME NEW v \in Int, NEW p \in 0..255
  PROVE  RightShift(v + p * 2^6, 6) = p + (v + 32) \div 64
<1>1. RightShift(v + p * 2^6, 6) = (v + p * 64 + 32) \div 64
  BY Powers DEF RightShift
<1> QED
  BY <1>1

-----------------------------------------------------------------------------
(* How far a restored coefficient is from the one that was quantised.  The *)
(* inverse transform takes a coefficient 4, 3.2 or 2.56 times as large as  *)
(* the forward transform made it, by its place; all is counted in parts of *)
(* 25, so that these are integers.                                         *)

Near(v, w, e) == v \in Int /\ w \in Int /\ v - w <= e /\ w - v <= e

Unit == 2^(qp \div 6)

Ideal(x, y) == <<100, 80, 64>>[1 + Odd(x) + Odd(y)]

\* The powers of two the quantisers use.
LEMMA Units ==
  ASSUME InputType
  PROVE  /\ Unit \in {1, 2, 4, 8, 16, 32, 64, 128, 256}
         /\ 2^QBits = 32768 * Unit /\ 2^(QBits + 1) = 65536 * Unit
         /\ QOffset \in {5472 * Unit, 10912 * Unit}
<1>1. PICK per \in {0, 1, 2, 3, 4, 5, 6, 7, 8} : per = qp \div 6
  BY Exponent DEF InputType
<1>2. QBits = 15 + per /\ QBits - 11 = 4 + per /\ QBits + 1 = 16 + per
  BY <1>1 DEF QBits
<1>3. PICK n \in {682, 342} : n = IF is_intra THEN 682 ELSE 342
  BY DEF InputType
<1>4. QOffset = n * 2^(4 + per)
  BY <1>2, <1>3 DEF QOffset
<1>5. /\ 2^per \in {1, 2, 4, 8, 16, 32, 64, 128, 256}
      /\ 2^(15 + per) = 32768 * 2^per /\ 2^(16 + per) = 65536 * 2^per /\ 2^(4 + per) = 16 * 2^per
  <2>1. CASE per = 0
    BY <2>1, Powers, MorePowers
  <2>2. CASE per = 1
    BY <2>2, Powers, MorePowers
  <2>3. CASE per = 2
    BY <2>3, Powers, MorePowers
  <2>4. CASE per = 3
    BY <2>4, Powers, MorePowers
  <2>5. CASE per = 4
    BY <2>5, Powers, MorePowers
  <2>6. CASE per = 5
    BY <2>6, Powers, MorePowers
  <2>7. CASE per = 6
    BY <2>7, Powers, MorePowers
  <2>8. CASE per = 7
    BY <2>8, Powers, MorePowers
  <2>9. CASE per = 8
    BY <2>9, Powers, MorePowers
  <2> QED
    BY <2>1, <2>2, <2>3, <2>4, <2>5, <2>6, <2>7, <2>8, <2>9
<1>6. PICK u \in {1, 2, 4, 8, 16, 32, 64, 128, 256} : u = 2^per
  BY <1>5
<1>7. Unit = u
  BY <1>1, <1>6 DEF Unit
<1>8. QOffset = n * (16 * u)
  BY <1>4, <1>5, <1>6
<1> QED
  BY <1>2, <1>3, <1>5, <1>6, <1>7, <1>8

\* The matrices of the quantiser and of its inverse, entry by entry.
LEMMA Entries ==
  ASSUME InputType, NEW x \in 0..3, NEW y \in 0..3
  PROVE  \/ /\ Ideal(x, y) = 100
            /\ <<At(s_quant_matrix, x, y), At(s_dequant_matrix, x, y)>> \in
                 {<<13107, 10>>, <<11916, 11>>, <<10082, 13>>, <<9362, 14>>, <<8192, 16>>, <<7282, 18>>}
         \/ /\ Ideal(x, y) = 80
            /\ <<At(s_quant_matrix, x, y), At(s_dequant_matrix, x, y)>> \in
                 {<<8066, 13>>, <<7490, 14>>, <<6554, 16>>, <<5825, 18>>, <<5243, 20>>, <<4559, 23>>}
         \/ /\ Ideal(x, y) = 64
            /\ <<At(s_quant_matrix, x, y), At(s_dequant_matrix, x, y)>> \in
                 {<<5243, 16>>, <<4660, 18>>, <<4194, 20>>, <<3647, 23>>, <<3355, 25>>, <<2893, 29>>}
<1>1. PICK r \in {0, 1, 2, 3, 4, 5} : r = qp % 6
  BY DEF InputType
<1>2. PICK n \in {1, 2, 3} : n = 1 + Odd(x) + Odd(y)
  BY DEF Odd
<1>3. /\ At(s_quant_matrix, x, y) = s_quant_matrix[r + 1][n]
      /\ At(s_dequant_matrix, x, y) = s_dequant_matrix[r + 1][n]
      /\ Ideal(x, y) = <<100, 80, 64>>[n]
  BY <1>1, <1>2 DEF At, Ideal
<1>4. \A k \in {0, 1, 2, 3, 4, 5} :
        /\ <<s_quant_matrix[k + 1][1], s_dequant_matrix[k + 1][1]>> \in
             {<<13107, 10>>, <<11916, 11>>, <<10082, 13>>, <<9362, 14>>, <<8192, 16>>, <<7282, 18>>}
        /\ <<s_quant_matrix[k + 1][2], s_dequant_matrix[k + 1][2]>> \in
             {<<8066, 13>>, <<7490, 14>>, <<6554, 16>>, <<5825, 18>>, <<5243, 20>>, <<4559, 23>>}
        /\ <<s_quant_matrix[k + 1][3], s_dequant_matrix[k + 1][3]>> \in
             {<<5243, 16>>, <<4660, 18>>, <<4194, 20>>, <<3647, 23>>, <<3355, 25>>, <<2893, 29>>}
  BY DEF s_quant_matrix, s_dequant_matrix
<1>5. CASE n = 1
  BY <1>3, <1>4, <1>5
<1>6. CASE n = 2
  BY <1>3, <1>4, <1>6
<1>7. CASE n = 3
  BY <1>3, <1>4, <1>7
<1> QED
  BY <1>5, <1>6, <1>7

\* Of a magnitude a that factor f, offset and a shift quantise, a level of u
\* units: what the division leaves.  n is 2 for DC coefficients, which are
\* quantised half as fine after a transform that doubles, and 1 for others.
Remains(f, n, a, u, p, offset) ==
  /\ 32768 * (n * u) <= a * f + offset /\ a * f + offset < 32768 * (n * u) + 32768 * (n * p)
  /\ 5472 * (n * p) <= offset /\ offset <= 10912 * (n * p)

\* The two factors of an entry are rounded, and do not quite undo each other.
Over(f, w, k, n, m) ==
  \A a \in 0..m : \A u, p, offset \in Nat :
    Remains(f, n, a, u, p, offset) => 25 * (w * u) - k * a <= 21 * (w * p) + 100

Under(f, w, k, n, m) ==
  \A a \in 0..m : \A u, p, offset \in Nat :
    Remains(f, n, a, u, p, offset) => k * a - 25 * (w * u) <= 21 * (w * p) + 100

\* Both indices even.
LEMMA EvenPlaces ==
  /\ Over(13107, 10, 100, 1, 9180) /\ Under(13107, 10, 100, 1, 9180)
  /\ Over(11916, 11, 100, 1, 9180) /\ Under(11916, 11, 100, 1, 9180)
  /\ Over(10082, 13, 100, 1, 9180) /\ Under(10082, 13, 100, 1, 9180)
  /\ Over(9362, 14, 100, 1, 9180) /\ Under(9362, 14, 100, 1, 9180)
  /\ Over(8192, 16, 100, 1, 9180) /\ Under(8192, 16, 100, 1, 9180)
  /\ Over(7282, 18, 100, 1, 9180) /\ Under(7282, 18, 100, 1, 9180)
<1>1. Over(13107, 10, 100, 1, 9180)
  BY SMTT(30) DEF Over, Remains
<1>2. Under(13107, 10, 100, 1, 9180)
  BY SMTT(30) DEF Under, Remains
<1>3. Over(11916, 11, 100, 1, 9180)
  BY SMTT(30) DEF Over, Remains
<1>4. Under(11916, 11, 100, 1, 9180)
  BY SMTT(30) DEF Under, Remains
<1>5. Over(10082, 13, 100, 1, 9180)
  BY SMTT(30) DEF Over, Remains
<1>6. Under(10082, 13, 100, 1, 9180)
  BY SMTT(30) DEF Under, Remains
<1>7. Over(9362, 14, 100, 1, 9180)
  BY SMTT(30) DEF Over, Remains
<1>8. Under(9362, 14, 100, 1, 9180)
  BY SMTT(30) DEF Under, Remains
<1>9. Over(8192, 16, 100, 1, 9180)
  BY SMTT(30) DEF Over, Remains
<1>10. Under(8192, 16, 100, 1, 9180)
  BY SMTT(30) DEF Under, Remains
<1>11. Over(7282, 18, 100, 1, 9180)
  BY SMTT(30) DEF Over, Remains
<1>12. Under(7282, 18, 100, 1, 9180)
  BY SMTT(30) DEF Under, Remains
<1> QED
  BY <1>1, <1>2, <1>3, <1>4, <1>5, <1>6, <1>7, <1>8, <1>9, <1>10, <1>11, <1>12

\* One of them odd.
LEMMA MixedPlaces ==
  /\ Over(8066, 13, 80, 1, 9180) /\ Under(8066, 13, 80, 1, 9180)
  /\ Over(7490, 14, 80, 1, 9180) /\ Under(7490, 14, 80, 1, 9180)
  /\ Over(6554, 16, 80, 1, 9180) /\ Under(6554, 16, 80, 1, 9180)
  /\ Over(5825, 18, 80, 1, 9180) /\ Under(5825, 18, 80, 1, 9180)
  /\ Over(5243, 20, 80, 1, 9180) /\ Under(5243, 20, 80, 1, 9180)
  /\ Over(4559, 23, 80, 1, 9180) /\ Under(4559, 23, 80, 1, 9180)
<1>1. Over(8066, 13, 80, 1, 9180)
  BY SMTT(30) DEF Over, Remains
<1>2. Under(8066, 13, 80, 1, 9180)
  BY SMTT(30) DEF Under, Remains
<1>3. Over(7490, 14, 80, 1, 9180)
  BY SMTT(30) DEF Over, Remains
<1>4. Under(7490, 14, 80, 1, 9180)
  BY SMTT(30) DEF Under, Remains
<1>5. Over(6554, 16, 80, 1, 9180)
  BY SMTT(30) DEF Over, Remains
<1>6. Under(6554, 16, 80, 1, 9180)
  BY SMTT(30) DEF Under, Remains
<1>7. Over(5825, 18, 80, 1, 9180)
  BY SMTT(30) DEF Over, Remains
<1>8. Under(5825, 18, 80, 1, 9180)
  BY SMTT(30) DEF Under, Remains
<1>9. Over(5243, 20, 80, 1, 9180)
  BY SMTT(30) DEF Over, Remains
<1>10. Under(5243, 20, 80, 1, 9180)
  BY SMTT(30) DEF Under, Remains
<1>11. Over(4559, 23, 80, 1, 9180)
  BY SMTT(30) DEF Over, Remains
<1>12. Under(4559, 23, 80, 1, 9180)
  BY SMTT(30) DEF Under, Remains
<1> QED
  BY <1>1, <1>2, <1>3, <1>4, <1>5, <1>6, <1>7, <1>8, <1>9, <1>10, <1>11, <1>12

\* Both odd.
LEMMA OddPlaces ==
  /\ Over(5243, 16, 64, 1, 9180) /\ Under(5243, 16, 64, 1, 9180)
  /\ Over(4660, 18, 64, 1, 9180) /\ Under(4660, 18, 64, 1, 9180)
  /\ Over(4194, 20, 64, 1, 9180) /\ Under(4194, 20, 64, 1, 9180)
  /\ Over(3647, 23, 64, 1, 9180) /\ Under(3647, 23, 64, 1, 9180)
  /\ Over(3355, 25, 64, 1, 9180) /\ Under(3355, 25, 64, 1, 9180)
  /\ Over(2893, 29, 64, 1, 9180) /\ Under(2893, 29, 64, 1, 9180)
<1>1. Over(5243, 16, 64, 1, 9180)
  BY SMTT(30) DEF Over, Remains
<1>2. Under(5243, 16, 64, 1, 9180)
  BY SMTT(30) DEF Under, Remains
<1>3. Over(4660, 18, 64, 1, 9180)
  BY SMTT(30) DEF Over, Remains
<1>4. Under(4660, 18, 64, 1, 9180)
  BY SMTT(30) DEF Under, Remains
<1>5. Over(4194, 20, 64, 1, 9180)
  BY SMTT(30) DEF Over, Remains
<1>6. Under(4194, 20, 64, 1, 9180)
  BY SMTT(30) DEF Under, Remains
<1>7. Over(3647, 23, 64, 1, 9180)
  BY SMTT(30) DEF Over, Remains
<1>8. Under(3647, 23, 64, 1, 9180)
  BY SMTT(30) DEF Under, Remains
<1>9. Over(3355, 25, 64, 1, 9180)
  BY SMTT(30) DEF Over, Remains
<1>10. Under(3355, 25, 64, 1, 9180)
  BY SMTT(30) DEF Under, Remains
<1>11. Over(2893, 29, 64, 1, 9180)
  BY SMTT(30) DEF Over, Remains
<1>12. Under(2893, 29, 64, 1, 9180)
  BY SMTT(30) DEF Under, Remains
<1> QED
  BY <1>1, <1>2, <1>3, <1>4, <1>5, <1>6, <1>7, <1>8, <1>9, <1>10, <1>11, <1>12

\* DC coefficients.
LEMMA DCPlaces ==
  /\ Over(13107, 10, 50, 2, 32640) /\ Under(13107, 10, 50, 2, 32640)
  /\ Over(11916, 11, 50, 2, 32640) /\ Under(11916, 11, 50, 2, 32640)
  /\ Over(10082, 13, 50, 2, 32640) /\ Under(10082, 13, 50, 2, 32640)
  /\ Over(9362, 14, 50, 2, 32640) /\ Under(9362, 14, 50, 2, 32640)
  /\ Over(8192, 16, 50, 2, 32640) /\ Under(8192, 16, 50, 2, 32640)
  /\ Over(7282, 18, 50, 2, 32640) /\ Under(7282, 18, 50, 2, 32640)
<1>1. Over(13107, 10, 50, 2, 32640)
  BY SMTT(30) DEF Over, Remains
<1>2. Under(13107, 10, 50, 2, 32640)
  BY SMTT(30) DEF Under, Remains
<1>3. Over(11916, 11, 50, 2, 32640)
  BY SMTT(30) DEF Over, Remains
<1>4. Under(11916, 11, 50, 2, 32640)
  BY SMTT(30) DEF Under, Remains
<1>5. Over(10082, 13, 50, 2, 32640)
  BY SMTT(30) DEF Over, Remains
<1>6. Under(10082, 13, 50, 2, 32640)
  BY SMTT(30) DEF Under, Remains
<1>7. Over(9362, 14, 50, 2, 32640)
  BY SMTT(30) DEF Over, Remains
<1>8. Under(9362, 14, 50, 2, 32640)
  BY SMTT(30) DEF Under, Remains
<1>9. Over(8192, 16, 50, 2, 32640)
  BY SMTT(30) DEF Over, Remains
<1>10. Under(8192, 16, 50, 2, 32640)
  BY SMTT(30) DEF Under, Remains
<1>11. Over(7282, 18, 50, 2, 32640)
  BY SMTT(30) DEF Over, Remains
<1>12. Under(7282, 18, 50, 2, 32640)
  BY SMTT(30) DEF Under, Remains
<1> QED
  BY <1>1, <1>2, <1>3, <1>4, <1>5, <1>6, <1>7, <1>8, <1>9, <1>10, <1>11, <1>12

\* A level counted in units: the quotient without its remainder.
LEMMA InUnits ==
  ASSUME NEW total \in Nat, NEW p \in {1, 2, 4, 8, 16, 32, 64, 128, 256}, NEW n \in {1, 2}
  PROVE  LET level == total \div (32768 * (n * p))
         IN  /\ level \in Nat /\ level * p \in Nat
             /\ 32768 * (n * (level * p)) <= total
             /\ total < 32768 * (n * (level * p)) + 32768 * (n * p)
<1>1. CASE n = 1
  BY <1>1
<1>2. CASE n = 2
  BY <1>2
<1> QED
  BY <1>1, <1>2

\* A coefficient that was quantised and restored is near the ideal: at most
\* 21 / 25 of a step away, and what the rounded factors add.
LEMMA LevelNear ==
  ASSUME InputType, NEW v, NEW m \in Nat, Within(v, m),
         NEW f \in Nat, NEW w \in Nat, NEW k \in Nat, NEW n \in {1, 2}, NEW bits, NEW offset \in Nat,
         Over(f, w, k, n, m), Under(f, w, k, n, m),
         2^bits = 32768 * (n * Unit), 5472 * (n * Unit) <= offset, offset <= 10912 * (n * Unit)
  PROVE  /\ Quantized(v, f, offset, bits) \in Int
         /\ Near(25 * (w * (Quantized(v, f, offset, bits) * Unit)), k * v, 21 * (w * Unit) + 100)
<1>1. PICK p \in {1, 2, 4, 8, 16, 32, 64, 128, 256} : p = Unit
  BY Units
<1>2. PICK a \in 0..m : a = Magnitude(v)
  BY DEF Within, Magnitude
<1>3. PICK total, level : total \in Nat /\ total = a * f + offset /\ level = total \div (32768 * (n * p))
  OBVIOUS
<1>4. level \in Nat /\ level * p \in Nat /\ Remains(f, n, a, level * p, p, offset)
  <2>1. /\ level \in Nat /\ level * p \in Nat
        /\ 32768 * (n * (level * p)) <= total
        /\ total < 32768 * (n * (level * p)) + 32768 * (n * p)
    BY <1>3, InUnits
  <2> QED
    BY <1>1, <1>3, <2>1 DEF Remains
<1>5. Quantized(v, f, offset, bits) = IF v >= 0 THEN level ELSE -level
  BY <1>1, <1>2, <1>3 DEF Quantized
<1>6. PICK u \in Nat : u = level * p
  BY <1>4
<1>7. 25 * (w * u) - k * a <= 21 * (w * p) + 100 /\ k * a - 25 * (w * u) <= 21 * (w * p) + 100
  <2>1. Remains(f, n, a, u, p, offset) /\ p \in Nat
    BY <1>4, <1>6
  <2> QED
    BY <2>1, SMT DEF Over, Under
<1>8. PICK wu \in Int, wp \in Int, ka \in Int : wu = w * u /\ wp = w * p /\ ka = k * a
  OBVIOUS
<1>9. 25 * wu - ka <= 21 * wp + 100 /\ ka - 25 * wu <= 21 * wp + 100
  BY <1>7, <1>8
<1>10. CASE v >= 0
  <2>1. Quantized(v, f, offset, bits) = level /\ v = a
    BY <1>2, <1>5, <1>10 DEF Magnitude, Within
  <2>2. 25 * (w * (Quantized(v, f, offset, bits) * Unit)) = 25 * wu /\ k * v = ka
    BY <1>1, <1>6, <1>8, <2>1
  <2> QED
    BY <1>1, <1>4, <1>8, <1>9, <2>1, <2>2 DEF Near
<1>11. CASE ~(v >= 0)
  <2>1. Quantized(v, f, offset, bits) = -level /\ v = -a
    BY <1>2, <1>5, <1>11 DEF Magnitude, Within
  <2>2. (-level) * p = -u
    BY <1>4, <1>6
  <2>3. w * (-u) = -wu /\ k * (-a) = -ka
    BY <1>8
  <2>4. 25 * (w * (Quantized(v, f, offset, bits) * Unit)) = 25 * (-wu) /\ k * v = -ka
    BY <1>1, <2>1, <2>2, <2>3
  <2> QED
    BY <1>1, <1>4, <1>8, <1>9, <2>1, <2>4 DEF Near
<1> QED
  BY <1>10, <1>11

\* A coefficient outside the DC blocks.
LEMMA CoefficientNear ==
  ASSUME InputType, NEW v, Within(v, 9180), NEW x \in 0..3, NEW y \in 0..3
  PROVE  /\ Quantized(v, At(s_quant_matrix, x, y), QOffset, QBits) \in Int
         /\ Near(25 * (At(s_dequant_matrix, x, y) * (Quantized(v, At(s_quant_matrix, x, y), QOffset, QBits) * Unit)),
                 Ideal(x, y) * v, 21 * (At(s_dequant_matrix, x, y) * Unit) + 100)
<1>1. PICK f, w, k : f = At(s_quant_matrix, x, y) /\ w = At(s_dequant_matrix, x, y) /\ k = Ideal(x, y)
  OBVIOUS
<1>2. f \in Nat /\ w \in Nat /\ k \in Nat /\ Over(f, w, k, 1, 9180) /\ Under(f, w, k, 1, 9180)
  BY <1>1, Entries, EvenPlaces, MixedPlaces, OddPlaces
<1>3. /\ 2^QBits = 32768 * (1 * Unit)
      /\ QOffset \in Nat /\ 5472 * (1 * Unit) <= QOffset /\ QOffset <= 10912 * (1 * Unit)
  BY Units
<1>4. 9180 \in Nat /\ 1 \in {1, 2}
  OBVIOUS
<1>5. PICK bits, offset : bits = QBits /\ offset = QOffset
  OBVIOUS
<1>6. /\ Quantized(v, f, offset, bits) \in Int
      /\ Near(25 * (w * (Quantized(v, f, offset, bits) * Unit)), k * v, 21 * (w * Unit) + 100)
  BY <1>2, <1>3, <1>4, <1>5, LevelNear
<1> QED
  BY <1>1, <1>5, <1>6

LEMMA DCNear ==
  ASSUME InputType, NEW v, Within(v, 32640)
  PROVE  /\ Quantized(v, At(s_quant_matrix, 0, 0), 2 * QOffset, QBits + 1) \in Int
         /\ Near(25 * (At(s_dequant_matrix, 0, 0)
                         * (Quantized(v, At(s_quant_matrix, 0, 0), 2 * QOffset, QBits + 1) * Unit)),
                 50 * v, 21 * (At(s_dequant_matrix, 0, 0) * Unit) + 100)
<1>1. PICK f, w : f = At(s_quant_matrix, 0, 0) /\ w = At(s_dequant_matrix, 0, 0)
  OBVIOUS
<1>2. f \in Nat /\ w \in Nat /\ Over(f, w, 50, 2, 32640) /\ Under(f, w, 50, 2, 32640)
  <2>1. Ideal(0, 0) = 100
    BY DEF Ideal, Odd
  <2> QED
    BY <1>1, <2>1, Entries, DCPlaces
<1>3. /\ 2^(QBits + 1) = 32768 * (2 * Unit)
      /\ 2 * QOffset \in Nat /\ 5472 * (2 * Unit) <= 2 * QOffset /\ 2 * QOffset <= 10912 * (2 * Unit)
  BY Units
<1>4. 32640 \in Nat /\ 2 \in {1, 2} /\ 50 \in Nat
  OBVIOUS
<1>5. PICK bits, offset : bits = QBits + 1 /\ offset = 2 * QOffset
  OBVIOUS
<1>6. /\ Quantized(v, f, offset, bits) \in Int
      /\ Near(25 * (w * (Quantized(v, f, offset, bits) * Unit)), 50 * v, 21 * (w * Unit) + 100)
  BY <1>2, <1>3, <1>4, <1>5, LevelNear
<1> QED
  BY <1>1, <1>5, <1>6

-----------------------------------------------------------------------------
(* The inverse transform of coefficients that are near their ideals.       *)

\* Twice the inverse of a row without rounding: the halves are whole.
DoubleInverse(p) ==
  <<2 * p[1] + 2 * p[2] + 2 * p[3] + p[4], 2 * p[1] + p[2] - 2 * p[3] - 2 * p[4],
    2 * p[1] - p[2] - 2 * p[3] + 2 * p[4], 2 * p[1] - 2 * p[2] + 2 * p[3] - p[4]>>

RowNear(s, p, q, e, f, g) ==
  Near(s * p[1], q[1], e) /\ Near(s * p[2], q[2], f) /\ Near(s * p[3], q[3], g) /\ Near(s * p[4], q[4], f)

\* What a pass makes of the errors of a row, and what its halves add.
LEMMA PassNear ==
  ASSUME NEW s \in {25, 50}, NEW p, NEW q, NEW e \in Nat, NEW f \in Nat, NEW g \in Nat,
         IntRow(p), IntRow(q), RowNear(s, p, q, e, f, g), NEW k \in 1..4
  PROVE  Near((2 * s) * InversePass(p)[k], DoubleInverse(q)[k], 2 * e + 2 * g + 3 * f + s)
<1>1. PICK a \in Int, b \in Int, c \in Int, d \in Int : a = p[1] /\ b = p[2] /\ c = p[3] /\ d = p[4]
  BY DEF IntRow
<1>2. PICK t \in Int, u \in Int, v \in Int, w \in Int : t = q[1] /\ u = q[2] /\ v = q[3] /\ w = q[4]
  BY DEF IntRow
<1>3. PICK hb \in Int, hd \in Int : hb = Shift(b, 1) /\ hd = Shift(d, 1)
  BY Powers DEF Shift
<1>4. 2 * hb <= b /\ b <= 2 * hb + 1 /\ 2 * hd <= d /\ d <= 2 * hd + 1
  BY <1>3, Powers DEF Shift
<1>5. InversePass(p) = <<(a + c) + (b + hd), (a - c) + (hb - d), (a - c) - (hb - d), (a + c) - (b + hd)>>
  BY <1>1, <1>3 DEF InversePass
<1>6. DoubleInverse(q) =
        <<2 * t + 2 * u + 2 * v + w, 2 * t + u - 2 * v - 2 * w, 2 * t - u - 2 * v + 2 * w, 2 * t - 2 * u + 2 * v - w>>
  BY <1>2 DEF DoubleInverse
<1>7. Near(s * a, t, e) /\ Near(s * b, u, f) /\ Near(s * c, v, g) /\ Near(s * d, w, f)
  BY <1>1, <1>2 DEF RowNear
<1> DEFINE m == 2 * e + 2 * g + 3 * f + s
<1>8. /\ Near((2 * s) * ((a + c) + (b + hd)), 2 * t + 2 * u + 2 * v + w, m)
      /\ Near((2 * s) * ((a - c) + (hb - d)), 2 * t + u - 2 * v - 2 * w, m)
      /\ Near((2 * s) * ((a - c) - (hb - d)), 2 * t - u - 2 * v + 2 * w, m)
      /\ Near((2 * s) * ((a + c) - (b + hd)), 2 * t - 2 * u + 2 * v - w, m)
  <2>1. CASE s = 25
    BY <1>4, <1>7, <2>1 DEF Near
  <2>2. CASE s = 50
    BY <1>4, <1>7, <2>2 DEF Near
  <2> QED
    BY <2>1, <2>2
<1> HIDE DEF m
<1>9. k = 1 \/ k = 2 \/ k = 3 \/ k = 4
  OBVIOUS
<1> QED
  BY <1>5, <1>6, <1>8, <1>9 DEF m

\* An entry after both passes.
LEMMA InverseAt ==
  ASSUME NEW b, NEW y \in 1..4, NEW x \in 1..4
  PROVE  InverseDCT(b)[y][x] =
           InversePass(<<InversePass(b[1])[x], InversePass(b[2])[x], InversePass(b[3])[x], InversePass(b[4])[x]>>)[y]
<1> DEFINE r == Rows(InversePass, b)
           t == Transpose4(r)
           u == Rows(InversePass, t)
<1>1. t[x] = <<InversePass(b[1])[x], InversePass(b[2])[x], InversePass(b[3])[x], InversePass(b[4])[x]>>
  BY DEF Transpose4, Column, Rows
<1> HIDE DEF t
<1>2. u[x] = InversePass(t[x])
  BY DEF Rows
<1> HIDE DEF u
<1>3. Transpose4(u)[y][x] = u[x][y]
  BY DEF Transpose4, Column
<1>4. InverseDCT(b) = Transpose4(u)
  BY DEF InverseDCT, RowsThenColumns, u, t, r
<1> QED
  BY <1>1, <1>2, <1>3, <1>4

LEMMA DCTAt ==
  ASSUME NEW b, NEW y \in 1..4, NEW x \in 1..4
  PROVE  DCT(b)[y][x] = DCTPass(<<DCTPass(b[1])[x], DCTPass(b[2])[x], DCTPass(b[3])[x], DCTPass(b[4])[x]>>)[y]
<1> DEFINE r == Rows(DCTPass, b)
           t == Transpose4(r)
           u == Rows(DCTPass, t)
<1>1. t[x] = <<DCTPass(b[1])[x], DCTPass(b[2])[x], DCTPass(b[3])[x], DCTPass(b[4])[x]>>
  BY DEF Transpose4, Column, Rows
<1> HIDE DEF t
<1>2. u[x] = DCTPass(t[x])
  BY DEF Rows
<1> HIDE DEF u
<1>3. Transpose4(u)[y][x] = u[x][y]
  BY DEF Transpose4, Column
<1>4. DCT(b) = Transpose4(u)
  BY DEF DCT, RowsThenColumns, u, t, r
<1> QED
  BY <1>1, <1>2, <1>3, <1>4

\* The errors of a block: that of the corner, those where both indices are
\* even, where one is odd and where both are.
BlockNear(b, q, corner, even, mixed, odd) ==
  /\ RowNear(25, b[1], q[1], corner, mixed, even) /\ RowNear(25, b[2], q[2], mixed, odd, mixed)
  /\ RowNear(25, b[3], q[3], even, mixed, even) /\ RowNear(25, b[4], q[4], mixed, odd, mixed)

\* An entry of both passes, the rows first.
DoubleInverseAt(q, y, x) ==
  DoubleInverse(<<DoubleInverse(q[1])[x], DoubleInverse(q[2])[x],
                  DoubleInverse(q[3])[x], DoubleInverse(q[4])[x]>>)[y]

InverseError(corner, even, mixed, odd) == 4 * corner + 12 * even + 24 * mixed + 9 * odd + 225

LEMMA InverseNear ==
  ASSUME NEW b, NEW q, IntBlock(b), IntBlock(q),
         NEW corner \in Nat, NEW even \in Nat, NEW mixed \in Nat, NEW odd \in Nat,
         BlockNear(b, q, corner, even, mixed, odd), NEW y \in 1..4, NEW x \in 1..4
  PROVE  Near(100 * InverseDCT(b)[y][x], DoubleInverseAt(q, y, x), InverseError(corner, even, mixed, odd))
<1>1. /\ IntRow(b[1]) /\ IntRow(b[2]) /\ IntRow(b[3]) /\ IntRow(b[4])
      /\ IntRow(q[1]) /\ IntRow(q[2]) /\ IntRow(q[3]) /\ IntRow(q[4])
  BY DEF IntBlock
<1>2. PICK p : p = <<InversePass(b[1])[x], InversePass(b[2])[x], InversePass(b[3])[x], InversePass(b[4])[x]>>
  OBVIOUS
<1>3. PICK d : d = <<DoubleInverse(q[1])[x], DoubleInverse(q[2])[x], DoubleInverse(q[3])[x], DoubleInverse(q[4])[x]>>
  OBVIOUS
<1>4. /\ Near((2 * 25) * InversePass(b[1])[x], DoubleInverse(q[1])[x], 2 * corner + 2 * even + 3 * mixed + 25)
      /\ Near((2 * 25) * InversePass(b[2])[x], DoubleInverse(q[2])[x], 2 * mixed + 2 * mixed + 3 * odd + 25)
      /\ Near((2 * 25) * InversePass(b[3])[x], DoubleInverse(q[3])[x], 2 * even + 2 * even + 3 * mixed + 25)
      /\ Near((2 * 25) * InversePass(b[4])[x], DoubleInverse(q[4])[x], 2 * mixed + 2 * mixed + 3 * odd + 25)
  <2>1. 25 \in {25, 50}
    OBVIOUS
  <2>2. /\ RowNear(25, b[1], q[1], corner, mixed, even) /\ RowNear(25, b[2], q[2], mixed, odd, mixed)
        /\ RowNear(25, b[3], q[3], even, mixed, even) /\ RowNear(25, b[4], q[4], mixed, odd, mixed)
    BY DEF BlockNear
  <2> QED
    BY <1>1, <2>1, <2>2, PassNear
<1>5. IntRow(p) /\ IntRow(d)
  <2>1. \A c : IntRow(c) => InversePass(c)[x] \in Int /\ DoubleInverse(c)[x] \in Int
    <3> SUFFICES ASSUME NEW c, IntRow(c) PROVE InversePass(c)[x] \in Int /\ DoubleInverse(c)[x] \in Int
      OBVIOUS
    <3>1. IntRow(InversePass(c))
      BY PassesAgree
    <3>2. IntRow(DoubleInverse(c))
      BY DEF IntRow, DoubleInverse
    <3>3. x = 1 \/ x = 2 \/ x = 3 \/ x = 4
      OBVIOUS
    <3> QED
      BY <3>1, <3>2, <3>3 DEF IntRow
  <2> QED
    BY <1>1, <1>2, <1>3, <2>1 DEF IntRow
<1> DEFINE first == 2 * corner + 2 * even + 3 * mixed + 25
           second == 2 * mixed + 2 * mixed + 3 * odd + 25
           third == 2 * even + 2 * even + 3 * mixed + 25
<1>6. RowNear(50, p, d, first, second, third)
  <2>1. 2 * 25 = 50
    OBVIOUS
  <2> HIDE DEF first, second, third
  <2>2. /\ Near(50 * InversePass(b[1])[x], DoubleInverse(q[1])[x], first)
        /\ Near(50 * InversePass(b[2])[x], DoubleInverse(q[2])[x], second)
        /\ Near(50 * InversePass(b[3])[x], DoubleInverse(q[3])[x], third)
        /\ Near(50 * InversePass(b[4])[x], DoubleInverse(q[4])[x], second)
    BY <1>4, <2>1 DEF first, second, third
  <2> QED
    BY <1>2, <1>3, <2>2 DEF RowNear
<1>7. /\ first \in Nat /\ second \in Nat /\ third \in Nat
      /\ 2 * first + 2 * third + 3 * second + 50 = 4 * corner + 12 * even + 24 * mixed + 9 * odd + 225
  OBVIOUS
<1> HIDE DEF first, second, third
<1>8. Near((2 * 50) * InversePass(p)[y], DoubleInverse(d)[y], 2 * first + 2 * third + 3 * second + 50)
  <2>1. 50 \in {25, 50}
    OBVIOUS
  <2> QED
    BY <1>5, <1>6, <1>7, <2>1, PassNear
<1>9. InverseDCT(b)[y][x] = InversePass(p)[y]
  BY <1>2, InverseAt
<1>10. 2 * 50 = 100
  OBVIOUS
<1> QED
  BY <1>3, <1>7, <1>8, <1>9, <1>10 DEF DoubleInverseAt, InverseError

-----------------------------------------------------------------------------
(* Forward and inverse transform undo each other.                          *)

LEMMA ExactPass ==
  ASSUME NEW p, IntRow(p), NEW q, NEW n \in {8, 10, 80},
         q[1] = (10 * n) * DCTPass(p)[1], q[2] = (8 * n) * DCTPass(p)[2],
         q[3] = (10 * n) * DCTPass(p)[3], q[4] = (8 * n) * DCTPass(p)[4], NEW k \in 1..4
  PROVE  DoubleInverse(q)[k] = (80 * n) * p[k]
<1>1. PICK a \in Int, b \in Int, c \in Int, d \in Int : a = p[1] /\ b = p[2] /\ c = p[3] /\ d = p[4]
  BY DEF IntRow
<1>2. PICK t \in Int, u \in Int, v \in Int, w \in Int : t = q[1] /\ u = q[2] /\ v = q[3] /\ w = q[4]
  <2>1. DCTPass(p) = <<(a + d) + (b + c), 2 * (a - d) + (b - c), (a + d) - (b + c), (a - d) - 2 * (b - c)>>
    BY <1>1 DEF DCTPass
  <2> QED
    BY <2>1
<1>3. /\ t = (10 * n) * ((a + d) + (b + c)) /\ u = (8 * n) * (2 * (a - d) + (b - c))
      /\ v = (10 * n) * ((a + d) - (b + c)) /\ w = (8 * n) * ((a - d) - 2 * (b - c))
  <2>1. DCTPass(p) = <<(a + d) + (b + c), 2 * (a - d) + (b - c), (a + d) - (b + c), (a - d) - 2 * (b - c)>>
    BY <1>1 DEF DCTPass
  <2> QED
    BY <1>2, <2>1
<1>4. DoubleInverse(q) =
        <<2 * t + 2 * u + 2 * v + w, 2 * t + u - 2 * v - 2 * w, 2 * t - u - 2 * v + 2 * w, 2 * t - 2 * u + 2 * v - w>>
  BY <1>2 DEF DoubleInverse
<1>5. /\ 2 * t + 2 * u + 2 * v + w = (80 * n) * a /\ 2 * t + u - 2 * v - 2 * w = (80 * n) * b
      /\ 2 * t - u - 2 * v + 2 * w = (80 * n) * c /\ 2 * t - 2 * u + 2 * v - w = (80 * n) * d
  <2>1. CASE n = 8
    BY <1>3, <2>1
  <2>2. CASE n = 10
    BY <1>3, <2>2
  <2>3. CASE n = 80
    BY <1>3, <2>3
  <2> QED
    BY <2>1, <2>2, <2>3
<1>6. k = 1 \/ k = 2 \/ k = 3 \/ k = 4
  OBVIOUS
<1> QED
  BY <1>1, <1>4, <1>5, <1>6

\* Each entry of a pass has weights of its own.
Weighted(k, a1, a2, a3, a4) ==
  \A p : IntRow(p) => DoubleInverse(p)[k] = a1 * p[1] + a2 * p[2] + a3 * p[3] + a4 * p[4]

LEMMA InverseWeights ==
  ASSUME NEW k \in 1..4
  PROVE  \E a1, a2, a3, a4 \in Int : Weighted(k, a1, a2, a3, a4)
<1>1. CASE k = 1
  <2>1. Weighted(k, 2, 2, 2, 1)
    BY <1>1 DEF DoubleInverse, IntRow, Weighted
  <2> QED
    BY <2>1
<1>2. CASE k = 2
  <2>1. Weighted(k, 2, 1, -2, -2)
    BY <1>2 DEF DoubleInverse, IntRow, Weighted
  <2> QED
    BY <2>1
<1>3. CASE k = 3
  <2>1. Weighted(k, 2, -1, -2, 2)
    BY <1>3 DEF DoubleInverse, IntRow, Weighted
  <2> QED
    BY <2>1
<1>4. CASE k = 4
  <2>1. Weighted(k, 2, -2, 2, -1)
    BY <1>4 DEF DoubleInverse, IntRow, Weighted
  <2> QED
    BY <2>1
<1>5. k = 1 \/ k = 2 \/ k = 3 \/ k = 4
  OBVIOUS
<1> QED
  BY <1>1, <1>2, <1>3, <1>4, <1>5

\* Two weighted sums of a block of sixteen, in either order.
LEMMA WeightsCommute ==
  ASSUME NEW a1 \in Int, NEW a2 \in Int, NEW a3 \in Int, NEW a4 \in Int,
         NEW b1 \in Int, NEW b2 \in Int, NEW b3 \in Int, NEW b4 \in Int, NEW c, IntBlock(c), NEW r, NEW k,
         r[1] = b1 * c[1][1] + b2 * c[1][2] + b3 * c[1][3] + b4 * c[1][4],
         r[2] = b1 * c[2][1] + b2 * c[2][2] + b3 * c[2][3] + b4 * c[2][4],
         r[3] = b1 * c[3][1] + b2 * c[3][2] + b3 * c[3][3] + b4 * c[3][4],
         r[4] = b1 * c[4][1] + b2 * c[4][2] + b3 * c[4][3] + b4 * c[4][4],
         k[1] = a1 * c[1][1] + a2 * c[2][1] + a3 * c[3][1] + a4 * c[4][1],
         k[2] = a1 * c[1][2] + a2 * c[2][2] + a3 * c[3][2] + a4 * c[4][2],
         k[3] = a1 * c[1][3] + a2 * c[2][3] + a3 * c[3][3] + a4 * c[4][3],
         k[4] = a1 * c[1][4] + a2 * c[2][4] + a3 * c[3][4] + a4 * c[4][4]
  PROVE  a1 * r[1] + a2 * r[2] + a3 * r[3] + a4 * r[4] = b1 * k[1] + b2 * k[2] + b3 * k[3] + b4 * k[4]
<1>1. PICK d11 \in Int, d12 \in Int, d13 \in Int, d14 \in Int :
        d11 = c[1][1] /\ d12 = c[1][2] /\ d13 = c[1][3] /\ d14 = c[1][4]
  BY DEF IntBlock, IntRow
<1>2. PICK d21 \in Int, d22 \in Int, d23 \in Int, d24 \in Int :
        d21 = c[2][1] /\ d22 = c[2][2] /\ d23 = c[2][3] /\ d24 = c[2][4]
  BY DEF IntBlock, IntRow
<1>3. PICK d31 \in Int, d32 \in Int, d33 \in Int, d34 \in Int :
        d31 = c[3][1] /\ d32 = c[3][2] /\ d33 = c[3][3] /\ d34 = c[3][4]
  BY DEF IntBlock, IntRow
<1>4. PICK d41 \in Int, d42 \in Int, d43 \in Int, d44 \in Int :
        d41 = c[4][1] /\ d42 = c[4][2] /\ d43 = c[4][3] /\ d44 = c[4][4]
  BY DEF IntBlock, IntRow
<1>5. PICK r1, r2, r3, r4 : r1 = r[1] /\ r2 = r[2] /\ r3 = r[3] /\ r4 = r[4]
  OBVIOUS
<1>6. PICK k1, k2, k3, k4 : k1 = k[1] /\ k2 = k[2] /\ k3 = k[3] /\ k4 = k[4]
  OBVIOUS
<1>7. /\ r1 = b1 * d11 + b2 * d12 + b3 * d13 + b4 * d14
      /\ r2 = b1 * d21 + b2 * d22 + b3 * d23 + b4 * d24
      /\ r3 = b1 * d31 + b2 * d32 + b3 * d33 + b4 * d34
      /\ r4 = b1 * d41 + b2 * d42 + b3 * d43 + b4 * d44
  BY <1>1, <1>2, <1>3, <1>4, <1>5
<1>8. /\ k1 = a1 * d11 + a2 * d21 + a3 * d31 + a4 * d41
      /\ k2 = a1 * d12 + a2 * d22 + a3 * d32 + a4 * d42
      /\ k3 = a1 * d13 + a2 * d23 + a3 * d33 + a4 * d43
      /\ k4 = a1 * d14 + a2 * d24 + a3 * d34 + a4 * d44
  BY <1>1, <1>2, <1>3, <1>4, <1>6
<1>9. a1 * r1 + a2 * r2 + a3 * r3 + a4 * r4 = b1 * k1 + b2 * k2 + b3 * k3 + b4 * k4
  BY ONLY <1>7, <1>8, a1 \in Int, a2 \in Int, a3 \in Int, a4 \in Int, b1 \in Int, b2 \in Int, b3 \in Int, b4 \in Int,
     d11 \in Int, d12 \in Int, d13 \in Int, d14 \in Int, d21 \in Int, d22 \in Int, d23 \in Int, d24 \in Int, d31 \in Int, d32 \in Int, d33 \in Int, d34 \in Int, d41 \in Int, d42 \in Int, d43 \in Int, d44 \in Int
<1> QED
  BY <1>5, <1>6, <1>9

LEMMA InversesCommute ==
  ASSUME NEW c, IntBlock(c), NEW x \in 1..4, NEW y \in 1..4
  PROVE  DoubleInverseAt(c, y, x)
           = DoubleInverse(<<DoubleInverse(Column(c, 1))[y], DoubleInverse(Column(c, 2))[y],
                             DoubleInverse(Column(c, 3))[y], DoubleInverse(Column(c, 4))[y]>>)[x]
<1>1. PICK a1 \in Int, a2 \in Int, a3 \in Int, a4 \in Int :
        \A p : IntRow(p) => DoubleInverse(p)[y] = a1 * p[1] + a2 * p[2] + a3 * p[3] + a4 * p[4]
  BY InverseWeights DEF Weighted
<1>2. PICK b1 \in Int, b2 \in Int, b3 \in Int, b4 \in Int :
        \A p : IntRow(p) => DoubleInverse(p)[x] = b1 * p[1] + b2 * p[2] + b3 * p[3] + b4 * p[4]
  BY InverseWeights DEF Weighted
<1>3. \A i, j \in 1..4 : c[i][j] \in Int
  BY DEF IntBlock, IntRow
<1>4. ASSUME NEW i \in 1..4
      PROVE  /\ DoubleInverse(c[i])[x] = b1 * c[i][1] + b2 * c[i][2] + b3 * c[i][3] + b4 * c[i][4]
             /\ DoubleInverse(c[i])[x] \in Int
  BY <1>2, <1>3 DEF IntRow
<1>5. ASSUME NEW j \in 1..4
      PROVE  /\ DoubleInverse(Column(c, j))[y] = a1 * c[1][j] + a2 * c[2][j] + a3 * c[3][j] + a4 * c[4][j]
             /\ DoubleInverse(Column(c, j))[y] \in Int
  <2>1. /\ IntRow(Column(c, j))
        /\ Column(c, j)[1] = c[1][j] /\ Column(c, j)[2] = c[2][j]
        /\ Column(c, j)[3] = c[3][j] /\ Column(c, j)[4] = c[4][j]
    BY <1>3 DEF Column, IntRow
  <2> QED
    BY <1>1, <1>3, <2>1
<1>6. PICK r : r = <<DoubleInverse(c[1])[x], DoubleInverse(c[2])[x], DoubleInverse(c[3])[x], DoubleInverse(c[4])[x]>>
  OBVIOUS
<1>7. PICK k : k = <<DoubleInverse(Column(c, 1))[y], DoubleInverse(Column(c, 2))[y],
                     DoubleInverse(Column(c, 3))[y], DoubleInverse(Column(c, 4))[y]>>
  OBVIOUS
<1>8. /\ DoubleInverse(r)[y] = a1 * r[1] + a2 * r[2] + a3 * r[3] + a4 * r[4]
      /\ DoubleInverse(k)[x] = b1 * k[1] + b2 * k[2] + b3 * k[3] + b4 * k[4]
  <2>1. IntRow(r)
    BY <1>4, <1>6 DEF IntRow
  <2>2. IntRow(k)
    BY <1>5, <1>7 DEF IntRow
  <2> QED
    BY <1>1, <1>2, <2>1, <2>2
<1>9. a1 * r[1] + a2 * r[2] + a3 * r[3] + a4 * r[4] = b1 * k[1] + b2 * k[2] + b3 * k[3] + b4 * k[4]
  <2>1. /\ r[1] = b1 * c[1][1] + b2 * c[1][2] + b3 * c[1][3] + b4 * c[1][4]
        /\ r[2] = b1 * c[2][1] + b2 * c[2][2] + b3 * c[2][3] + b4 * c[2][4]
        /\ r[3] = b1 * c[3][1] + b2 * c[3][2] + b3 * c[3][3] + b4 * c[3][4]
        /\ r[4] = b1 * c[4][1] + b2 * c[4][2] + b3 * c[4][3] + b4 * c[4][4]
    BY <1>4, <1>6
  <2>2. /\ k[1] = a1 * c[1][1] + a2 * c[2][1] + a3 * c[3][1] + a4 * c[4][1]
        /\ k[2] = a1 * c[1][2] + a2 * c[2][2] + a3 * c[3][2] + a4 * c[4][2]
        /\ k[3] = a1 * c[1][3] + a2 * c[2][3] + a3 * c[3][3] + a4 * c[4][3]
        /\ k[4] = a1 * c[1][4] + a2 * c[2][4] + a3 * c[3][4] + a4 * c[4][4]
    BY <1>5, <1>7
  <2> QED
    BY <2>1, <2>2, WeightsCommute
<1> QED
  BY <1>6, <1>7, <1>8, <1>9 DEF DoubleInverseAt

\* The coefficients the inverse transform would take to be exact.
IdealBlock(b) == [y \in 1..4 |-> [x \in 1..4 |-> Ideal(x - 1, y - 1) * DCT(b)[y][x]]]

LEMMA DCTInts ==
  ASSUME NEW p, IntRow(p)
  PROVE  IntRow(DCTPass(p))
  BY DEF IntRow, DCTPass

LEMMA IdealExact ==
  ASSUME NEW b, IntBlock(b), NEW y \in 1..4, NEW x \in 1..4
  PROVE  IntBlock(IdealBlock(b)) /\ DoubleInverseAt(IdealBlock(b), y, x) = 6400 * b[y][x]
<1> DEFINE r(i) == DCTPass(b[i])
           c(j) == <<r(1)[j], r(2)[j], r(3)[j], r(4)[j]>>
           q == IdealBlock(b)
<1>1. /\ IntRow(b[1]) /\ IntRow(b[2]) /\ IntRow(b[3]) /\ IntRow(b[4])
      /\ IntRow(r(1)) /\ IntRow(r(2)) /\ IntRow(r(3)) /\ IntRow(r(4))
  BY DCTInts DEF IntBlock
<1>2. \A i, j \in 1..4 : DCT(b)[i][j] = DCTPass(c(j))[i]
  BY DCTAt
<1> HIDE DEF r
<1>3. \A j \in 1..4 : IntRow(c(j)) /\ IntRow(DCTPass(c(j)))
  <2>1. \A j \in 1..4 : IntRow(c(j))
    BY <1>1 DEF IntRow
  <2> HIDE DEF c
  <2> QED
    BY <2>1, DCTInts
<1> HIDE DEF c
<1>4. /\ Ideal(0, 0) = 100 /\ Ideal(0, 1) = 80 /\ Ideal(0, 2) = 100 /\ Ideal(0, 3) = 80
      /\ Ideal(1, 0) = 80 /\ Ideal(1, 1) = 64 /\ Ideal(1, 2) = 80 /\ Ideal(1, 3) = 64
      /\ Ideal(2, 0) = 100 /\ Ideal(2, 1) = 80 /\ Ideal(2, 2) = 100 /\ Ideal(2, 3) = 80
      /\ Ideal(3, 0) = 80 /\ Ideal(3, 1) = 64 /\ Ideal(3, 2) = 80 /\ Ideal(3, 3) = 64
  BY DEF Ideal, Odd
<1>5. \A i, j \in 1..4 : q[i][j] = Ideal(j - 1, i - 1) * DCTPass(c(j))[i]
  BY <1>2 DEF IdealBlock
<1> HIDE DEF q
<1>6. /\ q[1][1] = (10 * 10) * DCTPass(c(1))[1] /\ q[2][1] = (8 * 10) * DCTPass(c(1))[2]
      /\ q[3][1] = (10 * 10) * DCTPass(c(1))[3] /\ q[4][1] = (8 * 10) * DCTPass(c(1))[4]
      /\ q[1][2] = (10 * 8) * DCTPass(c(2))[1] /\ q[2][2] = (8 * 8) * DCTPass(c(2))[2]
      /\ q[3][2] = (10 * 8) * DCTPass(c(2))[3] /\ q[4][2] = (8 * 8) * DCTPass(c(2))[4]
      /\ q[1][3] = (10 * 10) * DCTPass(c(3))[1] /\ q[2][3] = (8 * 10) * DCTPass(c(3))[2]
      /\ q[3][3] = (10 * 10) * DCTPass(c(3))[3] /\ q[4][3] = (8 * 10) * DCTPass(c(3))[4]
      /\ q[1][4] = (10 * 8) * DCTPass(c(4))[1] /\ q[2][4] = (8 * 8) * DCTPass(c(4))[2]
      /\ q[3][4] = (10 * 8) * DCTPass(c(4))[3] /\ q[4][4] = (8 * 8) * DCTPass(c(4))[4]
  BY <1>4, <1>5
<1>7. IntBlock(q)
  BY <1>3, <1>6 DEF IntBlock, IntRow
<1>8. /\ DoubleInverse(Column(q, 1))[y] = (80 * 10) * c(1)[y]
      /\ DoubleInverse(Column(q, 2))[y] = (80 * 8) * c(2)[y]
      /\ DoubleInverse(Column(q, 3))[y] = (80 * 10) * c(3)[y]
      /\ DoubleInverse(Column(q, 4))[y] = (80 * 8) * c(4)[y]
  <2>1. \A j \in 1..4 : /\ Column(q, j)[1] = q[1][j] /\ Column(q, j)[2] = q[2][j]
                        /\ Column(q, j)[3] = q[3][j] /\ Column(q, j)[4] = q[4][j]
    BY DEF Column
  <2>2. IntRow(c(1)) /\ IntRow(c(2)) /\ IntRow(c(3)) /\ IntRow(c(4))
    BY <1>3
  <2>3. 10 \in {8, 10, 80} /\ 8 \in {8, 10, 80}
    OBVIOUS
  <2>4. DoubleInverse(Column(q, 1))[y] = (80 * 10) * c(1)[y]
    BY <1>6, <2>1, <2>2, <2>3, ExactPass
  <2>5. DoubleInverse(Column(q, 2))[y] = (80 * 8) * c(2)[y]
    BY <1>6, <2>1, <2>2, <2>3, ExactPass
  <2>6. DoubleInverse(Column(q, 3))[y] = (80 * 10) * c(3)[y]
    BY <1>6, <2>1, <2>2, <2>3, ExactPass
  <2>7. DoubleInverse(Column(q, 4))[y] = (80 * 8) * c(4)[y]
    BY <1>6, <2>1, <2>2, <2>3, ExactPass
  <2> QED
    BY <2>4, <2>5, <2>6, <2>7
<1>9. PICK k : k = <<DoubleInverse(Column(q, 1))[y], DoubleInverse(Column(q, 2))[y],
                     DoubleInverse(Column(q, 3))[y], DoubleInverse(Column(q, 4))[y]>>
  OBVIOUS
<1>10. /\ k[1] = (10 * 80) * DCTPass(b[y])[1] /\ k[2] = (8 * 80) * DCTPass(b[y])[2]
       /\ k[3] = (10 * 80) * DCTPass(b[y])[3] /\ k[4] = (8 * 80) * DCTPass(b[y])[4]
  <2>1. \A j \in 1..4 : c(j)[y] = DCTPass(b[y])[j]
    BY DEF c, r
  <2> QED
    BY <1>8, <1>9, <2>1
<1>11. DoubleInverse(k)[x] = (80 * 80) * b[y][x]
  <2>1. 80 \in {8, 10, 80} /\ IntRow(b[y])
    BY DEF IntBlock
  <2> QED
    BY <1>10, <2>1, ExactPass
<1>12. DoubleInverseAt(q, y, x) = DoubleInverse(k)[x]
  BY <1>7, <1>9, InversesCommute
<1>13. (80 * 80) * b[y][x] = 6400 * b[y][x]
  OBVIOUS
<1> QED
  BY <1>7, <1>11, <1>12, <1>13 DEF q

-----------------------------------------------------------------------------
(* DC coefficients: transformed again, quantised and restored.             *)

\* An error grows fourfold in a pass.
LEMMA HadamardNear ==
  ASSUME NEW n \in Int, NEW p, NEW q, NEW e \in Nat, IntRow(p), IntRow(q),
         \A j \in 1..4 : Near(n * p[j], 25 * q[j], e), NEW k \in 1..4
  PROVE  Near(n * HadamardPass(p)[k], 25 * HadamardPass(q)[k], 4 * e)
<1>1. PICK a \in Int, b \in Int, c \in Int, d \in Int : a = p[1] /\ b = p[2] /\ c = p[3] /\ d = p[4]
  BY DEF IntRow
<1>2. PICK t \in Int, u \in Int, v \in Int, w \in Int : t = q[1] /\ u = q[2] /\ v = q[3] /\ w = q[4]
  BY DEF IntRow
<1>3. PICK na \in Int, nb \in Int, nc \in Int, nd \in Int : na = n * a /\ nb = n * b /\ nc = n * c /\ nd = n * d
  OBVIOUS
<1>4. Near(na, 25 * t, e) /\ Near(nb, 25 * u, e) /\ Near(nc, 25 * v, e) /\ Near(nd, 25 * w, e)
  <2>1. /\ Near(n * p[1], 25 * q[1], e) /\ Near(n * p[2], 25 * q[2], e)
        /\ Near(n * p[3], 25 * q[3], e) /\ Near(n * p[4], 25 * q[4], e)
    OBVIOUS
  <2> QED
    BY <1>1, <1>2, <1>3, <2>1
<1>5. HadamardPass(p) = <<(a + d) + (b + c), (b - c) + (a - d), (a + d) - (b + c), (a - d) - (b - c)>>
  BY <1>1 DEF HadamardPass
<1>6. HadamardPass(q) = <<(t + w) + (u + v), (u - v) + (t - w), (t + w) - (u + v), (t - w) - (u - v)>>
  BY <1>2 DEF HadamardPass
<1>7. /\ n * ((a + d) + (b + c)) = na + nd + nb + nc /\ n * ((b - c) + (a - d)) = nb - nc + na - nd
      /\ n * ((a + d) - (b + c)) = na + nd - nb - nc /\ n * ((a - d) - (b - c)) = na - nd - nb + nc
  BY <1>3
<1>8. /\ Near(na + nd + nb + nc, 25 * ((t + w) + (u + v)), 4 * e)
      /\ Near(nb - nc + na - nd, 25 * ((u - v) + (t - w)), 4 * e)
      /\ Near(na + nd - nb - nc, 25 * ((t + w) - (u + v)), 4 * e)
      /\ Near(na - nd - nb + nc, 25 * ((t - w) - (u - v)), 4 * e)
  BY <1>4 DEF Near
<1>9. /\ n * HadamardPass(p)[1] = na + nd + nb + nc /\ n * HadamardPass(p)[2] = nb - nc + na - nd
      /\ n * HadamardPass(p)[3] = na + nd - nb - nc /\ n * HadamardPass(p)[4] = na - nd - nb + nc
  BY <1>5, <1>7
<1>10. /\ HadamardPass(q)[1] = (t + w) + (u + v) /\ HadamardPass(q)[2] = (u - v) + (t - w)
       /\ HadamardPass(q)[3] = (t + w) - (u + v) /\ HadamardPass(q)[4] = (t - w) - (u - v)
  BY <1>6
<1>11. CASE k = 1
  BY <1>8, <1>9, <1>10, <1>11
<1>12. CASE k = 2
  BY <1>8, <1>9, <1>10, <1>12
<1>13. CASE k = 3
  BY <1>8, <1>9, <1>10, <1>13
<1>14. CASE k = 4
  BY <1>8, <1>9, <1>10, <1>14
<1> QED
  BY <1>11, <1>12, <1>13, <1>14

\* A pass and the same pass again.
LEMMA HadamardTwice ==
  ASSUME NEW p, IntRow(p), NEW q, NEW n \in {1, 4},
         \A j \in 1..4 : q[j] = n * HadamardPass(p)[j], NEW k \in 1..4
  PROVE  HadamardPass(q)[k] = (4 * n) * p[k]
<1>1. PICK a \in Int, b \in Int, c \in Int, d \in Int : a = p[1] /\ b = p[2] /\ c = p[3] /\ d = p[4]
  BY DEF IntRow
<1>2. HadamardPass(p) = <<(a + d) + (b + c), (b - c) + (a - d), (a + d) - (b + c), (a - d) - (b - c)>>
  BY <1>1 DEF HadamardPass
<1>3. /\ q[1] = n * ((a + d) + (b + c)) /\ q[2] = n * ((b - c) + (a - d))
      /\ q[3] = n * ((a + d) - (b + c)) /\ q[4] = n * ((a - d) - (b - c))
  <2>1. /\ q[1] = n * HadamardPass(p)[1] /\ q[2] = n * HadamardPass(p)[2]
        /\ q[3] = n * HadamardPass(p)[3] /\ q[4] = n * HadamardPass(p)[4]
    OBVIOUS
  <2> QED
    BY <1>2, <2>1
<1>4. PICK t \in Int, u \in Int, v \in Int, w \in Int : t = q[1] /\ u = q[2] /\ v = q[3] /\ w = q[4]
  BY <1>3
<1>5. HadamardPass(q) = <<(t + w) + (u + v), (u - v) + (t - w), (t + w) - (u + v), (t - w) - (u - v)>>
  BY <1>4 DEF HadamardPass
<1>6. /\ (t + w) + (u + v) = (4 * n) * a /\ (u - v) + (t - w) = (4 * n) * b
      /\ (t + w) - (u + v) = (4 * n) * c /\ (t - w) - (u - v) = (4 * n) * d
  <2>1. CASE n = 1
    BY <1>3, <1>4, <2>1
  <2>2. CASE n = 4
    BY <1>3, <1>4, <2>2
  <2> QED
    BY <2>1, <2>2
<1>7. k = 1 \/ k = 2 \/ k = 3 \/ k = 4
  OBVIOUS
<1> QED
  BY <1>1, <1>5, <1>6, <1>7

HadamardAt(b, y, x) ==
  HadamardPass(<<HadamardPass(b[1])[x], HadamardPass(b[2])[x], HadamardPass(b[3])[x], HadamardPass(b[4])[x]>>)[y]

LEMMA HadamardInts ==
  ASSUME NEW p, IntRow(p)
  PROVE  IntRow(HadamardPass(p)) /\ \A k \in 1..4 : HadamardPass(p)[k] \in Int
<1>1. IntRow(HadamardPass(p))
  BY HadamardRow
<1>2. \A k \in 1..4 : k = 1 \/ k = 2 \/ k = 3 \/ k = 4
  OBVIOUS
<1> QED
  BY <1>1, <1>2 DEF IntRow

LEMMA HadamardEntries ==
  ASSUME NEW b, IntBlock(b)
  PROVE  /\ IntBlock(RowsThenColumns(HadamardPass, b))
         /\ \A y, x \in 1..4 : /\ RowsThenColumns(HadamardPass, b)[y][x] = HadamardAt(b, y, x)
                               /\ HadamardAt(b, y, x) \in Int
<1> DEFINE r == Rows(HadamardPass, b)
           t == Transpose4(r)
           u == Rows(HadamardPass, t)
<1>1. \A x \in 1..4 :
        t[x] = <<HadamardPass(b[1])[x], HadamardPass(b[2])[x], HadamardPass(b[3])[x], HadamardPass(b[4])[x]>>
  BY DEF Transpose4, Column, Rows
<1> HIDE DEF t
<1>2. \A x \in 1..4 : u[x] = HadamardPass(t[x])
  BY DEF Rows
<1> HIDE DEF u
<1>3. \A y, x \in 1..4 : Transpose4(u)[y][x] = u[x][y]
  BY DEF Transpose4, Column
<1>4. RowsThenColumns(HadamardPass, b) = Transpose4(u)
  BY DEF RowsThenColumns, u, t, r
<1>5. \A y, x \in 1..4 : RowsThenColumns(HadamardPass, b)[y][x] = HadamardAt(b, y, x)
  BY <1>1, <1>2, <1>3, <1>4 DEF HadamardAt
<1>6. IntBlock(RowsThenColumns(HadamardPass, b))
  BY HadamardSums
<1>7. \A y, x \in 1..4 : RowsThenColumns(HadamardPass, b)[y][x] \in Int
  <2>1. \A k \in 1..4 : k = 1 \/ k = 2 \/ k = 3 \/ k = 4
    OBVIOUS
  <2> QED
    BY <1>6, <2>1 DEF IntBlock, IntRow
<1> QED
  BY <1>5, <1>6, <1>7

LEMMA HadamardsNear ==
  ASSUME NEW n \in Int, NEW b \in Matrix4, NEW c \in Matrix4, NEW e \in Nat,
         \A y, x \in 1..4 : Near(n * b[y][x], 25 * c[y][x], e), NEW y \in 1..4, NEW x \in 1..4
  PROVE  Near(n * HadamardAt(b, y, x), 25 * HadamardAt(c, y, x), 16 * e)
<1>1. PICK p : p = <<HadamardPass(b[1])[x], HadamardPass(b[2])[x], HadamardPass(b[3])[x], HadamardPass(b[4])[x]>>
  OBVIOUS
<1>2. PICK q : q = <<HadamardPass(c[1])[x], HadamardPass(c[2])[x], HadamardPass(c[3])[x], HadamardPass(c[4])[x]>>
  OBVIOUS
<1>3. \A j \in 1..4 : IntRow(b[j]) /\ IntRow(c[j])
  BY DEF Matrix4, IntRow
<1>4. \A j \in 1..4 : Near(n * HadamardPass(b[j])[x], 25 * HadamardPass(c[j])[x], 4 * e)
  <2> SUFFICES ASSUME NEW j \in 1..4
               PROVE  Near(n * HadamardPass(b[j])[x], 25 * HadamardPass(c[j])[x], 4 * e)
    OBVIOUS
  <2>1. \A k \in 1..4 : Near(n * b[j][k], 25 * c[j][k], e)
    OBVIOUS
  <2> QED
    BY <1>3, <2>1, HadamardNear
<1>5. \A j \in 1..4 : /\ p[j] = HadamardPass(b[j])[x] /\ q[j] = HadamardPass(c[j])[x]
                      /\ p[j] \in Int /\ q[j] \in Int
  <2>1. \A j \in 1..4 : HadamardPass(b[j])[x] \in Int /\ HadamardPass(c[j])[x] \in Int
    BY <1>3, HadamardInts
  <2>2. \A j \in 1..4 : j = 1 \/ j = 2 \/ j = 3 \/ j = 4
    OBVIOUS
  <2> QED
    BY <1>1, <1>2, <2>1, <2>2
<1>6. IntRow(p) /\ IntRow(q)
  BY <1>5 DEF IntRow
<1>7. \A j \in 1..4 : Near(n * p[j], 25 * q[j], 4 * e)
  BY <1>4, <1>5
<1>8. Near(n * HadamardPass(p)[y], 25 * HadamardPass(q)[y], 4 * (4 * e))
  <2>1. 4 * e \in Nat
    OBVIOUS
  <2> QED
    BY <1>6, <1>7, <2>1, HadamardNear
<1>9. 4 * (4 * e) = 16 * e
  OBVIOUS
<1> QED
  BY <1>1, <1>2, <1>8, <1>9 DEF HadamardAt

\* The transform of the transform.
LEMMA HadamardExact ==
  ASSUME NEW b \in Matrix4, NEW g \in Matrix4, \A y, x \in 1..4 : g[y][x] = HadamardAt(b, y, x),
         NEW y \in 1..4, NEW x \in 1..4
  PROVE  HadamardAt(g, y, x) = 16 * b[y][x]
<1> DEFINE r(i) == HadamardPass(b[i])
           c(j) == <<r(1)[j], r(2)[j], r(3)[j], r(4)[j]>>
<1>1. \A i \in 1..4 : IntRow(b[i]) /\ IntRow(g[i]) /\ IntRow(Column(g, i))
  BY DEF Matrix4, IntRow, Column
<1>2. \A i \in 1..4 : IntRow(r(i)) /\ \A j \in 1..4 : r(i)[j] \in Int
  BY <1>1, HadamardInts
<1>3. \A i, j \in 1..4 : g[i][j] = HadamardPass(c(j))[i]
  BY DEF HadamardAt
<1> HIDE DEF r
<1>4. \A j \in 1..4 : IntRow(c(j)) /\ c(j)[y] = r(y)[j]
  <2>1. y = 1 \/ y = 2 \/ y = 3 \/ y = 4
    OBVIOUS
  <2> QED
    BY <1>2, <2>1 DEF IntRow
<1> HIDE DEF c
<1>5. \A j \in 1..4 : HadamardPass(Column(g, j))[y] = (4 * 1) * r(y)[j]
  <2> SUFFICES ASSUME NEW j \in 1..4 PROVE HadamardPass(Column(g, j))[y] = (4 * 1) * r(y)[j]
    OBVIOUS
  <2>1. \A i \in 1..4 : Column(g, j)[i] = g[i][j]
    BY DEF Column
  <2>2. \A i \in 1..4 : HadamardPass(c(j))[i] \in Int
    BY <1>4, HadamardInts
  <2>3. \A i \in 1..4 : Column(g, j)[i] = 1 * HadamardPass(c(j))[i]
    BY <1>3, <2>1, <2>2
  <2>4. 1 \in {1, 4}
    OBVIOUS
  <2>5. HadamardPass(Column(g, j))[y] = (4 * 1) * c(j)[y]
    BY <1>4, <2>3, <2>4, HadamardTwice
  <2> QED
    BY <1>4, <2>5
<1>6. PICK k : k = <<HadamardPass(Column(g, 1))[y], HadamardPass(Column(g, 2))[y],
                     HadamardPass(Column(g, 3))[y], HadamardPass(Column(g, 4))[y]>>
  OBVIOUS
<1>7. \A j \in 1..4 : k[j] = 4 * HadamardPass(b[y])[j]
  <2>1. \A j \in 1..4 : j = 1 \/ j = 2 \/ j = 3 \/ j = 4
    OBVIOUS
  <2>2. \A j \in 1..4 : (4 * 1) * r(y)[j] = 4 * r(y)[j]
    BY <1>2
  <2>3. \A j \in 1..4 : k[j] = 4 * r(y)[j]
    BY <1>5, <1>6, <2>1, <2>2
  <2> QED
    BY <2>3 DEF r
<1>8. HadamardPass(k)[x] = (4 * 4) * b[y][x]
  <2>1. 4 \in {1, 4} /\ IntRow(b[y])
    BY <1>1
  <2> QED
    BY <1>7, <2>1, HadamardTwice
<1>9. HadamardAt(g, y, x) = HadamardPass(k)[x]
  <2>1. PICK w : w = <<HadamardPass(g[1])[x], HadamardPass(g[2])[x], HadamardPass(g[3])[x], HadamardPass(g[4])[x]>>
    OBVIOUS
  <2>2. IntRow(w)
    BY <1>1, <2>1, HadamardInts DEF IntRow
  <2>3. IntRow(k)
    BY <1>1, <1>6, HadamardInts DEF IntRow
  <2>4. HadamardPass(w) = Sums(w) /\ HadamardPass(k) = Sums(k)
    BY <2>2, <2>3, HadamardRow
  <2>5. \A i \in 1..4 : HadamardPass(g[i]) = Sums(g[i]) /\ HadamardPass(Column(g, i)) = Sums(Column(g, i))
    BY <1>1, HadamardRow
  <2>6. w = <<Sums(g[1])[x], Sums(g[2])[x], Sums(g[3])[x], Sums(g[4])[x]>>
    BY <2>1, <2>5
  <2>7. k = <<Sums(Column(g, 1))[y], Sums(Column(g, 2))[y], Sums(Column(g, 3))[y], Sums(Column(g, 4))[y]>>
    BY <1>6, <2>5
  <2>8. Sums(w)[y] = Sums(k)[x]
    BY <2>6, <2>7, SumsCommute
  <2> QED
    BY <2>1, <2>4, <2>8 DEF HadamardAt
<1> QED
  BY <1>8, <1>9

\* The weight of a DC coefficient in units.
DCScale == At(s_dequant_matrix, 0, 0) * Unit

LEMMA DCScales ==
  ASSUME InputType
  PROVE  /\ At(s_dequant_matrix, 0, 0) \in Nat /\ Unit \in Nat /\ DCScale \in Nat
         /\ \A v \in Int : v * At(s_dequant_matrix, 0, 0) * 2^(qp \div 6) = DCScale * v
<1>1. 0 \in 0..3
  OBVIOUS
<1>2. PICK w \in Nat : w = At(s_dequant_matrix, 0, 0)
  BY <1>1, Entries
<1>3. PICK p \in Nat : p = Unit
  BY Units
<1>4. DCScale = w * p /\ w * p \in Nat
  BY <1>2, <1>3 DEF DCScale
<1>5. ASSUME NEW v \in Int PROVE v * w * p = (w * p) * v
  OBVIOUS
<1> QED
  BY <1>2, <1>3, <1>4, <1>5 DEF Unit

\* A DC coefficient and its level.
LEMMA DCLevelNear ==
  ASSUME InputType, NEW v, Within(v, 32640)
  PROVE  LET level == Quantized(v, At(s_quant_matrix, 0, 0), 2 * QOffset, QBits + 1)
         IN  level \in Int /\ Near((25 * DCScale) * level, 50 * v, 21 * DCScale + 100)
<1>1. PICK w \in Nat : w = At(s_dequant_matrix, 0, 0)
  BY DCScales
<1>2. PICK p \in Nat : p = Unit
  BY DCScales
<1>3. PICK level : level = Quantized(v, At(s_quant_matrix, 0, 0), 2 * QOffset, QBits + 1)
  OBVIOUS
<1>4. level \in Int /\ Near(25 * (w * (level * p)), 50 * v, 21 * (w * p) + 100)
  BY <1>1, <1>2, <1>3, DCNear
<1>5. 25 * (w * (level * p)) = (25 * (w * p)) * level
  BY <1>4
<1>6. DCScale = w * p
  BY <1>1, <1>2 DEF DCScale
<1> QED
  BY <1>3, <1>4, <1>5, <1>6

LEMMA LumaDCNear ==
  ASSUME InputType, NEW d \in Matrix4, MatrixWithin(d, 4080), NEW y \in 1..4, NEW x \in 1..4
  PROVE  Near(25 * InverseQuantizeDC(Hadamard4x4(QuantizeDC(Hadamard4x4(d, 1)), 0), 2)[y][x],
              100 * d[y][x], 84 * DCScale + 600)
<1> DEFINE Level(v) == Quantized(v, At(s_quant_matrix, 0, 0), 2 * QOffset, QBits + 1)
<1>1. PICK g : g = RowsThenColumns(HadamardPass, d)
  OBVIOUS
<1>2. g \in Matrix4 /\ \A i, j \in 1..4 : g[i][j] = HadamardAt(d, i, j)
  BY <1>1, MatrixInts, HadamardEntries, HadamardAgrees
<1>3. PICK c : c = Hadamard4x4(d, 1)
  OBVIOUS
<1>4. c \in Matrix4 /\ \A i, j \in 1..4 : Within(c[i][j], 32640)
  BY <1>3, LumaDCWithin, MatrixLength DEF MatrixWithin
<1>5. \A i, j \in 1..4 : Near(50 * c[i][j], 25 * g[i][j], 25)
  <2> SUFFICES ASSUME NEW i \in 1..4, NEW j \in 1..4 PROVE Near(50 * c[i][j], 25 * g[i][j], 25)
    OBVIOUS
  <2>1. c = [k \in 1..4 |-> [l \in 1..4 |-> Shift(g[k][l], 1)]]
    BY <1>1, <1>2, <1>3, MatrixLength DEF Hadamard4x4, Each
  <2>2. PICK u \in Int : u = g[i][j]
    BY <1>2 DEF Matrix4
  <2>3. c[i][j] = Shift(u, 1)
    BY <2>1, <2>2
  <2>4. Near(50 * Shift(u, 1), 25 * u, 25)
    BY Powers DEF Near, Shift
  <2> QED
    BY <2>2, <2>3, <2>4
<1>6. PICK b : b = QuantizeDC(c)
  OBVIOUS
<1>7. b = [i \in 1..4 |-> [j \in 1..4 |-> Level(c[i][j])]]
  BY <1>4, <1>6, MatrixLength DEF QuantizeDC, Each
<1>8. \A i, j \in 1..4 : /\ Level(c[i][j]) \in Int
                         /\ Near((25 * DCScale) * Level(c[i][j]), 50 * c[i][j], 21 * DCScale + 100)
  BY <1>4, DCLevelNear
<1> HIDE DEF Level
<1>9. b \in Matrix4 /\ \A i, j \in 1..4 : b[i][j] = Level(c[i][j])
  BY <1>7, <1>8 DEF Matrix4
<1>10. PICK s \in Nat : s = DCScale
  BY DCScales
<1>11. \A i, j \in 1..4 : Near((25 * s) * b[i][j], 25 * g[i][j], 21 * s + 125)
  <2> SUFFICES ASSUME NEW i \in 1..4, NEW j \in 1..4
               PROVE  Near((25 * s) * b[i][j], 25 * g[i][j], 21 * s + 125)
    OBVIOUS
  <2>1. Near((25 * s) * b[i][j], 50 * c[i][j], 21 * s + 100) /\ Near(50 * c[i][j], 25 * g[i][j], 25)
    BY <1>5, <1>8, <1>9, <1>10
  <2> QED
    BY <2>1 DEF Near
<1>12. Near((25 * s) * HadamardAt(b, y, x), 25 * HadamardAt(g, y, x), 16 * (21 * s + 125))
  <2>1. PICK n \in Int, e \in Nat : n = 25 * s /\ e = 21 * s + 125
    OBVIOUS
  <2>2. \A i, j \in 1..4 : Near(n * b[i][j], 25 * g[i][j], e)
    BY <1>11, <2>1
  <2>3. Near(n * HadamardAt(b, y, x), 25 * HadamardAt(g, y, x), 16 * e)
    BY <1>2, <1>9, <2>2, HadamardsNear
  <2> QED
    BY <2>1, <2>3
<1>13. PICK t \in Int : t = d[y][x] /\ HadamardAt(g, y, x) = 16 * t
  BY <1>2, HadamardExact DEF Matrix4
<1>14. PICK h \in Int : h = HadamardAt(b, y, x) /\ RowsThenColumns(HadamardPass, b)[y][x] = h
  BY <1>9, MatrixInts, HadamardEntries
<1>15. InverseQuantizeDC(Hadamard4x4(b, 0), 2)[y][x] = RightShift(DCScale * h, 2)
  <2>1. PICK f : f = Hadamard4x4(b, 0)
    OBVIOUS
  <2>2. PICK k : k = RowsThenColumns(HadamardPass, b)
    OBVIOUS
  <2>3. k \in Matrix4
    BY <1>9, <2>2, HadamardAgrees
  <2>4. f = [i \in 1..4 |-> [j \in 1..4 |-> Shift(k[i][j], 0)]]
    BY <2>1, <2>2, <2>3, MatrixLength DEF Hadamard4x4, Each
  <2>5. f[y][x] = h
    <3>1. Shift(h, 0) = h
      BY Powers DEF Shift
    <3> QED
      BY <1>14, <2>2, <2>4, <3>1
  <2>6. InverseQuantizeDC(f, 2)[y][x] = RightShift(f[y][x] * At(s_dequant_matrix, 0, 0) * 2^(qp \div 6), 2)
    <3>1. DOMAIN f = 1..4 /\ DOMAIN f[y] = 1..4
      BY <2>4
    <3> QED
      BY <3>1 DEF InverseQuantizeDC, Each
  <2> QED
    BY <2>1, <2>5, <2>6, DCScales
<1>16. PICK z \in Int : z = s * h
  OBVIOUS
<1>17. Near(25 * z, 400 * t, 16 * (21 * s + 125))
  <2>1. (25 * s) * h = 25 * z
    BY <1>16
  <2>2. 25 * (16 * t) = 400 * t
    OBVIOUS
  <2> QED
    BY <1>12, <1>13, <1>14, <2>1, <2>2
<1>18. Near(25 * RightShift(z, 2), 100 * t, 84 * s + 600)
  <2>1. RightShift(z, 2) = (z + 2) \div 4
    BY Powers DEF RightShift
  <2> QED
    BY <1>17, <2>1 DEF Near
<1> QED
  BY <1>3, <1>6, <1>10, <1>13, <1>15, <1>16, <1>18

LEMMA ChromaDCNear ==
  ASSUME InputType, NEW d \in Matrix2, MatrixWithin(d, 4080), NEW y \in 1..2, NEW x \in 1..2
  PROVE  Near(25 * InverseQuantizeDC(Hadamard2x2(QuantizeDC(Hadamard2x2(d))), 1)[y][x],
              100 * d[y][x], 84 * DCScale + 600)
<1> DEFINE Level(v) == Quantized(v, At(s_quant_matrix, 0, 0), 2 * QOffset, QBits + 1)
<1>1. PICK c : c = Hadamard2x2(d)
  OBVIOUS
<1>2. c \in Matrix2 /\ \A i, j \in 1..2 : Within(c[i][j], 16320)
  BY <1>1, ChromaDCWithin, MatrixLength2 DEF MatrixWithin
<1>3. PICK b : b = QuantizeDC(c)
  OBVIOUS
<1>4. b = [i \in 1..2 |-> [j \in 1..2 |-> Level(c[i][j])]]
  BY <1>2, <1>3, MatrixLength2 DEF QuantizeDC, Each
<1>5. \A i, j \in 1..2 : /\ Level(c[i][j]) \in Int
                         /\ Near((25 * DCScale) * Level(c[i][j]), 50 * c[i][j], 21 * DCScale + 100)
  <2>1. \A v : Within(v, 16320) => Within(v, 32640)
    BY DEF Within
  <2> QED
    BY <1>2, <2>1, DCLevelNear
<1> HIDE DEF Level
<1>6. b \in Matrix2 /\ \A i, j \in 1..2 : b[i][j] = Level(c[i][j])
  BY <1>4, <1>5 DEF Matrix2
<1>7. PICK s \in Nat : s = DCScale
  BY DCScales
<1>8. PICK t11 \in Int, t12 \in Int, t21 \in Int, t22 \in Int :
        t11 = d[1][1] /\ t12 = d[1][2] /\ t21 = d[2][1] /\ t22 = d[2][2]
  BY MatrixLength2
<1>9. PICK l11 \in Int, l12 \in Int, l21 \in Int, l22 \in Int :
        l11 = b[1][1] /\ l12 = b[1][2] /\ l21 = b[2][1] /\ l22 = b[2][2]
  BY <1>6, MatrixLength2
<1>10. PICK z11 \in Int, z12 \in Int, z21 \in Int, z22 \in Int :
         z11 = s * l11 /\ z12 = s * l12 /\ z21 = s * l21 /\ z22 = s * l22
  OBVIOUS
<1>11. /\ Near(25 * z11, 50 * (t11 + t12 + t21 + t22), 21 * s + 100)
       /\ Near(25 * z12, 50 * (t11 - t12 + t21 - t22), 21 * s + 100)
       /\ Near(25 * z21, 50 * (t11 + t12 - t21 - t22), 21 * s + 100)
       /\ Near(25 * z22, 50 * (t11 - t12 - t21 + t22), 21 * s + 100)
  <2>1. /\ c[1][1] = t11 + t12 + t21 + t22 /\ c[1][2] = t11 - t12 + t21 - t22
        /\ c[2][1] = t11 + t12 - t21 - t22 /\ c[2][2] = t11 - t12 - t21 + t22
    BY <1>1, <1>8 DEF Hadamard2x2
  <2>2. \A i, j \in 1..2 : Near((25 * s) * b[i][j], 50 * c[i][j], 21 * s + 100)
    BY <1>5, <1>6, <1>7
  <2>3. /\ Near((25 * s) * l11, 50 * c[1][1], 21 * s + 100) /\ Near((25 * s) * l12, 50 * c[1][2], 21 * s + 100)
        /\ Near((25 * s) * l21, 50 * c[2][1], 21 * s + 100) /\ Near((25 * s) * l22, 50 * c[2][2], 21 * s + 100)
    BY <1>9, <2>2
  <2>4. (25 * s) * l11 = 25 * z11 /\ (25 * s) * l12 = 25 * z12 /\ (25 * s) * l21 = 25 * z21 /\ (25 * s) * l22 = 25 * z22
    BY <1>10
  <2> QED
    BY <2>1, <2>3, <2>4
<1>12. PICK f : f = Hadamard2x2(b)
  OBVIOUS
<1>13. f = <<<<l11 + l12 + l21 + l22, l11 - l12 + l21 - l22>>, <<l11 + l12 - l21 - l22, l11 - l12 - l21 + l22>>>>
  BY <1>9, <1>12 DEF Hadamard2x2
<1>14. \A i, j \in 1..2 : InverseQuantizeDC(f, 1)[i][j] = RightShift(DCScale * f[i][j], 1)
  <2>1. f \in Matrix2
    BY <1>6, <1>12, Hadamard2Agrees
  <2>2. DOMAIN f = 1..2 /\ \A i \in 1..2 : DOMAIN f[i] = 1..2
    BY <2>1, MatrixLength2
  <2>3. \A i, j \in 1..2 :
          InverseQuantizeDC(f, 1)[i][j] = RightShift(f[i][j] * At(s_dequant_matrix, 0, 0) * 2^(qp \div 6), 1)
    BY <2>2 DEF InverseQuantizeDC, Each
  <2>4. \A i, j \in 1..2 : f[i][j] \in Int
    BY <2>1 DEF Matrix2
  <2> QED
    BY <2>3, <2>4, DCScales
<1>15. /\ s * f[1][1] = z11 + z12 + z21 + z22 /\ s * f[1][2] = z11 - z12 + z21 - z22
       /\ s * f[2][1] = z11 + z12 - z21 - z22 /\ s * f[2][2] = z11 - z12 - z21 + z22
  <2>1. /\ s * (l11 + l12 + l21 + l22) = z11 + z12 + z21 + z22
        /\ s * (l11 - l12 + l21 - l22) = z11 - z12 + z21 - z22
        /\ s * (l11 + l12 - l21 - l22) = z11 + z12 - z21 - z22
        /\ s * (l11 - l12 - l21 + l22) = z11 - z12 - z21 + z22
    BY <1>10
  <2>2. /\ f[1][1] = l11 + l12 + l21 + l22 /\ f[1][2] = l11 - l12 + l21 - l22
        /\ f[2][1] = l11 + l12 - l21 - l22 /\ f[2][2] = l11 - l12 - l21 + l22
    BY <1>13
  <2> QED
    BY <2>1, <2>2
<1>16. \A z, t \in Int : Near(25 * z, 200 * t, 4 * (21 * s + 100)) =>
                           Near(25 * RightShift(z, 1), 100 * t, 84 * s + 600)
  <2> SUFFICES ASSUME NEW z \in Int, NEW t \in Int, Near(25 * z, 200 * t, 4 * (21 * s + 100))
               PROVE  Near(25 * RightShift(z, 1), 100 * t, 84 * s + 600)
    OBVIOUS
  <2>1. RightShift(z, 1) = (z + 1) \div 2
    BY Powers DEF RightShift
  <2> QED
    BY <2>1 DEF Near
<1>17. /\ Near(25 * (z11 + z12 + z21 + z22), 200 * t11, 4 * (21 * s + 100))
       /\ Near(25 * (z11 - z12 + z21 - z22), 200 * t12, 4 * (21 * s + 100))
       /\ Near(25 * (z11 + z12 - z21 - z22), 200 * t21, 4 * (21 * s + 100))
       /\ Near(25 * (z11 - z12 - z21 + z22), 200 * t22, 4 * (21 * s + 100))
  BY <1>11 DEF Near
<1>18. /\ Near(25 * RightShift(s * f[1][1], 1), 100 * d[1][1], 84 * s + 600)
       /\ Near(25 * RightShift(s * f[1][2], 1), 100 * d[1][2], 84 * s + 600)
       /\ Near(25 * RightShift(s * f[2][1], 1), 100 * d[2][1], 84 * s + 600)
       /\ Near(25 * RightShift(s * f[2][2], 1), 100 * d[2][2], 84 * s + 600)
  BY <1>8, <1>15, <1>16, <1>17
<1>19. \A i \in 1..2 : i = 1 \/ i = 2
  OBVIOUS
<1> QED
  BY <1>1, <1>3, <1>7, <1>12, <1>14, <1>18, <1>19

-----------------------------------------------------------------------------
(* A block restored, and how far its samples are from the residual.        *)

MixedScale == At(s_dequant_matrix, 1, 0) * Unit

OddScale == At(s_dequant_matrix, 1, 1) * Unit

\* What is left of the weights of the matrix, by their places.
LEMMA ScaleClasses ==
  ASSUME InputType
  PROVE  /\ DCScale \in Nat /\ MixedScale \in Nat /\ OddScale \in Nat /\ Step \in Nat
         /\ 588 * DCScale + 504 * MixedScale + 189 * OddScale <= 25600 * Step
         /\ \A x, y \in {0, 2} : At(s_dequant_matrix, x, y) * Unit = DCScale
         /\ \A x \in {0, 2}, y \in {1, 3} : /\ At(s_dequant_matrix, x, y) * Unit = MixedScale
                                            /\ At(s_dequant_matrix, y, x) * Unit = MixedScale
         /\ \A x, y \in {1, 3} : At(s_dequant_matrix, x, y) * Unit = OddScale
<1>1. PICK r \in {0, 1, 2, 3, 4, 5} : r = qp % 6
  BY DEF InputType
<1>2. PICK v, w, u : v = s_dequant_matrix[r + 1][1] /\ w = s_dequant_matrix[r + 1][2] /\ u = s_dequant_matrix[r + 1][3]
  OBVIOUS
<1>3. /\ \A x, y \in {0, 2} : At(s_dequant_matrix, x, y) = v
      /\ \A x \in {0, 2}, y \in {1, 3} : At(s_dequant_matrix, x, y) = w /\ At(s_dequant_matrix, y, x) = w
      /\ \A x, y \in {1, 3} : At(s_dequant_matrix, x, y) = u
  <2>1. \A x \in {0, 2} : Odd(x) = 0
    BY DEF Odd
  <2>2. \A x \in {1, 3} : Odd(x) = 1
    BY DEF Odd
  <2> QED
    BY <1>1, <1>2, <2>1, <2>2 DEF At
<1>4. v \in Nat /\ w \in Nat /\ u \in Nat /\ 588 * v + 504 * w + 189 * u <= 1600 * v
  <2>1. \A k \in {0, 1, 2, 3, 4, 5} :
          /\ s_dequant_matrix[k + 1][1] \in Nat /\ s_dequant_matrix[k + 1][2] \in Nat
          /\ s_dequant_matrix[k + 1][3] \in Nat
          /\ 588 * s_dequant_matrix[k + 1][1] + 504 * s_dequant_matrix[k + 1][2]
               + 189 * s_dequant_matrix[k + 1][3] <= 1600 * s_dequant_matrix[k + 1][1]
    BY DEF s_dequant_matrix
  <2> QED
    BY <1>2, <2>1
<1>5. PICK p \in {1, 2, 4, 8, 16, 32, 64, 128, 256} : p = Unit
  BY Units
<1>6. DCScale = v * p /\ MixedScale = w * p /\ OddScale = u * p
  BY <1>3, <1>5 DEF DCScale, MixedScale, OddScale
<1>7. v * p \in Nat /\ w * p \in Nat /\ u * p \in Nat /\ 588 * (v * p) + 504 * (w * p) + 189 * (u * p) <= 1600 * (v * p)
  BY <1>4
<1>8. Step = (v * p + 15) \div 16
  BY <1>3, <1>5 DEF Step, Unit
<1>9. Step \in Nat /\ v * p <= 16 * Step
  BY <1>7, <1>8
<1> QED
  BY <1>3, <1>5, <1>6, <1>7, <1>9

\* Coefficients as the inverse quantiser leaves them, near their ideals.
CoefficientsNear(n, b) ==
  BlockNear(n, IdealBlock(b), 84 * DCScale + 600, 21 * DCScale + 100, 21 * MixedScale + 100, 21 * OddScale + 100)

\* An entry the inverse transform leaves, 64 times the entry of the residual.
ValueNear(v, d) == Near(100 * v, 6400 * d, 25600 * Step + 7125)

LEMMA BlockError ==
  ASSUME InputType, NEW b \in Matrix4, NEW n \in Matrix4, CoefficientsNear(n, b), NEW y \in 1..4, NEW x \in 1..4
  PROVE  ValueNear(InverseDCT(n)[y][x], b[y][x])
<1>1. PICK s \in Nat, t \in Nat, u \in Nat : s = DCScale /\ t = MixedScale /\ u = OddScale
  BY ScaleClasses
<1>2. PICK corner \in Nat, even \in Nat, mixed \in Nat, odd \in Nat :
        corner = 84 * s + 600 /\ even = 21 * s + 100 /\ mixed = 21 * t + 100 /\ odd = 21 * u + 100
  OBVIOUS
<1>3. IntBlock(b) /\ IntBlock(n)
  BY MatrixInts
<1>4. PICK q : q = IdealBlock(b)
  OBVIOUS
<1>5. IntBlock(IdealBlock(b)) /\ DoubleInverseAt(IdealBlock(b), y, x) = 6400 * b[y][x]
  BY ONLY <1>3, IdealExact, x \in 1..4, y \in 1..4
<1>6. PICK v \in Int : v = b[y][x]
  BY DEF Matrix4
<1>7. IntBlock(q) /\ BlockNear(n, q, corner, even, mixed, odd)
  BY <1>1, <1>2, <1>4, <1>5 DEF CoefficientsNear
<1>8. Near(100 * InverseDCT(n)[y][x], 6400 * v, InverseError(corner, even, mixed, odd))
  <2>1. Near(100 * InverseDCT(n)[y][x], DoubleInverseAt(q, y, x), InverseError(corner, even, mixed, odd))
    BY ONLY <1>3, <1>7, InverseNear, corner \in Nat, even \in Nat, mixed \in Nat, odd \in Nat, x \in 1..4, y \in 1..4
  <2> QED
    BY <1>4, <1>5, <1>6, <2>1
<1>9. InverseError(corner, even, mixed, odd) = 588 * s + 504 * t + 189 * u + 7125
  BY <1>2 DEF InverseError
<1>10. Step \in Nat /\ 588 * s + 504 * t + 189 * u <= 25600 * Step
  BY <1>1, ScaleClasses
<1> QED
  BY <1>6, <1>8, <1>9, <1>10 DEF Near, ValueNear

Residual(i) == Difference(input.original[i], input.predicted[i])

Coefficients == [i \in 1..Count |-> DCT(Residual(i))]

LEMMA Residuals ==
  ASSUME InputType
  PROVE  /\ \A i \in 1..Count : /\ Residual(i) \in Matrix4
                                /\ \A y \in 1..4 : RowWithin(Residual(i)[y], 255)
         /\ BlocksWithin(Coefficients)
<1>1. PICK blocks : blocks = [i \in DOMAIN input.original |-> Residual(i)]
  OBVIOUS
<1>2. blocks \in [1..Count -> Matrix4] /\ \A i \in 1..Count : \A y \in 1..4 : RowWithin(blocks[i][y], 255)
  BY <1>1, Differences DEF Residual
<1>3. \A i \in 1..Count : blocks[i] = Residual(i)
  <2>1. DOMAIN blocks = 1..Count
    BY <1>2
  <2> QED
    BY <1>1, <2>1
<1>4. \A i \in 1..Count : Residual(i) \in Matrix4 /\ \A y \in 1..4 : RowWithin(Residual(i)[y], 255)
  BY <1>2, <1>3
<1>5. \A i \in 1..Count : DCT(Residual(i)) \in Matrix4 /\ CoefficientsWithin(DCT(Residual(i)))
  BY <1>4, DCTWithin
<1>6. BlocksWithin(Coefficients)
  BY <1>5 DEF BlocksWithin, Coefficients
<1> QED
  BY <1>4, <1>6

TransformedDC(dc) ==
  CASE input.kind = "4x4"    -> <<>>
    [] input.kind = "luma16" -> Hadamard4x4(dc, 1)
    [] input.kind = "chroma" -> Hadamard2x2(dc)

\* The DC coefficients as InverseQuantize restores them.
FinalDC == RestoredDC(QuantizeDC(TransformedDC(DCOf(Coefficients))))

LEMMA FinalDCNear ==
  ASSUME InputType, input.kind # "4x4", NEW i \in 1..Count
  PROVE  Near(25 * DCAt(FinalDC, i), 100 * Coefficients[i][1][1], 84 * DCScale + 600)
<1>1. \A j \in 1..Count : Within(Coefficients[j][1][1], 4080)
  BY Residuals DEF BlocksWithin, CoefficientsWithin, RowAlternates
<1>2. PICK d : d = DCOf(Coefficients)
  OBVIOUS
<1>3. CASE input.kind = "luma16"
  <2>1. Count = 16 /\ DCSide = 4
    BY <1>3, Kinds DEF DCSide
  <2>2. d = [y \in 1..4 |-> [x \in 1..4 |-> Coefficients[(y - 1) * 4 + x][1][1]]]
    BY <1>2, <2>1 DEF DCOf
  <2>3. \A y, x \in 1..4 : (y - 1) * 4 + x \in 1..16
    OBVIOUS
  <2>4. \A y, x \in 1..4 : Within(Coefficients[(y - 1) * 4 + x][1][1], 4080)
    BY <1>1, <2>1, <2>3
  <2>5. d \in Matrix4
    BY <2>2, <2>4 DEF Matrix4, Within
  <2>6. MatrixWithin(d, 4080)
    <3> DEFINE g(y, x) == Coefficients[(y - 1) * 4 + x][1][1]
    <3>1. d = [y \in 1..4 |-> [x \in 1..4 |-> g(y, x)]] /\ \A y, x \in 1..4 : Within(g(y, x), 4080)
      BY <2>2, <2>4
    <3> HIDE DEF g
    <3> QED
      BY <3>1 DEF MatrixWithin
  <2>7. PICK y \in 1..4, x \in 1..4 : y = ((i - 1) \div 4) + 1 /\ x = ((i - 1) % 4) + 1 /\ (y - 1) * 4 + x = i
    BY <2>1
  <2>8. d[y][x] = Coefficients[i][1][1]
    BY <2>2, <2>7
  <2>9. DCAt(FinalDC, i) = FinalDC[y][x]
    BY <2>1, <2>7 DEF DCAt
  <2>10. FinalDC = InverseQuantizeDC(Hadamard4x4(QuantizeDC(Hadamard4x4(d, 1)), 0), 2)
    BY <1>2, <1>3 DEF FinalDC, RestoredDC, TransformedDC
  <2>11. Near(25 * FinalDC[y][x], 100 * d[y][x], 84 * DCScale + 600)
    BY <2>5, <2>6, <2>10, LumaDCNear
  <2> QED
    BY <2>8, <2>9, <2>11
<1>4. CASE input.kind = "chroma"
  <2>1. Count = 4 /\ DCSide = 2
    BY <1>4, Kinds DEF DCSide
  <2>2. d = [y \in 1..2 |-> [x \in 1..2 |-> Coefficients[(y - 1) * 2 + x][1][1]]]
    BY <1>2, <2>1 DEF DCOf
  <2>3. \A y, x \in 1..2 : (y - 1) * 2 + x \in 1..4
    OBVIOUS
  <2>4. \A y, x \in 1..2 : Within(Coefficients[(y - 1) * 2 + x][1][1], 4080)
    BY <1>1, <2>1, <2>3
  <2>5. d \in Matrix2
    BY <2>2, <2>4 DEF Matrix2, Within
  <2>6. MatrixWithin(d, 4080)
    <3> DEFINE g(y, x) == Coefficients[(y - 1) * 2 + x][1][1]
    <3>1. d = [y \in 1..2 |-> [x \in 1..2 |-> g(y, x)]] /\ \A y, x \in 1..2 : Within(g(y, x), 4080)
      BY <2>2, <2>4
    <3> HIDE DEF g
    <3> QED
      BY <3>1 DEF MatrixWithin
  <2>7. PICK y \in 1..2, x \in 1..2 : y = ((i - 1) \div 2) + 1 /\ x = ((i - 1) % 2) + 1 /\ (y - 1) * 2 + x = i
    BY <2>1
  <2>8. d[y][x] = Coefficients[i][1][1]
    BY <2>2, <2>7
  <2>9. DCAt(FinalDC, i) = FinalDC[y][x]
    BY <2>1, <2>7 DEF DCAt
  <2>10. FinalDC = InverseQuantizeDC(Hadamard2x2(QuantizeDC(Hadamard2x2(d))), 1)
    BY <1>2, <1>4 DEF FinalDC, RestoredDC, TransformedDC
  <2>11. Near(25 * FinalDC[y][x], 100 * d[y][x], 84 * DCScale + 600)
    BY <2>5, <2>6, <2>10, ChromaDCNear
  <2> QED
    BY <2>8, <2>9, <2>11
<1> QED
  BY <1>3, <1>4, Kinds

\* The levels of a block.
Levels(i) == IF input.kind = "4x4" THEN QuantizeNormal(Coefficients[i]) ELSE QuantizeAC(Coefficients[i])

\* A coefficient outside the DC block.
LEMMA EntryNear ==
  ASSUME InputType, NEW i \in 1..Count, NEW y \in 1..4, NEW x \in 1..4,
         input.kind = "4x4" \/ ~(x = 1 /\ y = 1)
  PROVE  LET n == InverseQuantizeNormal(Levels(i))[y][x]
         IN  /\ n \in Int
             /\ Near(25 * n, IdealBlock(Residual(i))[y][x], 21 * (At(s_dequant_matrix, x - 1, y - 1) * Unit) + 100)
<1>1. PICK c \in Matrix4 : c = Coefficients[i] /\ CoefficientsWithin(c) /\ c = DCT(Residual(i))
  BY Residuals DEF BlocksWithin, Coefficients
<1>2. Within(c[y][x], 9180)
  <2>1. \A v : (Within(v, 4080) \/ Within(v, 6120)) => Within(v, 9180)
    BY DEF Within
  <2>2. y = 1 \/ y = 2 \/ y = 3 \/ y = 4
    OBVIOUS
  <2>3. x = 1 \/ x = 2 \/ x = 3 \/ x = 4
    OBVIOUS
  <2> QED
    BY <1>1, <2>1, <2>2, <2>3 DEF CoefficientsWithin, RowAlternates
<1>3. PICK f, w : f = At(s_quant_matrix, x - 1, y - 1) /\ w = At(s_dequant_matrix, x - 1, y - 1)
  OBVIOUS
<1>4. x - 1 \in 0..3 /\ y - 1 \in 0..3
  OBVIOUS
<1>5. PICK level : level = Quantized(c[y][x], f, QOffset, QBits)
  OBVIOUS
<1>6. level \in Int /\ Near(25 * (w * (level * Unit)), Ideal(x - 1, y - 1) * c[y][x], 21 * (w * Unit) + 100)
  BY <1>2, <1>3, <1>4, <1>5, CoefficientNear
<1>7. Levels(i)[y][x] = level
  <2>1. PICK q : q = QuantizeNormal(c)
    OBVIOUS
  <2>2. q = [k \in 1..4 |-> [l \in 1..4 |->
               Quantized(c[k][l], At(s_quant_matrix, l - 1, k - 1), QOffset, QBits)]]
    BY <2>1 DEF QuantizeNormal
  <2>3. q[y][x] = level
    BY <1>3, <1>5, <2>2
  <2>4. CASE input.kind = "4x4"
    BY <1>1, <2>1, <2>3, <2>4 DEF Levels
  <2>5. CASE input.kind # "4x4" /\ ~(x = 1 /\ y = 1)
    <3>1. q \in Matrix4
      BY <2>1, QuantizedBlock
    <3>2. [q EXCEPT ![1][1] = 0] = [k \in 1..4 |-> [l \in 1..4 |-> IF l = 1 /\ k = 1 THEN 0 ELSE q[k][l]]]
      BY <3>1, CornerReplaced, 0 \in Int
    <3>3. Levels(i) = [q EXCEPT ![1][1] = 0]
      BY <1>1, <2>1, <2>5 DEF Levels, QuantizeAC
    <3> QED
      BY <2>3, <2>5, <3>2, <3>3
  <2> QED
    BY <2>4, <2>5
<1>8. InverseQuantizeNormal(Levels(i))[y][x] = level * w * Unit
  BY <1>3, <1>7 DEF InverseQuantizeNormal, Unit
<1>9. PICK p \in Nat, v \in Nat : p = Unit /\ v = w
  BY <1>3, <1>4, Units, Entries
<1>10. level * v * p = v * (level * p) /\ level * v * p \in Int
  BY <1>6
<1>11. IdealBlock(Residual(i))[y][x] = Ideal(x - 1, y - 1) * c[y][x]
  BY <1>1 DEF IdealBlock
<1> QED
  BY <1>3, <1>6, <1>8, <1>9, <1>10, <1>11

\* A block as InverseQuantize leaves it.
LEMMA RestoredNear ==
  ASSUME InputType, NEW i \in 1..Count, NEW n \in Matrix4, n = Restored(Levels(i), FinalDC, i)
  PROVE  CoefficientsNear(n, Residual(i))
<1> DEFINE q == IdealBlock(Residual(i))
           corner == 84 * DCScale + 600
           even == 21 * DCScale + 100
           mixed == 21 * MixedScale + 100
           odd == 21 * OddScale + 100
<1>1. PICK b : b = InverseQuantizeNormal(Levels(i))
  OBVIOUS
<1>2. \A y, x \in 1..4 : (input.kind = "4x4" \/ ~(x = 1 /\ y = 1)) => n[y][x] = b[y][x]
  <2>1. CASE input.kind = "4x4"
    BY <1>1, <2>1 DEF Restored
  <2>2. CASE input.kind # "4x4"
    <3>1. n = [b EXCEPT ![1][1] = DCAt(FinalDC, i)]
      BY <1>1, <2>2 DEF Restored
    <3>2. b = [y \in 1..4 |-> b[y]] /\ \A y \in 1..4 : b[y] = [x \in 1..4 |-> b[y][x]]
      BY <1>1 DEF InverseQuantizeNormal
    <3> QED
      BY <2>2, <3>1, <3>2
  <2> QED
    BY <2>1, <2>2
<1>3. \A y, x \in 1..4 : (input.kind = "4x4" \/ ~(x = 1 /\ y = 1)) =>
        Near(25 * n[y][x], q[y][x], 21 * (At(s_dequant_matrix, x - 1, y - 1) * Unit) + 100)
  BY <1>1, <1>2, EntryNear
<1>4. Near(25 * n[1][1], q[1][1], corner)
  <2>1. CASE input.kind = "4x4"
    <3>1. Near(25 * n[1][1], q[1][1], 21 * (At(s_dequant_matrix, 1 - 1, 1 - 1) * Unit) + 100)
      BY <1>3, <2>1
    <3>2. 1 - 1 = 0
      OBVIOUS
    <3>3. Near(25 * n[1][1], q[1][1], 21 * DCScale + 100)
      BY <3>1, <3>2 DEF DCScale
    <3>4. PICK s \in Nat : s = DCScale
      BY DCScales
    <3> QED
      BY <3>3, <3>4 DEF Near
  <2>2. CASE input.kind # "4x4"
    <3>1. n[1][1] = DCAt(FinalDC, i)
      <4>1. n = [InverseQuantizeNormal(Levels(i)) EXCEPT ![1][1] = DCAt(FinalDC, i)]
        BY <2>2 DEF Restored
      <4> QED
        BY <4>1 DEF InverseQuantizeNormal
    <3>2. q[1][1] = 100 * Coefficients[i][1][1]
      <4>1. Ideal(1 - 1, 1 - 1) = 100
        BY DEF Ideal, Odd
      <4> QED
        BY <4>1 DEF IdealBlock, Coefficients
    <3> QED
      BY <2>2, <3>1, <3>2, FinalDCNear
  <2> QED
    BY <2>1, <2>2
<1>5. /\ \A y, x \in {1, 3} : At(s_dequant_matrix, x - 1, y - 1) * Unit = DCScale
      /\ \A y \in {1, 3}, x \in {2, 4} : /\ At(s_dequant_matrix, x - 1, y - 1) * Unit = MixedScale
                                         /\ At(s_dequant_matrix, y - 1, x - 1) * Unit = MixedScale
      /\ \A y, x \in {2, 4} : At(s_dequant_matrix, x - 1, y - 1) * Unit = OddScale
  <2>1. 1 - 1 = 0 /\ 2 - 1 = 1 /\ 3 - 1 = 2 /\ 4 - 1 = 3
    OBVIOUS
  <2> QED
    BY <2>1, ScaleClasses
<1> HIDE DEF q
<1>6. /\ Near(25 * n[1][3], q[1][3], even) /\ Near(25 * n[3][1], q[3][1], even) /\ Near(25 * n[3][3], q[3][3], even)
      /\ Near(25 * n[1][2], q[1][2], mixed) /\ Near(25 * n[1][4], q[1][4], mixed)
      /\ Near(25 * n[3][2], q[3][2], mixed) /\ Near(25 * n[3][4], q[3][4], mixed)
      /\ Near(25 * n[2][1], q[2][1], mixed) /\ Near(25 * n[4][1], q[4][1], mixed)
      /\ Near(25 * n[2][3], q[2][3], mixed) /\ Near(25 * n[4][3], q[4][3], mixed)
      /\ Near(25 * n[2][2], q[2][2], odd) /\ Near(25 * n[2][4], q[2][4], odd)
      /\ Near(25 * n[4][2], q[4][2], odd) /\ Near(25 * n[4][4], q[4][4], odd)
  BY <1>3, <1>5
<1> HIDE DEF corner, even, mixed, odd
<1>7. BlockNear(n, q, corner, even, mixed, odd)
  BY <1>4, <1>6 DEF BlockNear, RowNear
<1> QED
  BY <1>7 DEF CoefficientsNear, q, corner, even, mixed, odd

\* The sample that is reconstructed of a residual and its prediction.
SampleNear(a, p, v) == Magnitude(Clamp(RightShift(v + p * 2^6, 6)) - a) <= 4 * Step + 1

LEMMA SampleError ==
  ASSUME InputType, NEW a \in 0..255, NEW p \in 0..255, NEW v \in Int,
         ValueNear(v, a - p)
  PROVE  SampleNear(a, p, v)
<1>1. PICK s \in Nat : s = Step
  BY ScaleClasses
<1>2. PICK r \in Int : r = (v + 32) \div 64
  OBVIOUS
<1>3. 64 * r <= v + 32 /\ v + 32 < 64 * r + 64
  BY <1>2
<1>4. RightShift(v + p * 2^6, 6) = p + r
  <2>1. RightShift(v + p * 2^6, 6) = p + (v + 32) \div 64
    BY ONLY v \in Int, p \in 0..255, RoundingsAgree
  <2> QED
    BY <1>2, <2>1
<1>5. 100 * v - 6400 * (a - p) <= 25600 * s + 7125 /\ 6400 * (a - p) - 100 * v <= 25600 * s + 7125
  BY <1>1 DEF Near, ValueNear
<1>6. p + r - a <= 4 * s + 1 /\ a - (p + r) <= 4 * s + 1
  BY <1>3, <1>5
<1>7. PICK c \in Int : c = Clamp(p + r)
  BY DEF Clamp
<1>8. c - a <= 4 * s + 1 /\ a - c <= 4 * s + 1
  BY <1>6, <1>7 DEF Clamp
<1> QED
  BY <1>1, <1>4, <1>7, <1>8 DEF Magnitude, SampleNear

-----------------------------------------------------------------------------
(* The invariant.                                                          *)

Quantised == pc \in {"inverse_quantize", "inverse_transform", "reconstruct", "done"}

BlockType ==
  /\ pc \in {"transform", "quantize", "inverse_quantize", "inverse_transform", "reconstruct", "done"}
  /\ m_blocks \in [1..Count -> Matrix4]

\* Coefficients, and so levels, are within the limits of the transform.
SizesInv ==
  /\ pc = "transform" => \A i \in 1..Count : \A y \in 1..4 : RowWithin(m_blocks[i][y], 255)
  /\ pc = "quantize"  => /\ DCType(m_dc_block) /\ DCWithin(m_dc_block)
                         /\ \A i \in 1..Count : CoefficientsWithin(m_blocks[i])
  /\ LevelsFitEscape

LevelsInv ==
  /\ ~Quantised => levels = <<>>
  /\ Quantised  => DCType(levels.dc) /\ levels.blocks \in [1..Count -> Matrix4]

\* The blocks are the levels, the receiver's coefficients and its residual in
\* turn.
ReceivedInv ==
  /\ pc = "inverse_quantize" => m_blocks = levels.blocks /\ m_dc_block = levels.dc
  /\ (pc = "inverse_transform" /\ Agreed) => \A i \in 1..Count : m_blocks[i] = ReceivedCoefficients(i)
  /\ (pc = "reconstruct" /\ Agreed) =>
       \A i \in 1..Count : m_blocks[i] = RowsThenColumns(ReceiverPass, ReceivedCoefficients(i))
  /\ pc = "done" => DOMAIN m_reconstructed = 1..Count
  /\ SamplesAreReceivers

IInv == InputType /\ BlockType /\ SizesInv /\ LevelsInv /\ ReceivedInv

LEMMA Initially ==
  ASSUME Init
  PROVE  IInv
<1>1. InputType
  BY QPAssumption DEF Init, InputType
<1>2. pc = "transform" /\ levels = <<>>
  BY DEF Init
<1>3. m_blocks = [i \in DOMAIN input.original |-> Difference(input.original[i], input.predicted[i])]
  BY DEF Init
<1>4. m_blocks \in [1..Count -> Matrix4] /\ \A i \in 1..Count : \A y \in 1..4 : RowWithin(m_blocks[i][y], 255)
  BY <1>1, <1>3, Differences
<1>5. LevelsFitEscape
  BY <1>2 DEF LevelsFitEscape
<1> QED
  BY <1>1, <1>2, <1>4, <1>5
  DEF IInv, BlockType, SizesInv, LevelsInv, ReceivedInv, Quantised, SamplesAreReceivers

LEMMA TransformKeeps ==
  ASSUME IInv, TransformBlocks
  PROVE  IInv'
<1> USE DEF TransformBlocks
<1> DEFINE c == [i \in DOMAIN m_blocks |-> DCT(m_blocks[i])]
<1>1. InputType /\ pc = "transform" /\ m_blocks \in [1..Count -> Matrix4]
  BY DEF IInv, BlockType
<1>2. \A i \in 1..Count : DCT(m_blocks[i]) \in Matrix4 /\ CoefficientsWithin(DCT(m_blocks[i]))
  BY <1>1, DCTWithin DEF IInv, SizesInv
<1>3. c = [i \in 1..Count |-> DCT(m_blocks[i])]
  BY <1>1
<1> HIDE DEF c
<1>4. c \in [1..Count -> Matrix4] /\ \A i \in 1..Count : CoefficientsWithin(c[i])
  BY <1>2, <1>3
<1>5. m_blocks' = c /\ pc' = "quantize" /\ levels' = levels
  BY DEF c
<1>6. InputType' /\ Count' = Count
  BY <1>1 DEF InputType, Count
<1>7. DCType(m_dc_block)' /\ DCWithin(m_dc_block)'
  <2>1. m_dc_block' = CASE input.kind = "4x4"    -> <<>>
                        [] input.kind = "luma16" -> Hadamard4x4(DCOf(c), 1)
                        [] input.kind = "chroma" -> Hadamard2x2(DCOf(c))
    BY DEF c
  <2>2. input' = input
    OBVIOUS
  <2>3. /\ input.kind = "luma16" => LumaTransformed(DCOf(c))
        /\ input.kind = "chroma" => ChromaTransformed(DCOf(c))
    <3>1. BlocksWithin(c)
      BY <1>4 DEF BlocksWithin
    <3> QED
      BY <1>1, <3>1, Transformed
  <2>4. CASE input.kind = "luma16"
    <3>1. m_dc_block' = Hadamard4x4(DCOf(c), 1)
      BY <2>1, <2>4
    <3> QED
      BY <2>2, <2>3, <2>4, <3>1 DEF DCType, DCWithin, LumaTransformed
  <2>5. CASE input.kind = "chroma"
    <3>1. m_dc_block' = Hadamard2x2(DCOf(c))
      BY <2>1, <2>5
    <3> QED
      BY <2>2, <2>3, <2>5, <3>1 DEF DCType, DCWithin, ChromaTransformed
  <2>6. CASE input.kind = "4x4"
    <3>1. m_dc_block' = <<>>
      BY <2>1, <2>6
    <3> QED
      BY <2>2, <2>6, <3>1 DEF DCType, DCWithin
  <2> QED
    BY <1>1, <2>4, <2>5, <2>6, Kinds
<1>8. levels = <<>>
  BY <1>1 DEF IInv, LevelsInv, Quantised
<1>9. SizesInv'
  BY <1>4, <1>5, <1>6, <1>7, <1>8 DEF SizesInv, LevelsFitEscape
<1>10. BlockType' /\ LevelsInv' /\ ReceivedInv'
  BY <1>4, <1>5, <1>6, <1>8 DEF BlockType, LevelsInv, ReceivedInv, Quantised, SamplesAreReceivers
<1> QED
  BY <1>6, <1>9, <1>10 DEF IInv

LEMMA QuantizeKeeps ==
  ASSUME IInv, Quantize
  PROVE  IInv'
<1> USE DEF Quantize
<1> DEFINE q(i) == IF input.kind = "4x4" THEN QuantizeNormal(m_blocks[i]) ELSE QuantizeAC(m_blocks[i])
<1>1. InputType /\ pc = "quantize" /\ m_blocks \in [1..Count -> Matrix4] /\ DCType(m_dc_block)
  BY DEF IInv, BlockType, SizesInv
<1>2. DCWithin(m_dc_block) /\ \A i \in 1..Count : CoefficientsWithin(m_blocks[i])
  BY <1>1 DEF IInv, SizesInv
<1>3. \A i \in 1..Count : q(i) \in Matrix4 /\ \A y, x \in 1..4 : Magnitude(q(i)[y][x]) <= EscapeLimit
  BY <1>1, <1>2, QuantizedBlock
<1>4. m_blocks' = [i \in 1..Count |-> q(i)]
  BY <1>1
<1> HIDE DEF q
<1>5. m_blocks' \in [1..Count -> Matrix4]
  BY <1>3, <1>4
<1>6. m_dc_block' = QuantizeDC(m_dc_block) /\ pc' = "inverse_quantize" /\ UNCHANGED <<input, qp, is_intra>>
  OBVIOUS
<1>7. levels'.dc = m_dc_block' /\ levels'.blocks = m_blocks'
  OBVIOUS
<1>8. InputType' /\ Count' = Count
  BY <1>1, <1>6 DEF InputType, Count
<1>9. DCType(m_dc_block)'
  BY <1>1, <1>6, QuantizedDCs DEF DCType
<1>10. LevelsFitEscape'
  <2> SUFFICES ASSUME (input.kind = "chroma" => qp >= 4), (input.kind = "luma16" => qp >= 10)
               PROVE  /\ \A y \in DOMAIN levels'.dc : \A x \in DOMAIN levels'.dc[y] :
                           Magnitude(levels'.dc[y][x]) <= EscapeLimit
                      /\ \A i \in DOMAIN levels'.blocks : \A y, x \in 1..4 :
                           Magnitude(levels'.blocks[i][y][x]) <= EscapeLimit
    BY <1>6 DEF LevelsFitEscape, Magnitude, EscapeLimit
  <2>1. \A y \in DOMAIN QuantizeDC(m_dc_block) : \A x \in DOMAIN QuantizeDC(m_dc_block)[y] :
          Magnitude(QuantizeDC(m_dc_block)[y][x]) <= EscapeLimit
    BY <1>1, <1>2, QuantizedDCs
  <2>2. \A i \in DOMAIN m_blocks' : \A y, x \in 1..4 : Magnitude(m_blocks'[i][y][x]) <= EscapeLimit
    BY <1>3, <1>4
  <2> QED
    BY <1>6, <1>7, <2>1, <2>2
<1>11. SizesInv'
  BY <1>6, <1>10 DEF SizesInv
<1>12. BlockType' /\ LevelsInv' /\ ReceivedInv'
  <2>1. BlockType'
    BY <1>5, <1>6, <1>8 DEF BlockType
  <2>2. LevelsInv'
    BY <1>5, <1>6, <1>7, <1>8, <1>9 DEF LevelsInv, Quantised, DCType
  <2>3. ReceivedInv'
    BY <1>6, <1>7 DEF ReceivedInv, SamplesAreReceivers
  <2> QED
    BY <2>1, <2>2, <2>3
<1> QED
  BY <1>8, <1>11, <1>12 DEF IInv

\* What stays as it was once the levels are made.
LEMMA LevelsKept ==
  ASSUME IInv, Quantised, Quantised', UNCHANGED <<input, qp, is_intra, levels>>
  PROVE  /\ InputType' /\ Count' = Count /\ LevelsInv' /\ LevelsFitEscape'
         /\ DCType(levels.dc) /\ levels.blocks \in [1..Count -> Matrix4]
         /\ Agreed' = Agreed
         /\ \A i : ReceivedCoefficients(i)' = ReceivedCoefficients(i)
<1>1. InputType' /\ Count' = Count
  BY DEF IInv, InputType, Count
<1>2. DCType(levels.dc) /\ levels.blocks \in [1..Count -> Matrix4]
  BY DEF IInv, LevelsInv
<1>3. LevelsInv'
  BY <1>1, <1>2 DEF LevelsInv, DCType
<1>4. LevelsFitEscape'
  BY DEF IInv, SizesInv, LevelsFitEscape, Magnitude, EscapeLimit
<1>5. Agreed' = Agreed
  BY DEF Agreed
<1>6. \A i : ReceivedCoefficients(i)' = ReceivedCoefficients(i)
  <2>1. ReceiverQP' = ReceiverQP
    BY DEF ReceiverQP
  <2>2. \A x, y : LevelScale(x, y)' = LevelScale(x, y)
    BY <2>1 DEF LevelScale
  <2>3. \A v, x, y : ScaledBy(v, x, y)' = ScaledBy(v, x, y)
    BY <2>1, <2>2 DEF ScaledBy
  <2>4. ReceivedDC(levels.dc)' = ReceivedDC(levels.dc)
    BY <2>1, <2>2 DEF ReceivedDC, Each
  <2>5. \A dc, i : DCAt(dc, i)' = DCAt(dc, i)
    BY DEF DCAt, DCSide
  <2> QED
    BY <2>3, <2>4, <2>5 DEF ReceivedCoefficients
<1> QED
  BY <1>1, <1>2, <1>3, <1>4, <1>5, <1>6

LEMMA InverseQuantizeKeeps ==
  ASSUME IInv, InverseQuantize
  PROVE  IInv'
<1> USE DEF InverseQuantize
<1> DEFINE r(i) == Restored(levels.blocks[i], RestoredDC(levels.dc), i)
<1>1. /\ InputType /\ pc = "inverse_quantize" /\ pc' = "inverse_transform" /\ Quantised /\ Quantised'
      /\ UNCHANGED <<input, qp, is_intra, levels>>
  BY DEF IInv, Quantised
<1>2. /\ InputType' /\ Count' = Count /\ LevelsInv' /\ LevelsFitEscape'
      /\ DCType(levels.dc) /\ levels.blocks \in [1..Count -> Matrix4]
      /\ Agreed' = Agreed
      /\ \A i : ReceivedCoefficients(i)' = ReceivedCoefficients(i)
  BY <1>1, LevelsKept
<1>3. m_blocks = levels.blocks /\ m_dc_block = levels.dc
  BY <1>1 DEF IInv, ReceivedInv
<1>4. m_dc_block' = RestoredDC(levels.dc)
  BY <1>3 DEF RestoredDC
<1>5. m_blocks' = [i \in 1..Count |-> r(i)]
  BY <1>2, <1>3, <1>4 DEF Restored
<1>6. \A i \in 1..Count : r(i) \in Matrix4 /\ (Agreed => r(i) = ReceivedCoefficients(i))
  BY <1>1, <1>2, RestoredBlock
<1> HIDE DEF r, InverseQuantize
<1>7. m_blocks' \in [1..Count -> Matrix4] /\ \A i \in 1..Count : m_blocks'[i] = r(i)
  BY <1>5, <1>6
<1>8. BlockType'
  BY <1>1, <1>2, <1>7 DEF BlockType
<1>9. SizesInv'
  BY <1>1, <1>2 DEF SizesInv
<1>10. Agreed => \A i \in 1..Count : m_blocks'[i] = ReceivedCoefficients(i)'
  BY <1>2, <1>6, <1>7
<1>11. ReceivedInv'
  BY <1>1, <1>2, <1>10 DEF ReceivedInv, SamplesAreReceivers
<1> QED
  BY <1>2, <1>8, <1>9, <1>11 DEF IInv

LEMMA InverseTransformKeeps ==
  ASSUME IInv, InverseTransform
  PROVE  IInv'
<1> USE DEF InverseTransform
<1>1. /\ InputType /\ pc = "inverse_transform" /\ pc' = "reconstruct" /\ Quantised /\ Quantised'
      /\ UNCHANGED <<input, qp, is_intra, levels>>
  BY DEF IInv, Quantised
<1>2. /\ InputType' /\ Count' = Count /\ LevelsInv' /\ LevelsFitEscape'
      /\ Agreed' = Agreed
      /\ \A i : ReceivedCoefficients(i)' = ReceivedCoefficients(i)
  BY <1>1, LevelsKept
<1>3. m_blocks \in [1..Count -> Matrix4] /\ (Agreed => \A i \in 1..Count : m_blocks[i] = ReceivedCoefficients(i))
  BY <1>1 DEF IInv, BlockType, ReceivedInv
<1>4. m_blocks' = [i \in 1..Count |-> InverseDCT(m_blocks[i])]
  BY <1>3
<1>5. \A b \in Matrix4 : InverseDCT(b) = RowsThenColumns(ReceiverPass, b) /\ InverseDCT(b) \in Matrix4
  <2> SUFFICES ASSUME NEW b \in Matrix4
               PROVE  InverseDCT(b) = RowsThenColumns(ReceiverPass, b) /\ InverseDCT(b) \in Matrix4
    OBVIOUS
  <2>1. InverseDCT(b) = RowsThenColumns(ReceiverPass, b)
    BY MatrixInts, InverseAgrees
  <2>2. InverseDCT(b) \in Matrix4
    BY MatrixInts, InverseInMatrix
  <2> QED
    BY <2>1, <2>2
<1>6. /\ m_blocks' \in [1..Count -> Matrix4]
      /\ \A i \in 1..Count : m_blocks'[i] = RowsThenColumns(ReceiverPass, m_blocks[i])
  BY <1>3, <1>4, <1>5
<1>7. BlockType'
  BY <1>1, <1>2, <1>6 DEF BlockType
<1>8. SizesInv'
  BY <1>1, <1>2 DEF SizesInv
<1>9. Agreed => \A i \in 1..Count : m_blocks'[i] = RowsThenColumns(ReceiverPass, ReceivedCoefficients(i))
  BY <1>3, <1>6
<1>10. Agreed => \A i \in 1..Count : m_blocks'[i] = RowsThenColumns(ReceiverPass, ReceivedCoefficients(i)')
  BY <1>2, <1>9
<1>11. ReceivedInv'
  BY <1>1, <1>2, <1>10 DEF ReceivedInv, SamplesAreReceivers
<1> QED
  BY <1>2, <1>7, <1>8, <1>11 DEF IInv

LEMMA ReconstructKeeps ==
  ASSUME IInv, Reconstruct
  PROVE  IInv'
<1> USE DEF Reconstruct
<1> DEFINE s(i) == [y \in 1..4 |-> [x \in 1..4 |->
                      Clamp(RightShift(m_blocks[i][y][x] + input.predicted[i][y][x] * 2^6, 6))]]
<1>1. /\ InputType /\ pc = "reconstruct" /\ pc' = "done" /\ Quantised /\ Quantised'
      /\ UNCHANGED <<input, qp, is_intra, levels, m_blocks>>
  BY DEF IInv, Quantised
<1>2. /\ InputType' /\ Count' = Count /\ LevelsInv' /\ LevelsFitEscape'
      /\ Agreed' = Agreed
      /\ \A i : ReceivedCoefficients(i)' = ReceivedCoefficients(i)
  BY <1>1, LevelsKept
<1>3. m_blocks \in [1..Count -> Matrix4]
  BY DEF IInv, BlockType
<1>4. m_reconstructed' = [i \in 1..Count |-> s(i)]
  BY <1>3
<1>5. ASSUME NEW i \in 1..Count, m_blocks[i] = RowsThenColumns(ReceiverPass, ReceivedCoefficients(i))
      PROVE  s(i) = ReceivedSamples(i)
  <2> DEFINE u(y, x) == RightShift(m_blocks[i][y][x] + input.predicted[i][y][x] * 2^6, 6)
             v(y, x) == input.predicted[i][y][x] + (m_blocks[i][y][x] + 32) \div 64
  <2>1. \A y, x \in 1..4 : m_blocks[i][y][x] \in Int
    <3>1. m_blocks[i] \in Matrix4
      BY <1>3
    <3>2. \A c \in Matrix4 : \A y, x \in 1..4 : c[y][x] \in Int
      BY DEF Matrix4
    <3> QED
      BY <3>1, <3>2
  <2>2. \A y, x \in 1..4 : input.predicted[i][y][x] \in 0..255
    BY ONLY <1>1, Kinds, i \in 1..Count
  <2>3. \A y, x \in 1..4 : RightShift(m_blocks[i][y][x] + input.predicted[i][y][x] * 2^6, 6)
                             = input.predicted[i][y][x] + (m_blocks[i][y][x] + 32) \div 64
    BY <2>1, <2>2, RoundingsAgree
  <2>4. ReceivedSamples(i) =
          [y \in 1..4 |-> [x \in 1..4 |->
             Clamp(input.predicted[i][y][x] + (m_blocks[i][y][x] + 32) \div 64)]]
    BY <1>5 DEF ReceivedSamples
  <2>5. /\ s(i) = [y \in 1..4 |-> [x \in 1..4 |-> Clamp(u(y, x))]]
        /\ ReceivedSamples(i) = [y \in 1..4 |-> [x \in 1..4 |-> Clamp(v(y, x))]]
        /\ \A y, x \in 1..4 : u(y, x) = v(y, x)
    BY <2>3, <2>4
  <2> HIDE DEF s, u, v
  <2> QED
    BY <2>5
<1> HIDE DEF s
<1>6. BlockType'
  BY <1>1, <1>2, <1>3 DEF BlockType
<1>7. SizesInv'
  BY <1>1, <1>2 DEF SizesInv
<1>8. Agreed => \A i \in 1..Count : m_reconstructed'[i] = ReceivedSamples(i)
  BY <1>1, <1>4, <1>5 DEF IInv, ReceivedInv
<1>9. \A i : ReceivedSamples(i)' = ReceivedSamples(i)
  BY <1>1, <1>2 DEF ReceivedSamples
<1>10. SamplesAreReceivers'
  BY <1>1, <1>2, <1>4, <1>8, <1>9 DEF SamplesAreReceivers, Agreed
<1>11. ReceivedInv'
  BY <1>1, <1>2, <1>4, <1>10 DEF ReceivedInv
<1> QED
  BY <1>2, <1>6, <1>7, <1>11 DEF IInv

LEMMA Kept ==
  ASSUME IInv, [Next]_vars
  PROVE  IInv'
<1>1. CASE UNCHANGED vars
  <2> USE <1>1 DEF vars
  <2>1. InputType' /\ BlockType'
    BY DEF IInv, InputType, BlockType, Count
  <2>2. SizesInv'
    <3>1. LevelsFitEscape'
      BY DEF IInv, SizesInv, LevelsFitEscape, Magnitude, EscapeLimit
    <3>2. (pc = "transform" => \A i \in 1..Count : \A y \in 1..4 : RowWithin(m_blocks[i][y], 255))'
      BY DEF IInv, SizesInv, Count
    <3>3. (pc = "quantize" => DCType(m_dc_block) /\ DCWithin(m_dc_block))'
      <4>1. pc = "quantize" => DCType(m_dc_block) /\ DCWithin(m_dc_block)
        BY DEF IInv, SizesInv
      <4>2. DCType(m_dc_block)' = DCType(m_dc_block) /\ DCWithin(m_dc_block)' = DCWithin(m_dc_block)
        BY DEF DCType, DCWithin
      <4> QED
        BY <4>1, <4>2
    <3>4. (pc = "quantize" => \A i \in 1..Count : CoefficientsWithin(m_blocks[i]))'
      BY DEF IInv, SizesInv, Count
    <3> QED
      BY <3>1, <3>2, <3>3, <3>4 DEF SizesInv
  <2>3. LevelsInv'
    BY DEF IInv, LevelsInv, Quantised, Count, DCType
  <2>4. ReceivedInv'
    <3>1. CASE Quantised
      <4>1. Quantised' /\ \A i : ReceivedCoefficients(i)' = ReceivedCoefficients(i)
        BY <3>1, LevelsKept DEF Quantised
      <4>2. \A i : ReceivedSamples(i)' = ReceivedSamples(i)
        BY <4>1 DEF ReceivedSamples
      <4>3. SamplesAreReceivers'
        BY <4>2 DEF IInv, ReceivedInv, SamplesAreReceivers
      <4> QED
        BY <4>1, <4>3 DEF IInv, ReceivedInv, Agreed, Count
    <3>2. CASE ~Quantised
      BY <3>2 DEF Quantised, ReceivedInv, SamplesAreReceivers
    <3> QED
      BY <3>1, <3>2
  <2> QED
    BY <2>1, <2>2, <2>3, <2>4 DEF IInv
<1> QED
  BY <1>1, TransformKeeps, QuantizeKeeps, InverseQuantizeKeeps, InverseTransformKeeps, ReconstructKeeps DEF Next

LEMMA Invariant == Spec => []IInv
<1> QED
  BY Initially, Kept, PTL DEF Spec

\* The samples the encoder filters and predicts from are those a receiver
\* reconstructs from the levels, for every block, prediction and parameter
\* outside the two ranges of chroma where the encoder is known to differ.
THEOREM SamplesReceived == Spec => []SamplesAreReceivers
<1>1. IInv => SamplesAreReceivers
  BY DEF IInv, ReceivedInv
<1> QED
  BY <1>1, Invariant, PTL

\* No level exceeds what the escape of the entropy coder can say, for every
\* block and prediction and every parameter the property is stated for.
THEOREM LevelsFit == Spec => []LevelsFitEscape
<1>1. IInv => LevelsFitEscape
  BY DEF IInv, SizesInv
<1> QED
  BY <1>1, Invariant, PTL

-----------------------------------------------------------------------------
(* How far the samples are from the original.                              *)

CoefficientsDC == TransformedDC(DCOf(Coefficients))

ResidualNear(n, b) == \A y, x \in 1..4 : ValueNear(n[y][x], b[y][x])

\* What the blocks are of the residual, or how near to it.
ErrorInv ==
  /\ pc = "transform"         => \A i \in 1..Count : m_blocks[i] = Residual(i)
  /\ pc = "quantize"          => m_blocks = Coefficients /\ m_dc_block = CoefficientsDC
  /\ pc = "inverse_quantize"  => /\ \A i \in 1..Count : m_blocks[i] = Levels(i)
                                 /\ m_dc_block = QuantizeDC(CoefficientsDC)
  /\ pc = "inverse_transform" => \A i \in 1..Count : CoefficientsNear(m_blocks[i], Residual(i))
  /\ pc = "reconstruct"       => \A i \in 1..Count : ResidualNear(m_blocks[i], Residual(i))
  /\ ErrorWithinStep

\* The input and the parameters stay what they are, and so all that is made of
\* them.
LEMMA ResidualsKept ==
  ASSUME UNCHANGED <<input, qp, is_intra>>
  PROVE  /\ Count' = Count /\ Coefficients' = Coefficients /\ CoefficientsDC' = CoefficientsDC
         /\ \A i : Residual(i)' = Residual(i)
         /\ \A i : Levels(i)' = Levels(i)
         /\ QuantizeDC(CoefficientsDC)' = QuantizeDC(CoefficientsDC)
         /\ DCScale' = DCScale /\ MixedScale' = MixedScale /\ OddScale' = OddScale /\ Step' = Step
<1>1. input' = input /\ qp' = qp /\ is_intra' = is_intra
  OBVIOUS
<1>2. Count' = Count
  BY <1>1 DEF Count
<1>3. \A i : Residual(i)' = Residual(i)
  BY <1>1 DEF Residual
<1>4. Coefficients' = Coefficients
  BY <1>2, <1>3 DEF Coefficients
<1>5. DCSide' = DCSide
  BY <1>1 DEF DCSide
<1>6. CoefficientsDC' = CoefficientsDC
  <2>1. \A b : DCOf(b)' = DCOf(b)
    BY <1>5 DEF DCOf
  <2>2. DCOf(Coefficients)' = DCOf(Coefficients)
    BY <1>4, <1>5 DEF DCOf
  <2> QED
    BY <1>1, <2>2 DEF CoefficientsDC, TransformedDC
<1>7. \A matrix, x, y : At(matrix, x, y)' = At(matrix, x, y)
  BY <1>1 DEF At
<1>8. QBits' = QBits /\ QOffset' = QOffset
  BY <1>1 DEF QBits, QOffset
<1>9. \A i : Levels(i)' = Levels(i)
  BY <1>1, <1>4, <1>7, <1>8 DEF Levels, QuantizeNormal, QuantizeAC, At
<1>10. QuantizeDC(CoefficientsDC)' = QuantizeDC(CoefficientsDC)
  BY <1>1, <1>6, <1>8 DEF QuantizeDC, Each, At
<1>11. DCScale' = DCScale /\ MixedScale' = MixedScale /\ OddScale' = OddScale /\ Step' = Step
  BY <1>1 DEF DCScale, MixedScale, OddScale, Step, Unit, At
<1> QED
  BY <1>2, <1>3, <1>4, <1>6, <1>9, <1>10, <1>11

LEMMA ErrorInitially ==
  ASSUME Init
  PROVE  ErrorInv
<1>1. InputType
  BY Initially DEF IInv
<1>2. pc = "transform" /\ m_blocks = [i \in DOMAIN input.original |-> Residual(i)]
  BY DEF Init, Residual
<1>3. m_blocks = [i \in 1..Count |-> Residual(i)]
  BY <1>1, <1>2, Kinds
<1> QED
  BY <1>2, <1>3 DEF ErrorInv, ErrorWithinStep

LEMMA TransformNear ==
  ASSUME IInv, ErrorInv, TransformBlocks
  PROVE  ErrorInv'
<1>1. pc = "transform" /\ pc' = "quantize" /\ UNCHANGED <<input, qp, is_intra>>
  BY DEF TransformBlocks
<1>2. DOMAIN m_blocks = 1..Count /\ \A i \in 1..Count : m_blocks[i] = Residual(i)
  BY <1>1 DEF IInv, BlockType, ErrorInv
<1>3. Coefficients = [i \in DOMAIN m_blocks |-> DCT(m_blocks[i])]
  BY <1>2 DEF Coefficients
<1>4. m_blocks' = Coefficients /\ m_dc_block' = CoefficientsDC
  BY <1>3 DEF TransformBlocks, CoefficientsDC, TransformedDC
<1>5. Coefficients' = Coefficients /\ CoefficientsDC' = CoefficientsDC
  BY <1>1, ResidualsKept
<1> QED
  BY <1>1, <1>4, <1>5 DEF ErrorInv, ErrorWithinStep

LEMMA QuantizeNear ==
  ASSUME IInv, ErrorInv, Quantize
  PROVE  ErrorInv'
<1>1. pc = "quantize" /\ pc' = "inverse_quantize" /\ UNCHANGED <<input, qp, is_intra>>
  BY DEF Quantize
<1>2. m_blocks = Coefficients /\ m_dc_block = CoefficientsDC
  BY <1>1 DEF ErrorInv
<1>3. m_blocks' = [i \in 1..Count |-> Levels(i)]
  BY <1>2 DEF Quantize, Levels, Coefficients
<1>4. m_dc_block' = QuantizeDC(CoefficientsDC)
  BY <1>2 DEF Quantize
<1>5. /\ Count' = Count /\ QuantizeDC(CoefficientsDC)' = QuantizeDC(CoefficientsDC)
      /\ \A i : Levels(i)' = Levels(i)
  BY <1>1, ResidualsKept
<1>6. (\A i \in 1..Count : m_blocks[i] = Levels(i))'
  BY <1>3, <1>5
<1>7. (m_dc_block = QuantizeDC(CoefficientsDC))'
  BY <1>4, <1>5
<1> QED
  BY <1>1, <1>6, <1>7 DEF ErrorInv, ErrorWithinStep

LEMMA InverseQuantizeNear ==
  ASSUME IInv, ErrorInv, InverseQuantize
  PROVE  ErrorInv'
<1>1. pc = "inverse_quantize" /\ pc' = "inverse_transform" /\ UNCHANGED <<input, qp, is_intra>> /\ InputType
  BY DEF InverseQuantize, IInv
<1>2. /\ DOMAIN m_blocks = 1..Count /\ \A i \in 1..Count : m_blocks[i] = Levels(i)
      /\ m_dc_block = QuantizeDC(CoefficientsDC)
  BY <1>1 DEF IInv, BlockType, ErrorInv
<1>3. m_dc_block' = FinalDC
  BY <1>2 DEF InverseQuantize, FinalDC, RestoredDC, CoefficientsDC
<1>4. m_blocks' = [i \in 1..Count |-> Restored(Levels(i), FinalDC, i)]
  BY <1>2, <1>3 DEF InverseQuantize, Restored
<1>5. m_blocks' \in [1..Count -> Matrix4]
  <2>1. IInv' /\ Count' = Count
    BY <1>1, InverseQuantizeKeeps, ResidualsKept
  <2> QED
    BY <2>1 DEF IInv, BlockType
<1>6. \A i \in 1..Count : m_blocks'[i] \in Matrix4 /\ m_blocks'[i] = Restored(Levels(i), FinalDC, i)
  BY <1>4, <1>5
<1>7. \A i \in 1..Count : CoefficientsNear(m_blocks'[i], Residual(i))
  BY <1>1, <1>6, RestoredNear
<1>8. /\ Count' = Count /\ DCScale' = DCScale /\ MixedScale' = MixedScale /\ OddScale' = OddScale
      /\ \A i : Residual(i)' = Residual(i)
  BY <1>1, ResidualsKept
<1>9. (\A i \in 1..Count : CoefficientsNear(m_blocks[i], Residual(i)))'
  BY <1>7, <1>8 DEF CoefficientsNear
<1> QED
  BY <1>1, <1>9 DEF ErrorInv, ErrorWithinStep

LEMMA InverseTransformNear ==
  ASSUME IInv, ErrorInv, InverseTransform
  PROVE  ErrorInv'
<1>1. pc = "inverse_transform" /\ pc' = "reconstruct" /\ UNCHANGED <<input, qp, is_intra>> /\ InputType
  BY DEF InverseTransform, IInv
<1>2. /\ m_blocks \in [1..Count -> Matrix4]
      /\ \A i \in 1..Count : CoefficientsNear(m_blocks[i], Residual(i))
  BY <1>1 DEF IInv, BlockType, ErrorInv
<1>3. m_blocks' = [i \in 1..Count |-> InverseDCT(m_blocks[i])]
  BY <1>2 DEF InverseTransform
<1>4. ASSUME NEW i \in 1..Count
      PROVE  ResidualNear(InverseDCT(m_blocks[i]), Residual(i))
  <2>1. PICK b \in Matrix4 : b = Residual(i)
    BY <1>1, Residuals
  <2>2. PICK n \in Matrix4 : n = m_blocks[i]
    BY <1>2
  <2>3. CoefficientsNear(n, b)
    BY <1>2, <2>1, <2>2
  <2>4. \A y, x \in 1..4 : ValueNear(InverseDCT(n)[y][x], b[y][x])
    BY <1>1, <2>3, BlockError
  <2> QED
    BY <2>1, <2>2, <2>4 DEF ResidualNear
<1>5. Count' = Count /\ Step' = Step /\ \A i : Residual(i)' = Residual(i)
  BY <1>1, ResidualsKept
<1>6. \A i \in 1..Count : ResidualNear(m_blocks'[i], Residual(i))
  BY <1>3, <1>4
<1>7. (\A i \in 1..Count : ResidualNear(m_blocks[i], Residual(i)))'
  BY <1>5, <1>6 DEF ResidualNear, ValueNear
<1> QED
  BY <1>1, <1>7 DEF ErrorInv, ErrorWithinStep

LEMMA ReconstructNear ==
  ASSUME IInv, ErrorInv, Reconstruct
  PROVE  ErrorInv'
<1>1. pc = "reconstruct" /\ pc' = "done" /\ UNCHANGED <<input, qp, is_intra>> /\ InputType
  BY DEF Reconstruct, IInv
<1>2. /\ m_blocks \in [1..Count -> Matrix4]
      /\ \A i \in 1..Count : ResidualNear(m_blocks[i], Residual(i))
  BY <1>1 DEF IInv, BlockType, ErrorInv
<1>3. m_reconstructed' = [i \in 1..Count |-> [y \in 1..4 |-> [x \in 1..4 |->
        Clamp(RightShift(m_blocks[i][y][x] + input.predicted[i][y][x] * 2^6, 6))]]]
  BY <1>2 DEF Reconstruct
<1>4. ASSUME NEW i \in 1..Count, NEW y \in 1..4, NEW x \in 1..4
      PROVE  Magnitude(m_reconstructed'[i][y][x] - input.original[i][y][x]) <= 4 * Step + 1
  <2>1. PICK a \in 0..255, p \in 0..255 : a = input.original[i][y][x] /\ p = input.predicted[i][y][x]
    BY <1>1, Kinds
  <2>2. PICK v \in Int : v = m_blocks[i][y][x]
    <3>1. m_blocks[i] \in Matrix4
      BY <1>2
    <3> QED
      BY <3>1 DEF Matrix4
  <2>3. Residual(i)[y][x] = a - p
    BY <2>1 DEF Residual, Difference
  <2>4. ValueNear(v, a - p)
    BY <1>2, <2>2, <2>3 DEF ResidualNear
  <2>5. SampleNear(a, p, v)
    BY ONLY <1>1, <2>4, SampleError, a \in 0..255, p \in 0..255, v \in Int
  <2>6. m_reconstructed'[i][y][x] = Clamp(RightShift(v + p * 2^6, 6))
    BY <1>3, <2>1, <2>2
  <2> QED
    BY <2>1, <2>5, <2>6 DEF SampleNear
<1>5. Count' = Count /\ Step' = Step /\ input' = input /\ DOMAIN m_reconstructed' = 1..Count
  BY <1>1, <1>3, ResidualsKept
<1>6. ErrorWithinStep'
  BY <1>4, <1>5 DEF ErrorWithinStep, Magnitude
<1> QED
  BY <1>1, <1>6 DEF ErrorInv

LEMMA ErrorKept ==
  ASSUME IInv, ErrorInv, [Next]_vars
  PROVE  ErrorInv'
<1>1. CASE UNCHANGED vars
  <2>1. UNCHANGED <<input, qp, is_intra>> /\ pc' = pc /\ m_blocks' = m_blocks /\ m_dc_block' = m_dc_block
        /\ m_reconstructed' = m_reconstructed
    BY <1>1 DEF vars
  <2>2. /\ Count' = Count /\ Coefficients' = Coefficients /\ CoefficientsDC' = CoefficientsDC
        /\ QuantizeDC(CoefficientsDC)' = QuantizeDC(CoefficientsDC)
        /\ \A i : Residual(i)' = Residual(i)
        /\ \A i : Levels(i)' = Levels(i)
        /\ DCScale' = DCScale /\ MixedScale' = MixedScale /\ OddScale' = OddScale /\ Step' = Step
    BY <2>1, ResidualsKept
  <2>3. ErrorWithinStep'
    BY <2>1, <2>2 DEF ErrorInv, ErrorWithinStep, Magnitude
  <2>4. (pc = "inverse_transform" => \A i \in 1..Count : CoefficientsNear(m_blocks[i], Residual(i)))'
    BY <2>1, <2>2 DEF ErrorInv, CoefficientsNear
  <2>5. (pc = "reconstruct" => \A i \in 1..Count : ResidualNear(m_blocks[i], Residual(i)))'
    BY <2>1, <2>2 DEF ErrorInv, ResidualNear, ValueNear
  <2> QED
    BY <2>1, <2>2, <2>3, <2>4, <2>5 DEF ErrorInv
<1> QED
  BY <1>1, TransformNear, QuantizeNear, InverseQuantizeNear, InverseTransformNear, ReconstructNear DEF Next

LEMMA ErrorInvariant == Spec => [](IInv /\ ErrorInv)
<1>1. Init => IInv /\ ErrorInv
  BY Initially, ErrorInitially
<1>2. IInv /\ ErrorInv /\ [Next]_vars => IInv' /\ ErrorInv'
  BY Kept, ErrorKept
<1> QED
  BY <1>1, <1>2, PTL DEF Spec

\* No sample is further from the original than four quantiser steps and one,
\* for every block, prediction and parameter.
THEOREM ErrorBounded == Spec => []ErrorWithinStep
<1>1. IInv /\ ErrorInv => ErrorWithinStep
  BY DEF ErrorInv
<1> QED
  BY <1>1, ErrorInvariant, PTL

=============================================================================
