----------------------- MODULE InterPredictionProofs -----------------------
(***************************************************************************)
(* Proofs about InterPrediction with the list of types the program tries,  *)
(* for every size of the picture, every list of search offsets and all     *)
(* costs: a receiver recovers the motion of every macroblock, vectors stay *)
(* within the level, reads within the planes, and the samples searched,    *)
(* predicted, subtracted and received are the same.                        *)
(***************************************************************************)
EXTENDS InterPrediction, SequenceTheorems, FiniteSetTheorems, TLAPS

-----------------------------------------------------------------------------
(* One direction of a plane.                                               *)

\* A clamped place is inside.
LEMMA ClampInside ==
  ASSUME NEW size \in Nat \ {0}, NEW v \in Int
  PROVE  /\ Clamp(v, <<0, size - 1>>) \in 0..(size - 1)
         /\ v \in 0..(size - 1) => Clamp(v, <<0, size - 1>>) = v
  BY DEF Clamp

\* The next place, clamped.
LEMMA ClampNext ==
  ASSUME NEW size \in Nat \ {0}, NEW v \in Int
  PROVE  Clamp(v + 1, <<0, size - 1>>) =
           IF v >= 0 /\ v < size - 1 THEN Clamp(v, <<0, size - 1>>) + 1 ELSE Clamp(v, <<0, size - 1>>)
  BY DEF Clamp

\* The equation a walking pointer satisfies.
Follows(walk, start, i, size) ==
  walk = [n \in 0..i |->
            IF n = 0 THEN Clamp(start, <<0, size - 1>>)
            ELSE IF start + n - 1 >= 0 /\ start + n - 1 < size - 1 THEN walk[n - 1] + 1 ELSE walk[n - 1]]

\* A pointer that walks is where the clamped place is.
LEMMA WalkIsClamp ==
  ASSUME NEW size \in Nat \ {0}, NEW start \in Int, NEW i \in 0..15
  PROVE  SADPointer(start, i, size) = ObtainData(start, i, size)
  <1> DEFINE place == [n \in 0..i |-> Clamp(start + n, <<0, size - 1>>)]
             walk == CHOOSE walk : Follows(walk, start, i, size)
             At(n) == n <= i => walk[n] = Clamp(start + n, <<0, size - 1>>)
  <1>1. SADPointer(start, i, size) = walk[i]
    BY DEF SADPointer, Follows
  <1>2. ASSUME NEW n \in 0..i, n # 0
        PROVE  place[n] = IF start + n - 1 >= 0 /\ start + n - 1 < size - 1 THEN place[n - 1] + 1
                                                                          ELSE place[n - 1]
    <2>1. n - 1 \in 0..i /\ start + (n - 1) = start + n - 1 /\ start + n - 1 \in Int
          /\ (start + n - 1) + 1 = start + n
      BY <1>2
    <2>2. place[n] = Clamp(start + n, <<0, size - 1>>) /\ place[n - 1] = Clamp(start + n - 1, <<0, size - 1>>)
      BY <2>1
    <2> HIDE DEF place
    <2> QED
      BY <2>1, <2>2, ClampNext
  <1>3. Follows(place, start, i, size)
    <2>1. 0 \in 0..i => place[0] = Clamp(start, <<0, size - 1>>)
      BY DEF place
    <2>2. place = [n \in 0..i |-> place[n]]
      OBVIOUS
    <2> HIDE DEF place
    <2> QED
      BY <1>2, <2>1, <2>2 DEF Follows
  <1> HIDE DEF place
  <1>4. Follows(walk, start, i, size)
    BY <1>3
  <1> HIDE DEF walk
  <1>5. At(0)
    BY <1>4 DEF Follows
  <1>6. ASSUME NEW n \in 0..14, At(n)
        PROVE  At(n + 1)
    <2> SUFFICES ASSUME n + 1 <= i
                 PROVE  walk[n + 1] = Clamp(start + (n + 1), <<0, size - 1>>)
      OBVIOUS
    <2>1. walk[n] = Clamp(start + n, <<0, size - 1>>)
      BY <1>6
    <2>2. n + 1 \in 0..i /\ n + 1 # 0 /\ (n + 1) - 1 = n /\ start + (n + 1) - 1 = start + n
          /\ (start + n) + 1 = start + (n + 1)
      OBVIOUS
    <2>3. walk[n + 1] = IF start + n >= 0 /\ start + n < size - 1 THEN walk[n] + 1 ELSE walk[n]
      BY <1>4, <2>2 DEF Follows
    <2> QED
      BY <2>1, <2>2, <2>3, ClampNext
  <1> HIDE DEF At
  <1>7. At(i)
    <2>1. At(0) /\ At(1) /\ At(2) /\ At(3) /\ At(4) /\ At(5) /\ At(6) /\ At(7)
      BY <1>5, <1>6
    <2>2. At(8) /\ At(9) /\ At(10) /\ At(11) /\ At(12) /\ At(13) /\ At(14) /\ At(15)
      BY <1>6, <2>1
    <2> QED
      BY <2>1, <2>2
  <1> QED
    BY <1>1, <1>7 DEF At, ObtainData

\* Of whole vectors the division is the receiver's.
LEMMA WholeVector ==
  ASSUME NEW c \in Int
  PROVE  Quotient(c, 4) \in Int /\ (c % 4 = 0 => Quotient(c, 4) = c \div 4)
  BY DEF Quotient

\* The second sample of an interpolation is inside the plane, or not looked at.
LEMMA TapsInside ==
  ASSUME NEW size \in Nat \ {0}, NEW start \in Int, NEW i \in Nat
  PROVE  \A tap \in InterpolateChroma(start, i, size) : tap[1] \in 0..(size - 1)
  <1> DEFINE x == Clamp(start + i * 8, <<0, (size - 1) * 8>>)
  <1>1. x \in Int /\ 0 <= x /\ x <= (size - 1) * 8
    BY DEF Clamp
  <1> HIDE DEF x
  <1>2. CASE x % 8 = 0
    BY <1>1, <1>2 DEF InterpolateChroma, Taps, x
  <1>3. CASE x % 8 # 0
    <2>1. x \div 8 \in 0..(size - 1) /\ (x \div 8) + 1 \in 0..(size - 1)
      BY <1>1, <1>3
    <2>2. InterpolateChroma(start, i, size) = {<<x \div 8, 8 - (x % 8)>>, <<(x \div 8) + 1, x % 8>>}
      BY <1>3 DEF InterpolateChroma, Taps, x
    <2> QED
      BY <2>1, <2>2
  <1> QED
    BY <1>2, <1>3

\* Both interpolations where the block does not start before the plane.
LEMMA ChromaAgrees ==
  ASSUME NEW size \in Nat \ {0}, NEW mb \in Nat, NEW component \in Int, NEW k \in 0..7,
         4 * (16 * mb + 4 * (k \div 2)) + component >= 0
  PROVE  InterpolateChroma(Start(16 * mb + 4 * (k \div 2), component, size), k % 2, size)
           = ReceiverChroma(16 * mb, component, k, size)
  <1> DEFINE q == 4 * (16 * mb + 4 * (k \div 2)) + component
             e == q + (k % 2) * 8
             last == (size - 1) * 8
             x == Clamp(Start(16 * mb + 4 * (k \div 2), component, size) + (k % 2) * 8, <<0, last>>)
             whole == ((16 * mb) \div 2) + (component \div 8) + k
  <1>1. q \in Nat /\ e \in Nat /\ last \in Nat /\ k % 2 \in 0..1
    OBVIOUS
  <1>2. x = IF e < last THEN e ELSE last
    BY <1>1 DEF Start, Clamp
  <1>3. whole = e \div 8 /\ component % 8 = e % 8
    <2>1. e = 8 * (8 * mb + k) + component
      OBVIOUS
    <2>2. (16 * mb) \div 2 = 8 * mb
      OBVIOUS
    <2> HIDE DEF e
    <2> QED
      BY <2>1, <2>2
  <1> HIDE DEF q, e, x, whole
  <1>4. CASE e < last
    <2>1. whole \in 0..(size - 1) /\ whole + 1 \in 0..(size - 1) /\ x = e
      BY <1>1, <1>2, <1>3, <1>4
    <2>2. Clamp(whole, <<0, size - 1>>) = whole /\ Clamp(whole + 1, <<0, size - 1>>) = whole + 1
      BY <2>1, ClampInside
    <2>3. ReceiverChroma(16 * mb, component, k, size)
            = IF component % 8 = 0 THEN {<<whole, 8>>}
              ELSE {<<whole, 8 - (component % 8)>>, <<whole + 1, component % 8>>}
      <3> DEFINE near == Clamp(whole, <<0, size - 1>>)
                 far == Clamp(whole + 1, <<0, size - 1>>)
                 weight == component % 8
      <3>1. ReceiverChroma(16 * mb, component, k, size)
              = IF near = far \/ weight = 0 THEN {<<near, 8>>} ELSE {<<near, 8 - weight>>, <<far, weight>>}
        BY Zenon DEF ReceiverChroma, whole
      <3>2. near = whole /\ far = whole + 1 /\ near # far
        BY <2>1, <2>2
      <3> HIDE DEF near, far
      <3> QED
        BY <3>1, <3>2
    <2> QED
      BY <1>3, <2>1, <2>3 DEF InterpolateChroma, Taps, x
  <1>5. CASE ~(e < last)
    <2>1. whole >= size - 1 /\ whole \in Int /\ x = last /\ last % 8 = 0 /\ last \div 8 = size - 1
      BY <1>1, <1>2, <1>3, <1>5
    <2>2. Clamp(whole, <<0, size - 1>>) = size - 1 /\ Clamp(whole + 1, <<0, size - 1>>) = size - 1
      BY <2>1 DEF Clamp
    <2>3. ReceiverChroma(16 * mb, component, k, size) = {<<size - 1, 8>>}
      BY <2>2 DEF ReceiverChroma, whole
    <2> QED
      BY <2>1, <2>3 DEF InterpolateChroma, Taps, x
  <1> QED
    BY <1>4, <1>5

-----------------------------------------------------------------------------
(* Blocks and macroblocks.                                                 *)

\* Places in a plane of size by rows, as numbers.
LEMMA PlaceInPlane ==
  ASSUME NEW size \in Nat \ {0}, NEW rows \in Nat, NEW x \in 0..(size - 1), NEW y \in 0..(rows - 1)
  PROVE  x + y * size \in 0..(size * rows - 1)
  <1>1. y * size \in Nat /\ (rows - 1) * size \in Nat /\ (rows - 1) * size = size * rows - size
    OBVIOUS
  <1>2. y * size <= (rows - 1) * size
    <2>1. (rows - 1) * size = y * size + ((rows - 1) - y) * size /\ ((rows - 1) - y) * size >= 0
      OBVIOUS
    <2> QED
      BY <1>1, <2>1
  <1> QED
    BY <1>1, <1>2

\* Different places have different numbers.
LEMMA PlacesDiffer ==
  ASSUME NEW size \in Nat \ {0}, NEW x \in 0..(size - 1), NEW u \in 0..(size - 1),
         NEW y \in Nat, NEW v \in Nat, x + y * size = u + v * size
  PROVE  x = u /\ y = v
  <1>1. y * size \in Nat /\ v * size \in Nat
    OBVIOUS
  <1>2. ASSUME y < v
        PROVE  FALSE
    <2>1. v * size = y * size + (v - y) * size /\ (v - y) * size >= size
      BY <1>2
    <2> QED
      BY <1>1, <2>1
  <1>3. ASSUME v < y
        PROVE  FALSE
    <2>1. y * size = v * size + (y - v) * size /\ (y - v) * size >= size
      BY <1>3
    <2> QED
      BY <1>1, <2>1
  <1> QED
    BY <1>1, <1>2, <1>3

\* Macroblocks by address, and their place.
MBs == 0..(mb_num - 1)

Column(a) == a % m_width_in_mb

Row(a) == a \div m_width_in_mb

\* The row and the column of a macroblock.
LEMMA Address ==
  ASSUME NEW a \in MBs
  PROVE  /\ Column(a) \in 0..(m_width_in_mb - 1) /\ Row(a) \in 0..(m_height_in_mb - 1)
         /\ a = Column(a) + Row(a) * m_width_in_mb
         /\ MBPosition(a) = [x |-> 4 * Column(a), y |-> 4 * Row(a)]
  <1>1. m_width_in_mb \in Nat \ {0} /\ m_height_in_mb \in Nat \ {0} /\ mb_num = m_width_in_mb * m_height_in_mb
        /\ mb_num \in Nat
    BY SizeAssumption DEF mb_num
  <1>2. /\ a \in Nat /\ a < m_width_in_mb * m_height_in_mb
        /\ Column(a) \in 0..(m_width_in_mb - 1) /\ Row(a) \in Nat
        /\ a = Column(a) + Row(a) * m_width_in_mb
    BY <1>1 DEF MBs, Column, Row
  <1>3. Row(a) < m_height_in_mb
    <2> SUFFICES ASSUME Row(a) >= m_height_in_mb
                 PROVE  FALSE
      BY <1>1, <1>2
    <2>1. Row(a) * m_width_in_mb = m_height_in_mb * m_width_in_mb + (Row(a) - m_height_in_mb) * m_width_in_mb
          /\ (Row(a) - m_height_in_mb) * m_width_in_mb >= 0
      BY <1>1, <1>2
    <2> QED
      BY <1>1, <1>2, <2>1
  <1>4. MBPosition(a) = [x |-> 4 * Column(a), y |-> 4 * Row(a)]
    BY DEF MBPosition, Column, Row
  <1> QED
    BY <1>1, <1>2, <1>3, <1>4

\* The macroblock at a place.
LEMMA Located ==
  ASSUME NEW x \in 0..(m_width_in_mb - 1), NEW y \in 0..(m_height_in_mb - 1)
  PROVE  /\ x + y * m_width_in_mb \in MBs
         /\ Column(x + y * m_width_in_mb) = x /\ Row(x + y * m_width_in_mb) = y
  <1>1. m_width_in_mb \in Nat \ {0} /\ m_height_in_mb \in Nat \ {0}
    BY SizeAssumption
  <1> DEFINE a == x + y * m_width_in_mb
  <1>2. a \in MBs
    BY <1>1, PlaceInPlane DEF MBs, mb_num
  <1> HIDE DEF a
  <1>3. /\ Column(a) \in 0..(m_width_in_mb - 1) /\ Row(a) \in Nat
        /\ a = Column(a) + Row(a) * m_width_in_mb
    BY <1>2, Address
  <1>4. Column(a) = x /\ Row(a) = y
    <2>1. y \in Nat /\ x + y * m_width_in_mb = Column(a) + Row(a) * m_width_in_mb
      BY <1>3 DEF a
    <2> QED
      BY <1>1, <1>3, <2>1, PlacesDiffer, SMTT(30)
  <1> QED
    BY <1>2, <1>4 DEF a

\* The blocks of a macroblock.
Blocks(a) == GetBlockIndices(a, P16x16)

\* They are four by four.
LEMMA BlocksByPlace ==
  ASSUME NEW a \in MBs
  PROVE  Blocks(a) = {GetBlockIndex(4 * Column(a) + j, 4 * Row(a) + i) : i \in 0..3, j \in 0..3}
  <1>1. MBPosition(a) = [x |-> 4 * Column(a), y |-> 4 * Row(a)] /\ Column(a) \in Nat /\ Row(a) \in Nat
    BY Address
  <1>2. PositionInBlock(a, P16x16) = [x |-> 4 * Column(a), y |-> 4 * Row(a)]
    BY <1>1 DEF PositionInBlock, P16x16
  <1>3. P16x16.w - 1 = 3 /\ P16x16.h - 1 = 3
    BY DEF P16x16
  <1> QED
    BY <1>2, <1>3 DEF Blocks, GetBlockIndices

\* One of them, and where it is.
LEMMA BlockAt ==
  ASSUME NEW a \in MBs, NEW i \in 0..3, NEW j \in 0..3
  PROVE  /\ GetBlockIndex(4 * Column(a) + j, 4 * Row(a) + i) \in Blocks(a)
         /\ 4 * Column(a) + j \in 0..(frame_width_in_block - 1)
         /\ 4 * Row(a) + i \in 0..(4 * m_height_in_mb - 1)
  <1>1. Blocks(a) = {GetBlockIndex(4 * Column(a) + jj, 4 * Row(a) + ii) : ii \in 0..3, jj \in 0..3}
    BY BlocksByPlace
  <1>2. Column(a) \in 0..(m_width_in_mb - 1) /\ Row(a) \in 0..(m_height_in_mb - 1)
        /\ m_width_in_mb \in Nat /\ m_height_in_mb \in Nat
    BY Address, SizeAssumption
  <1> QED
    BY <1>1, <1>2 DEF frame_width_in_block

\* They are in the map.
LEMMA BlocksInPicture ==
  ASSUME NEW a \in MBs
  PROVE  Blocks(a) \subseteq BlockIndices
  <1> SUFFICES ASSUME NEW i \in 0..3, NEW j \in 0..3
               PROVE  GetBlockIndex(4 * Column(a) + j, 4 * Row(a) + i) \in BlockIndices
    BY BlocksByPlace
  <1> DEFINE x == 4 * Column(a) + j
             y == 4 * Row(a) + i
             size == frame_width_in_block
             rows == 4 * m_height_in_mb
  <1>1. x \in 0..(size - 1) /\ y \in 0..(rows - 1)
    BY BlockAt
  <1>2. size \in Nat \ {0} /\ rows \in Nat /\ size * rows = 16 * m_width_in_mb * m_height_in_mb
    BY SizeAssumption DEF frame_width_in_block
  <1> HIDE DEF x, y, size, rows
  <1>3. x + y * size \in 0..(size * rows - 1)
    BY <1>1, <1>2, PlaceInPlane
  <1> QED
    BY <1>2, <1>3 DEF GetBlockIndex, BlockIndices, x, y, size

\* Macroblocks do not share blocks.
LEMMA BlocksApart ==
  ASSUME NEW a \in MBs, NEW c \in MBs, a # c
  PROVE  Blocks(a) \cap Blocks(c) = {}
  <1> SUFFICES ASSUME NEW i \in 0..3, NEW j \in 0..3, NEW k \in 0..3, NEW l \in 0..3,
                      GetBlockIndex(4 * Column(a) + j, 4 * Row(a) + i)
                        = GetBlockIndex(4 * Column(c) + l, 4 * Row(c) + k)
               PROVE  FALSE
    BY BlocksByPlace
  <1> DEFINE x == 4 * Column(a) + j
             y == 4 * Row(a) + i
             u == 4 * Column(c) + l
             v == 4 * Row(c) + k
             size == frame_width_in_block
  <1>1. x \in 0..(size - 1) /\ u \in 0..(size - 1) /\ y \in Nat /\ v \in Nat
    <2>1. m_height_in_mb \in Nat
      BY SizeAssumption
    <2> QED
      BY <2>1, BlockAt
  <1>2. size \in Nat \ {0}
    BY SizeAssumption DEF frame_width_in_block
  <1>3. x + y * size = u + v * size
    BY DEF GetBlockIndex
  <1>4. x = u /\ y = v
    <2> HIDE DEF x, y, u, v, size
    <2> QED
      BY <1>1, <1>2, <1>3, PlacesDiffer
  <1>5. Column(a) = Column(c) /\ Row(a) = Row(c)
    <2>1. Column(a) \in Nat /\ Row(a) \in Nat /\ Column(c) \in Nat /\ Row(c) \in Nat
      BY Address
    <2> QED
      BY <1>4, <2>1
  <1> QED
    BY <1>5, Address

\* A place before the macroblock, by rows, belongs to an earlier one.
Earlier(a, index) == \E c \in MBs : c < a /\ index \in Blocks(c)

\* The block left of the macroblock.
LEMMA LeftIsEarlier ==
  ASSUME NEW a \in MBs, Column(a) > 0
  PROVE  Earlier(a, GetBlockIndex(4 * Column(a) - 1, 4 * Row(a)))
  <1>1. /\ m_width_in_mb \in Nat /\ Column(a) \in 0..(m_width_in_mb - 1) /\ Row(a) \in 0..(m_height_in_mb - 1)
        /\ a = Column(a) + Row(a) * m_width_in_mb /\ m_height_in_mb \in Nat
    BY Address, SizeAssumption
  <1> DEFINE c == (Column(a) - 1) + Row(a) * m_width_in_mb
  <1>2. Column(a) - 1 \in 0..(m_width_in_mb - 1) /\ Row(a) * m_width_in_mb \in Nat
    BY <1>1
  <1>3. c \in MBs /\ Column(c) = Column(a) - 1 /\ Row(c) = Row(a)
    BY <1>1, <1>2, Located
  <1>4. c < a
    BY <1>1, <1>2
  <1> HIDE DEF c
  <1>5. GetBlockIndex(4 * Column(c) + 3, 4 * Row(c) + 0) \in Blocks(c)
    BY <1>3, BlockAt
  <1>6. 4 * Column(c) + 3 = 4 * Column(a) - 1 /\ 4 * Row(c) + 0 = 4 * Row(a)
    BY <1>1, <1>3
  <1> QED
    BY <1>3, <1>4, <1>5, <1>6 DEF Earlier

\* Of the row above: left of it, over it and right of it.
LEMMA AboveIsEarlier ==
  ASSUME NEW a \in MBs, Row(a) > 0, NEW column \in 0..(m_width_in_mb - 1), NEW j \in 0..3
  PROVE  Earlier(a, GetBlockIndex(4 * column + j, 4 * Row(a) - 1))
  <1>1. /\ m_width_in_mb \in Nat \ {0} /\ Column(a) \in 0..(m_width_in_mb - 1) /\ Row(a) \in 0..(m_height_in_mb - 1)
        /\ a = Column(a) + Row(a) * m_width_in_mb /\ m_height_in_mb \in Nat
    BY Address, SizeAssumption
  <1> DEFINE c == column + (Row(a) - 1) * m_width_in_mb
  <1>2. Row(a) - 1 \in 0..(m_height_in_mb - 1) /\ (Row(a) - 1) * m_width_in_mb \in Nat
        /\ (Row(a) - 1) * m_width_in_mb = Row(a) * m_width_in_mb - m_width_in_mb
        /\ Row(a) * m_width_in_mb \in Nat
    BY <1>1
  <1>3. c \in MBs /\ Column(c) = column /\ Row(c) = Row(a) - 1
    BY <1>1, <1>2, Located
  <1>4. c < a
    BY <1>1, <1>2
  <1> HIDE DEF c
  <1>5. GetBlockIndex(4 * Column(c) + j, 4 * Row(c) + 3) \in Blocks(c)
    BY <1>3, BlockAt
  <1>6. 4 * Row(c) + 3 = 4 * Row(a) - 1
    BY <1>1, <1>3
  <1> QED
    BY <1>3, <1>4, <1>5, <1>6 DEF Earlier

-----------------------------------------------------------------------------
(* The two predictions.                                                    *)

\* Motion of a block.
Motion == [ref_id : Nat, mv : Vector]

\* What a receiver knows of the macroblocks before the n-th is what the encoder has in its map.
Mirror(n, map, found) ==
  \A b \in BlockIndices : Earlier(n, b) => found[b] = map[b] /\ map[b] \in Motion

\* What has motion differs from what has none.
LEMMA NoMotionHasNone ==
  /\ NoMotion.ref_id = -1 /\ NoMotion.mv = Zero /\ Zero \in Vector
  /\ \A m \in Motion : m # NoMotion /\ m.ref_id \in Nat /\ m.mv \in Vector
  <1>1. NoMotion.ref_id = -1 /\ NoMotion.mv = Zero
    BY DEF NoMotion
  <1>2. Zero \in Vector
    BY DEF Zero, Vector
  <1>3. \A m \in Motion : m.ref_id \in Nat /\ m.mv \in Vector
    BY DEF Motion
  <1> QED
    BY <1>1, <1>2, <1>3

\* Of three neighbours left, above and above to one side.
Neighbours(a, b, c) ==
  /\ a \in Motion \cup {NoMotion} /\ b \in Motion \cup {NoMotion} /\ c \in Motion \cup {NoMotion}
  /\ b = NoMotion => c = NoMotion
  /\ c = NoMotion /\ b # NoMotion => a = NoMotion

\* The receiver's middle one of three numbers.
MiddleOf(s) ==
  CHOOSE v \in {s[1], s[2], s[3]} :
    \E i, j \in 1..3 : \E k \in 1..3 \ {i, j} : i # j /\ v = s[k] /\ s[i] <= v /\ v <= s[j]

\* It is the median.
LEMMA MiddleIsMedian ==
  ASSUME NEW s, DOMAIN s = 1..3, s[1] \in Int, s[2] \in Int, s[3] \in Int
  PROVE  MiddleOf(s) = Median(s[1], s[2], s[3])
  <1> DEFINE Is(v) == \E i, j \in 1..3 : \E k \in 1..3 \ {i, j} : i # j /\ v = s[k] /\ s[i] <= v /\ v <= s[j]
             m == Median(s[1], s[2], s[3])
  <1>1. m \in {s[1], s[2], s[3]} /\ Is(m)
    <2>1. ASSUME NEW i \in 1..3, NEW j \in 1..3, NEW k \in 1..3, i # j, k # i, k # j, s[i] <= s[k], s[k] <= s[j]
          PROVE  Is(s[k])
      BY <2>1
    <2> HIDE DEF Is
    <2>2. s[1] <= s[2] /\ s[2] <= s[3] => Is(s[2]) /\ m = s[2]
      BY <2>1 DEF Median
    <2>3. s[3] <= s[2] /\ s[2] <= s[1] => Is(s[2]) /\ m = s[2]
      BY <2>1 DEF Median
    <2>4. s[2] <= s[1] /\ s[1] <= s[3] => Is(s[1]) /\ m = s[1]
      BY <2>1 DEF Median
    <2>5. s[3] <= s[1] /\ s[1] <= s[2] => Is(s[1]) /\ m = s[1]
      BY <2>1 DEF Median
    <2>6. s[1] <= s[3] /\ s[3] <= s[2] => Is(s[3]) /\ m = s[3]
      BY <2>1 DEF Median
    <2>7. s[2] <= s[3] /\ s[3] <= s[1] => Is(s[3]) /\ m = s[3]
      BY <2>1 DEF Median
    <2> HIDE DEF m
    <2> QED
      BY <2>2, <2>3, <2>4, <2>5, <2>6, <2>7
  <1>2. ASSUME NEW v, Is(v)
        PROVE  v = m
    <2>1. \E i, j \in 1..3 : \E k \in 1..3 \ {i, j} : i # j /\ v = s[k] /\ s[i] <= v /\ v <= s[j]
      BY <1>2
    <2>2. PICK i \in 1..3, j \in 1..3 : \E k \in 1..3 \ {i, j} : i # j /\ v = s[k] /\ s[i] <= v /\ v <= s[j]
      BY <2>1, Zenon
    <2>3. PICK k \in 1..3 \ {i, j} : i # j /\ v = s[k] /\ s[i] <= v /\ v <= s[j]
      BY <2>2
    <2> QED
      BY <2>3 DEF Median
  <1>3. MiddleOf(s) = CHOOSE v \in {s[1], s[2], s[3]} : Is(v)
    BY DEF MiddleOf
  <1> DEFINE w == CHOOSE v \in {s[1], s[2], s[3]} : Is(v)
  <1>4. Is(w)
    <2> HIDE DEF Is
    <2> QED
      BY <1>1
  <1> HIDE DEF Is, m, w
  <1> QED
    BY <1>2, <1>3, <1>4 DEF w, m

\* One of the neighbours alone has the reference.
LEMMA OneAlone ==
  ASSUME NEW same \in SUBSET (1..3)
  PROVE  /\ Cardinality(same) = 1 <=> same \in {{1}, {2}, {3}}
         /\ \A x : same = {x} => (CHOOSE i \in same : TRUE) = x
         /\ \A x \in 1..3 : x \in same /\ (\A i \in 1..3 : i # x => i \notin same) => same = {x}
  <1>1. IsFiniteSet(same)
    <2>1. IsFiniteSet(1..3)
      BY 1 \in Int, 3 \in Int, FS_Interval
    <2> QED
      BY <2>1, FS_Subset
  <1>2. Cardinality(same) = 1 <=> \E x : same = {x}
    BY <1>1, FS_Singleton
  <1>3. (\E x : same = {x}) <=> same \in {{1}, {2}, {3}}
    <2>1. ASSUME NEW x, same = {x}
          PROVE  x \in {1, 2, 3}
      BY <2>1
    <2> QED
      BY <2>1
  <1>4. \A x : (CHOOSE i \in {x} : TRUE) = x
    OBVIOUS
  <1> QED
    BY <1>2, <1>3, <1>4

\* What both make of three neighbours.
Predicted(a, b, c, ref_id) ==
  CASE a.ref_id = ref_id /\ b.ref_id # ref_id /\ c.ref_id # ref_id -> a.mv
    [] a.ref_id # ref_id /\ b.ref_id = ref_id /\ c.ref_id # ref_id -> b.mv
    [] a.ref_id # ref_id /\ b.ref_id # ref_id /\ c.ref_id = ref_id -> c.mv
    [] OTHER -> IF b = NoMotion /\ c = NoMotion THEN a.mv
                ELSE [x |-> Median(a.mv.x, b.mv.x, c.mv.x), y |-> Median(a.mv.y, b.mv.y, c.mv.y)]

\* The encoder makes this of them.
LEMMA EncoderMakes ==
  ASSUME NEW a, NEW b, NEW c, Neighbours(a, b, c), NEW ref_id \in Nat, NEW p
  PROVE  FromNeighbours(MVPredType(a, b, c, p, P16x16, ref_id), a, b, c) = Predicted(a, b, c, ref_id)
  <1> DEFINE same == <<a.ref_id = ref_id, b.ref_id = ref_id, c.ref_id = ref_id>>
             type == CASE same = <<TRUE, FALSE, FALSE>> -> "L"
                       [] same = <<FALSE, TRUE, FALSE>> -> "U"
                       [] same = <<FALSE, FALSE, TRUE>> -> "UR"
                       [] OTHER -> "MEDIAN"
  <1>1. MVPredType(a, b, c, p, P16x16, ref_id) = type
    <2>1. P16x16.w = 4 /\ P16x16.h = 4
      BY DEF P16x16
    <2> QED
      BY <2>1 DEF MVPredType
  <1>2. type = IF a.ref_id = ref_id /\ b.ref_id # ref_id /\ c.ref_id # ref_id THEN "L"
               ELSE IF a.ref_id # ref_id /\ b.ref_id = ref_id /\ c.ref_id # ref_id THEN "U"
               ELSE IF a.ref_id # ref_id /\ b.ref_id # ref_id /\ c.ref_id = ref_id THEN "UR"
               ELSE "MEDIAN"
    OBVIOUS
  <1> HIDE DEF type
  <1>3. (b.ref_id = -1 <=> b = NoMotion) /\ (c.ref_id = -1 <=> c = NoMotion)
    BY NoMotionHasNone DEF Neighbours
  <1>4. b # NoMotion /\ c = NoMotion => a = NoMotion
    BY DEF Neighbours
  <1>5. \A n \in Int : Median(0, n, 0) = 0
    BY DEF Median
  <1>6. ASSUME b # NoMotion, c = NoMotion
        PROVE  a.mv = [x |-> Median(a.mv.x, b.mv.x, c.mv.x), y |-> Median(a.mv.y, b.mv.y, c.mv.y)]
    <2>1. a.mv = Zero /\ c.mv = Zero /\ b.mv.x \in Int /\ b.mv.y \in Int
      BY <1>4, <1>6, NoMotionHasNone DEF Neighbours, Vector
    <2>2. Zero.x = 0 /\ Zero.y = 0 /\ Zero = [x |-> 0, y |-> 0]
      BY DEF Zero
    <2> QED
      BY <1>5, <2>1, <2>2
  <1> DEFINE median == [x |-> Median(a.mv.x, b.mv.x, c.mv.x), y |-> Median(a.mv.y, b.mv.y, c.mv.y)]
  <1>7. FromNeighbours(type, a, b, c)
          = IF type = "L" THEN a.mv ELSE IF type = "U" THEN b.mv ELSE IF type = "UR" THEN c.mv
            ELSE IF b = NoMotion \/ c = NoMotion THEN a.mv ELSE median
    BY <1>2, <1>3 DEF FromNeighbours
  <1>8. Predicted(a, b, c, ref_id)
          = IF type = "L" THEN a.mv ELSE IF type = "U" THEN b.mv ELSE IF type = "UR" THEN c.mv
            ELSE IF b = NoMotion /\ c = NoMotion THEN a.mv ELSE median
    BY <1>2 DEF Predicted
  <1>9. b = NoMotion => c = NoMotion
    BY DEF Neighbours
  <1> HIDE DEF median
  <1> QED
    BY <1>1, <1>6, <1>7, <1>8, <1>9 DEF median

\* A receiver makes the same.
LEMMA ReceiverMakes ==
  ASSUME NEW a, NEW b, NEW c, Neighbours(a, b, c), NEW ref_id \in Nat, NEW p, NEW found, NEW part,
         part.w = 4, part.h = 4,
         a = Decoded(found, p.x - 1, p.y), b = Decoded(found, p.x, p.y - 1),
         c = (IF Decoded(found, p.x + part.w, p.y - 1) # NoMotion THEN Decoded(found, p.x + part.w, p.y - 1)
              ELSE Decoded(found, p.x - 1, p.y - 1))
  PROVE  ReceiverPrediction(found, p, part, ref_id) = Predicted(a, b, c, ref_id)
  <1> DEFINE near == IF b = NoMotion /\ c = NoMotion THEN <<a, a, a>> ELSE <<a, b, c>>
             same == {i \in 1..3 : near[i].ref_id = ref_id}
             xs == [i \in 1..3 |-> near[i].mv.x]
             ys == [i \in 1..3 |-> near[i].mv.y]
  <1>1. NoMotion.ref_id # ref_id
    BY NoMotionHasNone
  <1>2. ReceiverPrediction(found, p, part, ref_id)
          = IF Cardinality(same) = 1 THEN near[CHOOSE i \in same : TRUE].mv
            ELSE [x |-> MiddleOf(xs), y |-> MiddleOf(ys)]
    <2> DEFINE u == Decoded(found, p.x - 1, p.y)
               v == Decoded(found, p.x, p.y - 1)
               right == Decoded(found, p.x + part.w, p.y - 1)
               w == IF right # NoMotion THEN right ELSE Decoded(found, p.x - 1, p.y - 1)
               Asked(l, m, o) == CASE part.w = 4 /\ part.h = 2 -> IF part.y = 0 THEN m ELSE l
                                   [] part.w = 2 /\ part.h = 4 -> IF part.x = 0 THEN l ELSE o
                                   [] OTHER -> NoMotion
               Near(l, m, o) == IF m = NoMotion /\ o = NoMotion THEN <<l, l, l>> ELSE <<l, m, o>>
               Same(l, m, o) == {i \in 1..3 : Near(l, m, o)[i].ref_id = ref_id}
    <2>1. Asked(a, b, c) = NoMotion
      OBVIOUS
    <2>2. ReceiverPrediction(found, p, part, ref_id)
            = CASE Asked(u, v, w).ref_id = ref_id -> Asked(u, v, w).mv
                [] Asked(u, v, w).ref_id # ref_id /\ Cardinality(Same(u, v, w)) = 1 ->
                     Near(u, v, w)[CHOOSE i \in Same(u, v, w) : TRUE].mv
                [] OTHER -> [x |-> MiddleOf([i \in 1..3 |-> Near(u, v, w)[i].mv.x]),
                             y |-> MiddleOf([i \in 1..3 |-> Near(u, v, w)[i].mv.y])]
      BY Zenon DEF ReceiverPrediction, MiddleOf
    <2>3. u = a /\ v = b /\ w = c
      OBVIOUS
    <2>4. near = Near(a, b, c)
      OBVIOUS
    <2>5. same = Same(a, b, c)
      OBVIOUS
    <2> HIDE DEF Asked, Near, u, v, w, near
    <2>6. xs = [i \in 1..3 |-> Near(a, b, c)[i].mv.x] /\ ys = [i \in 1..3 |-> Near(a, b, c)[i].mv.y]
      BY <2>4
    <2> HIDE DEF Same, same, xs, ys
    <2> QED
      BY <1>1, <2>1, <2>2, <2>3, <2>4, <2>5, <2>6
  <1>3. near[1] = a /\ near[2] = (IF b = NoMotion /\ c = NoMotion THEN a ELSE b)
        /\ near[3] = (IF b = NoMotion /\ c = NoMotion THEN a ELSE c)
    OBVIOUS
  <1> HIDE DEF near
  <1>4. a.mv \in Vector /\ b.mv \in Vector /\ c.mv \in Vector
    BY NoMotionHasNone DEF Neighbours
  <1>5. MiddleOf(xs) = Median(near[1].mv.x, near[2].mv.x, near[3].mv.x)
        /\ MiddleOf(ys) = Median(near[1].mv.y, near[2].mv.y, near[3].mv.y)
    <2>1. \A i \in 1..3 : near[i].mv \in Vector
      BY <1>3, <1>4
    <2>2. DOMAIN xs = 1..3 /\ DOMAIN ys = 1..3 /\ \A i \in 1..3 : xs[i] \in Int /\ ys[i] \in Int
      BY <2>1 DEF Vector
    <2>3. xs[1] = near[1].mv.x /\ xs[2] = near[2].mv.x /\ xs[3] = near[3].mv.x
          /\ ys[1] = near[1].mv.y /\ ys[2] = near[2].mv.y /\ ys[3] = near[3].mv.y
      OBVIOUS
    <2> HIDE DEF xs, ys
    <2>4. MiddleOf(xs) = Median(xs[1], xs[2], xs[3]) /\ MiddleOf(ys) = Median(ys[1], ys[2], ys[3])
      BY <2>2, MiddleIsMedian
    <2> QED
      BY <2>3, <2>4
  <1>6. same \in SUBSET (1..3) /\ \A i \in 1..3 : i \in same <=> near[i].ref_id = ref_id
    OBVIOUS
  <1> HIDE DEF same, xs, ys
  <1>7. CASE b = NoMotion /\ c = NoMotion
    <2>1. (1 \in same <=> 2 \in same) /\ (2 \in same <=> 3 \in same)
      BY <1>3, <1>6, <1>7
    <2>2. Cardinality(same) # 1
      BY <1>6, <2>1, OneAlone
    <2>3. \A n \in Int : Median(n, n, n) = n
      BY DEF Median
    <2>4. [x |-> MiddleOf(xs), y |-> MiddleOf(ys)] = a.mv
      BY <1>3, <1>4, <1>5, <1>7, <2>3 DEF Vector
    <2>5. Predicted(a, b, c, ref_id) = a.mv
      BY <1>1, <1>7 DEF Predicted
    <2> QED
      BY <1>2, <2>2, <2>4, <2>5
  <1>8. CASE ~(b = NoMotion /\ c = NoMotion)
    <2>1. near[1] = a /\ near[2] = b /\ near[3] = c
      BY <1>3, <1>8
    <2>2. (1 \in same <=> a.ref_id = ref_id) /\ (2 \in same <=> b.ref_id = ref_id) /\ (3 \in same <=> c.ref_id = ref_id)
      BY <1>6, <2>1
    <2>3. Cardinality(same) = 1 <=> same \in {{1}, {2}, {3}}
      BY <1>6, OneAlone
    <2>4. \A x : same = {x} => (CHOOSE i \in same : TRUE) = x
      BY <1>6, OneAlone
    <2>5. CASE a.ref_id = ref_id /\ b.ref_id # ref_id /\ c.ref_id # ref_id
      <3>1. same = {1}
        BY <1>6, <2>2, <2>5, OneAlone
      <3> QED
        BY <1>2, <2>1, <2>3, <2>4, <2>5, <3>1 DEF Predicted
    <2>6. CASE a.ref_id # ref_id /\ b.ref_id = ref_id /\ c.ref_id # ref_id
      <3>1. same = {2}
        BY <1>6, <2>2, <2>6, OneAlone
      <3> QED
        BY <1>2, <2>1, <2>3, <2>4, <2>6, <3>1 DEF Predicted
    <2>7. CASE a.ref_id # ref_id /\ b.ref_id # ref_id /\ c.ref_id = ref_id
      <3>1. same = {3}
        BY <1>6, <2>2, <2>7, OneAlone
      <3> QED
        BY <1>2, <2>1, <2>3, <2>4, <2>7, <3>1 DEF Predicted
    <2>8. CASE /\ ~(a.ref_id = ref_id /\ b.ref_id # ref_id /\ c.ref_id # ref_id)
               /\ ~(a.ref_id # ref_id /\ b.ref_id = ref_id /\ c.ref_id # ref_id)
               /\ ~(a.ref_id # ref_id /\ b.ref_id # ref_id /\ c.ref_id = ref_id)
      <3>1. same \notin {{1}, {2}, {3}}
        BY <2>2, <2>8
      <3>2. Predicted(a, b, c, ref_id) = [x |-> Median(a.mv.x, b.mv.x, c.mv.x), y |-> Median(a.mv.y, b.mv.y, c.mv.y)]
        BY <1>8, <2>8 DEF Predicted
      <3> QED
        BY <1>2, <1>5, <2>1, <2>3, <3>1, <3>2
    <2> QED
      BY <2>5, <2>6, <2>7, <2>8
  <1> QED
    BY <1>7, <1>8

\* The neighbours of a macroblock: the encoder's map and the receiver's agree.
LEMMA NeighboursFound ==
  ASSUME NEW n \in MBs, NEW map, NEW found, Mirror(n, map, found)
  PROVE  LET p == MBPosition(n)
             a == Decoded(found, p.x - 1, p.y)
             b == Decoded(found, p.x, p.y - 1)
             right == Decoded(found, p.x + 4, p.y - 1)
             c == IF right # NoMotion THEN right ELSE Decoded(found, p.x - 1, p.y - 1)
         IN  /\ MotionA(map, p) = a /\ MotionB(map, p) = b /\ MotionC(map, p, 4) = c
             /\ Neighbours(a, b, c)
  <1> DEFINE x == 4 * Column(n)
             y == 4 * Row(n)
             size == frame_width_in_block
             right == Decoded(found, x + 4, y - 1)
             left == Decoded(found, x - 1, y - 1)
  <1>1. /\ MBPosition(n).x = x /\ MBPosition(n).y = y
        /\ Column(n) \in 0..(m_width_in_mb - 1) /\ Row(n) \in 0..(m_height_in_mb - 1)
        /\ m_width_in_mb \in Nat \ {0} /\ m_height_in_mb \in Nat \ {0} /\ size = 4 * m_width_in_mb
    BY Address, SizeAssumption DEF frame_width_in_block
  <1>2. \A index : Earlier(n, index) => index \in BlockIndices /\ found[index] = map[index] /\ map[index] \in Motion
    BY BlocksInPicture DEF Mirror, Earlier
  <1> HIDE DEF size
  <1>3. ASSUME Column(n) > 0
        PROVE  Earlier(n, GetBlockIndex(x - 1, y)) /\ x > 0 /\ x - 1 \in 0..(size - 1)
    <2>1. Earlier(n, GetBlockIndex(x - 1, y))
      BY <1>3, LeftIsEarlier
    <2> QED
      BY <1>1, <1>3, <2>1
  <1>4. ASSUME Row(n) > 0
        PROVE  Earlier(n, GetBlockIndex(x, y - 1)) /\ y > 0 /\ y - 1 >= 0 /\ x \in 0..(size - 1)
    <2>1. Earlier(n, GetBlockIndex(4 * Column(n) + 0, 4 * Row(n) - 1))
      BY <1>1, <1>4, AboveIsEarlier
    <2>2. 4 * Column(n) + 0 = x
      BY <1>1
    <2> QED
      BY <1>1, <1>4, <2>1, <2>2
  <1>5. ASSUME Row(n) > 0, x + 4 < size
        PROVE  Earlier(n, GetBlockIndex(x + 4, y - 1)) /\ x + 4 \in 0..(size - 1)
    <2>1. Column(n) + 1 \in 0..(m_width_in_mb - 1) /\ 4 * (Column(n) + 1) + 0 = x + 4
      BY <1>1, <1>5
    <2>2. Earlier(n, GetBlockIndex(4 * (Column(n) + 1) + 0, 4 * Row(n) - 1))
      BY <1>5, <2>1, AboveIsEarlier
    <2> QED
      BY <1>1, <1>5, <2>1, <2>2
  <1>6. ASSUME Row(n) > 0, Column(n) > 0
        PROVE  Earlier(n, GetBlockIndex(x - 1, y - 1)) /\ x - 1 \in 0..(size - 1)
    <2>1. Column(n) - 1 \in 0..(m_width_in_mb - 1) /\ 4 * (Column(n) - 1) + 3 = x - 1
      BY <1>1, <1>6
    <2>2. Earlier(n, GetBlockIndex(4 * (Column(n) - 1) + 3, 4 * Row(n) - 1))
      BY <1>6, <2>1, AboveIsEarlier
    <2> QED
      BY <1>1, <1>6, <2>1, <2>2
  <1>7. /\ Column(n) > 0 <=> x > 0
        /\ Row(n) > 0 <=> y > 0
        /\ x - 1 >= 0 <=> x > 0
        /\ y - 1 >= 0 <=> y > 0
        /\ y >= 0
        /\ x - 1 \in Int /\ x + 4 \in Nat /\ x \in Nat
        /\ x + 4 < size <=> x + 4 \in 0..(size - 1)
        /\ x > 0 \/ x + 4 < size \/ size = 4
    BY <1>1
  <1>8. ASSUME y > 0
        PROVE  IsPreDecoded([x |-> x + 4, y |-> y - 1], [x |-> x, y |-> y])
    <2>1. (y - 1) \div 4 = Row(n) - 1 /\ y \div 4 = Row(n)
      BY <1>1, <1>8
    <2>2. Row(n) - 1 < Row(n) /\ Row(n) - 1 # Row(n)
      BY <1>1
    <2> DEFINE k == (x + 4) \div 4
               l == x \div 4
    <2>3. [x |-> k, y |-> Row(n) - 1] # [x |-> l, y |-> Row(n)]
      BY <2>2
    <2> HIDE DEF x, y, k, l
    <2> QED
      BY <2>1, <2>2, <2>3 DEF IsPreDecoded, k, l
  <1> DEFINE a == Decoded(found, x - 1, y)
             b == Decoded(found, x, y - 1)
             c == IF right # NoMotion THEN right ELSE left
             p == [x |-> x, y |-> y]
  <1>9. MBPosition(n) = p
    BY Address
  <1> HIDE DEF x, y
  <1>10. /\ a = IF x > 0 THEN found[GetBlockIndex(x - 1, y)] ELSE NoMotion
         /\ b = IF y > 0 THEN found[GetBlockIndex(x, y - 1)] ELSE NoMotion
         /\ right = IF y > 0 /\ x + 4 < size THEN found[GetBlockIndex(x + 4, y - 1)] ELSE NoMotion
         /\ left = IF y > 0 /\ x > 0 THEN found[GetBlockIndex(x - 1, y - 1)] ELSE NoMotion
    BY <1>3, <1>4, <1>5, <1>6, <1>7 DEF Decoded, size
  <1>11. MotionA(map, p) = a /\ MotionB(map, p) = b
    BY <1>2, <1>3, <1>4, <1>7, <1>10 DEF MotionA, MotionB
  <1>12. right # NoMotion <=> y > 0 /\ x + 4 < size
    BY <1>2, <1>5, <1>7, <1>10, NoMotionHasNone
  <1>13. MotionC(map, p, 4) = c
    <2>1. MotionC(map, p, 4) = IF x + 4 < size /\ y > 0 THEN map[GetBlockIndex(x + 4, y - 1)]
                               ELSE IF x > 0 /\ y > 0 THEN map[GetBlockIndex(x - 1, y - 1)] ELSE NoMotion
      BY <1>8 DEF MotionC, size
    <2> QED
      BY <1>2, <1>5, <1>6, <1>7, <1>10, <1>12, <2>1
  <1>14. Neighbours(a, b, c)
    <2>1. a \in Motion \cup {NoMotion} /\ b \in Motion \cup {NoMotion}
      BY <1>2, <1>3, <1>4, <1>7, <1>10
    <2>2. right \in Motion \cup {NoMotion} /\ left \in Motion \cup {NoMotion}
      BY <1>2, <1>5, <1>6, <1>7, <1>10
    <2>3. b = NoMotion => ~(y > 0)
      BY <1>2, <1>4, <1>7, <1>10, NoMotionHasNone
    <2>4. ~(y > 0) => c = NoMotion
      BY <1>10
    <2>5. c = NoMotion /\ y > 0 => ~(x > 0)
      BY <1>2, <1>5, <1>6, <1>7, <1>10, <1>12, NoMotionHasNone
    <2>6. ~(x > 0) => a = NoMotion
      BY <1>10
    <2>7. b # NoMotion => y > 0
      BY <1>10
    <2> HIDE DEF a, b, right, left
    <2> QED
      BY <2>1, <2>2, <2>3, <2>4, <2>5, <2>6, <2>7 DEF Neighbours
  <1> QED
    BY <1>9, <1>11, <1>13, <1>14

\* Wherever the receiver knows the earlier macroblocks, both predictions agree.
LEMMA PredictionAgrees ==
  ASSUME NEW n \in MBs, NEW map, NEW found, Mirror(n, map, found), NEW ref_id \in Nat,
         NEW part, part.w = 4, part.h = 4
  PROVE  /\ GetPredictorMV(map, MBPosition(n), P16x16, ref_id)
              = ReceiverPrediction(found, MBPosition(n), part, ref_id)
         /\ GetPredictorMV(map, MBPosition(n), P16x16, ref_id) \in Vector
  <1> DEFINE p == MBPosition(n)
             a == Decoded(found, p.x - 1, p.y)
             b == Decoded(found, p.x, p.y - 1)
             right == Decoded(found, p.x + 4, p.y - 1)
             c == IF right # NoMotion THEN right ELSE Decoded(found, p.x - 1, p.y - 1)
  <1>1. /\ MotionA(map, p) = a /\ MotionB(map, p) = b /\ MotionC(map, p, 4) = c
        /\ Neighbours(a, b, c)
    BY NeighboursFound
  <1> HIDE DEF p
  <1>2. GetPredictorMV(map, p, P16x16, ref_id) = FromNeighbours(MVPredType(a, b, c, p, P16x16, ref_id), a, b, c)
    <2>1. P16x16.w = 4
      BY DEF P16x16
    <2> HIDE DEF a, b, c
    <2> QED
      BY <1>1, <2>1 DEF GetPredictorMV
  <1>3. ReceiverPrediction(found, p, part, ref_id) = Predicted(a, b, c, ref_id)
    BY <1>1, ReceiverMakes
  <1> HIDE DEF a, b, c
  <1>4. FromNeighbours(MVPredType(a, b, c, p, P16x16, ref_id), a, b, c) = Predicted(a, b, c, ref_id)
    BY <1>1, EncoderMakes
  <1>5. Predicted(a, b, c, ref_id) \in Vector
    <2>1. a.mv \in Vector /\ b.mv \in Vector /\ c.mv \in Vector
      BY <1>1, NoMotionHasNone DEF Neighbours
    <2>2. \A u, v, w \in Vector : [x |-> Median(u.x, v.x, w.x), y |-> Median(u.y, v.y, w.y)] \in Vector
      BY DEF Vector, Median
    <2> QED
      BY <2>1, <2>2 DEF Predicted
  <1> QED
    BY <1>2, <1>3, <1>4, <1>5 DEF p

-----------------------------------------------------------------------------
(* Folding over one partition.                                             *)

\* A set of one place.
LEMMA OnlyOne ==
  /\ SUBSET {1} = {{}, {1}}
  /\ Max({1}) = 1
  /\ \A e : DOMAIN <<e>> = {1} /\ <<e>>[1] = e
  <1>1. \A s \in SUBSET {1} : s = {} \/ s = {1}
    OBVIOUS
  <1>2. Max({1}) = 1
    BY DEF Max
  <1> QED
    BY <1>1, <1>2

\* The fold of Backend.
LEMMA BackendOne ==
  ASSUME NEW map, NEW given, NEW d
  PROVE  FoldLeft(LAMBDA m, decided : Enter(m, given, decided), map, <<d>>) = Enter(map, given, d)
  <1> DEFINE D == DOMAIN <<d>>
             F(it) == [s \in SUBSET D |->
                         IF s = {} THEN map
                         ELSE LET x == Max(s) IN Enter(it[s \ {x}], given, <<d>>[x])]
             iter == CHOOSE it : it = F(it)
             g == [s \in SUBSET {1} |-> IF s = {} THEN map ELSE Enter(map, given, d)]
  <1>1. FoldLeft(LAMBDA m, decided : Enter(m, given, decided), map, <<d>>) = iter[D]
    BY DEF FoldLeft, MapThenFoldSet
  <1>2. D = {1}
    BY OnlyOne
  <1>3. ASSUME NEW it
        PROVE  F(it) = [s \in SUBSET {1} |-> IF s = {} THEN map ELSE Enter(it[{}], given, d)]
    <2> HIDE DEF D
    <2>1. \A s \in SUBSET {1} : s # {} => s = {1} /\ s \ {Max(s)} = {} /\ <<d>>[Max(s)] = d
      <3> TAKE s \in SUBSET {1}
      <3> HAVE s # {}
      <3>1. s = {1}
        OBVIOUS
      <3>2. Max(s) = 1
        BY <3>1, OnlyOne
      <3> QED
        BY <3>1, <3>2, OnlyOne
    <2> QED
      BY <1>2, <2>1
  <1> HIDE DEF F
  <1>4. g = F(g)
    BY <1>3
  <1> HIDE DEF g
  <1>5. iter = F(iter)
    BY <1>4
  <1> HIDE DEF iter
  <1>6. iter = [s \in SUBSET {1} |-> IF s = {} THEN map ELSE Enter(iter[{}], given, d)]
    BY <1>3, <1>5
  <1>7. iter[{}] = map
    BY <1>6
  <1> QED
    BY <1>1, <1>2, <1>6, <1>7

\* The list of MBInterRDOptimizer::Encode, the other types commented out.
OnlyP16x16 == \A s \in Settings : s.allowed_mb_types = <<"P16x16">>

-----------------------------------------------------------------------------
(* The limits.                                                             *)

\* A level the program knows, and the standard too.
KnownLevels == \A s \in Settings : s.level_idc \in {LevelIds[i] : i \in DOMAIN LevelIds} \ {-1, 0}

\* The vertical limit by index, from one.
Limit(i) == IF i <= 2 THEN 256 ELSE IF i <= 6 THEN 512 ELSE IF i <= 9 THEN 1024 ELSE IF i <= 17 THEN 2048 ELSE 32768

\* The index is one of the table.
LEMMA IndexInRange ==
  ASSUME NEW level_idc
  PROVE  GetLevelIndex(level_idc) \in 0..20
  <1>1. DOMAIN LevelIds = 1..21
    BY DEF LevelIds
  <1>2. CASE \E i \in DOMAIN LevelIds : LevelIds[i] = level_idc
    <2> DEFINE k == CHOOSE i \in DOMAIN LevelIds : LevelIds[i] = level_idc
    <2>1. k \in DOMAIN LevelIds
      BY <1>2
    <2>2. GetLevelIndex(level_idc) = k - 1
      BY <1>2, Zenon DEF GetLevelIndex
    <2> HIDE DEF k
    <2>3. k \in 1..21
      BY <1>1, <2>1
    <2> QED
      BY <2>2, <2>3
  <1>3. CASE ~\E i \in DOMAIN LevelIds : LevelIds[i] = level_idc
    BY <1>3 DEF GetLevelIndex
  <1> QED
    BY <1>2, <1>3

\* Both limits by the index.
LEMMA Limits ==
  ASSUME NEW level_idc
  PROVE  /\ mv_vertical_limit(level_idc) = Within(Limit(GetLevelIndex(level_idc) + 1))
         /\ mv_horizontal_limit(level_idc) = Within(IF GetLevelIndex(level_idc) < 17 THEN 8192 ELSE 32768)
         /\ Limit(GetLevelIndex(level_idc) + 1) \in Nat \ {0}
  <1> DEFINE index == GetLevelIndex(level_idc)
             limit == CASE index <= 1 -> 256
                        [] index \in 2..5 -> 512
                        [] index \in 6..8 -> 1024
                        [] index \in 9..16 -> 2048
                        [] index > 16 -> 32768
  <1>1. index \in 0..20
    BY IndexInRange
  <1>2. mv_vertical_limit(level_idc) = Within(limit)
    BY <1>1 DEF mv_vertical_limit, Within
  <1>3. mv_horizontal_limit(level_idc) = Within(IF index < 17 THEN 8192 ELSE 32768)
    BY DEF mv_horizontal_limit
  <1> HIDE DEF index
  <1>4. limit = Limit(index + 1) /\ Limit(index + 1) \in Nat \ {0}
    BY <1>1, SMT DEF Limit
  <1> HIDE DEF limit
  <1> QED
    BY <1>2, <1>3, <1>4 DEF index

\* A clamped component is within its limit, and zero always is.
LEMMA ClampWithin ==
  ASSUME NEW v \in Int, NEW n \in Nat \ {0}
  PROVE  /\ Clamp(v, Within(n)) \in (-n)..(n - 1)
         /\ Clamp(0, Within(n)) = 0
  BY DEF Clamp, Within

\* Clipping gives a vector, and leaves zero alone.
LEMMA ClipIsVector ==
  ASSUME NEW v \in Vector, NEW level_idc
  PROVE  /\ ClipMVRange(v, level_idc) \in Vector
         /\ ClipMVRange(Zero, level_idc) = Zero
  <1> DEFINE n == Limit(GetLevelIndex(level_idc) + 1)
             m == IF GetLevelIndex(level_idc) < 17 THEN 8192 ELSE 32768
  <1>1. mv_vertical_limit(level_idc) = Within(n) /\ mv_horizontal_limit(level_idc) = Within(m)
        /\ n \in Nat \ {0} /\ m \in Nat \ {0}
    BY Limits
  <1> HIDE DEF n, m
  <1>2. v.x \in Int /\ v.y \in Int /\ Zero.x = 0 /\ Zero.y = 0
    BY DEF Vector, Zero
  <1>3. Clamp(v.x, Within(m)) \in Int /\ Clamp(v.y, Within(n)) \in Int
    BY <1>1, <1>2, ClampWithin, SMTT(30)
  <1>4. Clamp(0, Within(m)) = 0 /\ Clamp(0, Within(n)) = 0
    BY <1>1, <1>2, ClampWithin
  <1> QED
    BY <1>1, <1>2, <1>3, <1>4 DEF ClipMVRange, Vector, Zero

\* The index of a level the program knows.
LEMMA LevelIndex ==
  ASSUME NEW i \in 1..21, LevelIds[i] # -1
  PROVE  GetLevelIndex(LevelIds[i]) = i - 1
  <1>1. DOMAIN LevelIds = 1..21
    BY DEF LevelIds
  <1>2. \A j \in 1..21 : LevelIds[j] = LevelIds[i] => j = i
    BY DEF LevelIds
  <1> QED
    BY <1>1, <1>2 DEF GetLevelIndex

\* The range the standard gives that level.
LEMMA LevelAllows ==
  ASSUME NEW i \in 1..21, LevelIds[i] # -1, LevelIds[i] # 0
  PROVE  /\ 4 * LevelVertical(LevelIds[i]) = Limit(i)
         /\ 4 * LevelHorizontal(LevelIds[i]) = IF i <= 17 THEN 8192 ELSE 32768
         /\ LevelVertical(LevelIds[i]) \in Nat /\ LevelHorizontal(LevelIds[i]) \in Nat
  BY DEF LevelIds, LevelVertical, LevelHorizontal, Limit

\* What is clipped is allowed.
LEMMA ClippedAllowed ==
  ASSUME NEW v \in Vector, NEW i \in 1..21, LevelIds[i] # -1, LevelIds[i] # 0
  PROVE  AllowedByLevel(ClipMVRange(v, LevelIds[i]), LevelIds[i])
  <1> DEFINE level == LevelIds[i]
             n == Limit(i)
             m == IF i <= 17 THEN 8192 ELSE 32768
  <1>1. GetLevelIndex(level) = i - 1 /\ (i - 1) + 1 = i /\ (i - 1 < 17 <=> i <= 17)
    BY LevelIndex
  <1>2. mv_vertical_limit(level) = Within(n) /\ mv_horizontal_limit(level) = Within(m) /\ n \in Nat \ {0}
    BY <1>1, Limits
  <1>3. 4 * LevelVertical(level) = n /\ 4 * LevelHorizontal(level) = m /\ m \in Nat \ {0}
        /\ LevelVertical(level) \in Nat /\ LevelHorizontal(level) \in Nat
    BY LevelAllows
  <1> HIDE DEF n, m, level
  <1>4. v.x \in Int /\ v.y \in Int
    BY DEF Vector
  <1>5. Clamp(v.x, Within(m)) \in (-m)..(m - 1) /\ Clamp(v.y, Within(n)) \in (-n)..(n - 1)
    BY <1>2, <1>3, <1>4, ClampWithin
  <1>6. -4 * LevelVertical(level) = -n /\ -4 * LevelHorizontal(level) = -m
    BY <1>3
  <1>7. ClipMVRange(v, level) = [x |-> Clamp(v.x, Within(m)), y |-> Clamp(v.y, Within(n))]
    BY <1>2 DEF ClipMVRange
  <1> QED
    BY <1>3, <1>5, <1>6, <1>7 DEF AllowedByLevel, level

-----------------------------------------------------------------------------
(* A macroblock of 16x16.                                                  *)

\* The one partition starts where its macroblock does.
LEMMA PartIsWhole ==
  /\ P16x16.x = 0 /\ P16x16.y = 0 /\ P16x16.w = 4 /\ P16x16.h = 4
  /\ \A a \in MBs : PositionInBlock(a, P16x16) = MBPosition(a)
  <1>1. P16x16.x = 0 /\ P16x16.y = 0 /\ P16x16.w = 4 /\ P16x16.h = 4
    BY DEF P16x16
  <1>2. ASSUME NEW a \in MBs
        PROVE  PositionInBlock(a, P16x16) = MBPosition(a)
    <2>1. MBPosition(a) = [x |-> 4 * Column(a), y |-> 4 * Row(a)] /\ Column(a) \in Nat /\ Row(a) \in Nat
      BY Address
    <2> QED
      BY <1>1, <2>1 DEF PositionInBlock
  <1> QED
    BY <1>1, <1>2

\* Every offset is a vector.
LEMMA OffsetIsVector ==
  ASSUME NEW k \in Int
  PROVE  /\ search_motion_vectors[1 + (k % Len(search_motion_vectors))] \in Vector
         /\ Len(search_motion_vectors) \in Nat \ {0}
  <1>1. search_motion_vectors \in Seq(Vector) /\ search_motion_vectors # <<>>
    BY SearchAssumption
  <1>2. Len(search_motion_vectors) \in Nat \ {0}
    BY <1>1
  <1>3. 1 + (k % Len(search_motion_vectors)) \in 1..Len(search_motion_vectors)
    BY <1>2
  <1> QED
    BY <1>1, <1>2, <1>3

\* The decision of the search for a whole macroblock.
LEMMA BestOfWhole ==
  ASSUME NEW map, NEW given, given.mb_addr \in MBs, given.candidate \in Nat, given.ref_num \in Nat \ {0}
  PROVE  \E ref_id \in 0..(given.ref_num - 1), offset \in Vector :
           LET pred == GetPredictorMV(map, MBPosition(given.mb_addr), P16x16, ref_id)
               mv == ClipMVRange(Plus(pred, offset), given.level_idc)
           IN  FindBestMotionInfo(map, given, P16x16)
                 = [part |-> P16x16, motion |-> [ref_id |-> ref_id, mv |-> mv],
                    mvd |-> Minus(mv, pred), compared |-> Plus(pred, offset)]
  <1> DEFINE p == MBPosition(given.mb_addr)
             number == Len(search_motion_vectors)
             ref == (given.candidate \div number) % given.ref_num
             counted == given.candidate + p.x + (2 * p.y) + 4 + 4
             offs == search_motion_vectors[1 + (counted % number)]
  <1>1. p.x \in Nat /\ p.y \in Nat
    BY Address
  <1>2. counted \in Nat
    BY <1>1
  <1>3. offs \in Vector /\ number \in Nat \ {0}
    <2>1. counted \in Int
      BY <1>2
    <2> HIDE DEF counted
    <2>2. /\ search_motion_vectors[1 + (counted % Len(search_motion_vectors))] \in Vector
          /\ Len(search_motion_vectors) \in Nat \ {0}
      BY <2>1, OffsetIsVector, Zenon
    <2> QED
      BY <2>2, Zenon
  <1>4. ref \in 0..(given.ref_num - 1)
    BY <1>3
  <1> DEFINE pred == GetPredictorMV(map, p, P16x16, ref)
             mv == ClipMVRange(Plus(pred, offs), given.level_idc)
  <1>5. FindBestMotionInfo(map, given, P16x16)
          = [part |-> P16x16, motion |-> [ref_id |-> ref, mv |-> mv],
             mvd |-> Minus(mv, pred), compared |-> Plus(pred, offs)]
    BY PartIsWhole DEF FindBestMotionInfo
  <1> HIDE DEF ref, offs, p
  <1> QED
    BY <1>3, <1>4, <1>5 DEF p

\* Frontend and Backend of the flow.
LEMMA WholeFlow ==
  ASSUME NEW map, NEW given
  PROVE  LET d == FindBestMotionInfo(map, given, P16x16)
         IN  Backend(Frontend(map, given, "P16x16"), given)
               = [map |-> Enter(map, given, d), parts |-> <<d>>]
  <1> DEFINE d == FindBestMotionInfo(map, given, P16x16)
  <1>1. Frontend(map, given, "P16x16") = [map |-> map, parts |-> <<d>>]
    BY DEF Frontend, P16x16Flow
  <1> HIDE DEF d
  <1>2. Backend([map |-> map, parts |-> <<d>>], given)
          = [[map |-> map, parts |-> <<d>>] EXCEPT
               !.map = FoldLeft(LAMBDA m, decided : Enter(m, given, decided), map, <<d>>)]
    BY DEF Backend
  <1> QED
    BY <1>1, <1>2, BackendOne DEF d

-----------------------------------------------------------------------------
(* What the encoder holds.                                                 *)

\* Types, and the place in the loop: a list of one type is never tried again.
Running ==
  /\ setting \in Settings
  /\ picture \in Nat \ {0}
  /\ m_mb_addr \in MBs
  /\ cost \in setting.costs
  /\ pc \in {"try", "output", "next"}
  /\ pc = "try" => tried = 0
  /\ mb_run = 0

\* A vector within the limits.
Clipped(mv) == \E v \in Vector : mv = ClipMVRange(v, setting.level_idc)

\* The map: motion or none, its vectors within the limits.
MapClipped ==
  /\ m_motion_infos \in [BlockIndices -> Motion \cup {NoMotion}]
  /\ \A b \in BlockIndices : Clipped(m_motion_infos[b].mv)

\* The macroblocks before this one have motion.
EarlierDecided == Mirror(m_mb_addr, m_motion_infos, m_motion_infos)

\* What the search decides for a macroblock.
Decision(d) ==
  /\ d.part = P16x16
  /\ d.compared \in Vector
  /\ d.motion \in Motion
  /\ d.motion.mv = ClipMVRange(d.compared, setting.level_idc)
  /\ d.motion.ref_id \in 0..(picture - 1)

\* Between its decision and the next macroblock, the map has its motion in its blocks.
OneDecided ==
  pc \in {"output", "next"} =>
    /\ m_mb_type = "P16x16"
    /\ m_parts = <<m_parts[1]>>
    /\ Decision(m_parts[1])
    /\ \A b \in Blocks(m_mb_addr) : m_motion_infos[b] = m_parts[1].motion

\* The invariant of the encoder.
Held == Running /\ MapClipped /\ EarlierDecided /\ OneDecided

\* The decision of this macroblock.
Best == FindBestMotionInfo(m_motion_infos, search, P16x16)

\* It is one: its vector is clipped, its difference is from the prediction.
LEMMA BestIsDecision ==
  ASSUME Running, EarlierDecided
  PROVE  /\ Decision(Best)
         /\ Best.mvd = Minus(Best.motion.mv,
                             GetPredictorMV(m_motion_infos, MBPosition(m_mb_addr), P16x16, Best.motion.ref_id))
  <1>1. /\ search.mb_addr = m_mb_addr /\ search.candidate = cost.candidate
        /\ search.ref_num = picture /\ search.level_idc = setting.level_idc
    BY DEF search, ref_num
  <1>2. m_mb_addr \in MBs /\ cost.candidate \in Nat /\ picture \in Nat \ {0}
    BY SettingsAssumption DEF Running
  <1>3. PICK ref_id \in 0..(picture - 1), offset \in Vector :
          LET pred == GetPredictorMV(m_motion_infos, MBPosition(m_mb_addr), P16x16, ref_id)
              mv == ClipMVRange(Plus(pred, offset), setting.level_idc)
          IN  Best = [part |-> P16x16, motion |-> [ref_id |-> ref_id, mv |-> mv],
                      mvd |-> Minus(mv, pred), compared |-> Plus(pred, offset)]
    BY <1>1, <1>2, BestOfWhole DEF Best
  <1> DEFINE pred == GetPredictorMV(m_motion_infos, MBPosition(m_mb_addr), P16x16, ref_id)
             around == Plus(pred, offset)
             mv == ClipMVRange(around, setting.level_idc)
  <1>4. pred \in Vector
    <2>1. Mirror(m_mb_addr, m_motion_infos, m_motion_infos) /\ ref_id \in Nat
      BY <1>2 DEF EarlierDecided
    <2> QED
      BY <1>2, <2>1, PartIsWhole, PredictionAgrees
  <1>5. Best.part = P16x16 /\ Best.motion = [ref_id |-> ref_id, mv |-> mv]
        /\ Best.mvd = Minus(mv, pred) /\ Best.compared = around
    BY <1>3
  <1>6. around \in Vector
    <2> HIDE DEF pred
    <2> QED
      BY <1>4 DEF Plus, Vector
  <1> HIDE DEF around
  <1>7. mv \in Vector
    BY <1>6, ClipIsVector
  <1> HIDE DEF mv
  <1>8. Best.motion.ref_id = ref_id /\ Best.motion.mv = mv /\ Best.motion \in Motion
    BY <1>2, <1>5, <1>7 DEF Motion
  <1>9. Decision(Best)
    BY <1>5, <1>6, <1>8 DEF Decision, mv
  <1> QED
    BY <1>5, <1>8, <1>9

\* The only type is tried once and is the best.
LEMMA OneTry ==
  ASSUME OnlyP16x16, Running, TryType
  PROVE  /\ pc = "try" /\ pc' = "output" /\ m_mb_type' = "P16x16" /\ m_parts' = <<Best>>
         /\ m_motion_infos' = SetMotionInfos(m_motion_infos, m_mb_addr, P16x16, Best.motion)
         /\ UNCHANGED <<setting, picture, m_mb_addr, cost, mb_run, received>>
  <1>1. /\ pc = "try" /\ RunFlow(allowed_mb_types[tried + 1]) /\ tried' = tried + 1
        /\ pc' = (CASE tried' < Len(allowed_mb_types) -> "try"
                    [] tried' = Len(allowed_mb_types) /\ m_mb_type' # allowed_mb_types[cost.best] -> "again"
                    [] OTHER -> "output")
        /\ UNCHANGED <<setting, picture, m_mb_addr, cost, mb_run, received>>
    BY DEF TryType
  <1>2. allowed_mb_types = <<"P16x16">> /\ Len(allowed_mb_types) = 1 /\ allowed_mb_types[1] = "P16x16"
    BY DEF OnlyP16x16, Running, allowed_mb_types
  <1>3. tried = 0 /\ tried + 1 = 1 /\ cost.best = 1
    <2>1. cost.best \in 1..Len(setting.allowed_mb_types)
      BY SettingsAssumption DEF Running
    <2> QED
      BY <1>1, <1>2, <2>1 DEF Running, allowed_mb_types
  <1>4. RunFlow("P16x16")
    BY <1>1, <1>2, <1>3
  <1>5. Backend(Frontend(m_motion_infos, search, "P16x16"), search)
          = [map |-> Enter(m_motion_infos, search, Best), parts |-> <<Best>>]
    BY WholeFlow DEF Best
  <1>6. m_mb_type' = "P16x16" /\ m_parts' = <<Best>> /\ m_motion_infos' = Enter(m_motion_infos, search, Best)
    BY <1>4, <1>5 DEF RunFlow
  <1>7. Enter(m_motion_infos, search, Best) = SetMotionInfos(m_motion_infos, m_mb_addr, P16x16, Best.motion)
    <2>1. Decision(Best) => Best.part = P16x16
      BY DEF Decision
    <2>2. Best.part = P16x16
      BY DEF Best, FindBestMotionInfo
    <2>3. search.mb_addr = m_mb_addr
      BY DEF search
    <2> QED
      BY <2>2, <2>3 DEF Enter
  <1>8. pc' = "output"
    BY <1>1, <1>2, <1>3, <1>6
  <1> QED
    BY <1>1, <1>6, <1>7, <1>8

\* A map after motion was entered for a macroblock.
LEMMA MapEntered ==
  ASSUME NEW a \in MBs, NEW map, NEW motion
  PROVE  LET entered == SetMotionInfos(map, a, P16x16, motion)
         IN  /\ entered = [b \in BlockIndices |-> IF b \in Blocks(a) THEN motion ELSE map[b]]
             /\ \A b \in Blocks(a) : entered[b] = motion
             /\ \A b \in BlockIndices : Earlier(a, b) => entered[b] = map[b]
  <1> DEFINE entered == SetMotionInfos(map, a, P16x16, motion)
  <1>1. entered = [b \in BlockIndices |-> IF b \in Blocks(a) THEN motion ELSE map[b]]
    BY DEF SetMotionInfos, Blocks
  <1>2. \A b \in Blocks(a) : b \in BlockIndices
    BY BlocksInPicture
  <1>3. ASSUME NEW b \in BlockIndices, Earlier(a, b)
        PROVE  b \notin Blocks(a)
    <2>1. PICK c \in MBs : c < a /\ b \in Blocks(c)
      BY <1>3 DEF Earlier
    <2>2. c # a
      BY <2>1 DEF MBs
    <2> QED
      BY <2>1, <2>2, BlocksApart
  <1> HIDE DEF entered
  <1> QED
    BY <1>1, <1>2, <1>3 DEF entered

\* No macroblock is before the first, and the next has one more before it.
LEMMA EarlierGrows ==
  /\ \A b : ~Earlier(0, b)
  /\ \A a \in MBs : \A b : Earlier(a + 1, b) <=> Earlier(a, b) \/ b \in Blocks(a)
  <1>1. \A c \in MBs : c \in Nat
    BY DEF MBs
  <1>2. \A b : ~Earlier(0, b)
    BY <1>1 DEF Earlier
  <1>3. ASSUME NEW a \in MBs, NEW b
        PROVE  Earlier(a + 1, b) <=> Earlier(a, b) \/ b \in Blocks(a)
    <2>1. \A c \in MBs : c < a + 1 <=> c < a \/ c = a
      BY <1>1
    <2>2. a < a + 1
      BY <1>1
    <2> QED
      BY <2>1, <2>2 DEF Earlier
  <1> QED
    BY <1>2, <1>3

\* At the start.
LEMMA HeldAtInit ==
  ASSUME OnlyP16x16, Init
  PROVE  Held
  <1>1. Running
    <2>1. 0 \in MBs
      <3>1. m_width_in_mb * m_height_in_mb \in Nat \ {0}
        BY SizeAssumption
      <3> QED
        BY <3>1 DEF MBs, mb_num
    <2>2. cost \in setting.costs
      BY DEF Init, Costs
    <2> QED
      BY <2>1, <2>2 DEF Init, Running
  <1>2. MapClipped
    <2>1. m_motion_infos = [b \in BlockIndices |-> NoMotion]
      BY DEF Init
    <2>2. Clipped(NoMotion.mv)
      BY NoMotionHasNone, ClipIsVector DEF Clipped
    <2> QED
      BY <2>1, <2>2 DEF MapClipped
  <1>3. EarlierDecided
    BY EarlierGrows DEF EarlierDecided, Mirror, Init
  <1>4. OneDecided
    BY DEF OneDecided, Init
  <1> QED
    BY <1>1, <1>2, <1>3, <1>4 DEF Held

\* Trying the type enters the motion of this macroblock.
LEMMA HeldByTry ==
  ASSUME OnlyP16x16, Held, TryType
  PROVE  Held'
  <1>1. Running /\ MapClipped /\ EarlierDecided
    BY DEF Held
  <1>2. /\ pc = "try" /\ pc' = "output" /\ m_mb_type' = "P16x16" /\ m_parts' = <<Best>>
        /\ m_motion_infos' = SetMotionInfos(m_motion_infos, m_mb_addr, P16x16, Best.motion)
        /\ UNCHANGED <<setting, picture, m_mb_addr, cost, mb_run, received>>
    BY <1>1, OneTry
  <1>3. Decision(Best)
    BY <1>1, BestIsDecision
  <1> DEFINE entered == SetMotionInfos(m_motion_infos, m_mb_addr, P16x16, Best.motion)
  <1>4. /\ entered = [b \in BlockIndices |-> IF b \in Blocks(m_mb_addr) THEN Best.motion ELSE m_motion_infos[b]]
        /\ \A b \in Blocks(m_mb_addr) : entered[b] = Best.motion
        /\ \A b \in BlockIndices : Earlier(m_mb_addr, b) => entered[b] = m_motion_infos[b]
    BY <1>1, MapEntered DEF Running
  <1> HIDE DEF entered
  <1>5. m_motion_infos' = entered
    BY <1>2 DEF entered
  <1>6. Running'
    BY <1>1, <1>2 DEF Running
  <1>7. MapClipped'
    <2>1. m_motion_infos \in [BlockIndices -> Motion \cup {NoMotion}]
          /\ \A b \in BlockIndices : Clipped(m_motion_infos[b].mv)
      BY <1>1 DEF MapClipped
    <2>2. Best.motion \in Motion /\ Clipped(Best.motion.mv)
      BY <1>3 DEF Decision, Clipped
    <2>3. entered \in [BlockIndices -> Motion \cup {NoMotion}]
      BY <1>4, <2>1, <2>2
    <2>4. \A b \in BlockIndices : Clipped(entered[b].mv)
      BY <1>4, <2>1, <2>2
    <2>5. \A mv : Clipped(mv)' <=> Clipped(mv)
      BY <1>2 DEF Clipped
    <2> QED
      BY <1>5, <2>3, <2>4, <1>2 DEF MapClipped, Clipped
  <1>8. EarlierDecided'
    BY <1>1, <1>2, <1>4, <1>5 DEF EarlierDecided, Mirror
  <1>9. OneDecided'
    <2>1. m_parts'[1] = Best /\ m_parts' = <<m_parts'[1]>>
      BY <1>2
    <2>2. Decision(m_parts[1])'
      BY <1>2, <1>3, <2>1 DEF Decision
    <2> QED
      BY <1>2, <1>4, <1>5, <2>1, <2>2 DEF OneDecided
  <1> QED
    BY <1>6, <1>7, <1>8, <1>9 DEF Held

\* Writing changes nothing of it.
LEMMA HeldByOutput ==
  ASSUME Held, OutputMB
  PROVE  Held'
  <1>1. /\ pc = "output" /\ pc' = "next" /\ mb_run' = 0
        /\ UNCHANGED <<setting, picture, m_mb_addr, cost, tried, m_mb_type, m_parts, m_motion_infos>>
    BY DEF OutputMB, Held, OneDecided
  <1>2. Running' /\ MapClipped' /\ EarlierDecided'
    BY <1>1 DEF Held, Running, MapClipped, Clipped, EarlierDecided
  <1>3. OneDecided'
    BY <1>1 DEF Held, OneDecided, Decision
  <1> QED
    BY <1>2, <1>3 DEF Held

\* The macroblock just decided is then one of the earlier ones.
LEMMA HeldByNextMB ==
  ASSUME Held, NextMB
  PROVE  Held'
  <1>1. /\ pc = "next" /\ m_mb_addr < mb_num - 1 /\ m_mb_addr' = m_mb_addr + 1 /\ cost' \in Costs(setting, picture)
        /\ pc' = "try" /\ tried' = 0 /\ UNCHANGED <<setting, picture, m_motion_infos, mb_run>>
    BY DEF NextMB
  <1>2. Running'
    <2>1. m_mb_addr' \in MBs
      BY <1>1, SizeAssumption DEF Held, Running, MBs, mb_num
    <2> QED
      BY <1>1, <2>1 DEF Held, Running, Costs
  <1>3. MapClipped'
    BY <1>1 DEF Held, MapClipped, Clipped
  <1>4. EarlierDecided'
    <2>1. \A b : Earlier(m_mb_addr + 1, b) <=> Earlier(m_mb_addr, b) \/ b \in Blocks(m_mb_addr)
      BY EarlierGrows DEF Held, Running
    <2>2. \A b \in Blocks(m_mb_addr) : m_motion_infos[b] \in Motion
      BY <1>1 DEF Held, OneDecided, Decision
    <2> QED
      BY <1>1, <2>1, <2>2 DEF Held, EarlierDecided, Mirror
  <1>5. OneDecided'
    BY <1>1 DEF OneDecided
  <1> QED
    BY <1>2, <1>3, <1>4, <1>5 DEF Held

\* The map of the last picture is only a map of motion: nothing of it counts.
LEMMA HeldByNextPicture ==
  ASSUME Held, NextPicture
  PROVE  Held'
  <1>1. /\ picture' = picture + 1 /\ m_mb_addr' = 0 /\ cost' \in Costs(setting, picture')
        /\ pc' = "try" /\ tried' = 0 /\ UNCHANGED <<setting, m_motion_infos, mb_run>>
    BY DEF NextPicture
  <1>2. Running'
    <2>1. 0 \in MBs
      <3>1. m_width_in_mb * m_height_in_mb \in Nat \ {0}
        BY SizeAssumption
      <3> QED
        BY <3>1 DEF MBs, mb_num
    <2> QED
      BY <1>1, <2>1 DEF Held, Running, Costs
  <1>3. MapClipped'
    BY <1>1 DEF Held, MapClipped, Clipped
  <1>4. EarlierDecided'
    BY <1>1, EarlierGrows DEF EarlierDecided, Mirror
  <1>5. OneDecided'
    BY <1>1 DEF OneDecided
  <1> QED
    BY <1>2, <1>3, <1>4, <1>5 DEF Held

\* So it does in every step.
LEMMA HeldStays ==
  ASSUME OnlyP16x16, Held, [Next]_inter_vars
  PROVE  Held'
  <1>1. CASE TryType
    BY <1>1, HeldByTry
  <1>2. CASE TryBestAgain
    BY <1>2 DEF TryBestAgain, Held, Running
  <1>3. CASE OutputMB
    BY <1>3, HeldByOutput
  <1>4. CASE NextMB
    BY <1>4, HeldByNextMB
  <1>5. CASE NextPicture
    BY <1>5, HeldByNextPicture
  <1>6. CASE UNCHANGED inter_vars
    BY <1>6 DEF inter_vars, Held, Running, MapClipped, Clipped, EarlierDecided, OneDecided, Decision
  <1> QED
    BY <1>1, <1>2, <1>3, <1>4, <1>5, <1>6 DEF Next

\* It holds in every state.
LEMMA AlwaysHeld ==
  ASSUME OnlyP16x16
  PROVE  Spec => []Held
  BY HeldAtInit, HeldStays, PTL DEF Spec

-----------------------------------------------------------------------------
(* The prediction.                                                         *)

\* No vector leaves the range of its level.
LEMMA WithinLevel ==
  ASSUME KnownLevels, Held
  PROVE  MotionWithinLevel
  <1> SUFFICES ASSUME NEW b \in BlockIndices
               PROVE  AllowedByLevel(m_motion_infos[b].mv, setting.level_idc)
    BY DEF MotionWithinLevel
  <1>1. PICK v \in Vector : m_motion_infos[b].mv = ClipMVRange(v, setting.level_idc)
    BY DEF Held, MapClipped, Clipped
  <1>2. setting.level_idc \in {LevelIds[i] : i \in DOMAIN LevelIds} \ {-1, 0}
    BY DEF Held, Running, KnownLevels
  <1>3. PICK i \in DOMAIN LevelIds : setting.level_idc = LevelIds[i]
    BY <1>2
  <1>4. LevelIds[i] # -1 /\ LevelIds[i] # 0
    BY <1>2, <1>3
  <1>5. i \in 1..21
    <2>1. DOMAIN LevelIds = 1..21
      BY DEF LevelIds
    <2> QED
      BY <2>1
  <1> QED
    BY <1>1, <1>3, <1>4, <1>5, ClippedAllowed

\* The planes.
LEMMA Planes ==
  /\ width \in Nat \ {0} /\ height \in Nat \ {0}
  /\ width \div 2 \in Nat \ {0} /\ height \div 2 \in Nat \ {0}
  <1>1. width \div 2 = 8 * m_width_in_mb /\ height \div 2 = 8 * m_height_in_mb
    BY SizeAssumption DEF width, height
  <1> QED
    BY <1>1, SizeAssumption DEF width, height

\* The one partition of a decided macroblock.
LEMMA TheDecision ==
  ASSUME Held, pc = "next"
  PROVE  /\ DOMAIN m_parts = {1} /\ m_parts = <<m_parts[1]>> /\ Decision(m_parts[1]) /\ m_mb_addr \in MBs
         /\ PositionInBlock(m_mb_addr, m_parts[1].part) = MBPosition(m_mb_addr)
         /\ MBPosition(m_mb_addr).x \in Nat /\ MBPosition(m_mb_addr).y \in Nat
  <1>1. m_parts = <<m_parts[1]>> /\ Decision(m_parts[1]) /\ m_mb_addr \in MBs
    BY DEF Held, OneDecided, Running
  <1>2. DOMAIN m_parts = {1}
    BY <1>1, OnlyOne
  <1>3. PositionInBlock(m_mb_addr, m_parts[1].part) = MBPosition(m_mb_addr)
    BY <1>1, PartIsWhole DEF Decision
  <1>4. MBPosition(m_mb_addr).x \in Nat /\ MBPosition(m_mb_addr).y \in Nat
    BY <1>1, Address
  <1> QED
    BY <1>1, <1>2, <1>3, <1>4

\* What the search walks over and what the prediction is taken from.
LEMMA WalkedAndTaken ==
  ASSUME Held, pc = "next", NEW d, d = m_parts[1], NEW start, start = MBPosition(m_mb_addr)
  PROVE  /\ PartCompared(d) = [x |-> [i \in 0..15 |-> ObtainData(4 * start.x + Quotient(d.compared.x, 4), i, width)],
                               y |-> [i \in 0..15 |-> ObtainData(4 * start.y + Quotient(d.compared.y, 4), i, height)]]
         /\ PartLuma(d) = [x |-> [i \in 0..15 |-> ObtainData(4 * start.x + Quotient(d.motion.mv.x, 4), i, width)],
                           y |-> [i \in 0..15 |-> ObtainData(4 * start.y + Quotient(d.motion.mv.y, 4), i, height)]]
         /\ 4 * start.x + Quotient(d.compared.x, 4) \in Int /\ 4 * start.y + Quotient(d.compared.y, 4) \in Int
         /\ 4 * start.x + Quotient(d.motion.mv.x, 4) \in Int /\ 4 * start.y + Quotient(d.motion.mv.y, 4) \in Int
  <1>1. PositionInBlock(m_mb_addr, d.part) = start /\ start.x \in Nat /\ start.y \in Nat /\ Decision(d)
    BY TheDecision
  <1>2. 4 * d.part.w - 1 = 15 /\ 4 * d.part.h - 1 = 15
    BY <1>1, PartIsWhole DEF Decision
  <1>3. /\ d.compared.x \in Int /\ d.compared.y \in Int /\ d.motion.mv.x \in Int /\ d.motion.mv.y \in Int
    BY <1>1 DEF Decision, Vector, Motion
  <1>4. /\ 4 * start.x + Quotient(d.compared.x, 4) \in Int /\ 4 * start.y + Quotient(d.compared.y, 4) \in Int
        /\ 4 * start.x + Quotient(d.motion.mv.x, 4) \in Int /\ 4 * start.y + Quotient(d.motion.mv.y, 4) \in Int
    BY <1>1, <1>3, WholeVector
  <1> DEFINE cx == 4 * start.x + Quotient(d.compared.x, 4)
             cy == 4 * start.y + Quotient(d.compared.y, 4)
             mx == 4 * start.x + Quotient(d.motion.mv.x, 4)
             my == 4 * start.y + Quotient(d.motion.mv.y, 4)
  <1>5. PartCompared(d) = [x |-> [i \in 0..15 |-> SADPointer(cx, i, width)],
                           y |-> [i \in 0..15 |-> SADPointer(cy, i, height)]]
    BY <1>1, <1>2 DEF PartCompared
  <1>6. PartLuma(d) = [x |-> [i \in 0..15 |-> ObtainData(mx, i, width)],
                       y |-> [i \in 0..15 |-> ObtainData(my, i, height)]]
    BY <1>1, <1>2 DEF PartLuma
  <1>7. \A i \in 0..15 : SADPointer(cx, i, width) = ObtainData(cx, i, width)
                         /\ SADPointer(cy, i, height) = ObtainData(cy, i, height)
    <2> HIDE DEF cx, cy
    <2>1. cx \in Int /\ cy \in Int
      BY <1>4 DEF cx, cy
    <2> QED
      BY <2>1, Planes, WalkIsClamp
  <1> HIDE DEF cx, cy, mx, my
  <1> QED
    BY <1>4, <1>5, <1>6, <1>7 DEF cx, cy, mx, my

\* The search compared what the prediction is made of.
LEMMA ComparesPrediction ==
  ASSUME Held
  PROVE  SearchComparesPrediction
  <1> SUFFICES ASSUME pc = "next", m_parts[1].compared = m_parts[1].motion.mv
               PROVE  PartCompared(m_parts[1]) = PartLuma(m_parts[1])
    BY TheDecision DEF SearchComparesPrediction
  <1> QED
    BY WalkedAndTaken

\* The block of a chroma sample.
LEMMA BlockOfSample ==
  ASSUME NEW k \in 0..7, NEW l \in 0..7
  PROVE  /\ BlockOf(SegmentOf(<<k, l>>)) = [x |-> k \div 2, y |-> l \div 2]
         /\ k \div 2 \in 0..3 /\ l \div 2 \in 0..3
  <1> DEFINE s == 8 * (l \div 4) + 4 * (k \div 4) + 2 * ((l % 4) \div 2) + ((k % 4) \div 2)
  <1>1. SegmentOf(<<k, l>>) = s
    BY DEF SegmentOf
  <1>2. s \div 4 = 2 * (l \div 4) + (k \div 4) /\ s % 4 = 2 * ((l % 4) \div 2) + ((k % 4) \div 2)
    OBVIOUS
  <1>3. (s \div 4) % 2 = k \div 4 /\ (s \div 4) \div 2 = l \div 4
        /\ (s % 4) % 2 = (k % 4) \div 2 /\ (s % 4) \div 2 = (l % 4) \div 2
    <2> HIDE DEF s
    <2> QED
      BY <1>2
  <1>4. 2 * (k \div 4) + ((k % 4) \div 2) = k \div 2 /\ 2 * (l \div 4) + ((l % 4) \div 2) = l \div 2
    OBVIOUS
  <1>5. k \div 2 \in 0..3 /\ l \div 2 \in 0..3
    OBVIOUS
  <1> HIDE DEF s
  <1> QED
    BY <1>1, <1>3, <1>4, <1>5 DEF BlockOf

\* A chroma sample's prediction, from the motion of its macroblock.
LEMMA ChromaOfMotion ==
  ASSUME Held, pc = "next", NEW p \in Samples, NEW start, start = MBPosition(m_mb_addr),
         NEW mv, mv = m_parts[1].motion.mv
  PROVE  /\ m_predicted_chroma[p]
              = [x |-> InterpolateChroma(Start(4 * start.x + 4 * (p[1] \div 2), mv.x, width \div 2), p[1] % 2, width \div 2),
                 y |-> InterpolateChroma(Start(4 * start.y + 4 * (p[2] \div 2), mv.y, height \div 2), p[2] % 2, height \div 2)]
         /\ GetBlockIndex(start.x + (p[1] \div 2), start.y + (p[2] \div 2)) \in Blocks(m_mb_addr)
         /\ mv.x \in Int /\ mv.y \in Int
         /\ start.x = 4 * Column(m_mb_addr) /\ start.y = 4 * Row(m_mb_addr)
         /\ Column(m_mb_addr) \in Nat /\ Row(m_mb_addr) \in Nat
  <1>1. PICK k \in 0..7, l \in 0..7 : p = <<k, l>>
    BY DEF Samples
  <1>2. p[1] = k /\ p[2] = l
    BY <1>1
  <1>3. BlockOf(SegmentOf(p)) = [x |-> k \div 2, y |-> l \div 2] /\ k \div 2 \in 0..3 /\ l \div 2 \in 0..3
    BY <1>1, BlockOfSample
  <1>4. /\ start.x = 4 * Column(m_mb_addr) /\ start.y = 4 * Row(m_mb_addr) /\ m_mb_addr \in MBs
        /\ Column(m_mb_addr) \in Nat /\ Row(m_mb_addr) \in Nat
    BY Address, TheDecision
  <1> DEFINE b == GetBlockIndex(start.x + (k \div 2), start.y + (l \div 2))
  <1>5. b \in Blocks(m_mb_addr)
    BY <1>3, <1>4, BlockAt
  <1>6. m_motion_infos[b] = m_parts[1].motion
    BY <1>5 DEF Held, OneDecided
  <1>7. mv.x \in Int /\ mv.y \in Int
    BY TheDecision DEF Decision, Motion, Vector
  <1>8. GetPosition.x = 4 * start.x /\ GetPosition.y = 4 * start.y
    BY DEF GetPosition
  <1>9. m_predicted_chroma[p] = PredictedSample(p)
    BY DEF m_predicted_chroma
  <1>10. PredictedSample(p)
           = [x |-> InterpolateChroma(Start(4 * start.x + 4 * (k \div 2), mv.x, width \div 2), k % 2, width \div 2),
              y |-> InterpolateChroma(Start(4 * start.y + 4 * (l \div 2), mv.y, height \div 2), l % 2, height \div 2)]
    <2>1. BlockOf(SegmentOf(p)).x = k \div 2 /\ BlockOf(SegmentOf(p)).y = l \div 2
      BY <1>3
    <2> HIDE DEF b
    <2> QED
      BY <1>2, <1>6, <1>8, <2>1 DEF PredictedSample, b
  <1> QED
    BY <1>2, <1>4, <1>5, <1>7, <1>9, <1>10

\* No sample outside the planes is read.
LEMMA ReadsInside ==
  ASSUME Held
  PROVE  ReadsStayInside
  <1> SUFFICES ASSUME pc = "next"
               PROVE  /\ LET walked == PartCompared(m_parts[1])
                         IN  /\ \A i \in DOMAIN walked.x : walked.x[i] \in 0..(width - 1)
                             /\ \A i \in DOMAIN walked.y : walked.y[i] \in 0..(height - 1)
                      /\ \A p \in Samples :
                           /\ \A tap \in m_predicted_chroma[p].x : tap[1] \in 0..((width \div 2) - 1)
                           /\ \A tap \in m_predicted_chroma[p].y : tap[1] \in 0..((height \div 2) - 1)
    BY TheDecision DEF ReadsStayInside
  <1>1. \A size \in Nat \ {0} : \A start \in Int : \A i \in 0..15 : ObtainData(start, i, size) \in 0..(size - 1)
    BY ClampInside DEF ObtainData
  <1>2. /\ \A i \in DOMAIN PartCompared(m_parts[1]).x : PartCompared(m_parts[1]).x[i] \in 0..(width - 1)
        /\ \A i \in DOMAIN PartCompared(m_parts[1]).y : PartCompared(m_parts[1]).y[i] \in 0..(height - 1)
    <2> DEFINE start == MBPosition(m_mb_addr)
               cx == 4 * start.x + Quotient(m_parts[1].compared.x, 4)
               cy == 4 * start.y + Quotient(m_parts[1].compared.y, 4)
    <2>1. /\ PartCompared(m_parts[1]) = [x |-> [i \in 0..15 |-> ObtainData(cx, i, width)],
                                         y |-> [i \in 0..15 |-> ObtainData(cy, i, height)]]
          /\ cx \in Int /\ cy \in Int
      BY WalkedAndTaken
    <2> HIDE DEF cx, cy
    <2> DEFINE walked == PartCompared(m_parts[1])
    <2>2. walked.x = [i \in 0..15 |-> ObtainData(cx, i, width)] /\ walked.y = [i \in 0..15 |-> ObtainData(cy, i, height)]
      BY <2>1
    <2> HIDE DEF walked
    <2>3. \A i \in 0..15 : ObtainData(cx, i, width) \in 0..(width - 1) /\ ObtainData(cy, i, height) \in 0..(height - 1)
      BY <1>1, <2>1, Planes
    <2>4. DOMAIN walked.x = 0..15 /\ DOMAIN walked.y = 0..15
      BY <2>2
    <2>5. \A i \in 0..15 : walked.x[i] = ObtainData(cx, i, width) /\ walked.y[i] = ObtainData(cy, i, height)
      BY <2>2
    <2> HIDE DEF start
    <2> QED
      BY <2>3, <2>4, <2>5 DEF walked
  <1>3. ASSUME NEW p \in Samples
        PROVE  /\ \A tap \in m_predicted_chroma[p].x : tap[1] \in 0..((width \div 2) - 1)
               /\ \A tap \in m_predicted_chroma[p].y : tap[1] \in 0..((height \div 2) - 1)
    <2> DEFINE start == MBPosition(m_mb_addr)
               mv == m_parts[1].motion.mv
               sx == Start(4 * start.x + 4 * (p[1] \div 2), mv.x, width \div 2)
               sy == Start(4 * start.y + 4 * (p[2] \div 2), mv.y, height \div 2)
    <2>1. /\ m_predicted_chroma[p] = [x |-> InterpolateChroma(sx, p[1] % 2, width \div 2),
                                      y |-> InterpolateChroma(sy, p[2] % 2, height \div 2)]
          /\ mv.x \in Int /\ mv.y \in Int /\ start.x \in Int /\ start.y \in Int
      BY ChromaOfMotion
    <2>2. p[1] \in 0..7 /\ p[2] \in 0..7
      BY DEF Samples
    <2>3. p[1] % 2 \in Nat /\ p[2] % 2 \in Nat /\ p[1] \div 2 \in Int /\ p[2] \div 2 \in Int
      BY <2>2
    <2>4. \A position, component \in Int : \A size \in Nat \ {0} : Start(position, component, size) \in Int
      BY DEF Start, Clamp
    <2>5. 4 * start.x + 4 * (p[1] \div 2) \in Int /\ 4 * start.y + 4 * (p[2] \div 2) \in Int
      BY <2>1, <2>3
    <2>6. sx \in Int /\ sy \in Int
      BY <2>1, <2>4, <2>5, Planes
    <2> HIDE DEF sx, sy
    <2>7. \A tap \in InterpolateChroma(sx, p[1] % 2, width \div 2) : tap[1] \in 0..((width \div 2) - 1)
      BY <2>3, <2>6, Planes, TapsInside
    <2>8. \A tap \in InterpolateChroma(sy, p[2] % 2, height \div 2) : tap[1] \in 0..((height \div 2) - 1)
      BY <2>3, <2>6, Planes, TapsInside
    <2> QED
      BY <2>1, <2>7, <2>8
  <1> QED
    BY <1>2, <1>3

\* The luma prediction and the residual of a macroblock of 16x16, by block.
LEMMA LumaByBlock ==
  ASSUME Held, pc = "next", NEW b \in 0..15
  PROVE  /\ m_predicted_luma[b] = PartBlock(m_parts[1], b)
         /\ m_diff_datas[b] = [original |-> b, predicted |-> PartBlock(m_parts[1], b)]
  <1> DEFINE d == m_parts[1]
             blocks == [i \in 0..15 |-> i]
  <1>1. DOMAIN m_parts = {1} /\ d.part = P16x16
    BY TheDecision DEF Decision
  <1>2. d.part.fill = blocks /\ d.part.diff = blocks /\ d.part.orig = blocks
    BY <1>1 DEF P16x16
  <1>3. DOMAIN blocks = 0..15 /\ \A i \in 0..15 : blocks[i] = i
    OBVIOUS
  <1> HIDE DEF blocks
  <1>4. Place(blocks, b) = b
    BY <1>3 DEF Place
  <1>5. {n \in DOMAIN m_parts : \E i \in DOMAIN m_parts[n].part.fill : m_parts[n].part.fill[i] = b} = {1}
    BY <1>1, <1>2, <1>3
  <1>6. {n \in DOMAIN m_parts : \E i \in DOMAIN m_parts[n].part.diff : m_parts[n].part.diff[i] = b} = {1}
    BY <1>1, <1>2, <1>3
  <1>7. Max({1}) = 1 /\ {1} # {}
    BY OnlyOne
  <1>8. m_predicted_luma[b] = PartBlock(d, Place(d.part.fill, b))
    BY <1>5, <1>7 DEF m_predicted_luma
  <1>9. m_diff_datas[b] = [original |-> d.part.orig[Place(d.part.diff, b)],
                           predicted |-> PartBlock(d, Place(d.part.diff, b))]
    BY <1>6, <1>7 DEF m_diff_datas
  <1> QED
    BY <1>2, <1>3, <1>4, <1>8, <1>9

\* The residual belongs to the prediction it is added to.
LEMMA ResidualMatches ==
  ASSUME Held
  PROVE  ResidualMatchesPrediction
  BY LumaByBlock DEF ResidualMatchesPrediction

-----------------------------------------------------------------------------
(* The elements of a macroblock of 16x16, written and read.                *)

\* Sequences put together.
LEMMA PutTogether ==
  ASSUME NEW a, NEW b, NEW c
  PROVE  /\ <<a>> \o <<>> = <<a>> /\ <<>> \o <<b, c>> = <<b, c>>
         /\ <<a>> \o <<b, c>> = <<a, b, c>>
  <1> DEFINE S == {a, b, c}
  <1>1. <<a>> \in Seq(S) /\ <<b, c>> \in Seq(S)
        /\ <<a, b, c>> \in Seq(S) /\ <<>> \in Seq(S)
    OBVIOUS
  <1>2. <<a>> \o <<b, c>> = <<a, b, c>>
    <2> DEFINE s == <<a>> \o <<b, c>>
               t == <<a, b, c>>
    <2>1. s \in Seq(S) /\ Len(s) = 3 /\ s[1] = a /\ s[2] = b /\ s[3] = c
      BY <1>1
    <2>2. t \in Seq(S) /\ Len(t) = 3 /\ t[1] = a /\ t[2] = b /\ t[3] = c
      BY <1>1
    <2>3. \A i \in 1..3 : i = 1 \/ i = 2 \/ i = 3
      OBVIOUS
    <2> HIDE DEF s, t, S
    <2>4. \A i \in 1..Len(s) : s[i] = t[i]
      BY <2>1, <2>2, <2>3
    <2>5. Len(s) = Len(t) /\ s \in Seq(S) /\ t \in Seq(S)
      BY <2>1, <2>2
    <2>6. s = t
      BY <2>4, <2>5, SeqEqual
    <2> QED
      BY <2>6 DEF s, t
  <1>4. <<a>> \o <<>> = <<a>> /\ <<>> \o <<b, c>> = <<b, c>>
    <2> HIDE DEF S
    <2> QED
      BY <1>1, ConcatEmptySeq
  <1> QED
    BY <1>2, <1>4

\* And one more.
LEMMA PutFour ==
  ASSUME NEW a, NEW b, NEW c, NEW e
  PROVE  <<a>> \o <<b, c, e>> = <<a, b, c, e>>
  <1> DEFINE S == {a, b, c, e}
             s == <<a>> \o <<b, c, e>>
             t == <<a, b, c, e>>
  <1>1. s \in Seq(S) /\ Len(s) = 4 /\ s[1] = a /\ s[2] = b /\ s[3] = c /\ s[4] = e
    OBVIOUS
  <1>2. t \in Seq(S) /\ Len(t) = 4 /\ t[1] = a /\ t[2] = b /\ t[3] = c /\ t[4] = e
    OBVIOUS
  <1>3. \A i \in 1..4 : i = 1 \/ i = 2 \/ i = 3 \/ i = 4
    OBVIOUS
  <1> HIDE DEF s, t, S
  <1>4. \A i \in 1..Len(s) : s[i] = t[i]
    BY <1>1, <1>2, <1>3
  <1>5. s = t
    BY <1>1, <1>2, <1>4, SeqEqual
  <1> QED
    BY <1>5 DEF s, t

\* The elements: type, reference if there are two, difference.
Elements(ref_num_, ref_id, mvd) ==
  IF ref_num_ = 2
  THEN <<<<"ue(v)", 0>>, <<"u(1)", 1 - ref_id>>, <<"se(v)", mvd.x>>, <<"se(v)", mvd.y>>>>
  ELSE <<<<"ue(v)", 0>>, <<"se(v)", mvd.x>>, <<"se(v)", mvd.y>>>>

\* They are what the binaryer writes.
LEMMA WholeElements ==
  ASSUME NEW d, NEW given, given.ref_num \in {1, 2}
  PROVE  MBElements("P16x16", <<d>>, given) = Elements(given.ref_num, d.motion.ref_id, d.mvd)
  <1> DEFINE code == <<<<"ue(v)", 0>>>>
             x == <<"se(v)", d.mvd.x>>
             y == <<"se(v)", d.mvd.y>>
             bit == <<"u(1)", 1 - d.motion.ref_id>>
             mvds == [i \in 1..(2 * Len(<<d>>)) |->
                        <<"se(v)", IF i % 2 = 1 THEN <<d>>[(i + 1) \div 2].mvd.x ELSE <<d>>[i \div 2].mvd.y>>]
  <1>1. mvds = <<x, y>>
    <2>1. 2 * Len(<<d>>) = 2
      OBVIOUS
    <2>2. mvds = [i \in 1..2 |-> IF i = 1 THEN x ELSE y]
      <3>1. \A i \in 1..2 : i = 1 \/ i = 2
        OBVIOUS
      <3>2. 1 % 2 = 1 /\ (1 + 1) \div 2 = 1 /\ 2 % 2 = 0 /\ 2 \div 2 = 1 /\ <<d>>[1] = d
        OBVIOUS
      <3> QED
        BY <2>1, <3>1, <3>2
    <2> HIDE DEF mvds, x, y
    <2> QED
      BY <2>2
  <1>2. OutputMotionInfo("P16x16", <<d>>, given.ref_num) = CodingRefID(d.motion.ref_id, given.ref_num) \o mvds
    BY DEF OutputMotionInfo
  <1>3. MBElements("P16x16", <<d>>, given) = (code \o <<>>) \o (CodingRefID(d.motion.ref_id, given.ref_num) \o <<x, y>>)
    BY <1>1, <1>2 DEF MBElements, MBTypeCode, OutputSubMBTypes
  <1> HIDE DEF x, y, bit
  <1>4. CASE given.ref_num = 1
    <2>1. CodingRefID(d.motion.ref_id, given.ref_num) = <<>>
      BY <1>4 DEF CodingRefID
    <2>2. (code \o <<>>) \o (<<>> \o <<x, y>>) = <<<<"ue(v)", 0>>, x, y>>
      <3>1. code \o <<>> = code /\ <<>> \o <<x, y>> = <<x, y>>
        BY PutTogether, Zenon
      <3>2. code \o <<x, y>> = <<<<"ue(v)", 0>>, x, y>>
        BY PutTogether, Zenon
      <3> HIDE DEF code
      <3> QED
        BY <3>1, <3>2
    <2>3. Elements(given.ref_num, d.motion.ref_id, d.mvd) = <<<<"ue(v)", 0>>, x, y>>
      BY <1>4 DEF Elements, x, y
    <2> QED
      BY <1>3, <2>1, <2>2, <2>3
  <1>5. CASE given.ref_num = 2
    <2>1. CodingRefID(d.motion.ref_id, given.ref_num) = <<bit>>
      BY <1>5 DEF CodingRefID, bit
    <2>2. (code \o <<>>) \o (<<bit>> \o <<x, y>>) = <<<<"ue(v)", 0>>, bit, x, y>>
      <3>1. code \o <<>> = code
        BY PutTogether, Zenon
      <3>2. <<bit>> \o <<x, y>> = <<bit, x, y>>
        BY PutTogether, Zenon
      <3>3. code \o <<bit, x, y>> = <<<<"ue(v)", 0>>, bit, x, y>>
        <4> DEFINE zero == <<"ue(v)", 0>>
        <4> HIDE DEF zero
        <4>1. <<zero>> \o <<bit, x, y>> = <<zero, bit, x, y>>
          BY PutFour
        <4> QED
          BY <4>1 DEF zero
      <3> HIDE DEF code
      <3> QED
        BY <3>1, <3>2, <3>3
    <2>3. Elements(given.ref_num, d.motion.ref_id, d.mvd) = <<<<"ue(v)", 0>>, bit, x, y>>
      BY <1>5 DEF Elements, x, y, bit
    <2> QED
      BY <1>3, <2>1, <2>2, <2>3
  <1> QED
    BY <1>4, <1>5

\* One partition for the whole macroblock.
LEMMA WholeIsOne ==
  /\ DOMAIN Whole = {1} /\ Len(Whole) = 1
  /\ Whole[1] = [x |-> 0, y |-> 0, w |-> 4, h |-> 4]
  /\ \A subs : ReceiverParts(0, subs) = Whole
  <1>1. Whole = [i \in 1..1 |-> [x |-> 0 + ((i - 1) % 1) * 4, y |-> 0 + ((i - 1) \div 1) * 4, w |-> 4, h |-> 4]]
    <2>1. 4 \div 4 = 1 /\ (4 \div 4) * (4 \div 4) = 1
      OBVIOUS
    <2> QED
      BY <2>1 DEF Whole, Cut
  <1>2. DOMAIN Whole = {1}
    BY <1>1
  <1>3. Len(Whole) = 1
    BY <1>1
  <1>4. Whole[1] = [x |-> 0, y |-> 0, w |-> 4, h |-> 4]
    BY <1>1
  <1>5. ASSUME NEW subs
        PROVE  ReceiverParts(0, subs) = Whole
    BY DEF ReceiverParts
  <1> QED
    BY <1>2, <1>3, <1>4, <1>5

\* No skipped macroblocks.
LEMMA NoSkips ==
  ASSUME NEW state
  PROVE  ReceiveSkips(state, 0) = state
  <1> DEFINE none == [i \in 1..0 |-> i]
             D == DOMAIN none
             F(it) == [s \in SUBSET D |->
                         IF s = {} THEN state ELSE LET x == Max(s) IN ReceiveSkip(it[s \ {x}])]
             iter == CHOOSE it : it = F(it)
             g == [s \in SUBSET {} |-> state]
  <1>1. ReceiveSkips(state, 0) = iter[D]
    BY DEF ReceiveSkips, FoldLeft, MapThenFoldSet
  <1>2. D = {}
    OBVIOUS
  <1>3. ASSUME NEW it
        PROVE  F(it) = g
    <2> HIDE DEF D
    <2>1. \A s \in SUBSET {} : s = {}
      OBVIOUS
    <2> QED
      BY <1>2, <2>1
  <1> HIDE DEF F
  <1>4. iter = F(iter)
    BY <1>3
  <1> HIDE DEF iter
  <1>5. iter = g
    BY <1>3, <1>4
  <1> QED
    BY <1>1, <1>2, <1>5

\* The macroblock of these elements.
LEMMA ReceiveWhole ==
  ASSUME NEW state, NEW number \in {1, 2}, NEW ref_id \in 0..(number - 1), NEW mvd,
         state.parsed \in MBs
  PROVE  LET pred == ReceiverPrediction(state.map, MBPosition(state.parsed), Whole[1], ref_id)
         IN  ReceiveMB(state, Elements(number, ref_id, mvd), number)
               = [Received(state, Whole[1], [ref_id |-> ref_id, mv |-> Plus(pred, mvd)]) EXCEPT !.parsed = @ + 1]
  <1> DEFINE elements == Elements(number, ref_id, mvd)
             code == elements[1][2]
             subs == IF code = 4 THEN [s \in 1..4 |-> elements[s + 1][2]] ELSE <<>>
             parts == ReceiverParts(code, subs)
             refs == IF code = 4 \/ number = 1 THEN 0 ELSE Len(parts)
             first == 1 + Len(subs)
             expected == [i \in 1..(first + refs + 2 * Len(parts)) |->
                            IF i <= first THEN "ue(v)"
                            ELSE IF i > first + refs THEN "se(v)"
                            ELSE IF number = 2 THEN "u(1)" ELSE "ue(v)"]
             Reference(i) == IF refs = 0 THEN 0
                             ELSE IF number = 2 THEN 1 - elements[first + i][2] ELSE elements[first + i][2]
             Difference(i) == [x |-> elements[first + refs + 2 * i - 1][2], y |-> elements[first + refs + 2 * i][2]]
             ReceivePart(s, i) ==
               LET ref == Reference(i)
                   pred == ReceiverPrediction(s.map, PositionInBlock(s.parsed, parts[i]), parts[i], ref)
               IN  Received(s, parts[i], [ref_id |-> ref, mv |-> Plus(pred, Difference(i))])
             order == [i \in DOMAIN parts |-> i]
             D == DOMAIN order
             F(it) == [s \in SUBSET D |->
                         IF s = {} THEN state ELSE LET x == Max(s) IN ReceivePart(it[s \ {x}], order[x])]
             iter == CHOOSE it : it = F(it)
             g == [s \in SUBSET {1} |-> IF s = {} THEN state ELSE ReceivePart(state, 1)]
  <1>1. ReceiveMB(state, elements, number)
          = IF [i \in DOMAIN elements |-> elements[i][1]] # expected
            THEN [state EXCEPT !.parsed = Unreadable]
            ELSE [iter[D] EXCEPT !.parsed = @ + 1]
    BY Zenon DEF ReceiveMB, FoldLeft, MapThenFoldSet
  <1>2. code = 0
    BY DEF Elements
  <1>3. subs = <<>> /\ parts = Whole
    BY <1>2, WholeIsOne
  <1> HIDE DEF code, subs, parts
  <1>4. refs = number - 1 /\ first = 1
    BY <1>2, <1>3, WholeIsOne
  <1> HIDE DEF refs, first
  <1>5. [i \in DOMAIN elements |-> elements[i][1]] = expected
    <2>1. expected = [i \in 1..(2 + number) |-> IF i <= 1 THEN "ue(v)"
                                              ELSE IF i > number THEN "se(v)"
                                              ELSE IF number = 2 THEN "u(1)" ELSE "ue(v)"]
      <3>1. first + refs + 2 * Len(parts) = 2 + number /\ first + refs = number /\ first = 1
        BY <1>3, <1>4, WholeIsOne
      <3> QED
        BY <3>1
    <2> HIDE DEF expected
    <2>2. CASE number = 1
      <3>1. elements = <<<<"ue(v)", 0>>, <<"se(v)", mvd.x>>, <<"se(v)", mvd.y>>>>
        BY <2>2 DEF Elements
      <3> HIDE DEF elements
      <3>2. DOMAIN elements = 1..3 /\ elements[1][1] = "ue(v)" /\ elements[2][1] = "se(v)" /\ elements[3][1] = "se(v)"
        BY <3>1
      <3>3. \A i \in 1..3 : elements[i][1] = IF i <= 1 THEN "ue(v)" ELSE "se(v)"
        <4>1. \A i \in 1..3 : i = 1 \/ i = 2 \/ i = 3
          OBVIOUS
        <4> QED
          BY <3>2, <4>1
      <3>4. expected = [i \in 1..3 |-> IF i <= 1 THEN "ue(v)" ELSE "se(v)"]
        BY <2>1, <2>2
      <3> QED
        BY <3>2, <3>3, <3>4
    <2>3. CASE number = 2
      <3>1. elements = <<<<"ue(v)", 0>>, <<"u(1)", 1 - ref_id>>, <<"se(v)", mvd.x>>, <<"se(v)", mvd.y>>>>
        BY <2>3 DEF Elements
      <3> HIDE DEF elements
      <3>2. DOMAIN elements = 1..4 /\ elements[1][1] = "ue(v)" /\ elements[2][1] = "u(1)"
            /\ elements[3][1] = "se(v)" /\ elements[4][1] = "se(v)"
        BY <3>1
      <3>3. \A i \in 1..4 : elements[i][1] = IF i <= 1 THEN "ue(v)" ELSE IF i > 2 THEN "se(v)" ELSE "u(1)"
        <4>1. \A i \in 1..4 : i = 1 \/ i = 2 \/ i = 3 \/ i = 4
          OBVIOUS
        <4> QED
          BY <3>2, <4>1
      <3>4. expected = [i \in 1..4 |-> IF i <= 1 THEN "ue(v)" ELSE IF i > 2 THEN "se(v)" ELSE "u(1)"]
        BY <2>1, <2>3
      <3> QED
        BY <3>2, <3>3, <3>4
    <2> QED
      BY <2>2, <2>3
  <1>6. ReceivePart(state, 1)
          = Received(state, Whole[1],
              [ref_id |-> ref_id,
               mv |-> Plus(ReceiverPrediction(state.map, MBPosition(state.parsed), Whole[1], ref_id), mvd)])
    <2>1. PositionInBlock(state.parsed, Whole[1]) = MBPosition(state.parsed)
      <3>1. /\ MBPosition(state.parsed) = [x |-> 4 * Column(state.parsed), y |-> 4 * Row(state.parsed)]
            /\ Column(state.parsed) \in Nat /\ Row(state.parsed) \in Nat
        BY Address
      <3> QED
        BY <3>1, WholeIsOne DEF PositionInBlock
    <2>2. Reference(1) = ref_id
      <3>1. CASE number = 1
        BY <1>4, <3>1
      <3>2. CASE number = 2
        <4>1. elements[2][2] = 1 - ref_id
          BY <3>2 DEF Elements
        <4> HIDE DEF elements
        <4>2. refs = 1 /\ first + 1 = 2
          BY <1>4, <3>2
        <4> QED
          BY <3>2, <4>1, <4>2
      <3> QED
        BY <3>1, <3>2
    <2>3. Plus(ReceiverPrediction(state.map, MBPosition(state.parsed), Whole[1], ref_id), Difference(1))
            = Plus(ReceiverPrediction(state.map, MBPosition(state.parsed), Whole[1], ref_id), mvd)
      <3>1. Difference(1).x = mvd.x /\ Difference(1).y = mvd.y
        <4>1. first + refs + 2 * 1 - 1 = number + 1 /\ first + refs + 2 * 1 = number + 2
          BY <1>4
        <4>2. elements[number + 1][2] = mvd.x /\ elements[number + 2][2] = mvd.y
          <5>1. CASE number = 1
            BY <5>1 DEF Elements
          <5>2. CASE number = 2
            BY <5>2 DEF Elements
          <5> QED
            BY <5>1, <5>2
        <4> HIDE DEF elements
        <4> QED
          BY <4>1, <4>2
      <3> HIDE DEF Difference
      <3> QED
        BY <3>1 DEF Plus
    <2> HIDE DEF Reference, Difference
    <2> QED
      BY <1>3, <2>1, <2>2, <2>3
  <1>7. iter[D] = ReceivePart(state, 1)
    <2> HIDE DEF ReceivePart
    <2>1. D = {1} /\ order[1] = 1
      BY <1>3, WholeIsOne
    <2>2. ASSUME NEW it
          PROVE  F(it) = [s \in SUBSET {1} |-> IF s = {} THEN state ELSE ReceivePart(it[{}], 1)]
      <3> HIDE DEF D, order
      <3>1. \A s \in SUBSET {1} : s # {} => s = {1} /\ s \ {Max(s)} = {} /\ order[Max(s)] = 1
        <4> TAKE s \in SUBSET {1}
        <4> HAVE s # {}
        <4>1. s = {1}
          OBVIOUS
        <4>2. Max(s) = 1
          BY <4>1, OnlyOne
        <4> QED
          BY <2>1, <4>1, <4>2
      <3> QED
        BY <2>1, <3>1
    <2> HIDE DEF F
    <2>3. g = F(g)
      BY <2>2
    <2> HIDE DEF g
    <2>4. iter = F(iter)
      BY <2>3
    <2> HIDE DEF iter
    <2>5. iter = [s \in SUBSET {1} |-> IF s = {} THEN state ELSE ReceivePart(iter[{}], 1)]
      BY <2>2, <2>4
    <2>6. iter[{}] = state
      BY <2>5
    <2> QED
      BY <2>1, <2>5, <2>6
  <1> HIDE DEF ReceivePart, expected, iter
  <1> QED
    BY <1>1, <1>5, <1>6, <1>7

-----------------------------------------------------------------------------
(* What the receiver holds.                                                *)

\* References a single bit can tell apart.
AtMostTwo == \A s \in Settings : s.pictures <= 2

\* The difference the elements carry is from the receiver's own prediction.
Announced ==
  m_parts[1].mvd = Minus(m_parts[1].motion.mv,
                         ReceiverPrediction(received.map, MBPosition(m_mb_addr), Whole[1], m_parts[1].motion.ref_id))

\* The invariant of the receiver: it has the motion of all macroblocks written.
Following ==
  /\ picture \in 1..2
  /\ received = [map |-> received.map, parsed |-> received.parsed]
  /\ received.parsed = IF pc = "next" THEN m_mb_addr + 1 ELSE m_mb_addr
  /\ Mirror(received.parsed, m_motion_infos, received.map)
  /\ pc = "output" => Announced

\* At the start.
LEMMA FollowingAtInit ==
  ASSUME Init
  PROVE  Following
  <1>1. /\ picture = 1 /\ m_mb_addr = 0 /\ pc = "try" /\ received.parsed = 0
        /\ received = [map |-> received.map, parsed |-> received.parsed]
    BY DEF Init
  <1>2. Mirror(0, m_motion_infos, received.map)
    BY EarlierGrows DEF Mirror
  <1> QED
    BY <1>1, <1>2 DEF Following

\* The difference of the decision is from the receiver's prediction.
LEMMA FollowingByTry ==
  ASSUME OnlyP16x16, Held, Following, TryType
  PROVE  Following'
  <1>1. /\ pc = "try" /\ pc' = "output" /\ m_parts' = <<Best>>
        /\ m_motion_infos' = SetMotionInfos(m_motion_infos, m_mb_addr, P16x16, Best.motion)
        /\ UNCHANGED <<setting, picture, m_mb_addr, cost, mb_run, received>>
    BY OneTry DEF Held
  <1>2. m_mb_addr \in MBs /\ received.parsed = m_mb_addr /\ Mirror(m_mb_addr, m_motion_infos, received.map)
    BY <1>1 DEF Held, Running, Following
  <1>3. Mirror(m_mb_addr, m_motion_infos', received.map)
    <2>1. \A b \in BlockIndices : Earlier(m_mb_addr, b) => m_motion_infos'[b] = m_motion_infos[b]
      BY <1>1, <1>2, MapEntered
    <2> QED
      BY <1>2, <2>1 DEF Mirror
  <1>4. Announced'
    <2> DEFINE ref_id == Best.motion.ref_id
    <2>1. /\ Best.mvd = Minus(Best.motion.mv, GetPredictorMV(m_motion_infos, MBPosition(m_mb_addr), P16x16, ref_id))
          /\ ref_id \in Nat
      <3>1. Decision(Best) /\ picture \in Nat
        BY BestIsDecision DEF Held, Running
      <3> QED
        BY <3>1, BestIsDecision DEF Held, Decision
    <2>2. Whole[1].w = 4 /\ Whole[1].h = 4
      BY WholeIsOne
    <2>3. GetPredictorMV(m_motion_infos, MBPosition(m_mb_addr), P16x16, ref_id)
            = ReceiverPrediction(received.map, MBPosition(m_mb_addr), Whole[1], ref_id)
      BY <1>2, <2>1, <2>2, PredictionAgrees
    <2>4. m_parts'[1] = Best
      BY <1>1
    <2> QED
      BY <1>1, <2>1, <2>3, <2>4 DEF Announced
  <1> QED
    BY <1>1, <1>2, <1>3, <1>4 DEF Following

\* A first element put before others.
LEMMA PutBefore ==
  ASSUME NEW S, NEW e \in S, NEW s \in Seq(S), Len(s) > 0
  PROVE  LET t == <<e>> \o s
         IN  t # <<>> /\ Len(t) > 1 /\ t[1] = e /\ Tail(t) = s
  <1> DEFINE t == <<e>> \o s
  <1>1. <<e>> \in Seq(S) /\ Len(<<e>>) = 1 /\ <<e>>[1] = e
    OBVIOUS
  <1>2. /\ t \in Seq(S) /\ Len(t) = 1 + Len(s)
        /\ \A i \in 1..(1 + Len(s)) : t[i] = IF i <= 1 THEN <<e>>[i] ELSE s[i - 1]
    BY <1>1, ConcatProperties
  <1>3. Len(s) \in Nat
    OBVIOUS
  <1> HIDE DEF t
  <1>4. t # <<>> /\ Len(t) > 1 /\ t[1] = e
    BY <1>1, <1>2, <1>3
  <1>5. Tail(t) \in Seq(S) /\ Len(Tail(t)) = Len(s) /\ \A i \in 1..Len(s) : Tail(t)[i] = t[i + 1]
    BY <1>2, <1>3, <1>4
  <1>6. \A i \in 1..Len(s) : Tail(t)[i] = s[i]
    <2> TAKE i \in 1..Len(s)
    <2>1. i + 1 \in 1..(1 + Len(s)) /\ ~(i + 1 <= 1) /\ (i + 1) - 1 = i
      BY <1>3
    <2> QED
      BY <1>2, <1>5, <2>1
  <1>7. Tail(t) = s
    BY <1>5, <1>6, SeqEqual
  <1> QED
    BY <1>4, <1>7 DEF t

\* What is written is received.
LEMMA OutputReceived ==
  ASSUME Held, Following, OutputMB
  PROVE  /\ pc = "output" /\ pc' = "next"
         /\ UNCHANGED <<setting, picture, m_mb_addr, cost, tried, m_mb_type, m_parts, m_motion_infos>>
         /\ received' = [map |-> SetMotionInfos(received.map, m_mb_addr, P16x16, m_parts[1].motion),
                         parsed |-> m_mb_addr + 1]
  <1> DEFINE d == m_parts[1]
             skipped == m_mb_type = "PSkip"
             last == m_mb_addr = mb_num - 1
             elements == CASE skipped /\ ~last -> <<>>
                           [] skipped /\ last -> <<<<"ue(v)", mb_run + 1>>>>
                           [] ~skipped -> <<<<"ue(v)", mb_run>>>> \o MBElements(m_mb_type, m_parts, search)
  <1>1. /\ pc = "output" /\ pc' = "next" /\ received' = Receive(received, elements, ref_num)
        /\ UNCHANGED <<setting, picture, m_mb_addr, cost, tried, m_mb_type, m_parts, m_motion_infos>>
    BY DEF OutputMB
  <1>2. /\ m_mb_type = "P16x16" /\ m_parts = <<d>> /\ Decision(d) /\ mb_run = 0 /\ m_mb_addr \in MBs
        /\ picture \in {1, 2} /\ ref_num = picture /\ search.ref_num = picture
        /\ received.parsed = m_mb_addr /\ received = [map |-> received.map, parsed |-> received.parsed]
        /\ d.motion.ref_id \in 0..(picture - 1) /\ d.motion \in Motion
        /\ Mirror(m_mb_addr, m_motion_infos, received.map)
    BY <1>1 DEF Held, OneDecided, Running, Following, ref_num, search, Decision
  <1> DEFINE mb == MBElements("P16x16", <<d>>, search)
             run == <<"ue(v)", 0>>
  <1>3. mb = Elements(picture, d.motion.ref_id, d.mvd)
    BY <1>2, WholeElements
  <1>4. elements = <<run>> \o mb
    BY <1>2
  <1>5. elements # <<>> /\ Len(elements) > 1 /\ elements[1][2] = 0 /\ Tail(elements) = mb
    <2> DEFINE bit == <<"u(1)", 1 - d.motion.ref_id>>
               x == <<"se(v)", d.mvd.x>>
               y == <<"se(v)", d.mvd.y>>
               S == {run, bit, x, y}
    <2>1. mb = IF picture = 2 THEN <<run, bit, x, y>> ELSE <<run, x, y>>
      BY <1>3 DEF Elements
    <2> HIDE DEF bit, x, y
    <2>2. /\ <<run, bit, x, y>> \in Seq(S) /\ Len(<<run, bit, x, y>>) = 4
          /\ <<run, x, y>> \in Seq(S) /\ Len(<<run, x, y>>) = 3
      OBVIOUS
    <2> HIDE DEF mb
    <2>3. mb \in Seq(S) /\ Len(mb) > 0 /\ run \in S
      <3>1. run \in S
        OBVIOUS
      <3> HIDE DEF S, run
      <3>2. CASE picture = 2
        BY <2>1, <2>2, <3>2
      <3>3. CASE picture # 2
        BY <2>1, <2>2, <3>3
      <3> QED
        BY <3>1, <3>2, <3>3
    <2>4. run[2] = 0
      OBVIOUS
    <2> HIDE DEF elements, run, S
    <2>5. LET t == <<run>> \o mb IN t # <<>> /\ Len(t) > 1 /\ t[1] = run /\ Tail(t) = mb
      BY <2>3, PutBefore
    <2> QED
      BY <1>4, <2>4, <2>5
  <1>6. Receive(received, elements, picture) = ReceiveMB(received, mb, picture)
    <2>1. received.parsed # Unreadable
      BY <1>2 DEF Unreadable, MBs
    <2> HIDE DEF elements, mb
    <2>2. ~(Len(elements) = 1)
      BY <1>5
    <2>3. Receive(received, elements, picture) = ReceiveMB(ReceiveSkips(received, elements[1][2]), Tail(elements), picture)
      BY <1>5, <2>1, <2>2 DEF Receive
    <2> QED
      BY <1>5, <2>3, NoSkips
  <1> DEFINE pred == ReceiverPrediction(received.map, MBPosition(m_mb_addr), Whole[1], d.motion.ref_id)
             motion == [ref_id |-> d.motion.ref_id, mv |-> Plus(pred, d.mvd)]
  <1>7. ReceiveMB(received, mb, picture) = [Received(received, Whole[1], motion) EXCEPT !.parsed = @ + 1]
    BY <1>2, <1>3, ReceiveWhole
  <1>8. motion = d.motion
    <2>1. pred \in Vector
      <3>1. Whole[1].w = 4 /\ Whole[1].h = 4 /\ d.motion.ref_id \in Nat
        BY <1>2, WholeIsOne
      <3>2. pred = GetPredictorMV(m_motion_infos, MBPosition(m_mb_addr), P16x16, d.motion.ref_id)
            /\ GetPredictorMV(m_motion_infos, MBPosition(m_mb_addr), P16x16, d.motion.ref_id) \in Vector
        BY <1>2, <3>1, PredictionAgrees
      <3> QED
        BY <3>2
    <2>2. d.mvd = Minus(d.motion.mv, pred)
      BY <1>1 DEF Following, Announced
    <2> HIDE DEF pred
    <2>3. Plus(pred, Minus(d.motion.mv, pred)) = d.motion.mv
      BY <1>2, <2>1 DEF Plus, Minus, Vector, Motion
    <2> QED
      BY <1>2, <2>2, <2>3 DEF Motion
  <1>9. [Received(received, Whole[1], d.motion) EXCEPT !.parsed = @ + 1]
          = [map |-> SetMotionInfos(received.map, m_mb_addr, P16x16, d.motion), parsed |-> m_mb_addr + 1]
    <2>1. SetMotionInfos(received.map, m_mb_addr, Whole[1], d.motion)
            = SetMotionInfos(received.map, m_mb_addr, P16x16, d.motion)
      <3>1. GetBlockIndices(m_mb_addr, Whole[1]) = GetBlockIndices(m_mb_addr, P16x16)
        BY WholeIsOne, PartIsWhole DEF GetBlockIndices, PositionInBlock
      <3> QED
        BY <3>1 DEF SetMotionInfos
    <2> DEFINE map == SetMotionInfos(received.map, m_mb_addr, Whole[1], d.motion)
    <2>2. Received(received, Whole[1], d.motion) = [map |-> map, parsed |-> m_mb_addr]
      <3>1. Received(received, Whole[1], d.motion) = [received EXCEPT !.map = map]
        BY <1>2 DEF Received
      <3> HIDE DEF map
      <3> QED
        BY <1>2, <3>1
    <2> HIDE DEF map
    <2> QED
      BY <2>1, <2>2 DEF map
  <1> HIDE DEF elements, mb, motion
  <1> QED
    BY <1>1, <1>2, <1>6, <1>7, <1>8, <1>9

\* The receiver then knows this macroblock too.
LEMMA FollowingByOutput ==
  ASSUME Held, Following, OutputMB
  PROVE  Following'
  <1> DEFINE entered == SetMotionInfos(received.map, m_mb_addr, P16x16, m_parts[1].motion)
  <1>1. /\ pc = "output" /\ pc' = "next" /\ received' = [map |-> entered, parsed |-> m_mb_addr + 1]
        /\ UNCHANGED <<setting, picture, m_mb_addr, m_parts, m_motion_infos>>
    BY OutputReceived
  <1>2. m_mb_addr \in MBs /\ Mirror(m_mb_addr, m_motion_infos, received.map)
    BY <1>1 DEF Held, Running, Following
  <1>3. /\ \A b \in Blocks(m_mb_addr) : entered[b] = m_parts[1].motion
        /\ \A b \in BlockIndices : Earlier(m_mb_addr, b) => entered[b] = received.map[b]
    BY <1>2, MapEntered
  <1>4. \A b \in Blocks(m_mb_addr) : m_motion_infos[b] = m_parts[1].motion /\ m_parts[1].motion \in Motion
    BY <1>1 DEF Held, OneDecided, Decision
  <1>5. \A b : Earlier(m_mb_addr + 1, b) <=> Earlier(m_mb_addr, b) \/ b \in Blocks(m_mb_addr)
    BY <1>2, EarlierGrows
  <1> HIDE DEF entered
  <1>6. Mirror(m_mb_addr + 1, m_motion_infos, entered)
    BY <1>2, <1>3, <1>4, <1>5 DEF Mirror
  <1>7. /\ received'.map = entered /\ received'.parsed = m_mb_addr + 1
        /\ received' = [map |-> received'.map, parsed |-> received'.parsed]
    BY <1>1
  <1> QED
    BY <1>1, <1>6, <1>7 DEF Following

\* So it does in every step.
LEMMA FollowingStays ==
  ASSUME OnlyP16x16, AtMostTwo, Held, Following, [Next]_inter_vars
  PROVE  Following'
  <1>1. CASE TryType
    BY <1>1, FollowingByTry
  <1>2. CASE TryBestAgain
    BY <1>2 DEF TryBestAgain, Held, Running
  <1>3. CASE OutputMB
    BY <1>3, FollowingByOutput
  <1>4. CASE NextMB
    BY <1>4 DEF NextMB, Following, Held, Running
  <1>5. CASE NextPicture
    <2>1. /\ picture < setting.pictures /\ picture' = picture + 1 /\ m_mb_addr' = 0 /\ pc' = "try"
          /\ received' = [map |-> [b \in BlockIndices |-> NoMotion], parsed |-> 0]
      BY <1>5 DEF NextPicture
    <2>2. picture' \in 1..2
      <3>1. setting.pictures \in Nat /\ setting.pictures <= 2 /\ picture \in 1..2
        BY SettingsAssumption DEF Held, Running, AtMostTwo, Following
      <3> QED
        BY <2>1, <3>1
    <2>3. received'.parsed = 0 /\ received' = [map |-> received'.map, parsed |-> received'.parsed]
      BY <2>1
    <2>4. Mirror(0, m_motion_infos', received'.map)
      BY EarlierGrows DEF Mirror
    <2> QED
      BY <2>1, <2>2, <2>3, <2>4 DEF Following
  <1>6. CASE UNCHANGED inter_vars
    BY <1>6 DEF inter_vars, Following, Announced
  <1> QED
    BY <1>1, <1>2, <1>3, <1>4, <1>5, <1>6 DEF Next

\* Both hold in every state.
LEMMA AlwaysFollowing ==
  ASSUME OnlyP16x16, AtMostTwo
  PROVE  Spec => [](Held /\ Following)
  <1>1. Init => Held /\ Following
    BY HeldAtInit, FollowingAtInit
  <1>2. Held /\ Following /\ [Next]_inter_vars => Held' /\ Following'
    BY HeldStays, FollowingStays
  <1> QED
    BY <1>1, <1>2, PTL DEF Spec

-----------------------------------------------------------------------------
(* What follows.                                                           *)

\* The receiver has every macroblock written.
LEMMA Recovers ==
  ASSUME Held, Following
  PROVE  ReceiverRecoversMotion
  <1> SUFFICES ASSUME pc = "next"
               PROVE  /\ received.parsed # Unreadable
                      /\ received.parsed + mb_run = m_mb_addr + 1
                      /\ m_mb_addr = mb_num - 1 => mb_run = 0
                      /\ \A a \in 0..(received.parsed - 1) : \A b \in GetBlockIndices(a, P16x16) :
                           received.map[b] = m_motion_infos[b]
    BY DEF ReceiverRecoversMotion
  <1>1. /\ m_mb_addr \in MBs /\ mb_run = 0 /\ received.parsed = m_mb_addr + 1
        /\ Mirror(received.parsed, m_motion_infos, received.map)
    BY DEF Held, Running, Following
  <1>2. m_mb_addr \in 0..(mb_num - 1)
    BY <1>1 DEF MBs
  <1>3. ASSUME NEW a \in 0..(received.parsed - 1), NEW b \in GetBlockIndices(a, P16x16)
        PROVE  received.map[b] = m_motion_infos[b]
    <2>1. a \in MBs /\ a < received.parsed
      BY <1>1, <1>2, SizeAssumption DEF MBs, mb_num
    <2>2. b \in Blocks(a) /\ b \in BlockIndices
      BY <2>1, BlocksInPicture DEF Blocks
    <2>3. Earlier(received.parsed, b)
      BY <2>1, <2>2 DEF Earlier
    <2> QED
      BY <1>1, <2>2, <2>3 DEF Mirror
  <1> QED
    BY <1>1, <1>2, <1>3 DEF Unreadable

\* What is seen of this macroblock is its motion.
LEMMA SeenMotion ==
  ASSUME Held, Following, pc = "next", NEW b \in Blocks(m_mb_addr)
  PROVE  seen.map[b] = m_parts[1].motion
  <1>1. /\ m_mb_addr \in MBs /\ mb_run = 0 /\ received.parsed = m_mb_addr + 1
        /\ Mirror(received.parsed, m_motion_infos, received.map)
    BY DEF Held, Running, Following
  <1>2. seen = received
    BY <1>1, NoSkips DEF seen
  <1>3. m_motion_infos[b] = m_parts[1].motion
    BY DEF Held, OneDecided
  <1>4. Earlier(m_mb_addr + 1, b)
    BY <1>1, EarlierGrows
  <1>5. b \in BlockIndices
    BY <1>1, BlocksInPicture
  <1> QED
    BY <1>1, <1>2, <1>3, <1>4, <1>5 DEF Mirror

\* The chroma of a macroblock is the receiver's.
LEMMA ChromaMatches ==
  ASSUME Held, Following
  PROVE  ChromaMatchesUnlessBefore
  <1> SUFFICES ASSUME pc = "next", NEW p \in Samples
               PROVE  LET here == MBPosition(m_mb_addr)
                          mv == seen.map[GetBlockIndex(here.x + (p[1] \div 2), here.y + (p[2] \div 2))].mv
                      IN  /\ 4 * (4 * here.x + 2 * (p[1] - (p[1] % 2))) + mv.x >= 0
                          /\ 4 * (4 * here.y + 2 * (p[2] - (p[2] % 2))) + mv.y >= 0
                          => /\ m_predicted_chroma[p].x = ReceiverChroma(4 * here.x, mv.x, p[1], width \div 2)
                             /\ m_predicted_chroma[p].y = ReceiverChroma(4 * here.y, mv.y, p[2], height \div 2)
    BY DEF ChromaMatchesUnlessBefore
  <1> DEFINE here == MBPosition(m_mb_addr)
             mv == m_parts[1].motion.mv
             x == Column(m_mb_addr)
             y == Row(m_mb_addr)
  <1>1. /\ m_predicted_chroma[p]
             = [x |-> InterpolateChroma(Start(4 * here.x + 4 * (p[1] \div 2), mv.x, width \div 2), p[1] % 2, width \div 2),
                y |-> InterpolateChroma(Start(4 * here.y + 4 * (p[2] \div 2), mv.y, height \div 2), p[2] % 2, height \div 2)]
        /\ GetBlockIndex(here.x + (p[1] \div 2), here.y + (p[2] \div 2)) \in Blocks(m_mb_addr)
        /\ mv.x \in Int /\ mv.y \in Int /\ here.x = 4 * x /\ here.y = 4 * y /\ x \in Nat /\ y \in Nat
    BY ChromaOfMotion
  <1>2. seen.map[GetBlockIndex(here.x + (p[1] \div 2), here.y + (p[2] \div 2))].mv = mv
    BY <1>1, SeenMotion
  <1>3. p[1] \in 0..7 /\ p[2] \in 0..7
    BY DEF Samples
  <1> HIDE DEF here, mv, x, y
  <1>4. 4 * here.x = 16 * x /\ 4 * here.y = 16 * y
    BY <1>1
  <1>5. /\ 4 * (4 * here.x + 2 * (p[1] - (p[1] % 2))) + mv.x = 4 * (16 * x + 4 * (p[1] \div 2)) + mv.x
        /\ 4 * (4 * here.y + 2 * (p[2] - (p[2] % 2))) + mv.y = 4 * (16 * y + 4 * (p[2] \div 2)) + mv.y
    BY <1>1, <1>3, <1>4
  <1>6. 4 * (16 * x + 4 * (p[1] \div 2)) + mv.x >= 0
          => m_predicted_chroma[p].x = ReceiverChroma(16 * x, mv.x, p[1], width \div 2)
    BY <1>1, <1>3, <1>4, Planes, ChromaAgrees
  <1>7. 4 * (16 * y + 4 * (p[2] \div 2)) + mv.y >= 0
          => m_predicted_chroma[p].y = ReceiverChroma(16 * y, mv.y, p[2], height \div 2)
    BY <1>1, <1>3, <1>4, Planes, ChromaAgrees
  <1> QED
    BY <1>2, <1>4, <1>5, <1>6, <1>7 DEF here

\* One direction of the luma of a block.
LEMMA LumaAgrees ==
  ASSUME NEW size \in Nat \ {0}, NEW position \in Int, NEW component \in Int, component % 4 = 0,
         NEW column \in 0..3, NEW k \in 0..3
  PROVE  4 * ObtainData(4 * position + Quotient(component, 4), 4 * column + k, size)
           = ReceiverLuma(4 * (position + column), component, k, size)
  <1> DEFINE q == component \div 4
  <1>1. Quotient(component, 4) = q /\ q \in Int
    BY WholeVector
  <1>2. (4 * position + q) + (4 * column + k) = 4 * (position + column) + k + q
    BY <1>1
  <1>3. \A v \in Int : Clamp(v, <<0, size - 1>>) \in Int
    BY ClampInside
  <1> QED
    BY <1>1, <1>2, <1>3 DEF ObtainData, ReceiverLuma

\* The luma of a macroblock is the receiver's.
LEMMA LumaMatches ==
  ASSUME Held, Following
  PROVE  LumaMatchesReceiver
  <1> SUFFICES ASSUME pc = "next", NEW b \in 0..15
               PROVE  LET here == MBPosition(m_mb_addr)
                          x == here.x + (b % 4)
                          y == here.y + (b \div 4)
                          mv == seen.map[GetBlockIndex(x, y)].mv
                      IN  /\ mv.x % 4 = 0 =>
                               \A k \in 0..3 : 4 * m_predicted_luma[b].x[k] = ReceiverLuma(4 * x, mv.x, k, width)
                          /\ mv.y % 4 = 0 =>
                               \A k \in 0..3 : 4 * m_predicted_luma[b].y[k] = ReceiverLuma(4 * y, mv.y, k, height)
    BY DEF LumaMatchesReceiver
  <1> DEFINE here == MBPosition(m_mb_addr)
             d == m_parts[1]
             mv == d.motion.mv
             i == b % 4
             j == b \div 4
  <1>1. i \in 0..3 /\ j \in 0..3
    OBVIOUS
  <1>2. /\ here.x = 4 * Column(m_mb_addr) /\ here.y = 4 * Row(m_mb_addr) /\ m_mb_addr \in MBs
        /\ here.x \in Nat /\ here.y \in Nat /\ d.part.w = 4
    BY Address, TheDecision, PartIsWhole DEF Decision
  <1> HIDE DEF i, j
  <1>3. seen.map[GetBlockIndex(here.x + i, here.y + j)].mv = mv
    <2>1. GetBlockIndex(here.x + i, here.y + j) \in Blocks(m_mb_addr)
      BY <1>1, <1>2, BlockAt
    <2> HIDE DEF here
    <2> QED
      BY <2>1, SeenMotion
  <1>4. mv.x \in Int /\ mv.y \in Int
    BY TheDecision DEF Decision, Motion, Vector
  <1>5. /\ PartLuma(d).x = [k \in 0..15 |-> ObtainData(4 * here.x + Quotient(mv.x, 4), k, width)]
        /\ PartLuma(d).y = [k \in 0..15 |-> ObtainData(4 * here.y + Quotient(mv.y, 4), k, height)]
    <2>1. PartLuma(d) = [x |-> [k \in 0..15 |-> ObtainData(4 * here.x + Quotient(d.motion.mv.x, 4), k, width)],
                         y |-> [k \in 0..15 |-> ObtainData(4 * here.y + Quotient(d.motion.mv.y, 4), k, height)]]
      BY WalkedAndTaken
    <2> HIDE DEF here
    <2> QED
      BY <2>1
  <1> HIDE DEF here
  <1>6. m_predicted_luma[b] = [x |-> [k \in 0..3 |-> PartLuma(d).x[4 * i + k]],
                               y |-> [k \in 0..3 |-> PartLuma(d).y[4 * j + k]]]
    BY <1>2, LumaByBlock DEF PartBlock, i, j
  <1> HIDE DEF d, mv
  <1>7. ASSUME NEW k \in 0..3
        PROVE  /\ m_predicted_luma[b].x[k] = ObtainData(4 * here.x + Quotient(mv.x, 4), 4 * i + k, width)
               /\ m_predicted_luma[b].y[k] = ObtainData(4 * here.y + Quotient(mv.y, 4), 4 * j + k, height)
    <2>1. 4 * i + k \in 0..15 /\ 4 * j + k \in 0..15
      BY <1>1
    <2>2. m_predicted_luma[b].x[k] = PartLuma(d).x[4 * i + k] /\ m_predicted_luma[b].y[k] = PartLuma(d).y[4 * j + k]
      BY <1>6
    <2> QED
      BY <1>5, <2>1, <2>2
  <1>8. ASSUME mv.x % 4 = 0, NEW k \in 0..3
        PROVE  4 * m_predicted_luma[b].x[k] = ReceiverLuma(4 * (here.x + i), mv.x, k, width)
    <2>1. 4 * ObtainData(4 * here.x + Quotient(mv.x, 4), 4 * i + k, width)
            = ReceiverLuma(4 * (here.x + i), mv.x, k, width)
      BY <1>1, <1>2, <1>4, <1>8, Planes, LumaAgrees
    <2> QED
      BY <1>7, <2>1
  <1>9. ASSUME mv.y % 4 = 0, NEW k \in 0..3
        PROVE  4 * m_predicted_luma[b].y[k] = ReceiverLuma(4 * (here.y + j), mv.y, k, height)
    <2>1. 4 * ObtainData(4 * here.y + Quotient(mv.y, 4), 4 * j + k, height)
            = ReceiverLuma(4 * (here.y + j), mv.y, k, height)
      BY <1>1, <1>2, <1>4, <1>9, Planes, LumaAgrees
    <2> QED
      BY <1>7, <2>1
  <1> QED
    BY <1>3, <1>8, <1>9 DEF here, i, j

-----------------------------------------------------------------------------
(* Theorems: for every size of the picture, every list of offsets and all  *)
(* costs, with the list of types the program tries.                        *)

\* A receiver finds the type, the reference and the vector of every macroblock
\* in the elements of its picture alone, with as many references as one bit
\* can tell apart (MEUtil::GetPredictorMV, MBInterRDOptimizer::OutputMB).
THEOREM MotionRecovered ==
  ASSUME OnlyP16x16, AtMostTwo
  PROVE  Spec => []ReceiverRecoversMotion
  BY AlwaysFollowing, Recovers, PTL

\* No vector kept leaves the range of its level, however predictions and offsets
\* add up (ConformanceUtil, FullSearchUtil::FindBestMotionInfo).
THEOREM VectorsWithinLevel ==
  ASSUME OnlyP16x16, KnownLevels
  PROVE  Spec => []MotionWithinLevel
  BY AlwaysHeld, WithinLevel, PTL

\* Neither the pointer of the search nor an interpolation reads a sample outside
\* the planes (CostUtil::CalculateLumaSAD, InterpolateUtil).
THEOREM ReadsInPicture ==
  ASSUME OnlyP16x16
  PROVE  Spec => []ReadsStayInside
  BY AlwaysHeld, ReadsInside, PTL

\* The samples the search compared are those the prediction is made of
\* (CostUtil::CalculateLumaSAD, DataUtil::ObtainDataInBlock).
THEOREM SearchedIsPredicted ==
  ASSUME OnlyP16x16
  PROVE  Spec => []SearchComparesPrediction
  BY AlwaysHeld, ComparesPrediction, PTL

\* The residual of every block is taken from the prediction it is added to
\* (InterP16x16LumaPredictor).
THEOREM ResidualOfPrediction ==
  ASSUME OnlyP16x16
  PROVE  Spec => []ResidualMatchesPrediction
  BY AlwaysHeld, ResidualMatches, PTL

\* From the elements a receiver predicts the same luma samples, past every edge
\* too, for whole vectors (DataUtil::ObtainDataInBlock).
THEOREM LumaReceived ==
  ASSUME OnlyP16x16, AtMostTwo
  PROVE  Spec => []LumaMatchesReceiver
  BY AlwaysFollowing, LumaMatches, PTL

\* And the same chroma samples, unless the block starts left of or above the
\* picture (InterP2x2ChromaPredictor, InterpolateUtil).
THEOREM ChromaReceived ==
  ASSUME OnlyP16x16, AtMostTwo
  PROVE  Spec => []ChromaMatchesUnlessBefore
  BY AlwaysFollowing, ChromaMatches, PTL
=============================================================================
