------------------------ MODULE IntraPredictionProofs ------------------------
(***************************************************************************)
(* Proofs about Intra4Modes and IntraPrediction for every size of the       *)
(* picture, all samples and all costs of the modes: the mode chosen for a   *)
(* block is the cheapest of those that can be predicted; a receiver reads   *)
(* back the modes of all blocks; the samples of IntraPrediction change      *)
(* nothing about that, for its behaviours are behaviours of Intra4Modes;    *)
(* and the samples it predicts are the ones a receiver predicts.            *)
(***************************************************************************)
EXTENDS IntraPrediction, SequenceTheorems, WellFoundedInduction, TLAPS

\* Where a block is, as the receiver keeps it and as the encoder numbers it.
Spot(i) == <<Place(i).x, Place(i).y>>

Raster(i) == Place(i).x + 4 * Place(i).y

Spots == {Spot(i) : i \in 0..15}

TypeOK ==
  /\ m_addr \in MBs
  /\ pc \in {"intra16", "trial", "choose", "next"}
  /\ pattern \in CostPatterns
  /\ m_type \in [MBs -> {"none", "I16", "I4"}]
  /\ m_intra4_types \in [MBs -> [0..15 -> PredictionTypes]]
  /\ index \in 0..15
  /\ m_prediction_types \in [0..15 -> PredictionTypes]
  /\ trial \in 0..9
  /\ m_prediction_type \in 0..9
  /\ min_rdo_cost \in Nat \cup {-1}
  /\ m_best_prediction_type \in 0..9
  /\ reading \in [DOMAIN reading -> PredictionTypes]
  /\ received \in Seq({<<>>} \cup [Spots -> PredictionTypes])

\* Only while modes are tried is there anything tried.
Idle ==
  pc # "trial" =>
    index = 0 /\ trial = 0 /\ m_prediction_type = None /\ min_rdo_cost = -1
    /\ m_best_prediction_type = None

\* What the predictor of the block holds is a mode tried that can be predicted,
\* if there was one.
Holds ==
  IF m_prediction_type = None
  THEN \A type \in PredictionTypes : type < trial => ~Predictable(Place(index), type)
  ELSE m_prediction_type < trial /\ Predictable(Place(index), m_prediction_type)

\* The best mode so far is the cheapest of the modes tried that can be predicted.
BestSoFar ==
  /\ m_best_prediction_type = None <=> min_rdo_cost = -1
  /\ m_best_prediction_type = None <=> m_prediction_type = None
  /\ m_best_prediction_type # None =>
       /\ Predictable(Place(index), m_best_prediction_type)
       /\ min_rdo_cost = pattern[index][m_best_prediction_type]
       /\ \A type \in PredictionTypes :
            type < trial /\ Predictable(Place(index), type) => min_rdo_cost <= pattern[index][type]

\* The blocks of the macroblock whose mode is decided.
Decided ==
  CASE pc = "trial" -> 0..(index - 1)
    [] pc \in {"choose", "next"} -> 0..15
    [] OTHER -> {}

\* The receiver has read the modes of this macroblock so far.
ReadSoFar ==
  /\ DOMAIN reading = {Spot(i) : i \in Decided}
  /\ \A i \in Decided : reading[Spot(i)] = m_prediction_types[Raster(i)]

\* It has all macroblocks before.
InStep ==
  /\ Len(received) = IF pc = "next" THEN m_addr + 1 ELSE m_addr
  /\ pc \in {"trial", "choose"} => m_type[m_addr] = "I16"

\* The inductive invariant.
IInv == TypeOK /\ Idle /\ Holds /\ BestSoFar /\ ReadSoFar /\ InStep /\ ReceiverRecoversModes

-----------------------------------------------------------------------------
(* Where blocks are.                                                       *)

LEMMA Places ==
  ASSUME NEW i \in 0..15
  PROVE  Place(i) \in [x : 0..3, y : 0..3] /\ Raster(i) \in 0..15
  BY DEF Place, Raster

\* Two blocks are not in the same place.
LEMMA PlacesDiffer ==
  ASSUME NEW i \in 0..15, NEW j \in 0..15, i # j
  PROVE  Spot(i) # Spot(j) /\ Raster(i) # Raster(j)
<1>1. Place(i).x # Place(j).x \/ Place(i).y # Place(j).y
  BY DEF Place
<1>2. Place(i) \in [x : 0..3, y : 0..3] /\ Place(j) \in [x : 0..3, y : 0..3]
  BY Places
<1> QED
  BY <1>1, <1>2 DEF Spot, Raster

\* The block to the left in the macroblock, and the one above, come earlier.
LEMMA LeftIsEarlier ==
  ASSUME NEW i \in 0..15, Place(i).x > 0
  PROVE  \E j \in 0..(i - 1) : Place(j).x = Place(i).x - 1 /\ Place(j).y = Place(i).y
<1> DEFINE j == IF i % 2 = 1 THEN i - 1 ELSE i - 3
<1>1. j \in 0..(i - 1) /\ Place(j).x = Place(i).x - 1 /\ Place(j).y = Place(i).y
  BY DEF Place
<1> QED
  BY <1>1

LEMMA UpIsEarlier ==
  ASSUME NEW i \in 0..15, Place(i).y > 0
  PROVE  \E j \in 0..(i - 1) : Place(j).x = Place(i).x /\ Place(j).y = Place(i).y - 1
<1> DEFINE j == IF (i % 4) \div 2 = 1 THEN i - 2 ELSE i - 6
<1>1. j \in 0..(i - 1) /\ Place(j).x = Place(i).x /\ Place(j).y = Place(i).y - 1
  BY DEF Place
<1> QED
  BY <1>1

\* Every place of a macroblock is that of a block.
LEMMA EdgePlaces ==
  ASSUME NEW x \in 0..3, NEW y \in 0..3
  PROVE  \E i \in 0..15 : Place(i).x = x /\ Place(i).y = y
<1> DEFINE i == 8 * (y \div 2) + 4 * (x \div 2) + 2 * (y % 2) + (x % 2)
<1>1. i \in 0..15 /\ Place(i).x = x /\ Place(i).y = y
  BY DEF Place
<1> QED
  BY <1>1

\* Column and row of a macroblock.
Column(a) == a % width_in_mb

Row(a) == a \div width_in_mb

LEMMA Address ==
  ASSUME NEW a \in MBs
  PROVE  Column(a) \in Nat /\ Row(a) \in Nat /\ a \in Nat /\ Row(a) * width_in_mb + Column(a) = a
  BY SizeAssumption DEF MBs, Column, Row

\* The macroblocks before one are macroblocks.
LEMMA BeforeIsMB ==
  ASSUME NEW a \in MBs, NEW n \in Nat, n <= a
  PROVE  n \in MBs
<1>1. width_in_mb * height_in_mb \in Nat
  BY SizeAssumption
<1> QED
  BY <1>1 DEF MBs

LEMMA PlaceInPicture ==
  ASSUME NEW p
  PROVE  InPicture(p) = [x |-> 4 * Column(m_addr) + p.x, y |-> 4 * Row(m_addr) + p.y]
  BY DEF InPicture, Column, Row

\* From a block to the corner of its macroblock and on to another of its blocks.
LEMMA Rebase ==
  ASSUME NEW corner \in Int, NEW k \in Int, NEW x \in Int
  PROVE  (corner + k) - k + x = corner + x
  OBVIOUS

\* The blocks left of a macroblock belong to the one before, those above to the one
\* a row up.
LEMMA LeftMacroblock ==
  ASSUME NEW a \in MBs, NEW k \in 0..3, Column(a) > 0
  PROVE  /\ (4 * Column(a) - 1) % 4 = 3 /\ (4 * Row(a) + k) % 4 = k
         /\ ((4 * Row(a) + k) \div 4) * width_in_mb + ((4 * Column(a) - 1) \div 4) = a - 1
         /\ a - 1 \in Nat
<1>1. width_in_mb \in Nat \ {0} /\ Row(a) \in Nat /\ Column(a) \in Nat \ {0}
  BY Address, SizeAssumption
<1>2. Row(a) * width_in_mb \in Nat
  BY <1>1
<1>3. a = Row(a) * width_in_mb + Column(a)
  BY Address
<1>4. a - 1 \in Nat
  BY <1>1, <1>2, <1>3
<1>5. /\ (4 * Column(a) - 1) \div 4 = Column(a) - 1 /\ (4 * Column(a) - 1) % 4 = 3
      /\ (4 * Row(a) + k) \div 4 = Row(a) /\ (4 * Row(a) + k) % 4 = k
  BY <1>1
<1> QED
  BY <1>1, <1>2, <1>3, <1>4, <1>5

LEMMA UpMacroblock ==
  ASSUME NEW a \in MBs, NEW k \in 0..3, Row(a) > 0
  PROVE  /\ (4 * Row(a) - 1) % 4 = 3 /\ (4 * Column(a) + k) % 4 = k
         /\ ((4 * Row(a) - 1) \div 4) * width_in_mb + ((4 * Column(a) + k) \div 4) = a - width_in_mb
         /\ a - width_in_mb \in Nat
<1>1. width_in_mb \in Nat \ {0} /\ Row(a) \in Nat \ {0} /\ Column(a) \in Nat
  BY Address, SizeAssumption
<1>2. a = Row(a) * width_in_mb + Column(a)
  BY Address
<1>3. Row(a) * width_in_mb \in Nat /\ (Row(a) - 1) * width_in_mb \in Nat
      /\ (Row(a) - 1) * width_in_mb = Row(a) * width_in_mb - width_in_mb
  BY <1>1
<1>4. /\ (4 * Row(a) - 1) \div 4 = Row(a) - 1 /\ (4 * Row(a) - 1) % 4 = 3
      /\ (4 * Column(a) + k) \div 4 = Column(a) /\ (4 * Column(a) + k) % 4 = k
  BY <1>1
<1>5. a - width_in_mb = (Row(a) - 1) * width_in_mb + Column(a) /\ a - width_in_mb \in Nat
  BY <1>1, <1>2, <1>3
<1> QED
  BY <1>4, <1>5

-----------------------------------------------------------------------------
(* The most probable mode.                                                 *)

\* DC needs no neighbour, and every mode can be predicted from both.
LEMMA MostProbableIsPredictable ==
  ASSUME IInv, pc = "trial"
  PROVE  Predictable(Place(index), MostProbable(Place(index)))
<1>1. CASE IsLeftAvailable(Place(index)) /\ IsUpAvailable(Place(index))
  BY <1>1 DEF Predictable
<1>2. CASE ~(IsLeftAvailable(Place(index)) /\ IsUpAvailable(Place(index)))
  BY <1>2 DEF MostProbable, Smaller, Predictable, DC, Vertical, DownLeft, VerticalLeft, Horizontal,
     HorizontalUp, DownRight, VerticalRight, HorizontalDown
<1> QED
  BY <1>1, <1>2

\* The mode the receiver finds for the block at (x, y) of the macroblock of block p.
Found(p, x, y) ==
  IF <<x, y>> \in DOMAIN reading THEN reading[<<x, y>>]
  ELSE ReceivedMode(received, InPicture(p).x - p.x + x, InPicture(p).y - p.y + y)

\* What the receiver finds to the left of a block is what the encoder uses.
LEMMA LeftMode ==
  ASSUME IInv, pc = "trial", NEW p, p = Place(index)
  PROVE  LET found == Found(p, p.x - 1, p.y)
         IN /\ ~IsLeftAvailable(p) => found = None
            /\ IsLeftAvailable(p) => /\ found = IF GetLeftMBType(p) = "I4" THEN GetLeftPredictionType(p) ELSE DC
                                    /\ found \in PredictionTypes
<1> DEFINE found == Found(p, p.x - 1, p.y)
<1> SUFFICES /\ ~IsLeftAvailable(p) => found = None
             /\ IsLeftAvailable(p) => /\ found = IF GetLeftMBType(p) = "I4" THEN GetLeftPredictionType(p) ELSE DC
                                     /\ found \in PredictionTypes
  OBVIOUS
<1>0. /\ m_prediction_types \in [0..15 -> PredictionTypes]
      /\ m_intra4_types \in [MBs -> [0..15 -> PredictionTypes]]
  BY DEF IInv, TypeOK
<1>1. /\ p.x \in 0..3 /\ p.y \in 0..3 /\ index \in 0..15 /\ m_addr \in MBs
      /\ Len(received) = m_addr
  BY Places DEF IInv, TypeOK, InStep
<1>2. Column(m_addr) \in Nat /\ Row(m_addr) \in Nat /\ m_addr \in Nat
  BY <1>1, Address
<1>3. /\ InPicture(p).x = 4 * Column(m_addr) + p.x
      /\ InPicture(p).y = 4 * Row(m_addr) + p.y
  BY PlaceInPicture
<1>4. CASE p.x > 0
  <2>1. PICK j \in 0..(index - 1) : Place(j).x = p.x - 1 /\ Place(j).y = p.y
    <3>1. index \in 0..15 /\ Place(index).x > 0
      BY <1>1, <1>4
    <3> QED
      BY <3>1, LeftIsEarlier
  <2>2. j \in Decided /\ j \in 0..15
    <3>1. j \in 0..15
      BY <1>1
    <3> QED
      BY <3>1 DEF Decided
  <2>3. Spot(j) = <<p.x - 1, p.y>> /\ Raster(j) = p.x - 1 + 4 * p.y
    BY <2>1 DEF Spot, Raster
  <2>4. <<p.x - 1, p.y>> \in DOMAIN reading /\ reading[<<p.x - 1, p.y>>] = m_prediction_types[p.x - 1 + 4 * p.y]
    BY <2>2, <2>3 DEF IInv, ReadSoFar
  <2>5. found = m_prediction_types[p.x - 1 + 4 * p.y] /\ found \in PredictionTypes
    BY <2>4, <1>0, <1>1, <1>4 DEF Found
  <2>6. IsLeftAvailable(p) /\ GetLeftMBType(p) = "I4"
    BY <1>1, <1>2, <1>3, <1>4 DEF IsLeftAvailable, GetLeftMBType
  <2>7. GetLeftPredictionType(p) = m_prediction_types[p.x - 1 + 4 * p.y]
    BY <1>1, <1>4 DEF GetLeftPredictionType
  <2> QED
    BY <2>5, <2>6, <2>7
<1>5. CASE p.x = 0
  <2>1. <<p.x - 1, p.y>> \notin DOMAIN reading
    <3>1. SUFFICES ASSUME NEW j \in Decided, Spot(j) = <<p.x - 1, p.y>>
                   PROVE  FALSE
      BY DEF IInv, ReadSoFar
    <3>2. j \in 0..15
      BY <1>1 DEF Decided
    <3>3. Place(j).x \in 0..3
      BY <3>2, Places
    <3> QED
      BY <3>1, <3>3, <1>5 DEF Spot
  <2>2. found = ReceivedMode(received, 4 * Column(m_addr) - 1, 4 * Row(m_addr) + p.y)
    <3>1. found = ReceivedMode(received, InPicture(p).x - p.x + (p.x - 1), InPicture(p).y - p.y + p.y)
      BY <2>1 DEF Found
    <3>2. /\ InPicture(p).x - p.x + (p.x - 1) = 4 * Column(m_addr) - 1
          /\ InPicture(p).y - p.y + p.y = 4 * Row(m_addr) + p.y
      <4>1. 4 * Column(m_addr) \in Int /\ 4 * Row(m_addr) \in Int
        BY <1>2
      <4>2. p.x \in Int /\ p.y \in Int /\ p.x - 1 = -1
        BY <1>1, <1>5
      <4>3. InPicture(p).x - p.x + (p.x - 1) = 4 * Column(m_addr) + (-1)
        BY <1>3, <4>1, <4>2, Rebase
      <4>4. InPicture(p).y - p.y + p.y = 4 * Row(m_addr) + p.y
        BY <1>3, <4>1, <4>2, Rebase
      <4> QED
        BY <4>1, <4>3, <4>4
    <3> QED
      BY <3>1, <3>2
  <2>3. CASE Column(m_addr) = 0
    <3>1. ~IsLeftAvailable(p)
      BY <2>3, <1>3, <1>5 DEF IsLeftAvailable
    <3>2. found = None
      BY <2>2, <2>3 DEF ReceivedMode
    <3> QED
      BY <3>1, <3>2
  <2>4. CASE Column(m_addr) > 0
    <3> DEFINE n == m_addr - 1
    <3>1. IsLeftAvailable(p)
      BY <2>4, <1>2, <1>3, <1>5 DEF IsLeftAvailable
    <3>2. /\ (4 * Column(m_addr) - 1) % 4 = 3 /\ (4 * Row(m_addr) + p.y) % 4 = p.y
          /\ ((4 * Row(m_addr) + p.y) \div 4) * width_in_mb + ((4 * Column(m_addr) - 1) \div 4) = n
          /\ n \in Nat
      BY <1>1, <2>4, LeftMacroblock
    <3>3. ~(4 * Column(m_addr) - 1 < 0 \/ 4 * Row(m_addr) + p.y < 0 \/ n >= Len(received))
      BY <1>1, <1>2, <2>4, SMTT(30)
    <3>4. found = IF received[n + 1] = <<>> THEN DC ELSE received[n + 1][<<3, p.y>>]
      BY <2>2, <3>2, <3>3 DEF ReceivedMode
    <3>5. n + 1 \in DOMAIN received /\ n \in MBs
      <4>1. n \in MBs
        BY <1>1, <1>2, <3>2, BeforeIsMB, SMTT(30)
      <4>2. DOMAIN received = 1..Len(received)
        BY DEF IInv, TypeOK
      <4>3. n + 1 \in 1..Len(received)
        BY <1>1, <1>2, <3>2
      <4> QED
        BY <4>1, <4>2, <4>3
    <3>6. /\ (received[n + 1] # <<>>) = (m_type[n] = "I4")
          /\ received[n + 1] # <<>> =>
               \A i \in 0..15 : received[n + 1][<<Place(i).x, Place(i).y>>] = m_intra4_types[n][Place(i).x + 4 * Place(i).y]
      <4>1. (n + 1) - 1 = n
        BY <3>2
      <4> HIDE DEF n
      <4> QED
        BY <3>5, <4>1 DEF IInv, ReceiverRecoversModes
    <3>7. PICK i \in 0..15 : Place(i).x = 3 /\ Place(i).y = p.y
      <4>1. 3 \in 0..3 /\ p.x \in 0..3 /\ p.y \in 0..3
        BY <1>1
      <4> QED
        BY <4>1, EdgePlaces
    <3>8. /\ GetLeftMBType(p) = m_type[n]
          /\ GetLeftPredictionType(p) = m_intra4_types[n][3 + 4 * p.y]
      BY <1>5 DEF GetLeftMBType, GetLeftPredictionType
    <3>9. received[n + 1] # <<>> => found = m_intra4_types[n][3 + 4 * p.y]
      BY <3>4, <3>6, <3>7
    <3>10. m_intra4_types[n][3 + 4 * p.y] \in PredictionTypes /\ DC \in PredictionTypes
      <4>1. 3 + 4 * p.y \in 0..15
        BY <1>1
      <4>2. m_intra4_types[n] \in [0..15 -> PredictionTypes]
        BY <1>0, <3>5
      <4> QED
        BY <4>1, <4>2 DEF DC, PredictionTypes
    <3> QED
      BY <3>1, <3>4, <3>6, <3>8, <3>9, <3>10
  <2> QED
    BY <2>3, <2>4, <1>2
<1> QED
  BY <1>1, <1>4, <1>5

\* And above it.
LEMMA UpMode ==
  ASSUME IInv, pc = "trial", NEW p, p = Place(index)
  PROVE  LET found == Found(p, p.x, p.y - 1)
         IN /\ ~IsUpAvailable(p) => found = None
            /\ IsUpAvailable(p) => /\ found = IF GetUpMBType(p) = "I4" THEN GetUpPredictionType(p) ELSE DC
                                  /\ found \in PredictionTypes
<1> DEFINE found == Found(p, p.x, p.y - 1)
<1> SUFFICES /\ ~IsUpAvailable(p) => found = None
             /\ IsUpAvailable(p) => /\ found = IF GetUpMBType(p) = "I4" THEN GetUpPredictionType(p) ELSE DC
                                   /\ found \in PredictionTypes
  OBVIOUS
<1>0. /\ m_prediction_types \in [0..15 -> PredictionTypes]
      /\ m_intra4_types \in [MBs -> [0..15 -> PredictionTypes]]
  BY DEF IInv, TypeOK
<1>1. /\ p.x \in 0..3 /\ p.y \in 0..3 /\ index \in 0..15 /\ m_addr \in MBs
      /\ Len(received) = m_addr
  BY Places DEF IInv, TypeOK, InStep
<1>2. Column(m_addr) \in Nat /\ Row(m_addr) \in Nat /\ m_addr \in Nat
  BY <1>1, Address
<1>3. /\ InPicture(p).x = 4 * Column(m_addr) + p.x
      /\ InPicture(p).y = 4 * Row(m_addr) + p.y
  BY PlaceInPicture
<1>4. CASE p.y > 0
  <2>1. PICK j \in 0..(index - 1) : Place(j).x = p.x /\ Place(j).y = p.y - 1
    <3>1. index \in 0..15 /\ Place(index).y > 0
      BY <1>1, <1>4
    <3> QED
      BY <3>1, UpIsEarlier
  <2>2. j \in Decided /\ j \in 0..15
    <3>1. j \in 0..15
      BY <1>1
    <3> QED
      BY <3>1 DEF Decided
  <2>3. Spot(j) = <<p.x, p.y - 1>> /\ Raster(j) = p.x + 4 * (p.y - 1)
    BY <2>1 DEF Spot, Raster
  <2>4. <<p.x, p.y - 1>> \in DOMAIN reading /\ reading[<<p.x, p.y - 1>>] = m_prediction_types[p.x + 4 * (p.y - 1)]
    BY <2>2, <2>3 DEF IInv, ReadSoFar
  <2>5. found = m_prediction_types[p.x + 4 * (p.y - 1)] /\ found \in PredictionTypes
    BY <2>4, <1>0, <1>1, <1>4 DEF Found
  <2>6. IsUpAvailable(p) /\ GetUpMBType(p) = "I4"
    BY <1>1, <1>2, <1>3, <1>4 DEF IsUpAvailable, GetUpMBType
  <2>7. GetUpPredictionType(p) = m_prediction_types[p.x + 4 * (p.y - 1)]
    BY <1>1, <1>4 DEF GetUpPredictionType
  <2> QED
    BY <2>5, <2>6, <2>7
<1>5. CASE p.y = 0
  <2>1. <<p.x, p.y - 1>> \notin DOMAIN reading
    <3>1. SUFFICES ASSUME NEW j \in Decided, Spot(j) = <<p.x, p.y - 1>>
                   PROVE  FALSE
      BY DEF IInv, ReadSoFar
    <3>2. j \in 0..15
      BY <1>1, SMTT(30) DEF Decided
    <3>3. Place(j).y \in 0..3
      BY <3>2, Places
    <3> QED
      BY <3>1, <3>3, <1>5 DEF Spot
  <2>2. found = ReceivedMode(received, 4 * Column(m_addr) + p.x, 4 * Row(m_addr) - 1)
    <3>1. found = ReceivedMode(received, InPicture(p).x - p.x + p.x, InPicture(p).y - p.y + (p.y - 1))
      BY <2>1 DEF Found
    <3>2. /\ InPicture(p).x - p.x + p.x = 4 * Column(m_addr) + p.x
          /\ InPicture(p).y - p.y + (p.y - 1) = 4 * Row(m_addr) - 1
      <4>1. 4 * Column(m_addr) \in Int /\ 4 * Row(m_addr) \in Int
        BY <1>2
      <4>2. p.x \in Int /\ p.y \in Int /\ p.y - 1 = -1
        BY <1>1, <1>5
      <4>3. InPicture(p).x - p.x + p.x = 4 * Column(m_addr) + p.x
        BY <1>3, <4>1, <4>2, Rebase
      <4>4. InPicture(p).y - p.y + (p.y - 1) = 4 * Row(m_addr) + (-1)
        BY <1>3, <4>1, <4>2, Rebase
      <4> QED
        BY <4>1, <4>3, <4>4
    <3> QED
      BY <3>1, <3>2
  <2>3. CASE Row(m_addr) = 0
    <3>1. ~IsUpAvailable(p)
      BY <2>3, <1>3, <1>5 DEF IsUpAvailable
    <3>2. found = None
      BY <2>2, <2>3 DEF ReceivedMode
    <3> QED
      BY <3>1, <3>2
  <2>4. CASE Row(m_addr) > 0
    <3>0. PICK n \in Nat : n = m_addr - width_in_mb /\ n <= m_addr - 1
      <4>1. m_addr - width_in_mb \in Nat /\ width_in_mb \in Nat \ {0}
        BY <1>1, <2>4, UpMacroblock, SizeAssumption
      <4> QED
        BY <4>1, <1>2
    <3>1. IsUpAvailable(p)
      BY <2>4, <1>2, <1>3, <1>5 DEF IsUpAvailable
    <3>2. /\ (4 * Row(m_addr) - 1) % 4 = 3 /\ (4 * Column(m_addr) + p.x) % 4 = p.x
          /\ ((4 * Row(m_addr) - 1) \div 4) * width_in_mb + ((4 * Column(m_addr) + p.x) \div 4) = n
      BY <1>1, <2>4, <3>0, UpMacroblock
    <3>3. ~(4 * Column(m_addr) + p.x < 0 \/ 4 * Row(m_addr) - 1 < 0 \/ n >= Len(received))
      <4>1. ~(4 * Column(m_addr) + p.x < 0)
        BY <1>1, <1>2, SMTT(30)
      <4>2. ~(4 * Row(m_addr) - 1 < 0)
        BY <1>2, <2>4
      <4>3. ~(n >= Len(received))
        BY <1>1, <1>2, <3>0
      <4> QED
        BY <4>1, <4>2, <4>3
    <3>4. found = IF received[n + 1] = <<>> THEN DC ELSE received[n + 1][<<p.x, 3>>]
      BY <2>2, <3>2, <3>3 DEF ReceivedMode
    <3>5. n + 1 \in DOMAIN received /\ n \in MBs
      <4>1. n \in MBs
        BY <1>1, <1>2, <3>0, BeforeIsMB
      <4>2. DOMAIN received = 1..Len(received)
        BY DEF IInv, TypeOK
      <4>3. Len(received) = m_addr /\ m_addr \in Nat
        BY <1>1, <1>2
      <4>4. n + 1 \in 1..Len(received)
        BY <4>3, <3>0
      <4> QED
        BY <4>1, <4>2, <4>4
    <3>6. /\ (received[n + 1] # <<>>) = (m_type[n] = "I4")
          /\ received[n + 1] # <<>> =>
               \A i \in 0..15 : received[n + 1][<<Place(i).x, Place(i).y>>] = m_intra4_types[n][Place(i).x + 4 * Place(i).y]
      <4>1. (n + 1) - 1 = n
        OBVIOUS
      <4> QED
        BY <3>5, <4>1 DEF IInv, ReceiverRecoversModes
    <3>7. PICK i \in 0..15 : Place(i).x = p.x /\ Place(i).y = 3
      <4>1. 3 \in 0..3 /\ p.x \in 0..3 /\ p.y \in 0..3
        BY <1>1
      <4> QED
        BY <4>1, EdgePlaces
    <3>8. /\ GetUpMBType(p) = m_type[n]
          /\ GetUpPredictionType(p) = m_intra4_types[n][p.x + 12]
      BY <1>5, <3>0 DEF GetUpMBType, GetUpPredictionType
    <3>9. received[n + 1] # <<>> => found = m_intra4_types[n][p.x + 12]
      <4>1. 4 * 3 = 12
        OBVIOUS
      <4>2. received[n + 1] # <<>> =>
              received[n + 1][<<Place(i).x, Place(i).y>>] = m_intra4_types[n][Place(i).x + 4 * Place(i).y]
        BY <3>6, <3>7
      <4>3. <<Place(i).x, Place(i).y>> = <<p.x, 3>> /\ Place(i).x + 4 * Place(i).y = p.x + 12
        BY <3>7, <4>1
      <4> QED
        BY <3>4, <4>2, <4>3
    <3>10. m_intra4_types[n][p.x + 12] \in PredictionTypes /\ DC \in PredictionTypes
      <4>1. p.x + 12 \in 0..15
        BY <1>1
      <4>2. m_intra4_types[n] \in [0..15 -> PredictionTypes]
        BY <1>0, <3>5
      <4> QED
        BY <4>1, <4>2 DEF DC, PredictionTypes
    <3>11. /\ found = IF GetUpMBType(p) = "I4" THEN GetUpPredictionType(p) ELSE DC
           /\ found \in PredictionTypes
      BY <3>4, <3>6, <3>8, <3>9, <3>10
    <3> QED
      BY <3>1, <3>11
  <2> QED
    BY <2>3, <2>4, <1>2
<1> QED
  BY <1>1, <1>4, <1>5

\* The receiver reads the mode back from its element, whichever it is.
LEMMA ModeReadBack ==
  ASSUME IInv, pc = "trial", NEW type \in PredictionTypes
  PROVE  ReceiveMode(Place(index), OutputPredictionType(MostProbable(Place(index)), type)) = type
<1> DEFINE p == Place(index)
           a == Found(p, p.x - 1, p.y)
           b == Found(p, p.x, p.y - 1)
           predicted == IF None \in {a, b} THEN DC ELSE Smaller(a, b)
           element == OutputPredictionType(MostProbable(p), type)
<1>1. /\ ~IsLeftAvailable(p) => a = None
      /\ IsLeftAvailable(p) => /\ a = IF GetLeftMBType(p) = "I4" THEN GetLeftPredictionType(p) ELSE DC
                              /\ a \in PredictionTypes
  BY LeftMode
<1>2. /\ ~IsUpAvailable(p) => b = None
      /\ IsUpAvailable(p) => /\ b = IF GetUpMBType(p) = "I4" THEN GetUpPredictionType(p) ELSE DC
                            /\ b \in PredictionTypes
  BY UpMode
<1>3. predicted = MostProbable(p) /\ MostProbable(p) \in PredictionTypes
  <2> HIDE DEF p, a, b
  <2>1. None \notin PredictionTypes /\ DC \in PredictionTypes
    BY DEF None, DC, PredictionTypes
  <2>2. CASE IsLeftAvailable(p) /\ IsUpAvailable(p)
    <3>1. a \in PredictionTypes /\ b \in PredictionTypes /\ MostProbable(p) = Smaller(a, b)
      BY <2>2, <1>1, <1>2 DEF MostProbable
    <3> QED
      BY <3>1, <2>1 DEF Smaller
  <2>3. CASE ~(IsLeftAvailable(p) /\ IsUpAvailable(p))
    <3>1. None \in {a, b}
      BY <2>3, <1>1, <1>2
    <3>2. MostProbable(p) = DC
      BY <2>3 DEF MostProbable, Smaller
    <3> QED
      BY <3>1, <3>2, <2>1
  <2> QED
    BY <2>2, <2>3
<1>4. ReceiveMode(p, element) =
        CASE element[1] = 1 -> predicted
          [] element[1] = 0 /\ element[2] < predicted -> element[2]
          [] OTHER -> element[2] + 1
  BY DEF ReceiveMode, Found
<1>5. CASE type = MostProbable(p)
  <2>1. element[1] = 1
    BY <1>5 DEF OutputPredictionType
  <2> QED
    BY <2>1, <1>3, <1>4, <1>5
<1>6. CASE type < MostProbable(p)
  <2>1. element[1] = 0 /\ element[2] = type
    BY <1>6, <1>3 DEF OutputPredictionType, PredictionTypes
  <2> QED
    BY <2>1, <1>3, <1>4, <1>6
<1>7. CASE type > MostProbable(p)
  <2>1. element[1] = 0 /\ element[2] = type - 1 /\ ~(element[2] < MostProbable(p)) /\ element[2] + 1 = type
    BY <1>7, <1>3 DEF OutputPredictionType, PredictionTypes
  <2> QED
    BY <2>1, <1>3, <1>4
<1> QED
  BY <1>3, <1>5, <1>6, <1>7 DEF PredictionTypes

-----------------------------------------------------------------------------
(* The invariant is inductive.                                             *)

\* Whether a mode can be predicted depends on the block alone.
LEMMA SameBlock ==
  ASSUME m_addr' = m_addr, index' = index, NEW CONSTANT type
  PROVE  Predictable(Place(index), type)' <=> Predictable(Place(index), type)
  BY DEF Predictable, IsLeftAvailable, IsUpAvailable, InPicture, Place

LEMMA InitEstablishes == Init => IInv
<1> SUFFICES ASSUME Init PROVE IInv
  OBVIOUS
<1>1. TypeOK
  <2>1. width_in_mb * height_in_mb \in Nat \ {0}
    BY SizeAssumption
  <2>2. 0 \in MBs
    BY <2>1 DEF MBs
  <2> QED
    BY <2>2 DEF Init, TypeOK, NoModes, NothingRead, None, DC, PredictionTypes
<1>2. Idle /\ Holds /\ BestSoFar
  BY DEF Init, Idle, Holds, BestSoFar, PredictionTypes
<1>3. ReadSoFar
  BY DEF Init, ReadSoFar, Decided, NothingRead
<1>4. InStep /\ ReceiverRecoversModes
  BY DEF Init, InStep, ReceiverRecoversModes
<1> QED
  BY <1>1, <1>2, <1>3, <1>4 DEF IInv

LEMMA TryIntra16Keeps == IInv /\ TryIntra16 => IInv'
<1> SUFFICES ASSUME IInv, TryIntra16 PROVE IInv'
  OBVIOUS
<1>1. TypeOK'
  BY DEF IInv, TypeOK, TryIntra16
<1>2. Idle' /\ BestSoFar'
  BY DEF IInv, Idle, BestSoFar, TryIntra16
<1>3. Holds'
  BY DEF IInv, Idle, Holds, TryIntra16, PredictionTypes
<1>4. ReadSoFar'
  <2>1. Decided = {} /\ Decided' = {}
    BY DEF IInv, Idle, Decided, TryIntra16
  <2>2. DOMAIN reading = {}
    BY <2>1 DEF IInv, ReadSoFar
  <2> QED
    BY <2>1, <2>2 DEF ReadSoFar, TryIntra16
<1>5. InStep'
  BY DEF IInv, TypeOK, InStep, TryIntra16
<1>6. ReceiverRecoversModes'
  <2>1. ASSUME NEW n \in DOMAIN received
        PROVE  m_type'[n - 1] = m_type[n - 1]
    <3>1. n \in 1..m_addr /\ m_addr \in Nat
      BY Address DEF IInv, TypeOK, InStep, TryIntra16
    <3>2. n - 1 # m_addr /\ n - 1 \in Nat /\ n - 1 <= m_addr
      BY <3>1
    <3>3. n - 1 \in MBs
      BY <3>2, BeforeIsMB DEF IInv, TypeOK
    <3> QED
      BY <3>2, <3>3 DEF IInv, TypeOK, TryIntra16
  <2> QED
    BY <2>1 DEF IInv, ReceiverRecoversModes, TryIntra16
<1> QED
  BY <1>1, <1>2, <1>3, <1>4, <1>5, <1>6 DEF IInv

LEMMA TryModeKeeps == IInv /\ TryMode => IInv'
<1> SUFFICES ASSUME IInv, TryMode PROVE IInv'
  OBVIOUS
<1> DEFINE cost == pattern[index][Held]
           wins == Held # None /\ Better(cost, trial)
           Can(type) == Predictable(Place(index), type)
<1>1. /\ pc = "trial" /\ trial \in PredictionTypes /\ trial' = trial + 1
      /\ min_rdo_cost' = IF wins THEN cost ELSE min_rdo_cost
      /\ m_best_prediction_type' = IF wins THEN trial ELSE m_best_prediction_type
      /\ m_prediction_type' = Held
      /\ index' = index /\ m_addr' = m_addr /\ pattern' = pattern /\ pc' = pc
  BY DEF IInv, TypeOK, TryMode, PredictionTypes
<1>2. \A type \in PredictionTypes : pattern[index][type] \in Nat
  <2>1. pattern \in [0..15 -> [PredictionTypes -> Nat]] /\ index \in 0..15
    BY CostAssumption DEF IInv, TypeOK
  <2>2. pattern[index] \in [PredictionTypes -> Nat]
    BY <2>1
  <2> QED
    BY <2>2
<1>3. Held \in 0..9 /\ (Held # None => Held \in PredictionTypes)
  BY <1>1 DEF Held, IInv, TypeOK, None, PredictionTypes
<1>4. TypeOK'
  <2>1. wins => cost \in Nat
    BY <1>2, <1>3
  <2>2. /\ min_rdo_cost' \in Nat \cup {-1} /\ trial' \in 0..9
        /\ m_best_prediction_type' \in 0..9 /\ m_prediction_type' \in 0..9
    BY <1>1, <1>3, <2>1 DEF IInv, TypeOK, PredictionTypes
  <2>3. UNCHANGED <<m_type, m_intra4_types, m_prediction_types, reading, received>>
    BY DEF TryMode
  <2> QED
    BY <1>1, <2>2, <2>3 DEF IInv, TypeOK
<1>5. Idle'
  BY <1>1 DEF Idle
<1>6. ReadSoFar' /\ InStep' /\ ReceiverRecoversModes'
  BY DEF IInv, ReadSoFar, Decided, InStep, ReceiverRecoversModes, TryMode
<1>7. \A type \in 0..9 : Predictable(Place(index), type)' <=> Can(type)
  BY <1>1, SameBlock
<1>8. Can(MostProbable(Place(index)))
  BY <1>1, MostProbableIsPredictable
<1> None \notin PredictionTypes /\ PredictionTypes = 0..8 /\ None = 9
  BY DEF None, PredictionTypes
<1>9. CASE Can(trial)
  <2>1. Held = trial
    BY <1>9 DEF Held
  <2> HIDE DEF Can
  <2>2. Holds'
    BY <1>1, <1>7, <1>9, <2>1 DEF Holds
  <2>3. CASE wins
    <3>1. ASSUME NEW type \in PredictionTypes, type < trial, Can(type)
          PROVE  cost <= pattern[index][type]
      <4>1. min_rdo_cost # -1
        BY <3>1 DEF IInv, Holds, BestSoFar, Can
      <4>2. min_rdo_cost \in Nat /\ min_rdo_cost <= pattern[index][type]
        BY <3>1, <4>1 DEF IInv, TypeOK, BestSoFar, Can
      <4>3. cost <= min_rdo_cost /\ cost \in Nat
        BY <2>1, <2>3, <4>1, <4>2, <1>1, <1>2 DEF Better
      <4> QED
        BY <4>2, <4>3, <1>2
    <3>2. /\ min_rdo_cost' = pattern[index][trial] /\ m_best_prediction_type' = trial
          /\ m_prediction_type' = trial
      BY <1>1, <2>1, <2>3
    <3>3. pattern[index][trial] \in Nat
      BY <1>1, <1>2
    <3> QED
      BY <1>1, <1>2, <1>3, <1>4, <1>5, <1>6, <1>7, <1>9, <2>1, <2>2, <3>1, <3>2, <3>3 DEF IInv, BestSoFar
  <2>4. CASE ~wins
    <3>1. min_rdo_cost # -1 /\ ~(cost < min_rdo_cost)
      BY <2>1, <2>4, <1>1 DEF Better
    <3>2. min_rdo_cost \in Nat /\ m_best_prediction_type # None /\ m_prediction_type # None
      BY <3>1 DEF IInv, TypeOK, BestSoFar
    <3>3. min_rdo_cost <= pattern[index][trial]
      BY <2>1, <3>1, <3>2, <1>1, <1>2
    <3>4. /\ min_rdo_cost' = min_rdo_cost /\ m_best_prediction_type' = m_best_prediction_type
          /\ m_prediction_type' = trial /\ m_best_prediction_type \in 0..9
      BY <1>1, <2>1, <2>4 DEF IInv, TypeOK
    <3> QED
      BY <1>1, <1>4, <1>5, <1>6, <1>7, <2>2, <3>2, <3>3, <3>4 DEF IInv, BestSoFar, Can
  <2> QED
    BY <2>3, <2>4
<1>10. CASE ~Can(trial)
  <2>1. Held = m_prediction_type
    BY <1>10 DEF Held
  <2>2. ~wins
    <3>1. SUFFICES ASSUME wins PROVE FALSE
      OBVIOUS
    <3>2. m_prediction_type # None /\ m_prediction_type < trial /\ Can(m_prediction_type)
      BY <2>1, <3>1 DEF IInv, Holds
    <3>3. min_rdo_cost # -1 /\ min_rdo_cost <= cost
      BY <2>1, <3>2, <1>3 DEF IInv, BestSoFar
    <3>4. min_rdo_cost \in Nat /\ cost \in Nat
      BY <1>2, <1>3, <2>1, <3>2, <3>3 DEF IInv, TypeOK
    <3>5. trial = MostProbable(Place(index))
      BY <3>1, <3>3, <3>4 DEF Better
    <3> QED
      BY <3>5, <1>8, <1>10
  <2>3. /\ min_rdo_cost' = min_rdo_cost /\ m_best_prediction_type' = m_best_prediction_type
        /\ m_prediction_type' = m_prediction_type /\ m_best_prediction_type \in 0..9
        /\ m_prediction_type \in 0..9
    BY <1>1, <2>1, <2>2 DEF IInv, TypeOK
  <2>4. Holds'
    BY <1>1, <1>7, <1>10, <2>3 DEF IInv, Holds
  <2>5. BestSoFar'
    BY <1>1, <1>7, <1>10, <2>3 DEF IInv, BestSoFar
  <2> QED
    BY <1>4, <1>5, <1>6, <2>4, <2>5 DEF IInv
<1> QED
  BY <1>9, <1>10

LEMMA DecideModeKeeps == IInv /\ DecideMode => IInv'
<1> SUFFICES ASSUME IInv, DecideMode PROVE IInv'
  OBVIOUS
<1> DEFINE p == Place(index)
           best == m_best_prediction_type
           element == OutputPredictionType(MostProbable(p), best)
<1> None \notin PredictionTypes /\ PredictionTypes = 0..8 /\ None = 9 /\ DC = 2
  BY DEF None, PredictionTypes, DC
<1>1. best \in PredictionTypes /\ Predictable(p, best)
  <2>1. Predictable(p, DC)
    BY DEF Predictable, DC, Vertical, DownLeft, VerticalLeft, Horizontal, HorizontalUp, DownRight,
       VerticalRight, HorizontalDown
  <2>2. trial = 9
    BY DEF DecideMode
  <2>3. m_prediction_type # None
    BY <2>1, <2>2 DEF IInv, Holds
  <2>4. best # None /\ best \in 0..9
    BY <2>3 DEF IInv, TypeOK, BestSoFar
  <2>5. Predictable(p, best)
    BY <2>4 DEF IInv, BestSoFar
  <2> QED
    BY <2>4, <2>5
<1>2. ReceiveMode(p, element) = best
  BY <1>1, ModeReadBack DEF DecideMode
<1>3. /\ m_prediction_types' = [m_prediction_types EXCEPT ![Raster(index)] = best]
      /\ reading' = [b \in DOMAIN reading \cup {Spot(index)} |-> IF b = Spot(index) THEN best ELSE reading[b]]
  BY <1>1, <1>2 DEF DecideMode, Raster, Spot
<1>4. /\ pc = "trial" /\ index \in 0..15 /\ Raster(index) \in 0..15 /\ pc' \in {"trial", "choose"}
      /\ pc' = "choose" => index' = 0
      /\ index' \in 0..15
  BY Places, SMTT(30) DEF IInv, TypeOK, DecideMode, NextIndex
<1>5. Decided' = Decided \cup {index} /\ Decided = 0..(index - 1)
  <2>1. CASE index = 15
    BY <1>4, <2>1 DEF Decided, DecideMode
  <2>2. CASE index # 15
    <3>1. index' = index + 1 /\ pc' = "trial"
      BY <1>4, <2>2 DEF DecideMode, NextIndex
    <3> QED
      BY <1>4, <3>1 DEF Decided
  <2> QED
    BY <2>1, <2>2
<1>6. TypeOK'
  <2>1. reading' \in [DOMAIN reading' -> PredictionTypes]
    BY <1>1, <1>3 DEF IInv, TypeOK
  <2>2. m_prediction_types' \in [0..15 -> PredictionTypes]
    BY <1>1, <1>3 DEF IInv, TypeOK
  <2>3. /\ UNCHANGED <<m_addr, pattern, m_type, m_intra4_types, received>>
        /\ trial' = 0 /\ m_prediction_type' = None /\ min_rdo_cost' = -1 /\ m_best_prediction_type' = None
    BY DEF DecideMode
  <2> QED
    BY <1>4, <2>1, <2>2, <2>3 DEF IInv, TypeOK
<1>7. Idle' /\ Holds' /\ BestSoFar'
  BY <1>4 DEF DecideMode, Idle, Holds, BestSoFar
<1>8. ReadSoFar'
  <2>1. DOMAIN reading' = {Spot(i) : i \in Decided'}
    BY <1>3, <1>5 DEF IInv, ReadSoFar
  <2>2. ASSUME NEW i \in Decided'
        PROVE  reading'[Spot(i)] = m_prediction_types'[Raster(i)]
    <3>1. CASE i = index
      BY <1>3, <1>4, <3>1 DEF IInv, TypeOK
    <3>2. CASE i # index
      <4>1. i \in Decided /\ i \in 0..15
        BY <1>4, <1>5, <3>2
      <4>2. Spot(i) # Spot(index) /\ Raster(i) # Raster(index) /\ Raster(i) \in 0..15
        BY <1>4, <3>2, <4>1, Places, PlacesDiffer
      <4>3. reading'[Spot(i)] = reading[Spot(i)] /\ m_prediction_types'[Raster(i)] = m_prediction_types[Raster(i)]
        BY <1>3, <4>1, <4>2 DEF IInv, TypeOK, ReadSoFar
      <4> QED
        BY <4>1, <4>3 DEF IInv, ReadSoFar
    <3> QED
      BY <3>1, <3>2
  <2> QED
    BY <2>1, <2>2 DEF ReadSoFar, Spot, Raster, Place
<1>9. InStep' /\ ReceiverRecoversModes'
  BY <1>4 DEF IInv, InStep, ReceiverRecoversModes, DecideMode
<1> QED
  BY <1>6, <1>7, <1>8, <1>9 DEF IInv

\* All sixteen modes have been read when the type is chosen.
LEMMA AllRead ==
  ASSUME IInv, pc = "choose"
  PROVE  /\ reading \in [Spots -> PredictionTypes] /\ reading # <<>>
         /\ \A i \in 0..15 : reading[Spot(i)] = m_prediction_types[Raster(i)]
<1>1. Decided = 0..15
  BY DEF Decided
<1>2. reading \in [Spots -> PredictionTypes]
  BY <1>1 DEF IInv, TypeOK, ReadSoFar, Spots
<1>3. Spot(0) \in DOMAIN reading
  BY <1>2 DEF Spots
<1>4. reading # <<>>
  BY <1>3
<1> QED
  BY <1>1, <1>2, <1>4 DEF IInv, ReadSoFar

\* What is appended to the receiver's macroblocks.
LEMMA AppendKeeps ==
  ASSUME IInv, pc = "choose", NEW entry \in {<<>>} \cup [Spots -> PredictionTypes],
         received' = Append(received, entry)
  PROVE  /\ received' \in Seq({<<>>} \cup [Spots -> PredictionTypes])
         /\ Len(received') = m_addr + 1 /\ DOMAIN received' = 1..(m_addr + 1)
         /\ \A n \in 1..m_addr : received'[n] = received[n] /\ n \in DOMAIN received
         /\ received'[m_addr + 1] = entry
<1>1. received \in Seq({<<>>} \cup [Spots -> PredictionTypes]) /\ Len(received) = m_addr /\ m_addr \in Nat
  BY Address DEF IInv, TypeOK, InStep
<1> QED
  BY <1>1, AppendProperties

LEMMA ChooseIntra4Keeps == IInv /\ ChooseIntra4 => IInv'
<1> SUFFICES ASSUME IInv, ChooseIntra4 PROVE IInv'
  OBVIOUS
<1>1. /\ pc = "choose" /\ pc' = "next" /\ m_addr' = m_addr /\ m_addr \in MBs /\ m_addr \in Nat
      /\ m_type \in [MBs -> {"none", "I16", "I4"}] /\ m_type' = [m_type EXCEPT ![m_addr] = "I4"]
      /\ m_intra4_types \in [MBs -> [0..15 -> PredictionTypes]]
      /\ m_intra4_types' = [m_intra4_types EXCEPT ![m_addr] = m_prediction_types]
  BY Address DEF IInv, TypeOK, ChooseIntra4
<1>2. /\ received' \in Seq({<<>>} \cup [Spots -> PredictionTypes])
      /\ Len(received') = m_addr + 1 /\ DOMAIN received' = 1..(m_addr + 1)
      /\ \A n \in 1..m_addr : received'[n] = received[n] /\ n \in DOMAIN received
      /\ received'[m_addr + 1] = reading
  BY <1>1, AllRead, AppendKeeps DEF ChooseIntra4
<1>3. TypeOK'
  BY <1>1, <1>2 DEF IInv, TypeOK, ChooseIntra4
<1>4. Idle' /\ Holds' /\ BestSoFar'
  BY <1>1 DEF IInv, Idle, Holds, BestSoFar, ChooseIntra4, PredictionTypes
<1>5. ReadSoFar'
  BY <1>1 DEF IInv, ReadSoFar, Decided, ChooseIntra4
<1>6. InStep'
  BY <1>1, <1>2 DEF InStep
<1>7. ReceiverRecoversModes'
  <2>1. ASSUME NEW n \in 1..m_addr
        PROVE  n - 1 # m_addr /\ m_type'[n - 1] = m_type[n - 1] /\ m_intra4_types'[n - 1] = m_intra4_types[n - 1]
    <3>1. n - 1 \in Nat /\ n - 1 <= m_addr /\ n - 1 # m_addr
      BY <1>1
    <3>2. n - 1 \in MBs
      BY <1>1, <3>1, BeforeIsMB
    <3> QED
      BY <1>1, <3>1, <3>2
  <2>2. ASSUME NEW n \in 1..m_addr
        PROVE  /\ (received'[n] # <<>>) = (m_type'[n - 1] = "I4")
               /\ received'[n] # <<>> =>
                    \A i \in 0..15 :
                      received'[n][<<Place(i).x, Place(i).y>>] = m_intra4_types'[n - 1][Place(i).x + 4 * Place(i).y]
    <3>1. /\ (received[n] # <<>>) = (m_type[n - 1] = "I4")
          /\ received[n] # <<>> =>
               \A i \in 0..15 :
                 received[n][<<Place(i).x, Place(i).y>>] = m_intra4_types[n - 1][Place(i).x + 4 * Place(i).y]
      BY <1>2 DEF IInv, ReceiverRecoversModes
    <3>2. received'[n] = received[n]
      BY <1>2
    <3> QED
      BY <2>1, <3>1, <3>2
  <2>3. /\ received'[m_addr + 1] # <<>> /\ m_type'[m_addr] = "I4"
        /\ \A i \in 0..15 :
             received'[m_addr + 1][<<Place(i).x, Place(i).y>>] = m_intra4_types'[m_addr][Place(i).x + 4 * Place(i).y]
    BY <1>1, <1>2, AllRead DEF Spot, Raster
  <2>4. ASSUME NEW n \in 1..(m_addr + 1)
        PROVE  /\ (received'[n] # <<>>) = (m_type'[n - 1] = "I4")
               /\ received'[n] # <<>> =>
                    \A i \in 0..15 :
                      received'[n][<<Place(i).x, Place(i).y>>] = m_intra4_types'[n - 1][Place(i).x + 4 * Place(i).y]
    <3>1. CASE n \in 1..m_addr
      BY <2>2, <3>1
    <3>2. CASE n = m_addr + 1
      <4>1. n - 1 = m_addr
        BY <1>1, <3>2
      <4> QED
        BY <2>3, <3>2, <4>1
    <3>3. n \in 1..m_addr \/ n = m_addr + 1
      BY <1>1
    <3> QED
      BY <3>1, <3>2, <3>3
  <2> QED
    BY <1>2, <2>4 DEF ReceiverRecoversModes
<1> QED
  BY <1>3, <1>4, <1>5, <1>6, <1>7 DEF IInv

LEMMA ChooseIntra16Keeps == IInv /\ ChooseIntra16 => IInv'
<1> SUFFICES ASSUME IInv, ChooseIntra16 PROVE IInv'
  OBVIOUS
<1>1. /\ pc = "choose" /\ pc' = "next" /\ m_addr' = m_addr /\ m_addr \in Nat
      /\ m_type' = m_type /\ m_intra4_types' = m_intra4_types /\ m_type[m_addr] = "I16"
  BY Address DEF IInv, TypeOK, InStep, ChooseIntra16
<1>2. /\ received' \in Seq({<<>>} \cup [Spots -> PredictionTypes])
      /\ Len(received') = m_addr + 1 /\ DOMAIN received' = 1..(m_addr + 1)
      /\ \A n \in 1..m_addr : received'[n] = received[n] /\ n \in DOMAIN received
      /\ received'[m_addr + 1] = <<>>
  BY <1>1, AppendKeeps DEF ChooseIntra16
<1>3. TypeOK'
  BY <1>1, <1>2 DEF IInv, TypeOK, ChooseIntra16
<1>4. Idle' /\ Holds' /\ BestSoFar'
  BY <1>1 DEF IInv, Idle, Holds, BestSoFar, ChooseIntra16, PredictionTypes
<1>5. ReadSoFar'
  BY <1>1 DEF IInv, ReadSoFar, Decided, ChooseIntra16
<1>6. InStep'
  BY <1>1, <1>2 DEF InStep
<1>7. ReceiverRecoversModes'
  <2>1. ASSUME NEW n \in 1..(m_addr + 1)
        PROVE  /\ (received'[n] # <<>>) = (m_type'[n - 1] = "I4")
               /\ received'[n] # <<>> =>
                    \A i \in 0..15 :
                      received'[n][<<Place(i).x, Place(i).y>>] = m_intra4_types'[n - 1][Place(i).x + 4 * Place(i).y]
    <3>1. CASE n \in 1..m_addr
      <4>1. /\ (received[n] # <<>>) = (m_type[n - 1] = "I4")
            /\ received[n] # <<>> =>
                 \A i \in 0..15 :
                   received[n][<<Place(i).x, Place(i).y>>] = m_intra4_types[n - 1][Place(i).x + 4 * Place(i).y]
        BY <1>2, <3>1 DEF IInv, ReceiverRecoversModes
      <4>2. received'[n] = received[n] /\ m_type' = m_type /\ m_intra4_types' = m_intra4_types
        BY <1>1, <1>2, <3>1
      <4> QED
        BY <4>1, <4>2
    <3>2. CASE n = m_addr + 1
      <4>1. n - 1 = m_addr
        BY <1>1, <3>2
      <4> QED
        BY <1>1, <1>2, <3>2, <4>1
    <3>3. n \in 1..m_addr \/ n = m_addr + 1
      BY <1>1
    <3> QED
      BY <3>1, <3>2, <3>3
  <2> QED
    BY <1>2, <2>1 DEF ReceiverRecoversModes
<1> QED
  BY <1>3, <1>4, <1>5, <1>6, <1>7 DEF IInv

LEMMA NextMBKeeps == IInv /\ NextMB => IInv'
<1> SUFFICES ASSUME IInv, NextMB PROVE IInv'
  OBVIOUS
<1>1. TypeOK'
  BY DEF IInv, TypeOK, NextMB, NoModes, NothingRead, DC, PredictionTypes
<1>2. Idle' /\ Holds' /\ BestSoFar'
  BY DEF IInv, Idle, Holds, BestSoFar, NextMB, PredictionTypes, None
<1>3. ReadSoFar'
  BY DEF ReadSoFar, Decided, NextMB, NothingRead
<1>4. InStep' /\ ReceiverRecoversModes'
  BY DEF IInv, InStep, ReceiverRecoversModes, NextMB
<1> QED
  BY <1>1, <1>2, <1>3, <1>4 DEF IInv

LEMMA NextKeeps == IInv /\ [Next]_vars => IInv'
<1> SUFFICES ASSUME IInv, [Next]_vars PROVE IInv'
  OBVIOUS
<1>1. CASE Next
  BY <1>1, TryIntra16Keeps, TryModeKeeps, DecideModeKeeps, ChooseIntra4Keeps, ChooseIntra16Keeps,
     NextMBKeeps DEF Next
<1>2. CASE UNCHANGED vars
  BY <1>2 DEF vars, IInv, TypeOK, Idle, Holds, BestSoFar, ReadSoFar, Decided, InStep,
     ReceiverRecoversModes, Predictable, IsLeftAvailable, IsUpAvailable, InPicture
<1> QED
  BY <1>1, <1>2

\* The inductive invariant holds of every behaviour of the nine trials, the choice of
\* a type and the receiver that follows.
THEOREM Invariance == Spec => []IInv
  BY InitEstablishes, NextKeeps, PTL DEF Spec

\* The nine trials of a block end with the cheapest mode whose neighbouring samples
\* exist, whatever the modes cost and wherever the block is: what a trial without
\* samples leaves in the predictor never wins (Intra4LumaFlowNode::Frontend).
THEOREM ChosenIsPredictable == Spec => []ChosenModeIsPredictable
<1>1. IInv => ChosenModeIsPredictable
  <2> SUFFICES ASSUME IInv, pc = "trial", trial = 9
               PROVE  /\ m_best_prediction_type # None
                      /\ Predictable(Place(index), m_best_prediction_type)
                      /\ \A type \in PredictionTypes :
                           Predictable(Place(index), type) =>
                             pattern[index][m_best_prediction_type] <= pattern[index][type]
    BY DEF ChosenModeIsPredictable
  <2>1. Predictable(Place(index), DC) /\ DC \in PredictionTypes
    BY DEF Predictable, DC, Vertical, DownLeft, VerticalLeft, Horizontal, HorizontalUp, DownRight,
       VerticalRight, HorizontalDown, PredictionTypes
  <2>2. m_best_prediction_type # None
    BY <2>1 DEF IInv, Holds, BestSoFar, PredictionTypes
  <2> QED
    BY <2>2 DEF IInv, BestSoFar, PredictionTypes
<1> QED
  BY <1>1, Invariance, PTL

\* A receiver reads back the mode of every 4x4 block of every macroblock from the
\* two elements, in a picture of any size: the most probable mode it derives is the
\* encoder's (CalculateMostProbablePredictionType), at edges and beside macroblocks
\* of the other type.
THEOREM ModesRecovered == Spec => []ReceiverRecoversModes
<1>1. IInv => ReceiverRecoversModes
  BY DEF IInv
<1> QED
  BY <1>1, Invariance, PTL

-----------------------------------------------------------------------------
(* IntraPrediction: the samples beside the modes.                          *)

LEMMA InitImplies == PredictionInit => Init
  BY DEF PredictionInit

LEMMA StepImplies == [PredictionNext]_prediction_vars => [Next]_vars
<1> SUFFICES ASSUME [PredictionNext]_prediction_vars PROVE [Next]_vars
  OBVIOUS
<1>1. CASE PredictMacroblock
  BY <1>1 DEF PredictMacroblock, Next
<1>2. CASE PredictBlock
  BY <1>2 DEF PredictBlock, Next
<1>3. CASE ReconstructBlock
  BY <1>3 DEF ReconstructBlock, Next
<1>4. CASE OtherStep
  BY <1>4 DEF OtherStep, Next
<1>5. CASE UNCHANGED prediction_vars
  BY <1>5 DEF prediction_vars
<1> QED
  BY <1>1, <1>2, <1>3, <1>4, <1>5 DEF PredictionNext

\* Every step that fills the predictors (Intra4LumaPredictor, Intra16LumaPredictor,
\* Intra8ChromaPredictor) is a step of the mode decision or leaves it alone.
THEOREM PredictionImplementsModes == PredictionSpec => Spec
  BY InitImplies, StepImplies, PTL DEF PredictionSpec, Spec

\* The modes decided while samples are predicted are predictable and the cheapest
\* (Intra4LumaFlowNode::Frontend).
THEOREM PredictionChoosesPredictable == PredictionSpec => []ChosenModeIsPredictable
  BY PredictionImplementsModes, ChosenIsPredictable, PTL

\* And a receiver reads them back.
THEOREM PredictionModesRecovered == PredictionSpec => []ReceiverRecoversModes
  BY PredictionImplementsModes, ModesRecovered, PTL

-----------------------------------------------------------------------------
(* Sums.                                                                   *)

\* A set of natural numbers has a least one.
LEMMA Least ==
  ASSUME NEW T, T \subseteq Nat, T # {}
  PROVE  \E n \in T : \A m \in T : n <= m
<1> DEFINE R == {ss \in Nat \X Nat : ss[1] < ss[2]}
<1>1. IsWellFoundedOn(R, Nat)
  BY NatLessThanWellFounded DEF OpToRel
<1> HIDE DEF R
<1>2. PICK n \in T : \A m \in T : ~ (<<m, n>> \in R)
  BY <1>1, WFMin
<1>3. ASSUME NEW m \in T
      PROVE  n <= m
  <2>1. m \in Nat /\ n \in Nat /\ <<m, n>> \notin R
    BY <1>2
  <2>2. m < n => <<m, n>> \in R
    BY <2>1 DEF R
  <2> QED
    BY <2>1, <2>2
<1> QED
  BY <1>3

\* The first n terms of f are integers; s holds their sums.
Terms(f, n) == \A k \in 1..n : f[k] \in Int

AddsUp(s, f, n) == s = [k \in 0..n |-> IF k = 0 THEN 0 ELSE s[k - 1] + f[k]]

Sums(s, f, n) == AddsUp(s, f, n) /\ s \in [0..n -> Int]

\* There are such sums, whatever the number of terms: the least one without would
\* have one fewer with them.
LEMMA SumsExist ==
  ASSUME NEW f, NEW n \in Nat, Terms(f, n)
  PROVE  \E s : Sums(s, f, n)
<1> DEFINE T == {m \in 0..n : ~ \E s : Sums(s, f, m)}
<1>1. SUFFICES ASSUME T # {} PROVE FALSE
  OBVIOUS
<1>2. PICK m \in T : \A j \in T : m <= j
  <2>1. T \subseteq Nat
    OBVIOUS
  <2> HIDE DEF T
  <2> QED
    BY <1>1, <2>1, Least
<1>3. CASE m = 0
  <2>1. Sums([k \in 0..0 |-> 0], f, 0)
    BY DEF Sums, AddsUp
  <2> QED
    BY <1>3, <2>1
<1>4. CASE m # 0
  <2>1. m \in Nat \ {0} /\ m - 1 \in 0..n /\ m \in 0..n /\ m \in 1..n
    BY <1>4
  <2>2. m - 1 \notin T
    BY <1>2, <2>1
  <2>3. PICK s : Sums(s, f, m - 1)
    BY <2>1, <2>2
  <2> DEFINE g == [k \in 0..m |-> IF k < m THEN s[k] ELSE s[m - 1] + f[m]]
  <2>4. s[m - 1] \in Int /\ f[m] \in Int /\ \A k \in 0..(m - 1) : s[k] \in Int
    BY <2>1, <2>3 DEF Sums, AddsUp, Terms
  <2>5. g \in [0..m -> Int]
    BY <2>1, <2>4
  <2>6. ASSUME NEW k \in 0..m
        PROVE  g[k] = IF k = 0 THEN 0 ELSE g[k - 1] + f[k]
    <3>1. CASE k = 0
      <4>1. s[0] = 0 /\ g[0] = s[0]
        BY <2>1, <2>3 DEF Sums, AddsUp
      <4> QED
        BY <3>1, <4>1
    <3>2. CASE k # 0 /\ k < m
      <4>1. s[k] = s[k - 1] + f[k] /\ k \in 0..(m - 1)
        BY <2>1, <2>3, <3>2 DEF Sums, AddsUp
      <4>2. g[k] = s[k] /\ g[k - 1] = s[k - 1]
        BY <2>1, <3>2
      <4> HIDE DEF g
      <4> QED
        BY <3>2, <4>1, <4>2
    <3>3. CASE k = m
      <4>1. g[k] = s[m - 1] + f[m] /\ g[k - 1] = s[m - 1] /\ k # 0
        BY <2>1, <3>3
      <4> HIDE DEF g
      <4> QED
        BY <3>3, <4>1
    <3> QED
      BY <3>1, <3>2, <3>3
  <2>7. Sums(g, f, m)
    <3>1. g = [k \in 0..m |-> g[k]]
      OBVIOUS
    <3> HIDE DEF g
    <3>2. [k \in 0..m |-> g[k]] = [k \in 0..m |-> IF k = 0 THEN 0 ELSE g[k - 1] + f[k]]
      BY <2>6, Zenon
    <3> QED
      BY <2>5, <3>1, <3>2 DEF Sums, AddsUp
  <2> QED
    BY <2>7
<1> QED
  BY <1>3, <1>4

\* Two lists of the same sums agree.
LEMMA SumsAgree ==
  ASSUME NEW f, NEW n \in Nat, NEW s, NEW t, Sums(s, f, n),
         NEW m \in 0..n, AddsUp(t, f, m)
  PROVE  t[m] = s[m]
<1> DEFINE T == {k \in 0..m : t[k] # s[k]}
<1>1. SUFFICES ASSUME T # {} PROVE FALSE
  OBVIOUS
<1>2. PICK k \in T : \A j \in T : k <= j
  <2>1. T \subseteq Nat
    OBVIOUS
  <2> HIDE DEF T
  <2> QED
    BY <1>1, <2>1, Least
<1>3. k \in 0..m /\ k \in 0..n /\ t[k] # s[k]
  OBVIOUS
<1>4. s[k] = (IF k = 0 THEN 0 ELSE s[k - 1] + f[k]) /\ t[k] = (IF k = 0 THEN 0 ELSE t[k - 1] + f[k])
  BY <1>3, Zenon DEF Sums, AddsUp
<1>5. k # 0
  BY <1>3, <1>4
<1>6. k - 1 \in 0..m /\ k - 1 \notin T
  BY <1>2, <1>3, <1>5
<1>7. t[k - 1] = s[k - 1]
  BY <1>6
<1> QED
  BY <1>3, <1>4, <1>5, <1>7

\* A sum of integers is one, and that of one more term is the term more.
LEMMA SumToType ==
  ASSUME NEW f, NEW n \in Nat, Terms(f, n)
  PROVE  /\ SumTo(f, n) \in Int
         /\ SumTo(f, n) = IF n = 0 THEN 0 ELSE SumTo(f, n - 1) + f[n]
<1>1. PICK s : Sums(s, f, n)
  BY SumsExist
<1>2. ASSUME NEW m \in 0..n
      PROVE  SumTo(f, m) = s[m]
  <2> DEFINE t == CHOOSE r : AddsUp(r, f, m)
  <2>1. Terms(f, m) /\ m \in Nat
    BY DEF Terms
  <2>2. \E r : AddsUp(r, f, m)
    <3>1. PICK r : Sums(r, f, m)
      BY <2>1, SumsExist
    <3> QED
      BY <3>1 DEF Sums
  <2>3. AddsUp(t, f, m)
    BY <2>2, Zenon
  <2>4. SumTo(f, m) = t[m]
    BY Zenon DEF SumTo, AddsUp
  <2> HIDE DEF t
  <2> QED
    <3>1. t[m] = s[m]
      BY <1>1, <2>3, SumsAgree
    <3> QED
      BY <2>4, <3>1
<1>3. SumTo(f, n) = s[n] /\ s[n] \in Int
  BY <1>1, <1>2 DEF Sums, AddsUp
<1>4. s[n] = IF n = 0 THEN 0 ELSE s[n - 1] + f[n]
  <2>1. n \in 0..n
    OBVIOUS
  <2> QED
    BY <1>1, <2>1, Zenon DEF Sums, AddsUp
<1>5. n # 0 => SumTo(f, n - 1) = s[n - 1]
  <2>1. n # 0 => n - 1 \in 0..n
    OBVIOUS
  <2> QED
    BY <1>2, <2>1
<1> QED
  BY <1>3, <1>4, <1>5

\* Four terms.
LEMMA SumOfFour ==
  ASSUME NEW f, Terms(f, 4)
  PROVE  SumTo(f, 4) = f[1] + f[2] + f[3] + f[4]
<1>1. Terms(f, 0) /\ Terms(f, 1) /\ Terms(f, 2) /\ Terms(f, 3)
  BY DEF Terms
<1>2. /\ f[1] \in Int /\ f[2] \in Int /\ f[3] \in Int /\ f[4] \in Int
  BY DEF Terms
<1>3. SumTo(f, 0) = 0
  BY <1>1, SumToType
<1>4. SumTo(f, 1) = SumTo(f, 0) + f[1]
  <2>1. 1 \in Nat /\ 1 # 0 /\ 1 - 1 = 0
    OBVIOUS
  <2> QED
    BY <1>1, <2>1, SumToType
<1>5. SumTo(f, 2) = SumTo(f, 1) + f[2]
  <2>1. 2 \in Nat /\ 2 # 0 /\ 2 - 1 = 1
    OBVIOUS
  <2> QED
    BY <1>1, <2>1, SumToType
<1>6. SumTo(f, 3) = SumTo(f, 2) + f[3]
  <2>1. 3 \in Nat /\ 3 # 0 /\ 3 - 1 = 2
    OBVIOUS
  <2> QED
    BY <1>1, <2>1, SumToType
<1>7. SumTo(f, 4) = SumTo(f, 3) + f[4]
  <2>1. 4 \in Nat /\ 4 # 0 /\ 4 - 1 = 3
    OBVIOUS
  <2> QED
    BY <2>1, SumToType
<1> QED
  BY <1>2, <1>3, <1>4, <1>5, <1>6, <1>7

-----------------------------------------------------------------------------
(* Which samples are decoded.                                              *)

\* Whether block (bx, by) of the macroblock in column c and row r comes before the
\* one being coded.
Before(c, r, bx, by) ==
  LET addr == r * width_in_mb + c
  IN  addr < m_addr \/ (addr = m_addr /\ CodingIndex([x |-> bx, y |-> by]) < index)

\* Sample (x, y) is one of that block.
InBlock(x, y, c, r, bx, by) ==
  /\ c \in Nat /\ r \in Nat /\ bx \in 0..3 /\ by \in 0..3
  /\ \E i \in 0..3, j \in 0..3 : x = 16 * c + 4 * bx + i /\ y = 16 * r + 4 * by + j

LEMMA DecodedBlock ==
  ASSUME NEW c, NEW r, NEW bx, NEW by, NEW x, NEW y, InBlock(x, y, c, r, bx, by)
  PROVE  Decoded(x, y) <=> c < width_in_mb /\ Before(c, r, bx, by)
<1>1. PICK i \in 0..3, j \in 0..3 : x = 16 * c + 4 * bx + i /\ y = 16 * r + 4 * by + j
  BY DEF InBlock
<1>2. c \in Nat /\ r \in Nat /\ bx \in 0..3 /\ by \in 0..3
  BY DEF InBlock
<1>3. /\ x \div 16 = c /\ (x % 16) \div 4 = bx
      /\ y \div 16 = r /\ (y % 16) \div 4 = by
  BY <1>1, <1>2
<1>4. y >= 0 /\ (x \in 0..(16 * width_in_mb - 1) <=> c < width_in_mb)
  BY <1>1, <1>2, SizeAssumption
<1>5. Decoded(x, y) <=> x \in 0..(16 * width_in_mb - 1) /\ y >= 0 /\ Before(c, r, bx, by)
  BY <1>3, Zenon DEF Decoded, Before
<1> QED
  BY <1>4, <1>5, Zenon

\* The block before, above and above to the right of one come before it in coding
\* order, the last but for the blocks HasUpRight names.
LEMMA CodingOrder ==
  ASSUME NEW n \in 0..15
  PROVE  LET p == Place(n)
         IN  /\ p.x > 0 => CodingIndex([x |-> p.x - 1, y |-> p.y]) < n
             /\ p.y > 0 => CodingIndex([x |-> p.x, y |-> p.y - 1]) < n
             /\ p.x > 0 /\ p.y > 0 => CodingIndex([x |-> p.x - 1, y |-> p.y - 1]) < n
             /\ p.x < 3 /\ p.y > 0 =>
                  (CodingIndex([x |-> p.x + 1, y |-> p.y - 1]) < n <=> ~(p.x = 1 /\ p.y \in {1, 3}))
  BY SMTT(30) DEF Place, CodingIndex

\* The state the lemmas below need: a block of a macroblock.
AtBlock == index \in 0..15 /\ m_addr \in MBs

\* Column and row of the macroblock, and of the picture in blocks.
LEMMA AtBlockPlace ==
  ASSUME AtBlock, NEW p, p = Place(index)
  PROVE  /\ p.x \in 0..3 /\ p.y \in 0..3
         /\ Column(m_addr) \in 0..(width_in_mb - 1) /\ Row(m_addr) \in 0..(height_in_mb - 1)
         /\ InPicture(p).x = 4 * Column(m_addr) + p.x
         /\ InPicture(p).y = 4 * Row(m_addr) + p.y
         /\ m_addr = Row(m_addr) * width_in_mb + Column(m_addr)
         /\ m_addr \in Nat
<1>1. p.x \in 0..3 /\ p.y \in 0..3
  BY Places DEF AtBlock
<1>2. /\ Column(m_addr) \in Nat /\ Row(m_addr) \in Nat /\ m_addr \in Nat
      /\ m_addr = Row(m_addr) * width_in_mb + Column(m_addr)
  BY Address DEF AtBlock
<1>3. Column(m_addr) < width_in_mb
  BY <1>2, SizeAssumption DEF Column
<1>4. Row(m_addr) < height_in_mb
  <2>1. m_addr < width_in_mb * height_in_mb
    BY SizeAssumption DEF AtBlock, MBs
  <2>2. SUFFICES ASSUME Row(m_addr) >= height_in_mb PROVE FALSE
    BY <1>2, SizeAssumption
  <2>3. Row(m_addr) * width_in_mb >= height_in_mb * width_in_mb
    BY <1>2, <2>2, SizeAssumption
  <2> QED
    BY <1>2, <2>1, <2>3, SizeAssumption
<1>5. /\ InPicture(p).x = 4 * Column(m_addr) + p.x
      /\ InPicture(p).y = 4 * Row(m_addr) + p.y
  BY PlaceInPicture
<1> QED
  BY <1>1, <1>2, <1>3, <1>4, <1>5, SizeAssumption

\* The samples left of a block are decoded where there are any.
LEMMA LeftDecoded ==
  ASSUME AtBlock, NEW p, p = Place(index), NEW j \in 0..3
  PROVE  Decoded(4 * InPicture(p).x - 1, 4 * InPicture(p).y + j) <=> IsLeftAvailable(p)
<1> DEFINE c == Column(m_addr)
           r == Row(m_addr)
           x == 4 * InPicture(p).x - 1
           y == 4 * InPicture(p).y + j
<1>1. /\ p.x \in 0..3 /\ p.y \in 0..3 /\ c \in Nat /\ r \in Nat /\ c < width_in_mb
      /\ InPicture(p).x = 4 * c + p.x /\ InPicture(p).y = 4 * r + p.y
      /\ m_addr = r * width_in_mb + c /\ m_addr \in Nat /\ index \in 0..15
  BY AtBlockPlace, SizeAssumption DEF AtBlock
<1> HIDE DEF c, r
<1>2. y = 16 * r + 4 * p.y + j
  BY <1>1
<1>3. IsLeftAvailable(p) <=> (p.x > 0 \/ c > 0)
  BY <1>1 DEF IsLeftAvailable
<1>4. CASE p.x > 0
  <2>1. x = 16 * c + 4 * (p.x - 1) + 3 /\ p.x - 1 \in 0..3 /\ 3 \in 0..3
    BY <1>1, <1>4
  <2>2. Before(c, r, p.x - 1, p.y)
    BY <1>1, <1>4, CodingOrder, Zenon DEF Before
  <2> HIDE DEF x, y
  <2>3. Decoded(x, y)
    <3>1. InBlock(x, y, c, r, p.x - 1, p.y)
      BY <1>1, <1>2, <2>1 DEF InBlock
    <3> QED
      BY <1>1, <2>1, <2>2, <3>1, DecodedBlock
  <2> QED
    BY <1>3, <1>4, <2>3 DEF x, y
<1>5. CASE p.x = 0 /\ c > 0
  <2>1. x = 16 * (c - 1) + 4 * 3 + 3 /\ c - 1 \in Nat /\ 3 \in 0..3 /\ c - 1 < width_in_mb
    BY <1>1, <1>5, SizeAssumption
  <2>2. Before(c - 1, r, 3, p.y)
    <3>1. r * width_in_mb \in Nat
      BY <1>1, SizeAssumption
    <3>2. r * width_in_mb + (c - 1) < m_addr
      BY <1>1, <3>1
    <3> QED
      BY <3>2 DEF Before
  <2> HIDE DEF x, y
  <2>3. Decoded(x, y)
    <3>1. InBlock(x, y, c - 1, r, 3, p.y)
      BY <1>1, <1>2, <2>1 DEF InBlock
    <3> QED
      BY <1>1, <2>1, <2>2, <3>1, DecodedBlock
  <2> QED
    BY <1>3, <1>5, <2>3 DEF x, y
<1>6. CASE p.x = 0 /\ c = 0
  <2>1. x = -1
    BY <1>1, <1>6
  <2>2. x \notin 0..(16 * width_in_mb - 1)
    BY <2>1
  <2>3. ~Decoded(x, y)
    BY <2>2 DEF Decoded
  <2> QED
    BY <1>3, <1>6, <2>3
<1> QED
  BY <1>1, <1>4, <1>5, <1>6

\* And those above.
LEMMA UpDecoded ==
  ASSUME AtBlock, NEW p, p = Place(index), NEW i \in 0..3
  PROVE  Decoded(4 * InPicture(p).x + i, 4 * InPicture(p).y - 1) <=> IsUpAvailable(p)
<1> DEFINE c == Column(m_addr)
           r == Row(m_addr)
           x == 4 * InPicture(p).x + i
           y == 4 * InPicture(p).y - 1
<1>1. /\ p.x \in 0..3 /\ p.y \in 0..3 /\ c \in Nat /\ r \in Nat /\ c < width_in_mb
      /\ InPicture(p).x = 4 * c + p.x /\ InPicture(p).y = 4 * r + p.y
      /\ m_addr = r * width_in_mb + c /\ m_addr \in Nat /\ index \in 0..15
  BY AtBlockPlace, SizeAssumption DEF AtBlock
<1> HIDE DEF c, r
<1>2. x = 16 * c + 4 * p.x + i
  BY <1>1
<1>3. IsUpAvailable(p) <=> (p.y > 0 \/ r > 0)
  BY <1>1 DEF IsUpAvailable
<1>4. CASE p.y > 0
  <2>1. y = 16 * r + 4 * (p.y - 1) + 3 /\ p.y - 1 \in 0..3 /\ 3 \in 0..3
    BY <1>1, <1>4
  <2>2. Before(c, r, p.x, p.y - 1)
    BY <1>1, <1>4, CodingOrder, Zenon DEF Before
  <2> HIDE DEF x, y
  <2>3. Decoded(x, y)
    <3>1. InBlock(x, y, c, r, p.x, p.y - 1)
      BY <1>1, <1>2, <2>1 DEF InBlock
    <3> QED
      BY <1>1, <2>1, <2>2, <3>1, DecodedBlock
  <2> QED
    BY <1>3, <1>4, <2>3 DEF x, y
<1>5. CASE p.y = 0 /\ r > 0
  <2>1. y = 16 * (r - 1) + 4 * 3 + 3 /\ r - 1 \in Nat /\ 3 \in 0..3
    BY <1>1, <1>5
  <2>2. Before(c, r - 1, p.x, 3)
    <3>1. r * width_in_mb \in Nat /\ (r - 1) * width_in_mb = r * width_in_mb - width_in_mb
      BY <1>1, SizeAssumption
    <3>2. (r - 1) * width_in_mb + c < m_addr
      BY <1>1, <3>1, SizeAssumption
    <3> QED
      BY <3>2 DEF Before
  <2> HIDE DEF x, y
  <2>3. Decoded(x, y)
    <3>1. InBlock(x, y, c, r - 1, p.x, 3)
      BY <1>1, <1>2, <2>1 DEF InBlock
    <3> QED
      BY <1>1, <2>1, <2>2, <3>1, DecodedBlock
  <2> QED
    BY <1>3, <1>5, <2>3 DEF x, y
<1>6. CASE p.y = 0 /\ r = 0
  <2>1. y = -1
    BY <1>1, <1>6
  <2>2. ~(y >= 0)
    BY <2>1
  <2>3. ~Decoded(x, y)
    BY <2>2 DEF Decoded
  <2> QED
    BY <1>3, <1>6, <2>3
<1> QED
  BY <1>1, <1>4, <1>5, <1>6

\* The corner between them.
LEMMA CornerDecoded ==
  ASSUME AtBlock, NEW p, p = Place(index), IsLeftAvailable(p), IsUpAvailable(p)
  PROVE  Decoded(4 * InPicture(p).x - 1, 4 * InPicture(p).y - 1)
<1> DEFINE c == Column(m_addr)
           r == Row(m_addr)
           x == 4 * InPicture(p).x - 1
           y == 4 * InPicture(p).y - 1
<1>1. /\ p.x \in 0..3 /\ p.y \in 0..3 /\ c \in Nat /\ r \in Nat /\ c < width_in_mb
      /\ InPicture(p).x = 4 * c + p.x /\ InPicture(p).y = 4 * r + p.y
      /\ m_addr = r * width_in_mb + c /\ m_addr \in Nat /\ index \in 0..15
  BY AtBlockPlace, SizeAssumption DEF AtBlock
<1> HIDE DEF c, r
<1>2. /\ p.x > 0 \/ c > 0
      /\ p.y > 0 \/ r > 0
  BY <1>1 DEF IsLeftAvailable, IsUpAvailable
<1> DEFINE cc == IF p.x > 0 THEN c ELSE c - 1
           bx == IF p.x > 0 THEN p.x - 1 ELSE 3
           rr == IF p.y > 0 THEN r ELSE r - 1
           by == IF p.y > 0 THEN p.y - 1 ELSE 3
<1>3. /\ x = 16 * cc + 4 * bx + 3 /\ cc \in Nat /\ bx \in 0..3 /\ cc < width_in_mb
      /\ y = 16 * rr + 4 * by + 3 /\ rr \in Nat /\ by \in 0..3 /\ 3 \in 0..3
  BY <1>1, <1>2, SizeAssumption
<1>4. Before(cc, rr, bx, by)
  <2>1. CASE p.x > 0 /\ p.y > 0
    <3>1. cc = c /\ rr = r /\ bx = p.x - 1 /\ by = p.y - 1
      BY <2>1
    <3>2. Before(c, r, p.x - 1, p.y - 1)
      BY <1>1, <2>1, CodingOrder, Zenon DEF Before
    <3> QED
      BY <3>1, <3>2
  <2>2. CASE ~(p.x > 0 /\ p.y > 0)
    <3>1. r * width_in_mb \in Nat /\ (r - 1) * width_in_mb = r * width_in_mb - width_in_mb
      BY <1>1, SizeAssumption
    <3>2. \/ cc = c - 1 /\ rr = r
          \/ cc = c - 1 /\ rr = r - 1
          \/ cc = c /\ rr = r - 1
      BY <1>1, <2>2
    <3> HIDE DEF cc, rr, bx, by
    <3>3. rr * width_in_mb + cc < m_addr
      BY <1>1, <3>1, <3>2, SizeAssumption
    <3> QED
      BY <3>3 DEF Before
  <2> QED
    BY <2>1, <2>2
<1> HIDE DEF x, y, cc, rr, bx, by
<1>5. Decoded(x, y)
  <2>1. InBlock(x, y, cc, rr, bx, by)
    BY <1>3 DEF InBlock
  <2> QED
    BY <1>3, <1>4, <2>1, DecodedBlock
<1> QED
  BY <1>5 DEF x, y

\* Above to the right the samples are decoded where HasUpRight says so.
LEMMA UpRightDecoded ==
  ASSUME AtBlock, NEW p, p = Place(index), IsUpAvailable(p), NEW i \in 0..3
  PROVE  Decoded(4 * InPicture(p).x + 4 + i, 4 * InPicture(p).y - 1) <=> HasUpRight(p)
<1> DEFINE c == Column(m_addr)
           r == Row(m_addr)
           x == 4 * InPicture(p).x + 4 + i
           y == 4 * InPicture(p).y - 1
<1>1. /\ p.x \in 0..3 /\ p.y \in 0..3 /\ c \in Nat /\ r \in Nat /\ c < width_in_mb
      /\ InPicture(p).x = 4 * c + p.x /\ InPicture(p).y = 4 * r + p.y
      /\ m_addr = r * width_in_mb + c /\ m_addr \in Nat /\ index \in 0..15
  BY AtBlockPlace, SizeAssumption DEF AtBlock
<1> HIDE DEF c, r
<1>2. p.y > 0 \/ r > 0
  BY <1>1 DEF IsUpAvailable
<1>3. HasUpRight(p) <=> /\ ~(p.x = 3 /\ p.y > 0)
                        /\ ~(p.x = 1 /\ p.y \in {1, 3})
                        /\ p.x < 3 \/ c + 1 < width_in_mb
  BY <1>1, SizeAssumption DEF HasUpRight
<1> DEFINE cc == IF p.x < 3 THEN c ELSE c + 1
           bx == IF p.x < 3 THEN p.x + 1 ELSE 0
           rr == IF p.y > 0 THEN r ELSE r - 1
           by == IF p.y > 0 THEN p.y - 1 ELSE 3
<1>4. /\ x = 16 * cc + 4 * bx + i /\ cc \in Nat /\ bx \in 0..3
      /\ y = 16 * rr + 4 * by + 3 /\ rr \in Nat /\ by \in 0..3 /\ 3 \in 0..3
  BY <1>1, <1>2
<1>5. Decoded(x, y) <=> cc < width_in_mb /\ Before(cc, rr, bx, by)
  <2> HIDE DEF x, y, cc, rr, bx, by
  <2>1. InBlock(x, y, cc, rr, bx, by)
    BY <1>4 DEF InBlock
  <2>4. Decoded(x, y) <=> cc < width_in_mb /\ Before(cc, rr, bx, by)
    BY <2>1, DecodedBlock
  <2> QED
    BY <2>4 DEF x, y, cc, rr, bx, by
<1>6. r * width_in_mb \in Nat /\ (r - 1) * width_in_mb = r * width_in_mb - width_in_mb
  BY <1>1, SizeAssumption
<1>7. CASE p.x < 3 /\ p.y > 0
  <2>1. cc = c /\ rr = r /\ bx = p.x + 1 /\ by = p.y - 1
    BY <1>7
  <2>2. CodingIndex([x |-> p.x + 1, y |-> p.y - 1]) < index <=> ~(p.x = 1 /\ p.y \in {1, 3})
    BY <1>1, <1>7, CodingOrder, Zenon
  <2>3. Before(c, r, p.x + 1, p.y - 1) <=> ~(p.x = 1 /\ p.y \in {1, 3})
    BY <1>1, <2>2 DEF Before
  <2> HIDE DEF x, y, cc, rr, bx, by
  <2>4. Decoded(x, y) <=> HasUpRight(p)
    BY <1>1, <1>3, <1>5, <1>7, <2>1, <2>3
  <2> QED
    BY <2>4 DEF x, y
<1>8. CASE p.x = 3 /\ p.y > 0
  <2>1. cc = c + 1 /\ rr = r
    BY <1>8
  <2> HIDE DEF x, y, cc, rr, bx, by
  <2>2. ~Before(cc, rr, bx, by)
    <3>1. r * width_in_mb + (c + 1) > m_addr
      BY <1>1, <1>6
    <3> QED
      BY <2>1, <3>1, <1>1, <1>6 DEF Before
  <2>3. Decoded(x, y) <=> HasUpRight(p)
    BY <1>3, <1>5, <1>8, <2>2
  <2> QED
    BY <2>3 DEF x, y
<1>9. CASE p.y = 0
  <2>1. rr = r - 1 /\ cc = IF p.x < 3 THEN c ELSE c + 1
    BY <1>9
  <2>2. cc < width_in_mb <=> p.x < 3 \/ c + 1 < width_in_mb
    BY <1>1, SizeAssumption
  <2> HIDE DEF x, y, cc, rr, bx, by
  <2>3. cc < width_in_mb => Before(cc, rr, bx, by)
    <3>1. cc < width_in_mb => (r - 1) * width_in_mb + cc < m_addr
      BY <1>1, <1>2, <1>4, <1>6, <1>9, SizeAssumption
    <3> QED
      BY <2>1, <3>1 DEF Before
  <2>4. Decoded(x, y) <=> HasUpRight(p)
    BY <1>3, <1>5, <1>9, <2>2, <2>3
  <2> QED
    BY <2>4 DEF x, y
<1> QED
  BY <1>1, <1>7, <1>8, <1>9

-----------------------------------------------------------------------------
(* The samples around a block.                                             *)

\* A sample that is decoded lies in the picture, and is what the encoder reads.
LEMMA DecodedSample ==
  ASSUME AtBlock, NEW x \in Int, NEW y \in Int, Decoded(x, y)
  PROVE  GetPixelValue(x, y) = Reconstructed("luma", x, y) /\ Reconstructed("luma", x, y) \in Int
<1>1. GetPixelValue(x, y) = Reconstructed("luma", x, y)
  BY Zenon DEF Decoded, GetPixelValue
<1> DEFINE c == x \div 16
           r == y \div 16
<1>2. x \in 0..(16 * width_in_mb - 1) /\ y >= 0 /\ r * width_in_mb + c <= m_addr
  <2>1. c \in Int /\ r \in Int /\ m_addr \in Int /\ r * width_in_mb + c \in Int
    BY SizeAssumption DEF AtBlock, MBs
  <2>2. /\ x \in 0..(16 * width_in_mb - 1) /\ y >= 0
        /\ r * width_in_mb + c < m_addr \/ r * width_in_mb + c = m_addr
    BY Zenon DEF Decoded
  <2> HIDE DEF c, r
  <2> QED
    BY <2>1, <2>2
<1>3. c \in Nat /\ r \in Nat /\ y <= 16 * r + 15
  BY <1>2
<1>4. m_addr < width_in_mb * height_in_mb /\ m_addr \in Nat
  BY SizeAssumption DEF AtBlock, MBs
<1> HIDE DEF c, r
<1>5. r < height_in_mb
  <2>1. SUFFICES ASSUME r >= height_in_mb PROVE FALSE
    BY <1>3, SizeAssumption
  <2>2. r * width_in_mb >= height_in_mb * width_in_mb
    BY <1>3, <2>1, SizeAssumption
  <2> QED
    BY <1>2, <1>3, <1>4, <2>2, SizeAssumption
<1>6. y \in 0..(16 * height_in_mb - 1)
  BY <1>2, <1>3, <1>5, SizeAssumption
<1>7. "luma" \in PlaneTypes /\ Size("luma") = 16
  BY DEF PlaneTypes, Size
<1>8. Reconstructed("luma", x, y) \in 0..255
  <2>1. x \in 0..(Size("luma") * width_in_mb - 1) /\ y \in 0..(Size("luma") * height_in_mb - 1)
    BY <1>2, <1>6, <1>7
  <2> QED
    BY <1>7, <2>1, PictureAssumption
<1> QED
  BY <1>1, <1>8

\* Edges e of the encoder and line l of a receiver around a block: the samples above
\* (as far as above to the right), those on the left, and the corner.
AboveAgree(e, l) == \A k \in 0..7 : Up(e, k) = l[k + 1] /\ l[k + 1] \in Int

LeftAgree(e, l) == \A k \in 0..3 : Left(e, k) = l[-(k + 1)] /\ l[-(k + 1)] \in Int

CornerAgrees(e, l) == Up(e, -1) = l[0] /\ Left(e, -1) = l[0] /\ l[0] \in Int

LEMMA AboveIsLine ==
  ASSUME AtBlock, NEW p, p = Place(index), IsUpAvailable(p)
  PROVE  AboveAgree(EdgeData(p), Line(p))
<1> DEFINE x == 4 * InPicture(p).x
           y == 4 * InPicture(p).y
           e == EdgeData(p)
           l == Line(p)
<1>1. x \in Int /\ y \in Int
  <2>1. /\ p.x \in 0..3 /\ p.y \in 0..3 /\ Column(m_addr) \in Int /\ Row(m_addr) \in Int
        /\ InPicture(p).x = 4 * Column(m_addr) + p.x /\ InPicture(p).y = 4 * Row(m_addr) + p.y
    BY AtBlockPlace, SizeAssumption
  <2> QED
    BY <2>1
<1>2. ASSUME NEW k \in 0..7
      PROVE  /\ Up(e, k) = IF k > 3 /\ ~HasUpRight(p) THEN GetPixelValue(x + 3, y - 1)
                           ELSE GetPixelValue(x + k, y - 1)
             /\ l[k + 1] = IF k > 3 THEN Reconstructed("luma", x + (IF Decoded(x + 4, y - 1) THEN k + 1 ELSE 4) - 1, y - 1)
                           ELSE Reconstructed("luma", x + (k + 1) - 1, y - 1)
  <2>1. <<k, -1>> \in Edges
    BY DEF Edges
  <2>2. k + 1 \in -4..9 /\ ~(k + 1 <= 0) /\ (k > 3 <=> k + 1 \notin 1..4) /\ Smaller(k + 1, 8) = k + 1
    BY DEF Smaller
  <2> HIDE DEF x, y
  <2>3. Up(e, k) = IF k > 3 /\ ~HasUpRight(p) THEN GetPixelValue(x + 3, y - 1)
                   ELSE GetPixelValue(x + k, y - 1)
    BY <1>1, <2>1 DEF Up, EdgeData, x, y
  <2>4. l[k + 1] = IF k > 3 THEN Reconstructed("luma", x + (IF Decoded(x + 4, y - 1) THEN k + 1 ELSE 4) - 1, y - 1)
                   ELSE Reconstructed("luma", x + (k + 1) - 1, y - 1)
    BY <2>2 DEF Line, x, y
  <2> QED
    BY <2>3, <2>4
<1>3. ASSUME NEW i \in 0..3
      PROVE  Decoded(x + i, y - 1)
  BY UpDecoded
<1>4. ASSUME NEW i \in 0..3
      PROVE  Decoded((x + 4) + i, y - 1) <=> HasUpRight(p)
  BY UpRightDecoded
<1> HIDE DEF x, y, e, l
<1>5. Decoded(x + 4, y - 1) <=> HasUpRight(p)
  <2>1. 0 \in 0..3 /\ (x + 4) + 0 = x + 4
    BY <1>1
  <2> QED
    BY <1>4, <2>1
<1>6. ASSUME NEW k \in 0..7
      PROVE  Up(e, k) = l[k + 1] /\ l[k + 1] \in Int
  <2> DEFINE q == IF k > 3 /\ ~HasUpRight(p) THEN 3 ELSE k
  <2>1. Up(e, k) = GetPixelValue(x + q, y - 1)
    BY <1>2
  <2>2. l[k + 1] = Reconstructed("luma", x + q, y - 1)
    <3>1. x + (k + 1) - 1 = x + k /\ x + 4 - 1 = x + 3
      BY <1>1
    <3> QED
      BY <1>2, <1>5, <3>1
  <2>3. Decoded(x + q, y - 1)
    <3>1. CASE q \in 0..3
      BY <1>3, <3>1
    <3>2. CASE q \notin 0..3
      <4>1. q = k /\ HasUpRight(p) /\ k - 4 \in 0..3 /\ (x + 4) + (k - 4) = x + q
        BY <1>1, <3>2
      <4> QED
        BY <1>4, <4>1
    <3> QED
      BY <3>1, <3>2
  <2>4. x + q \in Int /\ y - 1 \in Int
    BY <1>1
  <2> HIDE DEF q
  <2>5. GetPixelValue(x + q, y - 1) = Reconstructed("luma", x + q, y - 1)
        /\ Reconstructed("luma", x + q, y - 1) \in Int
    BY <2>3, <2>4, DecodedSample
  <2> QED
    BY <2>1, <2>2, <2>5
<1> QED
  BY <1>6 DEF AboveAgree, e, l

LEMMA LeftIsLine ==
  ASSUME AtBlock, NEW p, p = Place(index), IsLeftAvailable(p)
  PROVE  LeftAgree(EdgeData(p), Line(p))
<1> DEFINE x == 4 * InPicture(p).x
           y == 4 * InPicture(p).y
           e == EdgeData(p)
           l == Line(p)
<1>1. x \in Int /\ y \in Int
  <2>1. /\ p.x \in 0..3 /\ p.y \in 0..3 /\ Column(m_addr) \in Int /\ Row(m_addr) \in Int
        /\ InPicture(p).x = 4 * Column(m_addr) + p.x /\ InPicture(p).y = 4 * Row(m_addr) + p.y
    BY AtBlockPlace, SizeAssumption
  <2> QED
    BY <2>1
<1>2. ASSUME NEW k \in 0..3
      PROVE  Left(e, k) = GetPixelValue(x + (-1), y + k) /\ l[-(k + 1)] = Reconstructed("luma", x - 1, y - 1 - (-(k + 1)))
  <2>1. <<-1, k>> \in Edges
    BY DEF Edges
  <2>2. -(k + 1) \in -4..9 /\ -(k + 1) <= 0
    OBVIOUS
  <2> HIDE DEF x, y
  <2>3. Left(e, k) = GetPixelValue(x + (-1), y + k)
    BY <1>1, <2>1 DEF Left, EdgeData, x, y
  <2>4. l[-(k + 1)] = Reconstructed("luma", x - 1, y - 1 - (-(k + 1)))
    BY <2>2 DEF Line, x, y
  <2> QED
    BY <2>3, <2>4
<1>3. ASSUME NEW k \in 0..3
      PROVE  Decoded(x - 1, y + k)
  BY LeftDecoded
<1> HIDE DEF x, y, e, l
<1>4. ASSUME NEW k \in 0..3
      PROVE  Left(e, k) = l[-(k + 1)] /\ l[-(k + 1)] \in Int
  <2>1. x + (-1) = x - 1 /\ y - 1 - (-(k + 1)) = y + k /\ x - 1 \in Int /\ y + k \in Int
    BY <1>1
  <2>2. GetPixelValue(x - 1, y + k) = Reconstructed("luma", x - 1, y + k)
        /\ Reconstructed("luma", x - 1, y + k) \in Int
    BY <1>3, <2>1, DecodedSample
  <2> QED
    BY <1>2, <2>1, <2>2
<1> QED
  BY <1>4 DEF LeftAgree, e, l

LEMMA CornerIsLine ==
  ASSUME AtBlock, NEW p, p = Place(index), IsLeftAvailable(p), IsUpAvailable(p)
  PROVE  CornerAgrees(EdgeData(p), Line(p))
<1> DEFINE x == 4 * InPicture(p).x
           y == 4 * InPicture(p).y
           e == EdgeData(p)
           l == Line(p)
<1>1. x \in Int /\ y \in Int
  <2>1. /\ p.x \in 0..3 /\ p.y \in 0..3 /\ Column(m_addr) \in Int /\ Row(m_addr) \in Int
        /\ InPicture(p).x = 4 * Column(m_addr) + p.x /\ InPicture(p).y = 4 * Row(m_addr) + p.y
    BY AtBlockPlace, SizeAssumption
  <2> QED
    BY <2>1
<1>2. e[<<-1, -1>>] = GetPixelValue(x + (-1), y + (-1)) /\ l[0] = Reconstructed("luma", x - 1, y - 1 - 0)
  <2>1. <<-1, -1>> \in Edges
    BY DEF Edges
  <2>2. 0 \in -4..9 /\ 0 <= 0
    OBVIOUS
  <2> HIDE DEF x, y
  <2>3. e[<<-1, -1>>] = GetPixelValue(x + (-1), y + (-1))
    BY <1>1, <2>1 DEF EdgeData, x, y
  <2>4. l[0] = Reconstructed("luma", x - 1, y - 1 - 0)
    BY <2>2 DEF Line, x, y
  <2> QED
    BY <2>3, <2>4
<1>3. Decoded(x - 1, y - 1)
  BY CornerDecoded
<1> HIDE DEF x, y, e, l
<1>4. x + (-1) = x - 1 /\ y + (-1) = y - 1 /\ y - 1 - 0 = y - 1 /\ x - 1 \in Int /\ y - 1 \in Int
  BY <1>1
<1>5. GetPixelValue(x - 1, y - 1) = Reconstructed("luma", x - 1, y - 1)
      /\ Reconstructed("luma", x - 1, y - 1) \in Int
  BY <1>3, <1>4, DecodedSample
<1>6. e[<<-1, -1>>] = l[0] /\ l[0] \in Int
  BY <1>2, <1>4, <1>5
<1> QED
  BY <1>6 DEF CornerAgrees, Up, Left, e, l

-----------------------------------------------------------------------------
(* Filters.                                                                *)

LEMMA Shifts ==
  ASSUME NEW v \in Int
  PROVE  /\ RightShift(v, 1) = (v + 1) \div 2 /\ RightShift(v, 2) = (v + 2) \div 4
         /\ RightShift(v, 3) = (v + 4) \div 8 /\ RightShift(v, 4) = (v + 8) \div 16
         /\ RightShift(v, 5) = (v + 16) \div 32 /\ RightShift(v, 6) = (v + 32) \div 64
<1>1. /\ 2^0 = 1 /\ 2^1 = 2 /\ 2^2 = 4 /\ 2^3 = 8
      /\ 2^4 = 16 /\ 2^5 = 32 /\ 2^6 = 64
  OBVIOUS
<1>2. 1 - 1 = 0 /\ 2 - 1 = 1 /\ 3 - 1 = 2 /\ 4 - 1 = 3 /\ 5 - 1 = 4 /\ 6 - 1 = 5
  OBVIOUS
<1> QED
  BY <1>1, <1>2 DEF RightShift

LEMMA MeanIsBetween ==
  ASSUME NEW l, NEW k \in Int, l[k] \in Int, l[k + 1] \in Int
  PROVE  Mean(l[k], l[k + 1]) = Between(l, k) /\ Mean(l[k + 1], l[k]) = Between(l, k)
<1>0. l[k] + l[k + 1] \in Int /\ l[k + 1] + l[k] \in Int
  OBVIOUS
<1>1. Mean(l[k], l[k + 1]) = (l[k] + l[k + 1] + 1) \div 2
  BY <1>0, Shifts DEF Mean
<1>2. Mean(l[k + 1], l[k]) = (l[k + 1] + l[k] + 1) \div 2
  BY <1>0, Shifts DEF Mean
<1> QED
  BY <1>1, <1>2 DEF Between

LEMMA WeightedMeanIsAround ==
  ASSUME NEW l, NEW k \in Int, l[k - 1] \in Int, l[k] \in Int, l[k + 1] \in Int
  PROVE  /\ WeightedMean(l[k - 1], l[k], l[k + 1]) = Around(l, k)
         /\ WeightedMean(l[k + 1], l[k], l[k - 1]) = Around(l, k)
<1>1. \A a, b, c \in Int : WeightedMean(a, b, c) = (a + 2 * b + c + 2) \div 4
  <2>1. SUFFICES ASSUME NEW a \in Int, NEW b \in Int, NEW c \in Int
                 PROVE  WeightedMean(a, b, c) = (a + 2 * b + c + 2) \div 4
    OBVIOUS
  <2>2. a + 2 * b + c \in Int
    OBVIOUS
  <2> QED
    BY <2>2, Shifts DEF WeightedMean
<1> HIDE DEF WeightedMean
<1>2. Around(l, k) = (l[k - 1] + 2 * l[k] + l[k + 1] + 2) \div 4
  BY DEF Around
<1>3. WeightedMean(l[k - 1], l[k], l[k + 1]) = (l[k - 1] + 2 * l[k] + l[k + 1] + 2) \div 4
  BY <1>1
<1>4. WeightedMean(l[k + 1], l[k], l[k - 1]) = (l[k + 1] + 2 * l[k] + l[k - 1] + 2) \div 4
  BY <1>1
<1> QED
  BY <1>2, <1>3, <1>4


-----------------------------------------------------------------------------
(* The modes.                                                              *)

\* The sample of a mode at (x, y), for a receiver, from the line.
LEMMA DownLeftSample ==
  ASSUME NEW e, NEW l, AboveAgree(e, l), NEW x \in 0..3, NEW y \in 0..3
  PROVE  DownLeftMode(e, x, y) = IF x + y = 6 THEN (l[7] + 3 * l[8] + 2) \div 4 ELSE Around(l, x + y + 2)
<1>1. ASSUME NEW k \in 1..8
      PROVE  Up(e, k - 1) = l[k] /\ l[k] \in Int
  <2>1. k - 1 \in 0..7 /\ (k - 1) + 1 = k
    OBVIOUS
  <2> QED
    BY <2>1 DEF AboveAgree
<1>2. CASE x + y = 6
  <2>1. x = 3 /\ y = 3
    BY <1>2
  <2>2. Up(e, 6) = l[7] /\ Up(e, 7) = l[8] /\ l[7] \in Int /\ l[8] \in Int
    <3>1. 7 \in 1..8 /\ 8 \in 1..8 /\ 7 - 1 = 6 /\ 8 - 1 = 7
      OBVIOUS
    <3> QED
      BY <1>1, <3>1
  <2>3. l[7] + 3 * l[8] \in Int
    BY <2>2
  <2>4. DownLeftMode(e, x, y) = RightShift(l[7] + 3 * l[8], 2)
    BY <2>1, <2>2 DEF DownLeftMode
  <2> QED
    BY <1>2, <2>3, <2>4, Shifts
<1>3. CASE x + y # 6
  <2> DEFINE k == x + y + 2
  <2>1. k \in 2..7 /\ k \in Int
    BY <1>3
  <2>2. Up(e, k - 2) = l[k - 1] /\ Up(e, k - 1) = l[k] /\ Up(e, k) = l[k + 1]
        /\ l[k - 1] \in Int /\ l[k] \in Int /\ l[k + 1] \in Int
    <3>1. k - 1 \in 1..8 /\ k \in 1..8 /\ k + 1 \in 1..8 /\ (k - 1) - 1 = k - 2 /\ (k + 1) - 1 = k
      BY <2>1
    <3> HIDE DEF k
    <3> QED
      BY <1>1, <3>1
  <2>3. x + y = k - 2 /\ x + y + 1 = k - 1 /\ x + y + 2 = k /\ ~(x = 3 /\ y = 3)
    BY <1>3
  <2> HIDE DEF k
  <2>4. DownLeftMode(e, x, y) = WeightedMean(l[k - 1], l[k], l[k + 1])
    BY <2>2, <2>3 DEF DownLeftMode
  <2> QED
    BY <1>3, <2>1, <2>2, <2>3, <2>4, WeightedMeanIsAround
<1> QED
  BY <1>2, <1>3

\* What the edges and the line hold near the corner.
NearAgree(e, l) ==
  \A k \in -1..3 : /\ Up(e, k) = l[k + 1] /\ l[k + 1] \in Int
                   /\ Left(e, k) = l[-(k + 1)] /\ l[-(k + 1)] \in Int

LEMMA NearPoints ==
  ASSUME NEW e, NEW l, NearAgree(e, l)
  PROVE  /\ \A k \in 0..4 : Up(e, k - 1) = l[k] /\ l[k] \in Int
         /\ \A k \in -4..0 : Left(e, -k - 1) = l[k] /\ l[k] \in Int
<1>1. ASSUME NEW k \in 0..4
      PROVE  Up(e, k - 1) = l[k] /\ l[k] \in Int
  <2>1. k - 1 \in -1..3 /\ (k - 1) + 1 = k
    OBVIOUS
  <2> QED
    BY <2>1 DEF NearAgree
<1>2. ASSUME NEW k \in -4..0
      PROVE  Left(e, -k - 1) = l[k] /\ l[k] \in Int
  <2>1. -k - 1 \in -1..3 /\ -((-k - 1) + 1) = k
    OBVIOUS
  <2> QED
    BY <2>1 DEF NearAgree
<1> QED
  BY <1>1, <1>2

LEMMA DownRightSample ==
  ASSUME NEW e, NEW l, NearAgree(e, l), NEW x \in 0..3, NEW y \in 0..3
  PROVE  DownRightMode(e, x, y) = Around(l, x - y)
<1> DEFINE k == x - y
<1>1. k \in -3..3 /\ k \in Int /\ k - 1 \in -4..2 /\ k + 1 \in -2..4
  OBVIOUS
<1>2. /\ \A i \in 0..4 : Up(e, i - 1) = l[i] /\ l[i] \in Int
      /\ \A i \in -4..0 : Left(e, -i - 1) = l[i] /\ l[i] \in Int
  BY NearPoints
<1>3. l[k - 1] \in Int /\ l[k] \in Int /\ l[k + 1] \in Int
  <2> HIDE DEF k
  <2>1. \A i \in -4..4 : l[i] \in Int
    <3>1. \A i \in -4..4 : i \in 0..4 \/ i \in -4..0
      OBVIOUS
    <3> QED
      BY <1>2, <3>1
  <2>2. k - 1 \in -4..4 /\ k \in -4..4 /\ k + 1 \in -4..4
    BY <1>1
  <2> QED
    BY <2>1, <2>2
<1>4. CASE x > y
  <2>1. /\ k - 1 \in 0..4 /\ k \in 0..4 /\ k + 1 \in 0..4
        /\ (k - 1) - 1 = k - 2 /\ (k + 1) - 1 = k
        /\ x - y - 2 = k - 2 /\ x - y - 1 = k - 1 /\ x - y = k
    BY <1>4
  <2> HIDE DEF k
  <2>2. Up(e, k - 2) = l[k - 1] /\ Up(e, k - 1) = l[k] /\ Up(e, k) = l[k + 1]
    BY <1>2, <2>1
  <2>3. DownRightMode(e, x, y) = WeightedMean(l[k - 1], l[k], l[k + 1])
    BY <1>4, <2>1, <2>2 DEF DownRightMode
  <2> QED
    BY <1>1, <1>3, <2>1, <2>3, WeightedMeanIsAround
<1>5. CASE x < y
  <2>1. /\ k - 1 \in -4..0 /\ k \in -4..0 /\ k + 1 \in -4..0
        /\ y - x - 2 = -(k + 1) - 1 /\ y - x - 1 = -k - 1 /\ y - x = -(k - 1) - 1 /\ x - y = k
        /\ ~(x > y)
    BY <1>5
  <2> HIDE DEF k
  <2>2. Left(e, -(k - 1) - 1) = l[k - 1] /\ Left(e, -k - 1) = l[k] /\ Left(e, -(k + 1) - 1) = l[k + 1]
    BY <1>2, <2>1
  <2>3. DownRightMode(e, x, y) = WeightedMean(l[k + 1], l[k], l[k - 1])
    BY <1>5, <2>1, <2>2 DEF DownRightMode
  <2> QED
    BY <1>1, <1>3, <2>1, <2>3, WeightedMeanIsAround
<1>6. CASE x = y
  <2>1. k = 0 /\ k - 1 = -1 /\ k + 1 = 1 /\ ~(x > y) /\ ~(x < y)
    BY <1>6
  <2>2. Up(e, 0) = l[1] /\ Up(e, -1) = l[0] /\ Left(e, 0) = l[-1]
    <3>1. 1 \in 0..4 /\ 0 \in 0..4 /\ 1 - 1 = 0 /\ 0 - 1 = -1
      OBVIOUS
    <3>2. 0 \in -1..3 /\ -(0 + 1) = -1
      OBVIOUS
    <3>3. Left(e, 0) = l[-1]
      BY <3>2 DEF NearAgree
    <3> QED
      BY <1>2, <3>1, <3>3
  <2>3. DownRightMode(e, x, y) = WeightedMean(l[1], l[0], l[-1])
    BY <1>6, <2>1, <2>2 DEF DownRightMode
  <2> QED
    BY <1>1, <1>3, <2>1, <2>3, WeightedMeanIsAround
<1> QED
  BY <1>4, <1>5, <1>6

LEMMA VerticalRightSample ==
  ASSUME NEW e, NEW l, NearAgree(e, l), NEW x \in 0..3, NEW y \in 0..3
  PROVE  VerticalRightMode(e, x, y) = ReceiverSteep(l, x, y)
<1> DEFINE z == 2 * x - y
           c == x - (y \div 2)
<1>1. /\ \A i \in 0..4 : Up(e, i - 1) = l[i] /\ l[i] \in Int
      /\ \A i \in -4..0 : Left(e, -i - 1) = l[i] /\ l[i] \in Int
  BY NearPoints
<1>2. z \in -3..6 /\ c \in Int
  OBVIOUS
<1>3. CASE z >= 0 /\ z % 2 = 0
  <2>1. z \in {0, 2, 4, 6} /\ c \in 0..3
    BY <1>3
  <2> HIDE DEF z, c
  <2>2. c \in 0..4 /\ c + 1 \in 0..4 /\ (c + 1) - 1 = c
    BY <2>1
  <2>3. Up(e, c - 1) = l[c] /\ Up(e, c) = l[c + 1] /\ l[c] \in Int /\ l[c + 1] \in Int
    BY <1>1, <2>2
  <2>4. VerticalRightMode(e, x, y) = Mean(l[c], l[c + 1])
    BY <2>1, <2>3 DEF VerticalRightMode, z, c
  <2>5. ReceiverSteep(l, x, y) = Between(l, c)
    BY <1>3 DEF ReceiverSteep, z, c
  <2> QED
    BY <1>2, <2>3, <2>4, <2>5, MeanIsBetween
<1>4. CASE z >= -1 /\ z % 2 = 1
  <2>1. z \in {-1, 1, 3, 5} /\ (z = -1 => c = 0) /\ (z # -1 => c \in 1..3)
    BY <1>2, <1>4
  <2>2. ReceiverSteep(l, x, y) = Around(l, c)
    <3> HIDE DEF z, c
    <3> QED
      BY <1>2, <1>4 DEF ReceiverSteep, z, c
  <2>3. CASE z # -1
    <3>1. c - 1 \in 0..4 /\ c \in 0..4 /\ c + 1 \in 0..4 /\ (c - 1) - 1 = c - 2 /\ (c + 1) - 1 = c
      BY <2>1, <2>3
    <3>2. z \in {1, 3, 5} /\ z \notin {0, 2, 4, 6}
      BY <2>1, <2>3
    <3> HIDE DEF z, c
    <3>3. /\ Up(e, c - 2) = l[c - 1] /\ Up(e, c - 1) = l[c] /\ Up(e, c) = l[c + 1]
          /\ l[c - 1] \in Int /\ l[c] \in Int /\ l[c + 1] \in Int
      BY <1>1, <3>1
    <3>4. VerticalRightMode(e, x, y) = WeightedMean(l[c - 1], l[c], l[c + 1])
      BY <3>2, <3>3 DEF VerticalRightMode, z, c
    <3> QED
      BY <1>2, <2>2, <3>3, <3>4, WeightedMeanIsAround
  <2>4. CASE z = -1
    <3>1. /\ 0 \in -1..3 /\ -1 \in -1..3 /\ -(0 + 1) = -1 /\ (-1) + 1 = 0 /\ 0 + 1 = 1
      OBVIOUS
    <3>2. /\ Left(e, 0) = l[-1] /\ Up(e, -1) = l[0] /\ Up(e, 0) = l[1]
          /\ l[-1] \in Int /\ l[0] \in Int /\ l[1] \in Int
      BY <3>1 DEF NearAgree
    <3>3. c = 0 /\ z \notin {0, 2, 4, 6} /\ z \notin {1, 3, 5}
      BY <2>1, <2>4
    <3> HIDE DEF z, c
    <3>4. VerticalRightMode(e, x, y) = WeightedMean(l[-1], l[0], l[1])
      BY <2>4, <3>2, <3>3 DEF VerticalRightMode, z
    <3>5. 0 - 1 = -1 /\ 0 + 1 = 1 /\ 0 \in Int
      OBVIOUS
    <3>6. WeightedMean(l[0 - 1], l[0], l[0 + 1]) = Around(l, 0)
      BY <3>2, <3>5, WeightedMeanIsAround
    <3> QED
      BY <2>2, <3>3, <3>4, <3>5, <3>6
  <2> QED
    BY <2>3, <2>4
<1>5. CASE z < -1
  <2> DEFINE k == 1 - y
  <2>1. y \in {2, 3} /\ k \in {-1, -2} /\ z \notin {0, 2, 4, 6} /\ z \notin {1, 3, 5} /\ z # -1
    BY <1>5
  <2>2. /\ y - 1 \in -1..3 /\ y - 2 \in -1..3 /\ y - 3 \in -1..3
        /\ -((y - 1) + 1) = k - 1 /\ -((y - 2) + 1) = k /\ -((y - 3) + 1) = k + 1
    BY <2>1
  <2>3. k \in Int
    BY <2>1
  <2>4. ~(z >= 0 /\ z % 2 = 0) /\ ~(z >= -1 /\ z % 2 = 1)
    BY <1>2, <1>5
  <2> HIDE DEF z, c, k
  <2>5. /\ Left(e, y - 1) = l[k - 1] /\ Left(e, y - 2) = l[k] /\ Left(e, y - 3) = l[k + 1]
        /\ l[k - 1] \in Int /\ l[k] \in Int /\ l[k + 1] \in Int
    BY <2>2 DEF NearAgree
  <2>6. VerticalRightMode(e, x, y) = WeightedMean(l[k - 1], l[k], l[k + 1])
    BY <2>1, <2>5 DEF VerticalRightMode, z
  <2>7. ReceiverSteep(l, x, y) = Around(l, k)
    BY <2>4, Zenon DEF ReceiverSteep, z, k
  <2> QED
    BY <2>3, <2>5, <2>6, <2>7, WeightedMeanIsAround
<1>6. (z >= 0 /\ z % 2 = 0) \/ (z >= -1 /\ z % 2 = 1) \/ z < -1
  BY <1>2
<1> QED
  BY <1>3, <1>4, <1>5, <1>6, Zenon

\* The line the other way round goes with rows and columns exchanged.
LEMMA HorizontalDownSample ==
  ASSUME NEW e, NEW l, NearAgree(e, l), NEW x \in 0..3, NEW y \in 0..3
  PROVE  HorizontalDownMode(e, x, y) = ReceiverSteep([k \in -4..4 |-> l[-k]], y, x)
<1> DEFINE exchanged == [k \in {<<i[2], i[1]>> : i \in Edges} |-> e[<<k[2], k[1]>>]]
           reverse == [k \in -4..4 |-> l[-k]]
<1>1. ASSUME NEW k \in -1..3
      PROVE  /\ Up(exchanged, k) = Left(e, k) /\ Left(exchanged, k) = Up(e, k)
             /\ reverse[k + 1] = l[-(k + 1)] /\ reverse[-(k + 1)] = l[k + 1]
  <2>1. <<k, -1>> \in Edges /\ <<-1, k>> \in Edges
    BY DEF Edges
  <2>2. <<k, -1>> \in DOMAIN exchanged /\ <<-1, k>> \in DOMAIN exchanged
    BY <2>1
  <2>3. Up(exchanged, k) = Left(e, k) /\ Left(exchanged, k) = Up(e, k)
    BY <2>2 DEF Up, Left
  <2>4. k + 1 \in -4..4 /\ -(k + 1) \in -4..4 /\ -(-(k + 1)) = k + 1
    OBVIOUS
  <2>5. reverse[k + 1] = l[-(k + 1)] /\ reverse[-(k + 1)] = l[k + 1]
    BY <2>4
  <2> QED
    BY <2>3, <2>5
<1> HIDE DEF exchanged, reverse
<1>2. NearAgree(exchanged, reverse)
  BY <1>1 DEF NearAgree
<1>3. VerticalRightMode(exchanged, y, x) = ReceiverSteep(reverse, y, x)
  BY <1>2, VerticalRightSample
<1>4. HorizontalDownMode(e, x, y) = VerticalRightMode(exchanged, y, x)
  BY Zenon DEF HorizontalDownMode, exchanged
<1> QED
  BY <1>3, <1>4 DEF reverse

LEMMA VerticalLeftSample ==
  ASSUME NEW e, NEW l, AboveAgree(e, l), NEW x \in 0..3, NEW y \in 0..3
  PROVE  VerticalLeftMode(e, x, y) =
           IF y % 2 = 0 THEN Between(l, x + (y \div 2) + 1) ELSE Around(l, x + (y \div 2) + 2)
<1> DEFINE c == x + (y \div 2)
<1>1. c \in 0..4 /\ c + 1 \in 0..7 /\ c + 2 \in 0..7 /\ (c + 1) + 1 = c + 2 /\ (c + 2) + 1 = c + 3
  OBVIOUS
<1>2. y \in {0, 2} <=> y % 2 = 0
  OBVIOUS
<1> HIDE DEF c
<1>3. /\ Up(e, c) = l[c + 1] /\ Up(e, c + 1) = l[c + 2] /\ Up(e, c + 2) = l[c + 3]
      /\ l[c + 1] \in Int /\ l[c + 2] \in Int /\ l[c + 3] \in Int
  <2>1. c \in 0..7
    BY <1>1
  <2> QED
    BY <1>1, <2>1 DEF AboveAgree
<1>4. CASE y % 2 = 0
  <2>1. VerticalLeftMode(e, x, y) = Mean(l[c + 1], l[c + 2])
    BY <1>2, <1>3, <1>4 DEF VerticalLeftMode, c
  <2>2. c + 1 \in Int /\ (c + 1) + 1 = c + 2
    BY <1>1
  <2>3. Mean(l[c + 1], l[(c + 1) + 1]) = Between(l, c + 1)
    BY <1>3, <2>2, MeanIsBetween
  <2> QED
    BY <1>4, <2>1, <2>2, <2>3 DEF c
<1>5. CASE y % 2 # 0
  <2>1. VerticalLeftMode(e, x, y) = WeightedMean(l[c + 1], l[c + 2], l[c + 3])
    BY <1>2, <1>3, <1>5 DEF VerticalLeftMode, c
  <2>2. c + 2 \in Int /\ (c + 2) - 1 = c + 1 /\ (c + 2) + 1 = c + 3
    BY <1>1
  <2>3. WeightedMean(l[(c + 2) - 1], l[c + 2], l[(c + 2) + 1]) = Around(l, c + 2)
    BY <1>3, <2>2, WeightedMeanIsAround
  <2> QED
    BY <1>5, <2>1, <2>2, <2>3 DEF c
<1> QED
  BY <1>4, <1>5

LEMMA HorizontalUpSample ==
  ASSUME NEW e, NEW l, LeftAgree(e, l), NEW x \in 0..3, NEW y \in 0..3
  PROVE  HorizontalUpMode(e, x, y) = ReceiverHorizontalUp(l, x, y)
<1> DEFINE z == x + 2 * y
           row == y + (x \div 2)
           left == [j \in 0..6 |-> l[-(Smaller(j, 3) + 1)]]
<1>1. ASSUME NEW j \in 0..6
      PROVE  left[j] = Left(e, Smaller(j, 3)) /\ Left(e, Smaller(j, 3)) \in Int
  <2>1. Smaller(j, 3) \in 0..3
    BY DEF Smaller
  <2>2. left[j] = l[-(Smaller(j, 3) + 1)]
    OBVIOUS
  <2> HIDE DEF left
  <2> QED
    BY <2>1, <2>2 DEF LeftAgree
<1>2. ASSUME NEW j \in 0..6
      PROVE  /\ j <= 3 => left[j] = Left(e, j) /\ Left(e, j) \in Int
             /\ j > 3 => left[j] = Left(e, 3) /\ Left(e, 3) \in Int
  <2> HIDE DEF left
  <2> QED
    BY <1>1 DEF Smaller
<1>3. ReceiverHorizontalUp(l, x, y) =
        IF x % 2 = 0 THEN (left[row] + left[row + 1] + 1) \div 2
        ELSE (left[row] + 2 * left[row + 1] + left[row + 2] + 2) \div 4
  BY Zenon DEF ReceiverHorizontalUp
<1> HIDE DEF left
<1>4. CASE z \in {0, 2, 4}
  <2>1. x % 2 = 0 /\ row \in 0..2 /\ row + 1 \in 0..3
    BY <1>4
  <2> HIDE DEF row
  <2>2. left[row] = Left(e, row) /\ left[row + 1] = Left(e, row + 1) /\ left[row] \in Int /\ left[row + 1] \in Int
    <3>1. row \in 0..6 /\ row <= 3 /\ row + 1 \in 0..6 /\ row + 1 <= 3
      BY <2>1
    <3> QED
      BY <1>2, <3>1
  <2>3. HorizontalUpMode(e, x, y) = Mean(left[row], left[row + 1])
    BY <1>4, <2>2 DEF HorizontalUpMode, row
  <2>4. left[row] + left[row + 1] \in Int
    BY <2>2
  <2> QED
    BY <1>3, <2>1, <2>3, <2>4, Shifts DEF Mean
<1>5. CASE z \in {1, 3}
  <2>1. x % 2 # 0 /\ row \in 0..1 /\ z \notin {0, 2, 4}
    BY <1>5
  <2> HIDE DEF row
  <2>2. /\ left[row] = Left(e, row) /\ left[row + 1] = Left(e, row + 1) /\ left[row + 2] = Left(e, row + 2)
        /\ left[row] \in Int /\ left[row + 1] \in Int /\ left[row + 2] \in Int
    <3>1. row \in 0..6 /\ row <= 3 /\ row + 1 \in 0..6 /\ row + 1 <= 3 /\ row + 2 \in 0..6 /\ row + 2 <= 3
      BY <2>1
    <3> QED
      BY <1>2, <3>1
  <2>3. HorizontalUpMode(e, x, y) = WeightedMean(left[row], left[row + 1], left[row + 2])
    BY <1>5, <2>1, <2>2 DEF HorizontalUpMode, row
  <2>4. left[row] + 2 * left[row + 1] + left[row + 2] \in Int
    BY <2>2
  <2> QED
    BY <1>3, <2>1, <2>3, <2>4, Shifts DEF WeightedMean
<1>6. CASE z = 5
  <2>1. x % 2 # 0 /\ row = 2 /\ z \notin {0, 2, 4} /\ z \notin {1, 3}
    BY <1>6
  <2>2. left[2] = Left(e, 2) /\ left[3] = Left(e, 3) /\ left[4] = Left(e, 3) /\ left[2] \in Int /\ left[3] \in Int
    <3>1. 2 \in 0..6 /\ 2 <= 3 /\ 3 \in 0..6 /\ 3 <= 3 /\ 4 \in 0..6 /\ 4 > 3
      OBVIOUS
    <3> QED
      BY <1>2, <3>1
  <2>3. HorizontalUpMode(e, x, y) = RightShift(left[2] + 3 * left[3], 2)
    BY <1>6, <2>1, <2>2 DEF HorizontalUpMode
  <2>4. left[2] + 3 * left[3] \in Int /\ left[2] + 2 * left[3] + left[4] = left[2] + 3 * left[3]
    BY <2>2
  <2>5. ReceiverHorizontalUp(l, x, y) = (left[2] + 2 * left[2 + 1] + left[2 + 2] + 2) \div 4
    <3> HIDE DEF row
    <3> QED
      BY <1>3, <2>1
  <2>6. 2 + 1 = 3 /\ 2 + 2 = 4
    OBVIOUS
  <2> QED
    BY <2>3, <2>4, <2>5, <2>6, Shifts
<1>7. CASE z > 5
  <2>1. row \in 3..4 /\ z \notin {0, 2, 4} /\ z \notin {1, 3} /\ z # 5
    BY <1>7
  <2>2. HorizontalUpMode(e, x, y) = Left(e, 3)
    <3> HIDE DEF z
    <3> QED
      BY <2>1 DEF HorizontalUpMode, z
  <2> HIDE DEF row
  <2>3. left[row] = Left(e, 3) /\ left[row + 1] = Left(e, 3) /\ left[row + 2] = Left(e, 3) /\ Left(e, 3) \in Int
    <3>1. row \in 0..6 /\ row + 1 \in 0..6 /\ row + 2 \in 0..6 /\ row + 1 > 3 /\ row + 2 > 3 /\ row >= 3
      BY <2>1
    <3>2. left[row] = Left(e, 3)
      <4>1. row = 3 \/ row > 3
        BY <2>1
      <4> QED
        BY <1>2, <3>1, <4>1
    <3> QED
      BY <1>2, <3>1, <3>2
  <2> DEFINE v == Left(e, 3)
  <2>4. (v + v + 1) \div 2 = v /\ (v + 2 * v + v + 2) \div 4 = v
    <3>1. v \in Int
      BY <2>3
    <3> HIDE DEF v
    <3> QED
      BY <3>1
  <2> QED
    BY <1>3, <2>2, <2>3, <2>4
<1>8. z \in {0, 2, 4} \/ z \in {1, 3} \/ z = 5 \/ z > 5
  OBVIOUS
<1> QED
  BY <1>4, <1>5, <1>6, <1>7, <1>8, Zenon

\* What a receiver allows depends on the neighbours the encoder asks for.
LEMMA Allows ==
  ASSUME AtBlock, NEW p, p = Place(index)
  PROVE  /\ \A type \in {Vertical, DownLeft, VerticalLeft} : ReceiverAllows(p, type) <=> IsUpAvailable(p)
         /\ \A type \in {Horizontal, HorizontalUp} : ReceiverAllows(p, type) <=> IsLeftAvailable(p)
         /\ \A type \in {DownRight, VerticalRight, HorizontalDown} :
              ReceiverAllows(p, type) => IsLeftAvailable(p) /\ IsUpAvailable(p)
<1> DEFINE x == 4 * InPicture(p).x
           y == 4 * InPicture(p).y
<1>1. x \in Int /\ y \in Int
  <2>1. /\ p.x \in 0..3 /\ p.y \in 0..3 /\ Column(m_addr) \in Int /\ Row(m_addr) \in Int
        /\ InPicture(p).x = 4 * Column(m_addr) + p.x /\ InPicture(p).y = 4 * Row(m_addr) + p.y
    BY AtBlockPlace, SizeAssumption
  <2> QED
    BY <2>1
<1>2. Decoded(x - 1, y + 0) <=> IsLeftAvailable(p)
  <2>1. 0 \in 0..3
    OBVIOUS
  <2> QED
    BY <2>1, LeftDecoded
<1>3. Decoded(x + 0, y - 1) <=> IsUpAvailable(p)
  <2>1. 0 \in 0..3
    OBVIOUS
  <2> QED
    BY <2>1, UpDecoded
<1>4. ASSUME NEW type
      PROVE  ReceiverAllows(p, type) =
               CASE type \in {Vertical, DownLeft, VerticalLeft} -> Decoded(x, y - 1)
                 [] type \in {Horizontal, HorizontalUp} -> Decoded(x - 1, y)
                 [] type = DC -> TRUE
                 [] OTHER -> Decoded(x, y - 1) /\ Decoded(x - 1, y) /\ Decoded(x - 1, y - 1)
  BY Zenon DEF ReceiverAllows
<1> HIDE DEF x, y
<1>5. x + 0 = x /\ y + 0 = y
  BY <1>1
<1>6. (Decoded(x - 1, y) <=> IsLeftAvailable(p)) /\ (Decoded(x, y - 1) <=> IsUpAvailable(p))
  BY <1>2, <1>3, <1>5
<1>7. ASSUME NEW type \in {Vertical, DownLeft, VerticalLeft}
      PROVE  ReceiverAllows(p, type) <=> IsUpAvailable(p)
  <2>1. ReceiverAllows(p, type) = Decoded(x, y - 1)
    <3>1. type \notin {Horizontal, HorizontalUp} /\ type # DC
      BY DEF Vertical, Horizontal, DC, DownLeft, VerticalLeft, HorizontalUp
    <3> QED
      BY <1>4, <3>1, Zenon
  <2> QED
    BY <1>6, <2>1, Zenon
<1>8. ASSUME NEW type \in {Horizontal, HorizontalUp}
      PROVE  ReceiverAllows(p, type) <=> IsLeftAvailable(p)
  <2>1. type \notin {Vertical, DownLeft, VerticalLeft} /\ type # DC
    BY DEF Vertical, Horizontal, DC, DownLeft, VerticalLeft, HorizontalUp
  <2>2. ReceiverAllows(p, type) = Decoded(x - 1, y)
    BY <1>4, <2>1, Zenon
  <2> QED
    BY <1>6, <2>2, Zenon
<1>9. ASSUME NEW type \in {DownRight, VerticalRight, HorizontalDown}, ReceiverAllows(p, type)
      PROVE  IsLeftAvailable(p) /\ IsUpAvailable(p)
  <2>1. type \notin {Vertical, DownLeft, VerticalLeft} /\ type \notin {Horizontal, HorizontalUp} /\ type # DC
    BY DEF Vertical, Horizontal, DC, DownLeft, DownRight, VerticalRight, HorizontalDown, VerticalLeft, HorizontalUp
  <2> QED
    BY <1>4, <1>6, <1>9, <2>1
<1> QED
  BY <1>7, <1>8, <1>9

\* The edges are the line wherever they are read.
LEMMA BlockIsNear ==
  ASSUME AtBlock, NEW p, p = Place(index), IsLeftAvailable(p), IsUpAvailable(p)
  PROVE  NearAgree(EdgeData(p), Line(p))
<1> DEFINE e == EdgeData(p)
           l == Line(p)
<1>1. AboveAgree(e, l) /\ LeftAgree(e, l) /\ CornerAgrees(e, l)
  BY AboveIsLine, LeftIsLine, CornerIsLine
<1> HIDE DEF e, l
<1>2. ASSUME NEW k \in -1..3
      PROVE  /\ Up(e, k) = l[k + 1] /\ l[k + 1] \in Int
             /\ Left(e, k) = l[-(k + 1)] /\ l[-(k + 1)] \in Int
  <2>1. CASE k < 0
    <3>1. k = -1 /\ k + 1 = 0
      BY <2>1
    <3>2. -(k + 1) = 0
      BY <2>1
    <3>3. Up(e, k) = l[0] /\ Left(e, k) = l[0] /\ l[0] \in Int
      BY <1>1, <3>1 DEF CornerAgrees
    <3> QED
      BY <3>1, <3>2, <3>3, Zenon
  <2>2. CASE ~(k < 0)
    <3>1. k \in 0..3 /\ k \in 0..7
      BY <2>2
    <3> QED
      BY <1>1, <3>1 DEF AboveAgree, LeftAgree
  <2> QED
    BY <2>1, <2>2
<1> QED
  BY <1>2 DEF NearAgree, e, l

\* The mean of what there is on the two sides.
LEMMA DCSample ==
  ASSUME AtBlock, NEW p, p = Place(index)
  PROVE  LET l == Line(p)
         IN  DCMode(p, EdgeData(p)) =
               ReceiverMean(IF ReceiverAllows(p, Horizontal) THEN <<l[-1], l[-2], l[-3], l[-4]>> ELSE <<>>,
                            IF ReceiverAllows(p, Vertical) THEN <<l[1], l[2], l[3], l[4]>> ELSE <<>>)
<1> DEFINE l == Line(p)
           e == EdgeData(p)
           ups == SumTo([i \in 1..4 |-> Up(e, i - 1)], 4)
           lefts == SumTo([i \in 1..4 |-> Left(e, i - 1)], 4)
           us == <<l[1], l[2], l[3], l[4]>>
           ls == <<l[-1], l[-2], l[-3], l[-4]>>
<1>1. (ReceiverAllows(p, Horizontal) <=> IsLeftAvailable(p)) /\ (ReceiverAllows(p, Vertical) <=> IsUpAvailable(p))
  BY Allows
<1>2. /\ IsUpAvailable(p) => AboveAgree(e, l)
      /\ IsLeftAvailable(p) => LeftAgree(e, l)
  BY AboveIsLine, LeftIsLine
<1>3. DCMode(p, e) = CASE IsLeftAvailable(p) /\ IsUpAvailable(p) -> RightShift(ups + lefts, 3)
                       [] IsLeftAvailable(p) /\ ~IsUpAvailable(p) -> RightShift(lefts, 2)
                       [] ~IsLeftAvailable(p) /\ IsUpAvailable(p) -> RightShift(ups, 2)
                       [] OTHER -> s_default_color_value
  BY Zenon DEF DCMode
<1> HIDE DEF l, e
<1>4. ASSUME IsUpAvailable(p)
      PROVE  ups \in Int /\ SumTo(us, 4) = ups
  <2>1. /\ Up(e, 0) = l[1] /\ Up(e, 1) = l[2] /\ Up(e, 2) = l[3] /\ Up(e, 3) = l[4]
        /\ l[1] \in Int /\ l[2] \in Int /\ l[3] \in Int /\ l[4] \in Int
    <3>1. 0 \in 0..7 /\ 1 \in 0..7 /\ 2 \in 0..7 /\ 3 \in 0..7 /\ 0 + 1 = 1 /\ 1 + 1 = 2 /\ 2 + 1 = 3 /\ 3 + 1 = 4
      OBVIOUS
    <3> QED
      BY <1>2, <1>4, <3>1 DEF AboveAgree
  <2> DEFINE f == [i \in 1..4 |-> Up(e, i - 1)]
  <2>2. f[1] = l[1] /\ f[2] = l[2] /\ f[3] = l[3] /\ f[4] = l[4]
    BY <2>1
  <2> HIDE DEF f
  <2>3. Terms(f, 4)
    <3>1. \A k \in 1..4 : k = 1 \/ k = 2 \/ k = 3 \/ k = 4
      OBVIOUS
    <3> QED
      BY <2>1, <2>2, <3>1 DEF Terms
  <2>4. SumTo(f, 4) = l[1] + l[2] + l[3] + l[4]
    BY <2>2, <2>3, SumOfFour
  <2>5. SumTo(us, 4) = l[1] + l[2] + l[3] + l[4]
    <3> DEFINE g == us
    <3>1. g[1] = l[1] /\ g[2] = l[2] /\ g[3] = l[3] /\ g[4] = l[4]
      OBVIOUS
    <3> HIDE DEF g
    <3>2. Terms(g, 4)
      <4>1. \A k \in 1..4 : k = 1 \/ k = 2 \/ k = 3 \/ k = 4
        OBVIOUS
      <4> QED
        BY <2>1, <3>1, <4>1 DEF Terms
    <3>3. SumTo(g, 4) = l[1] + l[2] + l[3] + l[4]
      BY <3>1, <3>2, SumOfFour
    <3> QED
      BY <3>3 DEF g
  <2>6. l[1] + l[2] + l[3] + l[4] \in Int
    BY <2>1
  <2> QED
    BY <2>4, <2>5, <2>6 DEF f
<1>5. ASSUME IsLeftAvailable(p)
      PROVE  lefts \in Int /\ SumTo(ls, 4) = lefts
  <2>1. /\ Left(e, 0) = l[-1] /\ Left(e, 1) = l[-2] /\ Left(e, 2) = l[-3] /\ Left(e, 3) = l[-4]
        /\ l[-1] \in Int /\ l[-2] \in Int /\ l[-3] \in Int /\ l[-4] \in Int
    <3>1. /\ 0 \in 0..3 /\ 1 \in 0..3 /\ 2 \in 0..3 /\ 3 \in 0..3
          /\ -(0 + 1) = -1 /\ -(1 + 1) = -2 /\ -(2 + 1) = -3 /\ -(3 + 1) = -4
      OBVIOUS
    <3> QED
      BY <1>2, <1>5, <3>1 DEF LeftAgree
  <2> DEFINE f == [i \in 1..4 |-> Left(e, i - 1)]
  <2>2. f[1] = l[-1] /\ f[2] = l[-2] /\ f[3] = l[-3] /\ f[4] = l[-4]
    BY <2>1
  <2> HIDE DEF f
  <2>3. Terms(f, 4)
    <3>1. \A k \in 1..4 : k = 1 \/ k = 2 \/ k = 3 \/ k = 4
      OBVIOUS
    <3> QED
      BY <2>1, <2>2, <3>1 DEF Terms
  <2>4. SumTo(f, 4) = l[-1] + l[-2] + l[-3] + l[-4]
    BY <2>2, <2>3, SumOfFour
  <2>5. SumTo(ls, 4) = l[-1] + l[-2] + l[-3] + l[-4]
    <3> DEFINE g == ls
    <3>1. g[1] = l[-1] /\ g[2] = l[-2] /\ g[3] = l[-3] /\ g[4] = l[-4]
      OBVIOUS
    <3> HIDE DEF g
    <3>2. Terms(g, 4)
      <4>1. \A k \in 1..4 : k = 1 \/ k = 2 \/ k = 3 \/ k = 4
        OBVIOUS
      <4> QED
        BY <2>1, <3>1, <4>1 DEF Terms
    <3>3. SumTo(g, 4) = l[-1] + l[-2] + l[-3] + l[-4]
      BY <3>1, <3>2, SumOfFour
    <3> QED
      BY <3>3 DEF g
  <2>6. l[-1] + l[-2] + l[-3] + l[-4] \in Int
    BY <2>1
  <2> QED
    BY <2>4, <2>5, <2>6 DEF f
<1>6. Len(us) = 4 /\ Len(ls) = 4 /\ Len(<<>>) = 0
  OBVIOUS
<1>7. SumTo(<<>>, 0) = 0
  <2>1. Terms(<<>>, 0)
    BY DEF Terms
  <2> QED
    BY <2>1, SumToType
<1>8. ASSUME NEW a, NEW b
      PROVE  ReceiverMean(a, b) =
               IF Len(a) + Len(b) = 0 THEN 128
               ELSE ((SumTo(a, Len(a)) + SumTo(b, Len(b))) + ((Len(a) + Len(b)) \div 2)) \div (Len(a) + Len(b))
  BY Zenon DEF ReceiverMean
<1> HIDE DEF us, ls, ups, lefts
<1>9. CASE IsLeftAvailable(p) /\ IsUpAvailable(p)
  <2>1. DCMode(p, e) = RightShift(ups + lefts, 3)
    BY <1>3, <1>9
  <2>2. ReceiverMean(ls, us) = ((lefts + ups) + ((4 + 4) \div 2)) \div (4 + 4)
    <3>1. 4 + 4 # 0
      OBVIOUS
    <3> QED
      BY <1>4, <1>5, <1>6, <1>8, <1>9, <3>1, Zenon
  <2>3. ups + lefts \in Int /\ lefts + ups = ups + lefts
    BY <1>4, <1>5, <1>9
  <2>4. DCMode(p, e) = ReceiverMean(ls, us)
    BY <2>1, <2>2, <2>3, Shifts
  <2> QED
    BY <1>1, <1>9, <2>4 DEF us, ls, e, l
<1>10. CASE IsLeftAvailable(p) /\ ~IsUpAvailable(p)
  <2>1. DCMode(p, e) = RightShift(lefts, 2)
    BY <1>3, <1>10
  <2>2. ReceiverMean(ls, <<>>) = ((lefts + 0) + ((4 + 0) \div 2)) \div (4 + 0)
    <3>1. 4 + 0 # 0
      OBVIOUS
    <3> QED
      BY <1>5, <1>6, <1>7, <1>8, <1>10, <3>1, Zenon
  <2>3. lefts \in Int /\ lefts + 0 = lefts
    BY <1>5, <1>10
  <2>4. DCMode(p, e) = ReceiverMean(ls, <<>>)
    BY <2>1, <2>2, <2>3, Shifts
  <2> QED
    BY <1>1, <1>10, <2>4 DEF us, ls, e, l
<1>11. CASE ~IsLeftAvailable(p) /\ IsUpAvailable(p)
  <2>1. DCMode(p, e) = RightShift(ups, 2)
    BY <1>3, <1>11
  <2>2. ReceiverMean(<<>>, us) = ((0 + ups) + ((0 + 4) \div 2)) \div (0 + 4)
    <3>1. 0 + 4 # 0
      OBVIOUS
    <3> QED
      BY <1>4, <1>6, <1>7, <1>8, <1>11, <3>1, Zenon
  <2>3. ups \in Int /\ 0 + ups = ups
    BY <1>4, <1>11
  <2>4. DCMode(p, e) = ReceiverMean(<<>>, us)
    BY <2>1, <2>2, <2>3, Shifts
  <2> QED
    BY <1>1, <1>11, <2>4 DEF us, ls, e, l
<1>12. CASE ~IsLeftAvailable(p) /\ ~IsUpAvailable(p)
  <2>1. DCMode(p, e) = 128
    BY <1>3, <1>12 DEF s_default_color_value
  <2>2. ReceiverMean(<<>>, <<>>) = 128
    BY <1>6, <1>8
  <2> QED
    BY <1>1, <1>12, <2>1, <2>2 DEF e, l
<1> QED
  BY <1>9, <1>10, <1>11, <1>12, Zenon

\* Sample (x, y) of a block for a receiver.
ReceiverSample(p, type, x, y) ==
  LET l == Line(p)
      reverse == [k \in -4..4 |-> l[-k]]
      dc == ReceiverMean(IF ReceiverAllows(p, Horizontal) THEN <<l[-1], l[-2], l[-3], l[-4]>> ELSE <<>>,
                         IF ReceiverAllows(p, Vertical) THEN <<l[1], l[2], l[3], l[4]>> ELSE <<>>)
  IN  CASE type = Vertical -> l[x + 1]
        [] type = Horizontal -> l[-(y + 1)]
        [] type = DC -> dc
        [] type = DownLeft -> IF x + y = 6 THEN (l[7] + 3 * l[8] + 2) \div 4 ELSE Around(l, x + y + 2)
        [] type = DownRight -> Around(l, x - y)
        [] type = VerticalRight -> ReceiverSteep(l, x, y)
        [] type = HorizontalDown -> ReceiverSteep(reverse, y, x)
        [] type = VerticalLeft ->
             IF y % 2 = 0 THEN Between(l, x + (y \div 2) + 1) ELSE Around(l, x + (y \div 2) + 2)
        [] type = HorizontalUp -> ReceiverHorizontalUp(l, x, y)

\* And for the encoder.
CalculatedSample(p, type, x, y) ==
  LET e == EdgeData(p)
  IN  CASE type = Vertical -> Up(e, x)
        [] type = Horizontal -> Left(e, y)
        [] type = DC -> DCMode(p, e)
        [] type = DownLeft -> DownLeftMode(e, x, y)
        [] type = DownRight -> DownRightMode(e, x, y)
        [] type = VerticalRight -> VerticalRightMode(e, x, y)
        [] type = HorizontalDown -> HorizontalDownMode(e, x, y)
        [] type = VerticalLeft -> VerticalLeftMode(e, x, y)
        [] type = HorizontalUp -> HorizontalUpMode(e, x, y)

LEMMA SampleAgrees ==
  ASSUME AtBlock, NEW p, p = Place(index), NEW type \in PredictionTypes, ReceiverAllows(p, type),
         NEW x \in 0..3, NEW y \in 0..3
  PROVE  CalculatedSample(p, type, x, y) = ReceiverSample(p, type, x, y)
<1> DEFINE e == EdgeData(p)
           l == Line(p)
<1>1. /\ \A t \in {Vertical, DownLeft, VerticalLeft} : ReceiverAllows(p, t) <=> IsUpAvailable(p)
      /\ \A t \in {Horizontal, HorizontalUp} : ReceiverAllows(p, t) <=> IsLeftAvailable(p)
      /\ \A t \in {DownRight, VerticalRight, HorizontalDown} :
           ReceiverAllows(p, t) => IsLeftAvailable(p) /\ IsUpAvailable(p)
  BY Allows
<1>2. CASE type = Vertical
  <2>1. AboveAgree(e, l)
    BY <1>1, <1>2, AboveIsLine
  <2>2. Up(e, x) = l[x + 1]
    <3>1. x \in 0..7
      OBVIOUS
    <3> HIDE DEF e, l
    <3> QED
      BY <2>1, <3>1 DEF AboveAgree
  <2>3. CalculatedSample(p, type, x, y) = Up(e, x) /\ ReceiverSample(p, type, x, y) = l[x + 1]
    BY <1>2 DEF CalculatedSample, ReceiverSample, Vertical, Horizontal, DC, DownLeft, DownRight,
                VerticalRight, HorizontalDown, VerticalLeft, HorizontalUp
  <2> QED
    BY <2>2, <2>3
<1>3. CASE type = Horizontal
  <2>1. LeftAgree(e, l)
    BY <1>1, <1>3, LeftIsLine
  <2>2. Left(e, y) = l[-(y + 1)]
    <3> HIDE DEF e, l
    <3> QED
      BY <2>1 DEF LeftAgree
  <2>3. CalculatedSample(p, type, x, y) = Left(e, y) /\ ReceiverSample(p, type, x, y) = l[-(y + 1)]
    BY <1>3 DEF CalculatedSample, ReceiverSample, Vertical, Horizontal, DC, DownLeft, DownRight,
                VerticalRight, HorizontalDown, VerticalLeft, HorizontalUp
  <2> QED
    BY <2>2, <2>3
<1>4. CASE type = DC
  <2> DEFINE dc == ReceiverMean(IF ReceiverAllows(p, Horizontal) THEN <<l[-1], l[-2], l[-3], l[-4]>> ELSE <<>>,
                                IF ReceiverAllows(p, Vertical) THEN <<l[1], l[2], l[3], l[4]>> ELSE <<>>)
  <2>1. DCMode(p, e) = dc
    BY DCSample
  <2>2. CalculatedSample(p, type, x, y) = DCMode(p, e) /\ ReceiverSample(p, type, x, y) = dc
    BY <1>4 DEF CalculatedSample, ReceiverSample, Vertical, Horizontal, DC, DownLeft, DownRight,
                VerticalRight, HorizontalDown, VerticalLeft, HorizontalUp
  <2> QED
    BY <2>1, <2>2
<1>5. CASE type = DownLeft
  <2>1. AboveAgree(e, l)
    BY <1>1, <1>5, AboveIsLine
  <2>2. DownLeftMode(e, x, y) = IF x + y = 6 THEN (l[7] + 3 * l[8] + 2) \div 4 ELSE Around(l, x + y + 2)
    BY <2>1, DownLeftSample
  <2>3. /\ CalculatedSample(p, type, x, y) = DownLeftMode(e, x, y)
        /\ ReceiverSample(p, type, x, y) = IF x + y = 6 THEN (l[7] + 3 * l[8] + 2) \div 4 ELSE Around(l, x + y + 2)
    BY <1>5 DEF CalculatedSample, ReceiverSample, Vertical, Horizontal, DC, DownLeft, DownRight,
                VerticalRight, HorizontalDown, VerticalLeft, HorizontalUp
  <2> QED
    BY <2>2, <2>3
<1>6. CASE type = DownRight
  <2>1. NearAgree(e, l)
    BY <1>1, <1>6, BlockIsNear
  <2>2. DownRightMode(e, x, y) = Around(l, x - y)
    BY <2>1, DownRightSample
  <2>3. CalculatedSample(p, type, x, y) = DownRightMode(e, x, y) /\ ReceiverSample(p, type, x, y) = Around(l, x - y)
    BY <1>6 DEF CalculatedSample, ReceiverSample, Vertical, Horizontal, DC, DownLeft, DownRight,
                VerticalRight, HorizontalDown, VerticalLeft, HorizontalUp
  <2> QED
    BY <2>2, <2>3
<1>7. CASE type = VerticalRight
  <2>1. NearAgree(e, l)
    BY <1>1, <1>7, BlockIsNear
  <2>2. VerticalRightMode(e, x, y) = ReceiverSteep(l, x, y)
    BY <2>1, VerticalRightSample
  <2>3. CalculatedSample(p, type, x, y) = VerticalRightMode(e, x, y) /\ ReceiverSample(p, type, x, y) = ReceiverSteep(l, x, y)
    BY <1>7 DEF CalculatedSample, ReceiverSample, Vertical, Horizontal, DC, DownLeft, DownRight,
                VerticalRight, HorizontalDown, VerticalLeft, HorizontalUp
  <2> QED
    BY <2>2, <2>3
<1>8. CASE type = HorizontalDown
  <2> DEFINE steep == ReceiverSteep([k \in -4..4 |-> l[-k]], y, x)
  <2>1. NearAgree(e, l)
    BY <1>1, <1>8, BlockIsNear
  <2>2. HorizontalDownMode(e, x, y) = steep
    BY <2>1, HorizontalDownSample
  <2>3. CalculatedSample(p, type, x, y) = HorizontalDownMode(e, x, y) /\ ReceiverSample(p, type, x, y) = steep
    BY <1>8 DEF CalculatedSample, ReceiverSample, Vertical, Horizontal, DC, DownLeft, DownRight,
                VerticalRight, HorizontalDown, VerticalLeft, HorizontalUp
  <2> QED
    BY <2>2, <2>3
<1>9. CASE type = VerticalLeft
  <2>1. AboveAgree(e, l)
    BY <1>1, <1>9, AboveIsLine
  <2>2. VerticalLeftMode(e, x, y) =
          IF y % 2 = 0 THEN Between(l, x + (y \div 2) + 1) ELSE Around(l, x + (y \div 2) + 2)
    BY <2>1, VerticalLeftSample
  <2>3. /\ CalculatedSample(p, type, x, y) = VerticalLeftMode(e, x, y)
        /\ ReceiverSample(p, type, x, y) =
             IF y % 2 = 0 THEN Between(l, x + (y \div 2) + 1) ELSE Around(l, x + (y \div 2) + 2)
    BY <1>9 DEF CalculatedSample, ReceiverSample, Vertical, Horizontal, DC, DownLeft, DownRight,
                VerticalRight, HorizontalDown, VerticalLeft, HorizontalUp
  <2> QED
    BY <2>2, <2>3
<1>10. CASE type = HorizontalUp
  <2>1. LeftAgree(e, l)
    BY <1>1, <1>10, LeftIsLine
  <2>2. HorizontalUpMode(e, x, y) = ReceiverHorizontalUp(l, x, y)
    BY <2>1, HorizontalUpSample
  <2>3. CalculatedSample(p, type, x, y) = HorizontalUpMode(e, x, y) /\ ReceiverSample(p, type, x, y) = ReceiverHorizontalUp(l, x, y)
    BY <1>10 DEF CalculatedSample, ReceiverSample, Vertical, Horizontal, DC, DownLeft, DownRight,
                 VerticalRight, HorizontalDown, VerticalLeft, HorizontalUp
  <2> QED
    BY <2>2, <2>3
<1>11. \/ type = Vertical \/ type = Horizontal \/ type = DC \/ type = DownLeft \/ type = DownRight
       \/ type = VerticalRight \/ type = HorizontalDown \/ type = VerticalLeft \/ type = HorizontalUp
  BY DEF PredictionTypes, Vertical, Horizontal, DC, DownLeft, DownRight, VerticalRight,
         HorizontalDown, VerticalLeft, HorizontalUp
<1> QED
  BY <1>2, <1>3, <1>4, <1>5, <1>6, <1>7, <1>8, <1>9, <1>10, <1>11, Zenon

\* The modes a receiver allows can be predicted, and give the samples it finds.
LEMMA BlockPredicted ==
  ASSUME AtBlock, NEW p, p = Place(index), NEW type \in PredictionTypes, ReceiverAllows(p, type)
  PROVE  Predictable(p, type) /\ Calculate(p, type) = ReceiverBlock(p, type)
<1>1. Predictable(p, type)
  <2>1. /\ type \in {Vertical, DownLeft, VerticalLeft} => IsUpAvailable(p)
        /\ type \in {Horizontal, HorizontalUp} => IsLeftAvailable(p)
        /\ type \in {DownRight, VerticalRight, HorizontalDown} => IsLeftAvailable(p) /\ IsUpAvailable(p)
    BY Allows
  <2> QED
    BY <2>1 DEF Predictable
<1>2. Calculate(p, type) = [s \in SamplesOf(4) |-> CalculatedSample(p, type, s[1], s[2])]
  BY Zenon DEF Calculate, CalculatedSample
<1>3. ReceiverBlock(p, type) = [s \in SamplesOf(4) |-> ReceiverSample(p, type, s[1], s[2])]
  BY Zenon DEF ReceiverBlock, ReceiverSample
<1>4. ASSUME NEW s \in SamplesOf(4)
      PROVE  CalculatedSample(p, type, s[1], s[2]) = ReceiverSample(p, type, s[1], s[2])
  <2>1. s[1] \in 0..3 /\ s[2] \in 0..3
    BY DEF SamplesOf
  <2> QED
    BY <2>1, SampleAgrees
<1> QED
  BY <1>1, <1>2, <1>3, <1>4, Zenon

-----------------------------------------------------------------------------
(* Predictions of a macroblock.                                            *)

\* Whether there are macroblocks beside this one, by its column and row.
LEMMA Beside ==
  ASSUME m_addr \in MBs
  PROVE  /\ MBLeftAvailable <=> Column(m_addr) > 0
         /\ MBUpAvailable <=> Row(m_addr) > 0
         /\ Column(m_addr) \in 0..(width_in_mb - 1) /\ Row(m_addr) \in 0..(height_in_mb - 1)
<1> DEFINE c == Column(m_addr)
           r == Row(m_addr)
<1>1. c \in Nat /\ r \in Nat /\ m_addr \in Nat /\ m_addr = r * width_in_mb + c
  BY Address
<1>2. c < width_in_mb /\ m_addr < width_in_mb * height_in_mb
  BY <1>1, SizeAssumption DEF Column, MBs
<1>3. MBLeftAvailable <=> c # 0
  BY DEF MBLeftAvailable, Column
<1>4. MBUpAvailable <=> m_addr >= width_in_mb
  BY DEF MBUpAvailable
<1> HIDE DEF c, r
<1>5. r * width_in_mb \in Nat
  BY <1>1, SizeAssumption
<1>6. r > 0 => r * width_in_mb >= width_in_mb
  BY <1>1, SizeAssumption
<1>7. r = 0 => r * width_in_mb = 0
  BY SizeAssumption
<1>8. m_addr >= width_in_mb <=> r > 0
  BY <1>1, <1>2, <1>5, <1>6, <1>7, SizeAssumption
<1>9. r < height_in_mb
  <2>1. SUFFICES ASSUME r >= height_in_mb PROVE FALSE
    BY <1>1, SizeAssumption
  <2>2. r * width_in_mb >= height_in_mb * width_in_mb
    BY <1>1, <2>1, SizeAssumption
  <2> QED
    BY <1>1, <1>2, <2>2, SizeAssumption
<1> QED
  BY <1>1, <1>2, <1>3, <1>4, <1>8, <1>9, SizeAssumption DEF c, r

LEMMA TypesAgree ==
  ASSUME m_addr \in MBs
  PROVE  AllowedTypes = ReceiverTypes
<1>1. /\ MBLeftAvailable <=> m_addr % width_in_mb > 0
      /\ MBUpAvailable <=> m_addr >= width_in_mb
  BY Beside DEF Column, MBUpAvailable
<1> QED
  BY <1>1 DEF AllowedTypes, ReceiverTypes

\* A sample of the macroblocks beside this one is an integer.
LEMMA BesideSample ==
  ASSUME m_addr \in MBs, NEW plane \in PlaneTypes, NEW x \in -1..(Size(plane) - 1), NEW y \in -1..(Size(plane) - 1),
         x = -1 => MBLeftAvailable, y = -1 => MBUpAvailable
  PROVE  ReceivedSample(plane, x, y) \in Int
<1> DEFINE c == Column(m_addr)
           r == Row(m_addr)
           n == Size(plane)
<1>1. /\ MBLeftAvailable <=> c > 0
      /\ MBUpAvailable <=> r > 0
      /\ c \in 0..(width_in_mb - 1) /\ r \in 0..(height_in_mb - 1)
  BY Beside
<1>2. n = 16 \/ n = 8
  BY DEF Size
<1>3. ReceivedSample(plane, x, y) = Reconstructed(plane, n * c + x, n * r + y)
  BY DEF ReceivedSample, Column, Row
<1>4. x \in -1..(n - 1) /\ y \in -1..(n - 1)
  OBVIOUS
<1> HIDE DEF c, r, n
<1>5. n * c + x \in 0..(n * width_in_mb - 1)
  <2>1. CASE n = 16
    BY <1>1, <1>4, <2>1, SizeAssumption
  <2>2. CASE n = 8
    BY <1>1, <1>4, <2>2, SizeAssumption
  <2> QED
    BY <1>2, <2>1, <2>2
<1>6. n * r + y \in 0..(n * height_in_mb - 1)
  <2>1. CASE n = 16
    BY <1>1, <1>4, <2>1, SizeAssumption
  <2>2. CASE n = 8
    BY <1>1, <1>4, <2>2, SizeAssumption
  <2> QED
    BY <1>2, <2>1, <2>2
<1>7. Reconstructed(plane, n * c + x, n * r + y) \in 0..255
  BY <1>5, <1>6, PictureAssumption DEF n
<1> QED
  BY <1>3, <1>7

\* The encoder's edges are the samples a receiver has there.
LEMMA EdgeReceived ==
  ASSUME m_addr \in MBs, NEW plane \in PlaneTypes, NEW i \in -1..(Size(plane) - 1)
  PROVE  /\ LeftData(plane)[i] = ReceivedSample(plane, -1, i)
         /\ UpData(plane)[i] = ReceivedSample(plane, i, -1)
<1> DEFINE x == Size(plane) * (m_addr % width_in_mb)
           y == Size(plane) * (m_addr \div width_in_mb)
<1>1. x \in Int /\ y \in Int
  <2>1. m_addr % width_in_mb \in Int /\ m_addr \div width_in_mb \in Int
    BY Address DEF Column, Row
  <2>2. Size(plane) = 16 \/ Size(plane) = 8
    BY DEF Size
  <2> QED
    BY <2>1, <2>2
<1>2. /\ LeftData(plane)[i] = Reconstructed(plane, x - 1, y + i)
      /\ UpData(plane)[i] = Reconstructed(plane, x + i, y - 1)
  BY Zenon DEF LeftData, UpData
<1>3. /\ ReceivedSample(plane, -1, i) = Reconstructed(plane, x + (-1), y + i)
      /\ ReceivedSample(plane, i, -1) = Reconstructed(plane, x + i, y + (-1))
  BY Zenon DEF ReceivedSample
<1> HIDE DEF x, y
<1>4. x - 1 = x + (-1) /\ y - 1 = y + (-1)
  BY <1>1
<1> QED
  BY <1>2, <1>3, <1>4

-----------------------------------------------------------------------------
(* DC.                                                                     *)

\* The mean of nothing.
LEMMA NothingMean == ReceiverMean(<<>>, <<>>) = 128
<1>1. Len(<<>>) = 0 /\ 0 + 0 = 0
  OBVIOUS
<1> QED
  BY <1>1, Zenon DEF ReceiverMean

\* Means of one side, or of both, of four or sixteen samples.
LEMMA SidesMean ==
  ASSUME NEW n \in {4, 16}, NEW a, NEW b, Len(a) = n, Len(b) = n, SumTo(a, n) \in Int, SumTo(b, n) \in Int
  PROVE  /\ ReceiverMean(a, b) = RightShift(SumTo(a, n) + SumTo(b, n), IF n = 4 THEN 3 ELSE 5)
         /\ ReceiverMean(a, <<>>) = RightShift(SumTo(a, n), IF n = 4 THEN 2 ELSE 4)
         /\ ReceiverMean(<<>>, b) = RightShift(SumTo(b, n), IF n = 4 THEN 2 ELSE 4)
<1> DEFINE s == SumTo(a, n)
           t == SumTo(b, n)
           e == <<>>
<1>1. Len(e) = 0
  OBVIOUS
<1>2. SumTo(e, 0) = 0
  <2>1. Terms(<<>>, 0)
    BY DEF Terms
  <2> QED
    BY <2>1, SumToType
<1>3. ASSUME NEW f, NEW g
      PROVE  ReceiverMean(f, g) =
               IF Len(f) + Len(g) = 0 THEN 128
               ELSE ((SumTo(f, Len(f)) + SumTo(g, Len(g))) + ((Len(f) + Len(g)) \div 2)) \div (Len(f) + Len(g))
  BY Zenon DEF ReceiverMean
<1> HIDE DEF s, t, e
<1>4. s \in Int /\ t \in Int /\ s + t \in Int /\ s + 0 = s /\ 0 + t = t
  BY DEF s, t
<1>5. n + n # 0 /\ n + 0 # 0 /\ 0 + n # 0
  OBVIOUS
<1>6. /\ ReceiverMean(a, b) = ((s + t) + ((n + n) \div 2)) \div (n + n)
      /\ ReceiverMean(a, e) = ((s + 0) + ((n + 0) \div 2)) \div (n + 0)
      /\ ReceiverMean(e, b) = ((0 + t) + ((0 + n) \div 2)) \div (0 + n)
  <2>1. ReceiverMean(a, b) = ((s + t) + ((n + n) \div 2)) \div (n + n)
    BY <1>1, <1>3, <1>5, Zenon DEF s, t
  <2>2. ReceiverMean(a, e) = ((s + 0) + ((n + 0) \div 2)) \div (n + 0)
    BY <1>1, <1>2, <1>3, <1>5, Zenon DEF s
  <2>3. ReceiverMean(e, b) = ((0 + t) + ((0 + n) \div 2)) \div (0 + n)
    BY <1>1, <1>2, <1>3, <1>5, Zenon DEF t
  <2> QED
    BY <2>1, <2>2, <2>3
<1>7. CASE n = 4
  <2>1. /\ ReceiverMean(a, b) = RightShift(s + t, 3)
        /\ ReceiverMean(a, e) = RightShift(s, 2)
        /\ ReceiverMean(e, b) = RightShift(t, 2)
    <3>1. /\ n + n = 8 /\ n + 0 = 4 /\ 0 + n = 4
          /\ 8 \div 2 = 4 /\ 4 \div 2 = 2
      BY <1>7
    <3>2. /\ ReceiverMean(a, b) = ((s + t) + 4) \div 8
          /\ ReceiverMean(a, e) = (s + 2) \div 4
          /\ ReceiverMean(e, b) = (t + 2) \div 4
      BY <1>4, <1>6, <3>1, Zenon
    <3> QED
      BY <1>4, <3>2, Shifts
  <2> QED
    BY <1>6, <1>7, <2>1 DEF s, t, e
<1>8. CASE n = 16
  <2>1. /\ ReceiverMean(a, b) = RightShift(s + t, 5)
        /\ ReceiverMean(a, e) = RightShift(s, 4)
        /\ ReceiverMean(e, b) = RightShift(t, 4)
    <3>1. /\ n + n = 32 /\ n + 0 = 16 /\ 0 + n = 16
          /\ 32 \div 2 = 16 /\ 16 \div 2 = 8
      BY <1>8
    <3>2. /\ ReceiverMean(a, b) = ((s + t) + 16) \div 32
          /\ ReceiverMean(a, e) = (s + 8) \div 16
          /\ ReceiverMean(e, b) = (t + 8) \div 16
      BY <1>4, <1>6, <3>1, Zenon
    <3> QED
      BY <1>4, <3>2, Shifts
  <2>2. n # 4
    BY <1>8
  <2> QED
    BY <1>6, <2>1, <2>2 DEF s, t, e
<1> QED
  BY <1>7, <1>8

\* The sides of n samples a receiver takes means of, and their mean.
Lefts(plane, n, y) ==
  IF m_addr % width_in_mb = 0 THEN <<>> ELSE [i \in 1..n |-> ReceivedSample(plane, -1, n * y + i - 1)]

Ups(plane, n, x) ==
  IF m_addr < width_in_mb THEN <<>> ELSE [i \in 1..n |-> ReceivedSample(plane, n * x + i - 1, -1)]

SidesDC(plane, n, x, y) ==
  CASE x > y /\ Ups(plane, n, x) # <<>> -> ReceiverMean(<<>>, Ups(plane, n, x))
    [] x < y /\ Lefts(plane, n, y) # <<>> -> ReceiverMean(Lefts(plane, n, y), <<>>)
    [] OTHER -> ReceiverMean(Lefts(plane, n, y), Ups(plane, n, x))

\* The sum of the encoder over such a side.
LEMMA LeftsSum ==
  ASSUME m_addr \in MBs, NEW plane \in PlaneTypes, NEW n \in {4, 16}, NEW y \in 0..1,
         n * y + n <= Size(plane), MBLeftAvailable
  PROVE  /\ Len(Lefts(plane, n, y)) = n
         /\ SumTo(Lefts(plane, n, y), n) = SumOf(LeftData(plane), n * y, n)
         /\ SumOf(LeftData(plane), n * y, n) \in Int
<1> DEFINE f == [i \in 1..n |-> ReceivedSample(plane, -1, n * y + i - 1)]
           g == [i \in 1..n |-> LeftData(plane)[n * y + i - 1]]
<1>1. Lefts(plane, n, y) = f
  BY DEF Lefts, MBLeftAvailable
<1>2. SumOf(LeftData(plane), n * y, n) = SumTo(g, n)
  BY Zenon DEF SumOf
<1>3. Size(plane) \in {8, 16} /\ n * y \in Nat
  <2>1. n * y = 0 \/ n * y = n
    BY SMT
  <2> QED
    BY <2>1 DEF Size
<1>4. ASSUME NEW i \in 1..n
      PROVE  f[i] = g[i] /\ f[i] \in Int
  <2>1. n * y + i - 1 \in 0..(Size(plane) - 1)
    BY <1>3
  <2>2. LeftData(plane)[n * y + i - 1] = ReceivedSample(plane, -1, n * y + i - 1)
    <3>1. n * y + i - 1 \in -1..(Size(plane) - 1)
      BY <2>1, <1>3
    <3> QED
      BY <3>1, EdgeReceived
  <2>3. ReceivedSample(plane, -1, n * y + i - 1) \in Int
    <3> DEFINE j == n * y + i - 1
    <3>1. j \in -1..(Size(plane) - 1) /\ -1 \in -1..(Size(plane) - 1) /\ j # -1
      BY <2>1, <1>3
    <3> HIDE DEF j
    <3>2. ReceivedSample(plane, -1, j) \in Int
      BY <3>1, BesideSample
    <3> QED
      BY <3>2 DEF j
  <2> QED
    BY <2>2, <2>3
<1>5. f = g
  <2>1. \A i \in 1..n : f[i] = g[i]
    BY <1>4
  <2>2. f = [i \in 1..n |-> f[i]] /\ g = [i \in 1..n |-> g[i]]
    OBVIOUS
  <2> HIDE DEF f, g
  <2> QED
    BY <2>1, <2>2, Zenon
<1>6. Len(f) = n
  OBVIOUS
<1>7. SumTo(f, n) \in Int
  <2>1. Terms(f, n)
    BY <1>4 DEF Terms
  <2>2. n \in Nat
    OBVIOUS
  <2> HIDE DEF f
  <2> QED
    BY <2>1, <2>2, SumToType
<1> QED
  BY <1>1, <1>2, <1>5, <1>6, <1>7

LEMMA UpsSum ==
  ASSUME m_addr \in MBs, NEW plane \in PlaneTypes, NEW n \in {4, 16}, NEW x \in 0..1,
         n * x + n <= Size(plane), MBUpAvailable
  PROVE  /\ Len(Ups(plane, n, x)) = n
         /\ SumTo(Ups(plane, n, x), n) = SumOf(UpData(plane), n * x, n)
         /\ SumOf(UpData(plane), n * x, n) \in Int
<1> DEFINE f == [i \in 1..n |-> ReceivedSample(plane, n * x + i - 1, -1)]
           g == [i \in 1..n |-> UpData(plane)[n * x + i - 1]]
<1>1. Ups(plane, n, x) = f
  <2>1. ~(m_addr < width_in_mb)
    BY SizeAssumption DEF MBUpAvailable, MBs
  <2> QED
    BY <2>1 DEF Ups
<1>2. SumOf(UpData(plane), n * x, n) = SumTo(g, n)
  BY Zenon DEF SumOf
<1>3. Size(plane) \in {8, 16} /\ n * x \in Nat
  <2>1. n * x = 0 \/ n * x = n
    BY SMT
  <2> QED
    BY <2>1 DEF Size
<1>4. ASSUME NEW i \in 1..n
      PROVE  f[i] = g[i] /\ f[i] \in Int
  <2>1. n * x + i - 1 \in 0..(Size(plane) - 1)
    BY <1>3
  <2>2. UpData(plane)[n * x + i - 1] = ReceivedSample(plane, n * x + i - 1, -1)
    <3>1. n * x + i - 1 \in -1..(Size(plane) - 1)
      BY <2>1, <1>3
    <3> QED
      BY <3>1, EdgeReceived
  <2>3. ReceivedSample(plane, n * x + i - 1, -1) \in Int
    <3> DEFINE j == n * x + i - 1
    <3>1. j \in -1..(Size(plane) - 1) /\ -1 \in -1..(Size(plane) - 1) /\ j # -1
      BY <2>1, <1>3
    <3> HIDE DEF j
    <3>2. ReceivedSample(plane, j, -1) \in Int
      BY <3>1, BesideSample
    <3> QED
      BY <3>2 DEF j
  <2> QED
    BY <2>2, <2>3
<1>5. f = g
  <2>1. \A i \in 1..n : f[i] = g[i]
    BY <1>4
  <2>2. f = [i \in 1..n |-> f[i]] /\ g = [i \in 1..n |-> g[i]]
    OBVIOUS
  <2> HIDE DEF f, g
  <2> QED
    BY <2>1, <2>2, Zenon
<1>6. Len(f) = n
  OBVIOUS
<1>7. SumTo(f, n) \in Int
  <2>1. Terms(f, n)
    BY <1>4 DEF Terms
  <2>2. n \in Nat
    OBVIOUS
  <2> HIDE DEF f
  <2> QED
    BY <2>1, <2>2, SumToType
<1> QED
  BY <1>1, <1>2, <1>5, <1>6, <1>7

\* Where there is no macroblock beside, a receiver has no side.
LEMMA NoSides ==
  ASSUME m_addr \in MBs, NEW plane, NEW n, NEW b
  PROVE  /\ ~MBLeftAvailable => Lefts(plane, n, b) = <<>>
         /\ ~MBUpAvailable => Ups(plane, n, b) = <<>>
<1>1. ~MBUpAvailable => m_addr < width_in_mb
  BY SizeAssumption DEF MBUpAvailable, MBs
<1> QED
  BY <1>1 DEF MBLeftAvailable, Lefts, Ups

LEMMA LumaDCAgrees ==
  ASSUME m_addr \in MBs
  PROVE  LumaDC = SidesDC("luma", 16, 0, 0)
<1> DEFINE lefts == Lefts("luma", 16, 0)
           ups == Ups("luma", 16, 0)
           ls == SumOf(LeftData("luma"), 0, 16)
           us == SumOf(UpData("luma"), 0, 16)
<1>1. "luma" \in PlaneTypes /\ Size("luma") = 16 /\ 16 \in {4, 16} /\ 0 \in 0..1 /\ 16 * 0 = 0 /\ 16 * 0 + 16 <= 16
  BY DEF PlaneTypes, Size
<1>2. MBLeftAvailable => Len(lefts) = 16 /\ SumTo(lefts, 16) = ls /\ ls \in Int
  <2>1. MBLeftAvailable => Len(lefts) = 16 /\ SumTo(lefts, 16) = SumOf(LeftData("luma"), 16 * 0, 16)
                           /\ SumOf(LeftData("luma"), 16 * 0, 16) \in Int
    BY <1>1, LeftsSum
  <2> QED
    BY <1>1, <2>1
<1>3. MBUpAvailable => Len(ups) = 16 /\ SumTo(ups, 16) = us /\ us \in Int
  <2>1. MBUpAvailable => Len(ups) = 16 /\ SumTo(ups, 16) = SumOf(UpData("luma"), 16 * 0, 16)
                         /\ SumOf(UpData("luma"), 16 * 0, 16) \in Int
    BY <1>1, UpsSum
  <2> QED
    BY <1>1, <2>1
<1>4. /\ ~MBLeftAvailable => lefts = <<>>
      /\ ~MBUpAvailable => ups = <<>>
  BY NoSides
<1>5. SidesDC("luma", 16, 0, 0) = ReceiverMean(lefts, ups)
  BY DEF SidesDC
<1>6. LumaDC = CASE MBLeftAvailable /\ MBUpAvailable -> RightShift(ls + us, 5)
                 [] MBLeftAvailable /\ ~MBUpAvailable -> RightShift(ls, 4)
                 [] ~MBLeftAvailable /\ MBUpAvailable -> RightShift(us, 4)
                 [] OTHER -> s_default_color_value
  BY Zenon DEF LumaDC
<1> HIDE DEF lefts, ups, ls, us
<1>7. 16 # 4 /\ Len(<<>>) = 0
  OBVIOUS
<1>8. ASSUME NEW a, NEW b, Len(a) = 16, Len(b) = 16, SumTo(a, 16) \in Int, SumTo(b, 16) \in Int
      PROVE  /\ ReceiverMean(a, b) = RightShift(SumTo(a, 16) + SumTo(b, 16), 5)
             /\ ReceiverMean(a, <<>>) = RightShift(SumTo(a, 16), 4)
             /\ ReceiverMean(<<>>, b) = RightShift(SumTo(b, 16), 4)
  BY <1>1, <1>7, <1>8, SidesMean
<1>9. CASE MBLeftAvailable /\ MBUpAvailable
  BY <1>2, <1>3, <1>5, <1>6, <1>8, <1>9
<1>10. CASE MBLeftAvailable /\ ~MBUpAvailable
  BY <1>2, <1>4, <1>5, <1>6, <1>8, <1>10
<1>11. CASE ~MBLeftAvailable /\ MBUpAvailable
  BY <1>3, <1>4, <1>5, <1>6, <1>8, <1>11
<1>12. CASE ~MBLeftAvailable /\ ~MBUpAvailable
  <2>1. ReceiverMean(<<>>, <<>>) = 128
    BY NothingMean
  <2> QED
    BY <1>4, <1>5, <1>6, <1>12, <2>1 DEF s_default_color_value
<1> QED
  BY <1>9, <1>10, <1>11, <1>12

LEMMA ChromaDCAgrees ==
  ASSUME m_addr \in MBs, NEW plane \in PlaneTypes, plane # "luma", NEW x \in 0..1, NEW y \in 0..1
  PROVE  ChromaDC(plane, x, y) = SidesDC(plane, 4, x, y)
<1> DEFINE lefts == Lefts(plane, 4, y)
           ups == Ups(plane, 4, x)
           ls == SumOf(LeftData(plane), 4 * y, 4)
           us == SumOf(UpData(plane), 4 * x, 4)
           use_left == MBLeftAvailable /\ (x = y \/ y = 1 \/ ~MBUpAvailable)
           use_up == MBUpAvailable /\ (x = y \/ x = 1 \/ ~MBLeftAvailable)
<1>1. Size(plane) = 8 /\ 4 \in {4, 16} /\ 4 * x + 4 <= Size(plane) /\ 4 * y + 4 <= Size(plane)
  BY DEF Size
<1>2. MBLeftAvailable => Len(lefts) = 4 /\ SumTo(lefts, 4) = ls /\ ls \in Int
  BY <1>1, LeftsSum
<1>3. MBUpAvailable => Len(ups) = 4 /\ SumTo(ups, 4) = us /\ us \in Int
  BY <1>1, UpsSum
<1>4. /\ ~MBLeftAvailable => lefts = <<>>
      /\ ~MBUpAvailable => ups = <<>>
  BY NoSides
<1>5. SidesDC(plane, 4, x, y) = CASE x > y /\ ups # <<>> -> ReceiverMean(<<>>, ups)
                                  [] x < y /\ lefts # <<>> -> ReceiverMean(lefts, <<>>)
                                  [] OTHER -> ReceiverMean(lefts, ups)
  BY Zenon DEF SidesDC
<1>6. ChromaDC(plane, x, y) = CASE use_left /\ use_up -> RightShift(ls + us, 3)
                                [] use_left /\ ~use_up -> RightShift(ls, 2)
                                [] ~use_left /\ use_up -> RightShift(us, 2)
                                [] OTHER -> s_default_color_value
  BY Zenon DEF ChromaDC
<1>7. Len(<<>>) = 0 /\ Len(<<>>) # 4
  OBVIOUS
<1> HIDE DEF lefts, ups, ls, us
<1>8. ASSUME NEW a, NEW b, Len(a) = 4, Len(b) = 4, SumTo(a, 4) \in Int, SumTo(b, 4) \in Int
      PROVE  /\ ReceiverMean(a, b) = RightShift(SumTo(a, 4) + SumTo(b, 4), 3)
             /\ ReceiverMean(a, <<>>) = RightShift(SumTo(a, 4), 2)
             /\ ReceiverMean(<<>>, b) = RightShift(SumTo(b, 4), 2)
  BY <1>1, <1>8, SidesMean
<1>9. /\ MBLeftAvailable => lefts # <<>>
      /\ MBUpAvailable => ups # <<>>
  BY <1>2, <1>3, <1>7
<1>10. CASE x = y
  <2>1. (use_left <=> MBLeftAvailable) /\ (use_up <=> MBUpAvailable) /\ ~(x > y) /\ ~(x < y)
    BY <1>10
  <2>2. SidesDC(plane, 4, x, y) = ReceiverMean(lefts, ups)
    BY <1>5, <2>1
  <2> HIDE DEF use_left, use_up
  <2>3. CASE MBLeftAvailable /\ MBUpAvailable
    BY <1>2, <1>3, <1>6, <1>8, <2>1, <2>2, <2>3
  <2>4. CASE MBLeftAvailable /\ ~MBUpAvailable
    BY <1>2, <1>4, <1>6, <1>8, <2>1, <2>2, <2>4
  <2>5. CASE ~MBLeftAvailable /\ MBUpAvailable
    BY <1>3, <1>4, <1>6, <1>8, <2>1, <2>2, <2>5
  <2>6. CASE ~MBLeftAvailable /\ ~MBUpAvailable
    <3>1. ReceiverMean(<<>>, <<>>) = 128
      BY NothingMean
    <3> QED
      BY <1>4, <1>6, <2>1, <2>2, <2>6, <3>1 DEF s_default_color_value
  <2> QED
    BY <2>3, <2>4, <2>5, <2>6
<1>11. CASE x > y
  <2>1. x = 1 /\ y = 0 /\ ~(x < y)
    BY <1>11
  <2>2. (use_left <=> MBLeftAvailable /\ ~MBUpAvailable) /\ (use_up <=> MBUpAvailable)
    BY <2>1
  <2> HIDE DEF use_left, use_up
  <2>3. CASE MBUpAvailable
    <3>1. SidesDC(plane, 4, x, y) = ReceiverMean(<<>>, ups)
      BY <1>5, <1>9, <1>11, <2>1, <2>3
    <3> QED
      BY <1>3, <1>6, <1>8, <2>2, <2>3, <3>1
  <2>4. CASE ~MBUpAvailable
    <3>1. SidesDC(plane, 4, x, y) = ReceiverMean(lefts, <<>>)
      BY <1>4, <1>5, <2>1, <2>4
    <3>2. CASE MBLeftAvailable
      BY <1>2, <1>6, <1>8, <2>2, <2>4, <3>1, <3>2
    <3>3. CASE ~MBLeftAvailable
      <4>1. ReceiverMean(<<>>, <<>>) = 128
        BY NothingMean
      <4> QED
        BY <1>4, <1>6, <2>2, <2>4, <3>1, <3>3, <4>1 DEF s_default_color_value
    <3> QED
      BY <3>2, <3>3
  <2> QED
    BY <2>3, <2>4
<1>12. CASE x < y
  <2>1. x = 0 /\ y = 1 /\ ~(x > y)
    BY <1>12
  <2>2. (use_left <=> MBLeftAvailable) /\ (use_up <=> MBUpAvailable /\ ~MBLeftAvailable)
    BY <2>1
  <2> HIDE DEF use_left, use_up
  <2>3. CASE MBLeftAvailable
    <3>1. SidesDC(plane, 4, x, y) = ReceiverMean(lefts, <<>>)
      BY <1>5, <1>9, <1>12, <2>1, <2>3
    <3> QED
      BY <1>2, <1>6, <1>8, <2>2, <2>3, <3>1
  <2>4. CASE ~MBLeftAvailable
    <3>1. SidesDC(plane, 4, x, y) = ReceiverMean(<<>>, ups)
      BY <1>4, <1>5, <2>1, <2>4
    <3>2. CASE MBUpAvailable
      BY <1>3, <1>6, <1>8, <2>2, <2>4, <3>1, <3>2
    <3>3. CASE ~MBUpAvailable
      <4>1. ReceiverMean(<<>>, <<>>) = 128
        BY NothingMean
      <4> QED
        BY <1>4, <1>6, <2>2, <2>4, <3>1, <3>3, <4>1 DEF s_default_color_value
    <3> QED
      BY <3>2, <3>3
  <2> QED
    BY <2>3, <2>4
<1>13. x = y \/ x > y \/ x < y
  OBVIOUS
<1> QED
  BY <1>10, <1>11, <1>12, <1>13

\* DC of a whole plane.
LEMMA DCAgrees ==
  ASSUME m_addr \in MBs, NEW plane \in PlaneTypes, NEW s \in SamplesOf(Size(plane))
  PROVE  DCPrediction(plane)[s] = ReceiverDC(plane)[s]
<1> DEFINE n == IF plane = "luma" THEN 16 ELSE 4
<1>1. ReceiverDC(plane) = [i \in SamplesOf(Size(plane)) |->
          [b \in SamplesOf(Size(plane) \div n) |-> SidesDC(plane, n, b[1], b[2])][<<i[1] \div n, i[2] \div n>>]]
  BY Zenon DEF ReceiverDC, SidesDC, Lefts, Ups
<1>2. CASE plane = "luma"
  <2>1. Size(plane) = 16 /\ n = 16 /\ 16 \div 16 = 1
    BY <1>2 DEF Size
  <2>2. s[1] \div 16 = 0 /\ s[2] \div 16 = 0
    BY <2>1 DEF SamplesOf
  <2>3. <<0, 0>> \in SamplesOf(1)
    BY DEF SamplesOf
  <2> HIDE DEF n
  <2>4. ReceiverDC(plane)[s] = [b \in SamplesOf(16 \div 16) |-> SidesDC(plane, 16, b[1], b[2])][<<s[1] \div 16, s[2] \div 16>>]
    <3> DEFINE G == [b \in SamplesOf(16 \div 16) |-> SidesDC(plane, 16, b[1], b[2])]
    <3>0. Size(plane) \div n = 16 \div 16
      BY <2>1
    <3>1. ReceiverDC(plane) = [i \in SamplesOf(16) |-> G[<<i[1] \div 16, i[2] \div 16>>]]
      BY <1>1, <2>1, <3>0, SMT
    <3>2. s \in SamplesOf(16)
      BY <2>1
    <3> HIDE DEF G
    <3>3. ReceiverDC(plane)[s] = G[<<s[1] \div 16, s[2] \div 16>>]
      BY <3>1, <3>2, Zenon
    <3> QED
      BY <3>3 DEF G
  <2>5. ReceiverDC(plane)[s] = SidesDC(plane, 16, 0, 0)
    BY <2>1, <2>2, <2>3, <2>4
  <2>6. DCPrediction(plane)[s] = LumaDC
    BY <1>2, <2>1, Zenon DEF DCPrediction
  <2> QED
    BY <1>2, <2>5, <2>6, LumaDCAgrees
<1>3. CASE plane # "luma"
  <2>1. Size(plane) = 8 /\ n = 4 /\ 8 \div 4 = 2
    BY <1>3 DEF Size
  <2> DEFINE x == s[1] \div 4
             y == s[2] \div 4
  <2>2. x \in 0..1 /\ y \in 0..1 /\ <<x, y>> \in SamplesOf(2)
    BY <2>1 DEF SamplesOf
  <2> HIDE DEF n, x, y
  <2>3. ReceiverDC(plane)[s] = [b \in SamplesOf(8 \div 4) |-> SidesDC(plane, 4, b[1], b[2])][<<x, y>>]
    BY <1>1, <2>1, Zenon DEF x, y
  <2>4. ReceiverDC(plane)[s] = SidesDC(plane, 4, x, y)
    BY <2>1, <2>2, <2>3
  <2>5. DCPrediction(plane)[s] = [b \in SamplesOf(2) |-> ChromaDC(plane, b[1], b[2])][<<x, y>>]
    BY <1>3, <2>1, Zenon DEF DCPrediction, x, y
  <2>6. DCPrediction(plane)[s] = ChromaDC(plane, x, y)
    BY <2>2, <2>5
  <2> QED
    BY <1>3, <2>2, <2>4, <2>6, ChromaDCAgrees
<1> QED
  BY <1>2, <1>3

-----------------------------------------------------------------------------
(* The plane.                                                              *)

\* The slopes are the receiver's, and integers.
LEMMA SlopesAgree ==
  ASSUME m_addr \in MBs, NEW plane \in PlaneTypes, MBLeftAvailable, MBUpAvailable,
         NEW n, n = Size(plane), NEW half, half = n \div 2
  PROVE  /\ Slope(UpData(plane), n) =
              SumTo([i \in 1..half |-> i * (ReceivedSample(plane, half - 1 + i, -1) - ReceivedSample(plane, half - 1 - i, -1))], half)
         /\ Slope(LeftData(plane), n) =
              SumTo([i \in 1..half |-> i * (ReceivedSample(plane, -1, half - 1 + i) - ReceivedSample(plane, -1, half - 1 - i))], half)
         /\ Slope(UpData(plane), n) \in Int /\ Slope(LeftData(plane), n) \in Int
<1> DEFINE up == UpData(plane)
           left == LeftData(plane)
           h == [i \in 1..half |-> i * (ReceivedSample(plane, half - 1 + i, -1) - ReceivedSample(plane, half - 1 - i, -1))]
           v == [i \in 1..half |-> i * (ReceivedSample(plane, -1, half - 1 + i) - ReceivedSample(plane, -1, half - 1 - i))]
           f == [i \in 1..half |-> i * (up[half - 1 + i] - up[half - 1 - i])]
           g == [i \in 1..half |-> i * (left[half - 1 + i] - left[half - 1 - i])]
<1>1. (n = 16 /\ half = 8) \/ (n = 8 /\ half = 4)
  BY DEF Size
<1>2. Slope(up, n) = SumTo(f, half) /\ Slope(left, n) = SumTo(g, half)
  BY Zenon DEF Slope
<1>3. ASSUME NEW i \in 1..half
      PROVE  h[i] = f[i] /\ v[i] = g[i] /\ f[i] \in Int /\ g[i] \in Int
  <2> DEFINE j == half - 1 + i
             k == half - 1 - i
  <2>1. j \in -1..(Size(plane) - 1) /\ k \in -1..(Size(plane) - 1) /\ -1 \in -1..(Size(plane) - 1)
    BY <1>1
  <2> HIDE DEF j, k, up, left
  <2>2. /\ up[j] = ReceivedSample(plane, j, -1) /\ up[k] = ReceivedSample(plane, k, -1)
        /\ left[j] = ReceivedSample(plane, -1, j) /\ left[k] = ReceivedSample(plane, -1, k)
    BY <2>1, EdgeReceived DEF up, left
  <2>3. /\ ReceivedSample(plane, j, -1) \in Int /\ ReceivedSample(plane, k, -1) \in Int
        /\ ReceivedSample(plane, -1, j) \in Int /\ ReceivedSample(plane, -1, k) \in Int
    BY <2>1, BesideSample
  <2>4. i \in Int
    BY <1>1
  <2>5. h[i] = i * (ReceivedSample(plane, j, -1) - ReceivedSample(plane, k, -1))
        /\ v[i] = i * (ReceivedSample(plane, -1, j) - ReceivedSample(plane, -1, k))
        /\ f[i] = i * (up[j] - up[k]) /\ g[i] = i * (left[j] - left[k])
    BY Zenon DEF j, k
  <2>6. i * (up[j] - up[k]) \in Int /\ i * (left[j] - left[k]) \in Int
    BY <2>2, <2>3, <2>4
  <2> HIDE DEF h, v, f, g
  <2> QED
    BY <2>2, <2>5, <2>6
<1>4. /\ h = [i \in 1..half |-> h[i]] /\ v = [i \in 1..half |-> v[i]]
      /\ f = [i \in 1..half |-> f[i]] /\ g = [i \in 1..half |-> g[i]]
  OBVIOUS
<1> HIDE DEF h, v, f, g
<1>5. h = f /\ v = g
  BY <1>3, <1>4, Zenon
<1>6. SumTo(f, half) \in Int /\ SumTo(g, half) \in Int
  <2>1. Terms(f, half) /\ Terms(g, half) /\ half \in Nat
    BY <1>1, <1>3 DEF Terms
  <2> QED
    BY <2>1, SumToType
<1> QED
  BY <1>2, <1>5, <1>6 DEF h, v

\* A sample of the plane that is not below all colours.
LEMMA PlaneAgrees ==
  ASSUME m_addr \in MBs, NEW plane \in PlaneTypes, MBLeftAvailable, MBUpAvailable,
         NEW s \in SamplesOf(Size(plane)), ~(ReceiverPlane(plane)[s] < 0)
  PROVE  PlaneMode(plane)[s] = ClampColor(ReceiverPlane(plane)[s])
<1> DEFINE n == Size(plane)
           half == n \div 2
           factor == IF n = 16 THEN 5 ELSE 34
           h == Slope(UpData(plane), n)
           v == Slope(LeftData(plane), n)
           a == 16 * (ReceivedSample(plane, -1, n - 1) + ReceivedSample(plane, n - 1, -1))
           b == (factor * h + 32) \div 64
           c == (factor * v + 32) \div 64
           middle == half - 1
           H == SumTo([i \in 1..half |-> i * (ReceivedSample(plane, half - 1 + i, -1) - ReceivedSample(plane, half - 1 - i, -1))], half)
           V == SumTo([i \in 1..half |-> i * (ReceivedSample(plane, -1, half - 1 + i) - ReceivedSample(plane, -1, half - 1 - i))], half)
           factors == IF plane = "luma" THEN 5 ELSE 34
           encoded == a + b * (s[1] - middle) + c * (s[2] - middle)
           exact == (a + b * (s[1] - half + 1) + c * (s[2] - half + 1) + 16) \div 32
<1>1. /\ (n = 16 /\ half = 8) \/ (n = 8 /\ half = 4)
      /\ factors = factor
  BY DEF Size
<1>2. h = H /\ v = V /\ h \in Int /\ v \in Int
  BY SlopesAgree
<1>3. /\ LeftData(plane)[n - 1] = ReceivedSample(plane, -1, n - 1)
      /\ UpData(plane)[n - 1] = ReceivedSample(plane, n - 1, -1)
      /\ ReceivedSample(plane, -1, n - 1) \in Int /\ ReceivedSample(plane, n - 1, -1) \in Int
  <2> DEFINE k == n - 1
  <2>1. k \in -1..(Size(plane) - 1) /\ -1 \in -1..(Size(plane) - 1)
    BY <1>1
  <2> HIDE DEF k
  <2>2. LeftData(plane)[k] = ReceivedSample(plane, -1, k) /\ UpData(plane)[k] = ReceivedSample(plane, k, -1)
    BY <2>1, EdgeReceived
  <2>3. ReceivedSample(plane, -1, k) \in Int /\ ReceivedSample(plane, k, -1) \in Int
    BY <2>1, BesideSample
  <2> QED
    BY <2>2, <2>3 DEF k
<1>4. factor * h \in Int /\ factor * v \in Int
  <2> HIDE DEF h, v, n
  <2> QED
    BY <1>2
<1>5. RightShift(factor * h, 6) = b /\ RightShift(factor * v, 6) = c
  <2> HIDE DEF h, v, factor
  <2> QED
    BY <1>4, Shifts
<1>6. PlaneMode(plane)[s] = ClampColor(UnsignedRightShift(encoded, 5))
  <2>1. PlaneMode(plane)[s] =
          ClampColor(UnsignedRightShift(16 * (LeftData(plane)[n - 1] + UpData(plane)[n - 1])
                                        + RightShift(factor * h, 6) * (s[1] - middle)
                                        + RightShift(factor * v, 6) * (s[2] - middle), 5))
    BY Zenon DEF PlaneMode
  <2> HIDE DEF n, factor, h, v, middle, b, c
  <2> QED
    BY <1>3, <1>5, <2>1, Zenon
<1>7. ReceiverPlane(plane)[s] = exact
  <2>1. ReceiverPlane(plane)[s] =
          (a + ((factors * H + 32) \div 64) * (s[1] - half + 1) + ((factors * V + 32) \div 64) * (s[2] - half + 1) + 16) \div 32
    BY Zenon DEF ReceiverPlane
  <2> HIDE DEF n, half, factor, factors, h, v, H, V, a
  <2> QED
    BY <1>1, <1>2, <2>1, Zenon
<1>8. s[1] - middle = s[1] - half + 1 /\ s[2] - middle = s[2] - half + 1 /\ s[1] - middle \in Int /\ s[2] - middle \in Int
  <2>1. s[1] \in Int /\ s[2] \in Int
    BY <1>1 DEF SamplesOf
  <2> HIDE DEF n
  <2> QED
    BY <1>1, <2>1
<1>9. a \in Int /\ b \in Int /\ c \in Int
  <2> HIDE DEF n, h, v, factor
  <2> QED
    BY <1>3, <1>4
<1> HIDE DEF n, half, factor, h, v, a, b, c, middle, H, V, factors
<1>10. encoded \in Int
  <2>1. b * (s[1] - middle) \in Int /\ c * (s[2] - middle) \in Int
    BY <1>8, <1>9
  <2> QED
    BY <1>9, <2>1
<1>11. exact = (encoded + 16) \div 32
  BY <1>8, Zenon
<1> HIDE DEF encoded, exact
<1>12. encoded + 16 >= 0
  BY <1>7, <1>10, <1>11
<1>13. UnsignedRightShift(encoded, 5) = exact
  <2>1. 2^(5 - 1) = 16
    OBVIOUS
  <2>2. UnsignedRightShift(encoded, 5) = RightShift(encoded, 5)
    BY <1>12, <2>1 DEF UnsignedRightShift
  <2> QED
    BY <1>10, <1>11, <2>2, Shifts
<1> QED
  BY <1>6, <1>7, <1>13

\* All the predictions of a plane.
LEMMA PlanePredicted ==
  ASSUME m_addr \in MBs, NEW plane \in PlaneTypes, NEW type \in AllowedTypes
  PROVE  /\ DOMAIN ReceiverMacroblock(plane, type) = SamplesOf(Size(plane))
         /\ \A s \in SamplesOf(Size(plane)) :
              \/ type = "Plane" /\ ReceiverPlane(plane)[s] < 0
              \/ CalculateAllPredictionData(plane, type)[s] = ReceiverMacroblock(plane, type)[s]
<1> DEFINE samples == SamplesOf(Size(plane))
<1>1. CASE type = "DC"
  <2>1. CalculateAllPredictionData(plane, type) = DCPrediction(plane) /\ ReceiverMacroblock(plane, type) = ReceiverDC(plane)
    BY <1>1 DEF CalculateAllPredictionData, ReceiverMacroblock
  <2>2. DOMAIN ReceiverDC(plane) = samples
    BY Zenon DEF ReceiverDC
  <2> QED
    BY <2>1, <2>2, DCAgrees
<1>2. CASE type = "Vertical"
  <2>1. /\ CalculateAllPredictionData(plane, type) = [s \in samples |-> UpData(plane)[s[1]]]
        /\ ReceiverMacroblock(plane, type) = [s \in samples |-> ReceivedSample(plane, s[1], -1)]
    BY <1>2 DEF CalculateAllPredictionData, ReceiverMacroblock
  <2>2. ASSUME NEW s \in samples
        PROVE  UpData(plane)[s[1]] = ReceivedSample(plane, s[1], -1)
    <3>1. s[1] \in -1..(Size(plane) - 1)
      BY DEF SamplesOf, Size
    <3> QED
      BY <3>1, EdgeReceived
  <2> QED
    BY <2>1, <2>2
<1>3. CASE type = "Horizontal"
  <2>1. /\ CalculateAllPredictionData(plane, type) = [s \in samples |-> LeftData(plane)[s[2]]]
        /\ ReceiverMacroblock(plane, type) = [s \in samples |-> ReceivedSample(plane, -1, s[2])]
    BY <1>3 DEF CalculateAllPredictionData, ReceiverMacroblock
  <2>2. ASSUME NEW s \in samples
        PROVE  LeftData(plane)[s[2]] = ReceivedSample(plane, -1, s[2])
    <3>1. s[2] \in -1..(Size(plane) - 1)
      BY DEF SamplesOf, Size
    <3> QED
      BY <3>1, EdgeReceived
  <2> QED
    BY <2>1, <2>2
<1>4. CASE type = "Plane"
  <2>1. MBLeftAvailable /\ MBUpAvailable
    BY <1>4 DEF AllowedTypes
  <2>2. /\ CalculateAllPredictionData(plane, type) = PlaneMode(plane)
        /\ ReceiverMacroblock(plane, type) = [s \in DOMAIN ReceiverPlane(plane) |-> ClampColor(ReceiverPlane(plane)[s])]
    BY <1>4 DEF CalculateAllPredictionData, ReceiverMacroblock
  <2>3. DOMAIN ReceiverPlane(plane) = samples
    BY Zenon DEF ReceiverPlane
  <2>4. ASSUME NEW s \in samples, ~(ReceiverPlane(plane)[s] < 0)
        PROVE  PlaneMode(plane)[s] = ClampColor(ReceiverPlane(plane)[s])
    BY <2>1, <2>4, PlaneAgrees
  <2> HIDE DEF samples
  <2> QED
    BY <1>4, <2>2, <2>3, <2>4, Zenon DEF samples
<1>5. type \in {"DC", "Horizontal", "Vertical", "Plane"}
  BY DEF AllowedTypes
<1> QED
  BY <1>1, <1>2, <1>3, <1>4, <1>5

-----------------------------------------------------------------------------
(* Predictions over time.                                                  *)

\* Predictions of the macroblock are there only until the first block is tried.
MapUntilTried == m_predicted_data_map # NothingPredicted => pc = "trial" /\ trial = 0

PredictionIInv == IInv /\ MapUntilTried /\ PredictionIsReceivers

\* What a receiver predicts depends on the macroblock and the block only.
LEMMA SamePlace ==
  ASSUME m_addr' = m_addr, index' = index, NEW p, NEW type
  PROVE  ReceiverAllows(p, type)' = ReceiverAllows(p, type) /\ ReceiverBlock(p, type)' = ReceiverBlock(p, type)
<1>1. ASSUME NEW x, NEW y
      PROVE  Decoded(x, y)' = Decoded(x, y)
  BY Zenon DEF Decoded
<1>2. InPicture(p)' = InPicture(p)
  BY Zenon DEF InPicture
<1>3. Line(p)' = Line(p)
  BY <1>1, <1>2 DEF Line
<1>4. ASSUME NEW t
      PROVE  ReceiverAllows(p, t)' = ReceiverAllows(p, t)
  BY <1>1, <1>2, Zenon DEF ReceiverAllows
<1>5. ReceiverBlock(p, type)' = ReceiverBlock(p, type)
  BY <1>3, <1>4 DEF ReceiverBlock
<1> QED
  BY <1>4, <1>5, Zenon

LEMMA SameMacroblock ==
  ASSUME m_addr' = m_addr, NEW plane, NEW type
  PROVE  /\ ReceiverMacroblock(plane, type)' = ReceiverMacroblock(plane, type)
         /\ ReceiverPlane(plane)' = ReceiverPlane(plane)
         /\ ReceiverTypes' = ReceiverTypes
<1>1. ASSUME NEW x, NEW y
      PROVE  ReceivedSample(plane, x, y)' = ReceivedSample(plane, x, y)
  BY Zenon DEF ReceivedSample
<1>2. ReceiverPlane(plane)' = ReceiverPlane(plane)
  BY <1>1, Zenon DEF ReceiverPlane
<1>3. ReceiverDC(plane)' = ReceiverDC(plane)
  <2> DEFINE n == IF plane = "luma" THEN 16 ELSE 4
  <2>1. ASSUME NEW b
        PROVE  Lefts(plane, n, b)' = Lefts(plane, n, b) /\ Ups(plane, n, b)' = Ups(plane, n, b)
    BY <1>1 DEF Lefts, Ups
  <2>2. ASSUME NEW x, NEW y
        PROVE  SidesDC(plane, n, x, y)' = SidesDC(plane, n, x, y)
    <3>1. Lefts(plane, n, y)' = Lefts(plane, n, y) /\ Ups(plane, n, x)' = Ups(plane, n, x)
      BY <2>1
    <3> HIDE DEF n
    <3> QED
      BY <3>1, SMT DEF SidesDC
  <2>3. ReceiverDC(plane) = [i \in SamplesOf(Size(plane)) |->
          [b \in SamplesOf(Size(plane) \div n) |-> SidesDC(plane, n, b[1], b[2])][<<i[1] \div n, i[2] \div n>>]]
    BY Zenon DEF ReceiverDC, SidesDC, Lefts, Ups
  <2>4. ReceiverDC(plane)' = [i \in SamplesOf(Size(plane)) |->
          [b \in SamplesOf(Size(plane) \div n) |-> SidesDC(plane, n, b[1], b[2])'][<<i[1] \div n, i[2] \div n>>]]
    BY Zenon DEF ReceiverDC, SidesDC, Lefts, Ups
  <2> HIDE DEF n
  <2> QED
    BY <2>2, <2>3, <2>4
<1>4. ReceiverTypes' = ReceiverTypes
  BY Zenon DEF ReceiverTypes
<1>5. ReceiverMacroblock(plane, type)' = ReceiverMacroblock(plane, type)
  BY <1>1, <1>2, <1>3, Zenon DEF ReceiverMacroblock
<1> QED
  BY <1>2, <1>4, <1>5

LEMMA PredictionInitEstablishes == PredictionInit => PredictionIInv
<1> SUFFICES ASSUME PredictionInit
             PROVE  PredictionIInv
  OBVIOUS
<1>1. IInv
  BY InitImplies, InitEstablishes
<1>2. m_predicted_data_map = NothingPredicted /\ pc = "intra16"
  BY DEF PredictionInit, Init
<1> QED
  BY <1>1, <1>2 DEF PredictionIInv, MapUntilTried, PredictionIsReceivers, BlocksAreReceivers, MacroblocksAreReceivers

\* The predictions of a macroblock are the receiver's as soon as they are made.
LEMMA PredictMacroblockKeeps ==
  ASSUME PredictionIInv, PredictMacroblock
  PROVE  MapUntilTried' /\ PredictionIsReceivers'
<1>1. m_addr \in MBs
  BY DEF PredictionIInv, IInv, TypeOK
<1>2. pc' = "trial" /\ trial' = 0 /\ m_addr' = m_addr
  BY DEF PredictionIInv, IInv, Idle, PredictMacroblock, TryIntra16
<1>3. m_predicted_data_map' = [k \in PlaneTypes \X AllowedTypes |-> CalculateAllPredictionData(k[1], k[2])]
  BY DEF PredictMacroblock
<1>4. DOMAIN m_predicted_data_map' = PlaneTypes \X ReceiverTypes'
  <2>1. AllowedTypes = ReceiverTypes /\ ReceiverTypes' = ReceiverTypes
    BY <1>1, <1>2, TypesAgree, SameMacroblock
  <2> QED
    BY <1>3, <2>1
<1>5. ASSUME NEW k \in DOMAIN m_predicted_data_map', NEW s \in DOMAIN ReceiverMacroblock(k[1], k[2])'
      PROVE  \/ k[2] = "Plane" /\ ReceiverPlane(k[1])'[s] < 0
             \/ m_predicted_data_map'[k][s] = ReceiverMacroblock(k[1], k[2])'[s]
  <2>1. k[1] \in PlaneTypes /\ k[2] \in AllowedTypes /\ m_predicted_data_map'[k] = CalculateAllPredictionData(k[1], k[2])
    BY <1>3
  <2>2. /\ ReceiverMacroblock(k[1], k[2])' = ReceiverMacroblock(k[1], k[2])
        /\ ReceiverPlane(k[1])' = ReceiverPlane(k[1])
    BY <1>2, SameMacroblock
  <2>3. /\ DOMAIN ReceiverMacroblock(k[1], k[2]) = SamplesOf(Size(k[1]))
        /\ \A r \in SamplesOf(Size(k[1])) :
             \/ k[2] = "Plane" /\ ReceiverPlane(k[1])[r] < 0
             \/ CalculateAllPredictionData(k[1], k[2])[r] = ReceiverMacroblock(k[1], k[2])[r]
    BY <1>1, <2>1, PlanePredicted
  <2> QED
    BY <2>1, <2>2, <2>3, Zenon
<1>6. MacroblocksAreReceivers'
  BY <1>4, <1>5, Zenon DEF MacroblocksAreReceivers
<1>7. BlocksAreReceivers'
  BY <1>2 DEF BlocksAreReceivers
<1> QED
  BY <1>2, <1>6, <1>7 DEF MapUntilTried, PredictionIsReceivers

\* So are those of a block.
LEMMA PredictBlockKeeps ==
  ASSUME PredictionIInv, PredictBlock
  PROVE  MapUntilTried' /\ PredictionIsReceivers'
<1>1. AtBlock /\ trial \in PredictionTypes
  BY DEF PredictionIInv, IInv, TypeOK, PredictBlock, TryMode, AtBlock, PredictionTypes
<1>2. m_addr' = m_addr /\ index' = index /\ trial' = trial + 1 /\ trial' - 1 = trial
  BY <1>1 DEF PredictBlock, TryMode, PredictionTypes
<1>3. m_predicted_data_map' = NothingPredicted
  BY DEF PredictBlock
<1>4. m_predicted_data' =
        IF Predictable(Place(index), trial) THEN Calculate(Place(index), trial) ELSE m_predicted_data
  BY DEF PredictBlock
<1> PICK p : p = Place(index)
  OBVIOUS
<1> PICK t : t = trial
  OBVIOUS
<1>5. ReceiverAllows(p, t)' => m_predicted_data' = ReceiverBlock(p, t)'
  <2>1. ReceiverAllows(p, t)' = ReceiverAllows(p, t) /\ ReceiverBlock(p, t)' = ReceiverBlock(p, t)
    BY <1>2, SamePlace
  <2>2. ReceiverAllows(p, t) => Predictable(p, t) /\ Calculate(p, t) = ReceiverBlock(p, t)
    BY <1>1, BlockPredicted
  <2> QED
    BY <1>4, <2>1, <2>2
<1>6. BlocksAreReceivers'
  <2>1. Place(index)' = p /\ (trial - 1)' = t
    BY <1>2 DEF Place
  <2> QED
    BY <1>5, <2>1 DEF BlocksAreReceivers
<1>7. NothingPredicted' = NothingPredicted
  BY DEF NothingPredicted, BlankBlock
<1> QED
  BY <1>3, <1>6, <1>7 DEF MapUntilTried, PredictionIsReceivers, MacroblocksAreReceivers

\* Every step keeps it.
LEMMA PredictionNextKeeps == PredictionIInv /\ [PredictionNext]_prediction_vars => PredictionIInv'
<1> SUFFICES ASSUME PredictionIInv, [PredictionNext]_prediction_vars
             PROVE  PredictionIInv'
  OBVIOUS
<1>1. IInv'
  BY StepImplies, NextKeeps DEF PredictionIInv
<1>2. NothingPredicted' = NothingPredicted
  BY DEF NothingPredicted, BlankBlock
<1>3. CASE PredictMacroblock
  BY <1>1, <1>3, PredictMacroblockKeeps DEF PredictionIInv
<1>4. CASE PredictBlock
  BY <1>1, <1>4, PredictBlockKeeps DEF PredictionIInv
<1>5. CASE ReconstructBlock
  <2>1. m_predicted_data_map' = NothingPredicted
    BY <1>5 DEF PredictionIInv, MapUntilTried, ReconstructBlock, DecideMode
  <2>2. trial' = 0
    BY <1>5 DEF ReconstructBlock, DecideMode
  <2> QED
    BY <1>1, <1>2, <2>1, <2>2 DEF PredictionIInv, MapUntilTried, PredictionIsReceivers,
       BlocksAreReceivers, MacroblocksAreReceivers
<1>6. CASE OtherStep
  <2>1. pc # "trial" /\ pc' # "trial" /\ m_predicted_data_map' = m_predicted_data_map
    BY <1>6 DEF OtherStep, ChooseIntra4, ChooseIntra16, NextMB
  <2>2. m_predicted_data_map' = NothingPredicted
    BY <2>1 DEF PredictionIInv, MapUntilTried
  <2> QED
    BY <1>1, <1>2, <2>1, <2>2 DEF PredictionIInv, MapUntilTried, PredictionIsReceivers,
       BlocksAreReceivers, MacroblocksAreReceivers
<1>7. CASE UNCHANGED prediction_vars
  <2>1. /\ m_addr' = m_addr /\ index' = index /\ pc' = pc /\ trial' = trial
        /\ m_predicted_data' = m_predicted_data /\ m_predicted_data_map' = m_predicted_data_map
    BY <1>7 DEF prediction_vars, vars
  <2>2. MapUntilTried'
    BY <1>2, <2>1 DEF PredictionIInv, MapUntilTried
  <2>3. BlocksAreReceivers'
    <3> PICK p : p = Place(index)
      OBVIOUS
    <3> PICK t : t = trial - 1
      OBVIOUS
    <3>1. ReceiverAllows(p, t)' = ReceiverAllows(p, t) /\ ReceiverBlock(p, t)' = ReceiverBlock(p, t)
      BY <2>1, SamePlace
    <3>2. Place(index)' = p /\ (trial - 1)' = t
      BY <2>1 DEF Place
    <3>3. pc = "trial" /\ trial > 0 /\ ReceiverAllows(p, t) => m_predicted_data = ReceiverBlock(p, t)
      BY DEF PredictionIInv, PredictionIsReceivers, BlocksAreReceivers
    <3> QED
      BY <2>1, <3>1, <3>2, <3>3 DEF BlocksAreReceivers
  <2>4. MacroblocksAreReceivers'
    <3>1. SUFFICES ASSUME m_predicted_data_map # NothingPredicted
                   PROVE  MacroblocksAreReceivers'
      BY <1>2, <2>1 DEF MacroblocksAreReceivers
    <3>2. /\ DOMAIN m_predicted_data_map = PlaneTypes \X ReceiverTypes
          /\ \A k \in DOMAIN m_predicted_data_map :
               \A s \in DOMAIN ReceiverMacroblock(k[1], k[2]) :
                 \/ k[2] = "Plane" /\ ReceiverPlane(k[1])[s] < 0
                 \/ m_predicted_data_map[k][s] = ReceiverMacroblock(k[1], k[2])[s]
      BY <3>1, Zenon DEF PredictionIInv, PredictionIsReceivers, MacroblocksAreReceivers
    <3>3. ASSUME NEW k \in DOMAIN m_predicted_data_map
          PROVE  /\ ReceiverMacroblock(k[1], k[2])' = ReceiverMacroblock(k[1], k[2])
                 /\ ReceiverPlane(k[1])' = ReceiverPlane(k[1])
                 /\ ReceiverTypes' = ReceiverTypes
      BY <2>1, SameMacroblock
    <3>4. ReceiverTypes' = ReceiverTypes
      BY <2>1, Zenon DEF ReceiverTypes
    <3>5. DOMAIN m_predicted_data_map' = PlaneTypes \X ReceiverTypes'
      BY <2>1, <3>2, <3>4, Zenon
    <3>6. ASSUME NEW k \in DOMAIN m_predicted_data_map', NEW s \in DOMAIN ReceiverMacroblock(k[1], k[2])'
          PROVE  \/ k[2] = "Plane" /\ ReceiverPlane(k[1])'[s] < 0
                 \/ m_predicted_data_map'[k][s] = ReceiverMacroblock(k[1], k[2])'[s]
      BY <2>1, <3>2, <3>3, Zenon
    <3> QED
      BY <3>5, <3>6, Zenon DEF MacroblocksAreReceivers
  <2> QED
    BY <1>1, <2>2, <2>3, <2>4 DEF PredictionIInv, PredictionIsReceivers
<1> QED
  BY <1>3, <1>4, <1>5, <1>6, <1>7 DEF PredictionNext

\* Every prediction that is compared is the one a receiver makes: of the nine modes of
\* a 4x4 block (BlockNeighbors, Intra4LumaPredictor), whichever blocks around it are
\* coded later, and of the types of a macroblock (MBNeighbors, Intra16LumaPredictor,
\* Intra8ChromaPredictor), but where the plane lies below all colours.
THEOREM PredictionAgrees == PredictionSpec => []PredictionIsReceivers
<1>1. PredictionIInv => PredictionIsReceivers
  BY DEF PredictionIInv
<1> QED
  BY <1>1, PredictionInitEstablishes, PredictionNextKeeps, PTL DEF PredictionSpec
=============================================================================
