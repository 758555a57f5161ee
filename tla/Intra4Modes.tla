----------------------------- MODULE Intra4Modes -----------------------------
(***************************************************************************)
(* Prediction modes of the intra macroblocks: Intra4LumaFlowNode tries the  *)
(* nine modes of every 4x4 block one after the other, and writes the one    *)
(* it chose as a difference to the most probable one.                       *)
(*                                                                         *)
(* The predictor object outlives a trial: a mode whose neighbouring samples *)
(* are missing leaves in it the mode and the samples of an earlier trial,   *)
(* and the trial goes on with them.  What a mode costs is a choice, made    *)
(* per macroblock by a pattern.                                             *)
(***************************************************************************)
EXTENDS Integers, Sequences, FiniteSets

CONSTANTS
  width_in_mb, height_in_mb,
  CostPatterns  \* the costs of the modes, by index of the block in coding order

Vertical == 0
Horizontal == 1
DC == 2
DownLeft == 3
DownRight == 4
VerticalRight == 5
HorizontalDown == 6
VerticalLeft == 7
HorizontalUp == 8
None == 9

PredictionTypes == 0..8

ASSUME SizeAssumption == width_in_mb \in Nat \ {0} /\ height_in_mb \in Nat \ {0}

ASSUME CostAssumption == CostPatterns \subseteq [0..15 -> [PredictionTypes -> Nat]]

VARIABLES
  m_addr,              \* the macroblock being coded
  pc,
  pattern,             \* the costs of its modes
  m_type,              \* macroblock type, by address; "none" before it is coded
  m_intra4_types,      \* modes of the macroblocks coded as I4, by block in raster order
  index,               \* the block being coded, in coding order
  m_prediction_types,  \* modes of this macroblock so far
  trial,               \* the mode tried next
  m_prediction_type,   \* mode in the predictor of the block
  min_rdo_cost, m_best_prediction_type,
  reading,             \* ghost: modes a receiver finds from the elements of this macroblock
  received             \* ghost: macroblocks as a receiver reads them, in order

vars == <<m_addr, pc, pattern, m_type, m_intra4_types, index, m_prediction_types,
          trial, m_prediction_type, min_rdo_cost, m_best_prediction_type, reading, received>>

-----------------------------------------------------------------------------
(* Neighbours.                                                             *)

MBs == 0..(width_in_mb * height_in_mb - 1)

\* Place of a block in the macroblock, by its index in coding order.
Place(i) ==
  [x |-> 2 * ((i \div 4) % 2) + (i % 2), y |-> 2 * (i \div 8) + ((i % 4) \div 2)]

InPicture(p) == [x |-> 4 * (m_addr % width_in_mb) + p.x, y |-> 4 * (m_addr \div width_in_mb) + p.y]

IsLeftAvailable(p) == InPicture(p).x > 0

IsUpAvailable(p) == InPicture(p).y > 0

\* The neighbouring macroblock across the edge, or this one.
GetLeftMBType(p) == IF p.x = 0 THEN m_type[m_addr - 1] ELSE "I4"

GetUpMBType(p) == IF p.y = 0 THEN m_type[m_addr - width_in_mb] ELSE "I4"

GetLeftPredictionType(p) ==
  IF p.x = 0 THEN m_intra4_types[m_addr - 1][3 + 4 * p.y]
  ELSE m_prediction_types[p.x - 1 + 4 * p.y]

\* Faulty variant of GetUpPredictionType: the top row of the macroblock above.
GetUpPredictionTypeTopRow(p) ==
  IF p.y = 0 THEN m_intra4_types[m_addr - width_in_mb][p.x]
  ELSE m_prediction_types[p.x + 4 * (p.y - 1)]

GetUpPredictionType(p) ==
  IF p.y = 0 THEN m_intra4_types[m_addr - width_in_mb][p.x + 12]
  ELSE m_prediction_types[p.x + 4 * (p.y - 1)]

Smaller(a, b) == IF a < b THEN a ELSE b

\* CalculateMostProbablePredictionType.
MostProbable(p) ==
  LET both == IsLeftAvailable(p) /\ IsUpAvailable(p)
      a == IF both /\ GetLeftMBType(p) = "I4" THEN GetLeftPredictionType(p) ELSE DC
      b == IF both /\ GetUpMBType(p) = "I4" THEN GetUpPredictionType(p) ELSE DC
  IN  Smaller(a, b)

\* The modes whose Calculate...Mode fills in a prediction.
Predictable(p, type) ==
  /\ type \in {Vertical, DownLeft, VerticalLeft} => IsUpAvailable(p)
  /\ type \in {Horizontal, HorizontalUp} => IsLeftAvailable(p)
  /\ type \in {DownRight, VerticalRight, HorizontalDown} => IsLeftAvailable(p) /\ IsUpAvailable(p)

\* prev_intra4x4_pred_mode_flag and rem_intra4x4_pred_mode.
OutputPredictionType(most_probable, type) ==
  IF type = most_probable THEN <<1>>
  ELSE <<0, IF type < most_probable THEN type ELSE type - 1>>

-----------------------------------------------------------------------------
(* A receiver (clause 8.3.1.1 of the standard).                            *)

\* The block with these coordinates in the picture, if it has been received:
\* a mode, DC of another macroblock type, or None.
ReceivedMode(mbs, x, y) ==
  LET addr == (y \div 4) * width_in_mb + (x \div 4)
  IN  IF x < 0 \/ y < 0 \/ addr >= Len(mbs) THEN None
      ELSE IF mbs[addr + 1] = <<>> THEN DC ELSE mbs[addr + 1][<<x % 4, y % 4>>]

\* The mode of the block at place p, from its element and what was read before.
ReceiveMode(p, element) ==
  LET At(x, y) == IF <<x, y>> \in DOMAIN reading THEN reading[<<x, y>>]
                  ELSE ReceivedMode(received, InPicture(p).x - p.x + x, InPicture(p).y - p.y + y)
      a == At(p.x - 1, p.y)
      b == At(p.x, p.y - 1)
      predicted == IF None \in {a, b} THEN DC ELSE Smaller(a, b)
  IN  CASE element[1] = 1 -> predicted
        [] element[1] = 0 /\ element[2] < predicted -> element[2]
        [] OTHER -> element[2] + 1

-----------------------------------------------------------------------------
NoModes == [b \in 0..15 |-> DC]

NothingRead == [b \in {} |-> DC]

Init ==
  /\ m_addr = 0
  /\ pc = "intra16"
  /\ pattern \in CostPatterns
  /\ m_type = [a \in MBs |-> "none"]
  /\ m_intra4_types = [a \in MBs |-> NoModes]
  /\ index = 0
  /\ m_prediction_types = NoModes
  /\ trial = 0
  /\ m_prediction_type = None
  /\ min_rdo_cost = -1
  /\ m_best_prediction_type = None
  /\ reading = NothingRead
  /\ received = <<>>

\* MBIntraRDOptimizer::Encode tries 16x16 first, and keeps it until 4x4 is cheaper.
TryIntra16 ==
  /\ pc = "intra16"
  /\ m_type' = [m_type EXCEPT ![m_addr] = "I16"]
  /\ pc' = "trial"
  /\ UNCHANGED <<m_addr, pattern, m_intra4_types, index, m_prediction_types, trial,
                 m_prediction_type, min_rdo_cost, m_best_prediction_type, reading, received>>

\* Faulty variant of Better: of equal modes the last one tried.
BetterOrEqual(cost, type_tried) == min_rdo_cost = -1 \/ cost <= min_rdo_cost

\* Whether a trial whose predictor holds mode type beats the best one so far;
\* "-1" stands for the largest integer.
Better(cost, type_tried) ==
  \/ min_rdo_cost = -1
  \/ cost < min_rdo_cost
  \/ cost = min_rdo_cost /\ type_tried = MostProbable(Place(index))

\* Predict goes on unless the predictor never held a mode.
Held == IF Predictable(Place(index), trial) THEN trial ELSE m_prediction_type

\* One iteration of Intra4LumaFlowNode::Frontend.
TryMode ==
  /\ pc = "trial"
  /\ trial < 9
  /\ LET cost == pattern[index][Held]
         wins == Held # None /\ Better(cost, trial)
     IN  /\ min_rdo_cost' = IF wins THEN cost ELSE min_rdo_cost
         /\ m_best_prediction_type' = IF wins THEN trial ELSE m_best_prediction_type
  /\ m_prediction_type' = Held
  /\ trial' = trial + 1
  /\ UNCHANGED <<m_addr, pc, pattern, m_type, m_intra4_types, index, m_prediction_types, reading, received>>

\* The four 8x8 blocks, four 4x4 blocks in each.
NextIndex == (index + 1) % 16

\* The end of Frontend: the predictor is set to the mode chosen.
DecideMode ==
  /\ pc = "trial"
  /\ trial = 9
  /\ LET p == Place(index)
         final == IF Predictable(p, m_best_prediction_type) THEN m_best_prediction_type ELSE m_prediction_type
     IN  /\ m_prediction_types' = [m_prediction_types EXCEPT ![p.x + 4 * p.y] = m_best_prediction_type]
         /\ reading' = [b \in DOMAIN reading \cup {<<p.x, p.y>>} |->
                          IF b = <<p.x, p.y>> THEN ReceiveMode(p, OutputPredictionType(MostProbable(p), final))
                          ELSE reading[b]]
  /\ pc' = IF index = 15 THEN "choose" ELSE "trial"
  /\ index' = NextIndex
  /\ trial' = 0
  /\ m_prediction_type' = None
  /\ min_rdo_cost' = -1
  /\ m_best_prediction_type' = None
  /\ UNCHANGED <<m_addr, pattern, m_type, m_intra4_types, received>>

\* Which of the two types is cheaper is a choice; OutputMB then writes it.
ChooseIntra4 ==
  /\ pc = "choose"
  /\ m_type' = [m_type EXCEPT ![m_addr] = "I4"]
  /\ m_intra4_types' = [m_intra4_types EXCEPT ![m_addr] = m_prediction_types]
  /\ received' = Append(received, reading)
  /\ pc' = "next"
  /\ UNCHANGED <<m_addr, pattern, index, m_prediction_types, trial, m_prediction_type,
                 min_rdo_cost, m_best_prediction_type, reading>>

ChooseIntra16 ==
  /\ pc = "choose"
  /\ received' = Append(received, <<>>)
  /\ pc' = "next"
  /\ UNCHANGED <<m_addr, pattern, m_type, m_intra4_types, index, m_prediction_types, trial,
                 m_prediction_type, min_rdo_cost, m_best_prediction_type, reading>>

NextMB ==
  /\ pc = "next"
  /\ m_addr + 1 \in MBs
  /\ m_addr' = m_addr + 1
  /\ pattern' \in CostPatterns
  /\ m_prediction_types' = NoModes
  /\ reading' = NothingRead
  /\ pc' = "intra16"
  /\ UNCHANGED <<m_type, m_intra4_types, index, trial, m_prediction_type, min_rdo_cost,
                 m_best_prediction_type, received>>

Next == TryIntra16 \/ TryMode \/ DecideMode \/ ChooseIntra4 \/ ChooseIntra16 \/ NextMB

Spec == Init /\ [][Next]_vars

-----------------------------------------------------------------------------
(* Properties.                                                             *)

\* What a trial without samples leaves in the predictor never wins: the mode
\* chosen is always one whose neighbouring samples exist, and the cheapest of
\* those.
ChosenModeIsPredictable ==
  pc = "trial" /\ trial = 9 =>
    /\ m_best_prediction_type # None
    /\ Predictable(Place(index), m_best_prediction_type)
    /\ \A type \in PredictionTypes :
         Predictable(Place(index), type) => pattern[index][m_best_prediction_type] <= pattern[index][type]

\* A receiver finds the mode of every 4x4 block of every macroblock coded so
\* from the two elements, over macroblocks of the other type and the edges of
\* the picture.
ReceiverRecoversModes ==
  \A n \in DOMAIN received :
    /\ (received[n] # <<>>) = (m_type[n - 1] = "I4")
    /\ received[n] # <<>> =>
         \A i \in 0..15 :
           received[n][<<Place(i).x, Place(i).y>>] = m_intra4_types[n - 1][Place(i).x + 4 * Place(i).y]
=============================================================================
