--------------------------- MODULE MacroblockLayer ---------------------------
(***************************************************************************)
(* The syntax elements of one macroblock, in the order MBIntraRDOptimizer   *)
(* and MBInterRDOptimizer write them, and a receiver that reads them by     *)
(* macroblock_layer( ) of the standard.  The elements of the luma modes,    *)
(* the motion and the coefficients stand for themselves: what is in them    *)
(* is modelled in Intra4Modes, MotionPrediction and CavlcCoder, and where   *)
(* the pattern of an inter macroblock comes from in InterResidual;          *)
(* Macroblock composes the latter with this module.                         *)
(*                                                                         *)
(* A macroblock is what it is before it is written: its type, its modes,    *)
(* and the coded block pattern of luma (one bit per 8x8 block) and chroma.  *)
(***************************************************************************)
EXTENDS Integers, Sequences, FiniteSets

VARIABLES
  mb,        \* the macroblock
  pc,        \* the element that comes next
  m_bytes_data,  \* the elements written: kind and value
  readable   \* ghost: what a receiver makes of them

vars == <<mb, pc, m_bytes_data, readable>>

-----------------------------------------------------------------------------
\* BinaryConstantValues::s_cbp_me_map, by pattern: of intra and of inter macroblocks.
s_cbp_me_map_intra ==
  << 3, 29, 30, 17, 31, 18, 37,  8, 32, 38, 19,  9, 20, 10, 11,  2, 16, 33, 34, 21, 35, 22, 39,  4,
    36, 40, 23,  5, 24,  6,  7,  1, 41, 42, 43, 25, 44, 26, 46, 12, 45, 47, 27, 13, 28, 14, 15,  0>>

s_cbp_me_map_inter ==
  << 0,  2,  3,  7,  4,  8, 17, 13,  5, 18,  9, 14, 10, 15, 16, 11,  1, 32, 33, 36, 34, 37, 44, 40,
    35, 45, 38, 41, 39, 42, 43, 19,  6, 24, 25, 20, 26, 21, 46, 28, 27, 47, 22, 29, 23, 30, 31, 12>>

\* The standard's table of coded_block_pattern, by code number.
ReceivedPatternIntra ==
  <<47, 31, 15,  0, 23, 27, 29, 30,  7, 11, 13, 14, 39, 43, 45, 46, 16,  3,  5, 10, 12, 19, 21, 26,
    28, 35, 37, 42, 44,  1,  2,  4,  8, 17, 18, 20, 24,  6,  9, 22, 25, 32, 33, 34, 36, 40, 38, 41>>

ReceivedPatternInter ==
  << 0, 16,  1,  2,  4,  8, 32,  3,  5, 10, 12, 15, 47,  7, 11, 13, 14,  6,  9, 31, 35, 37, 42, 44,
    33, 34, 36, 40, 39, 43, 45, 46, 17, 18, 20, 24, 19, 21, 26, 28, 23, 27, 29, 30, 22, 25, 38, 41>>

-----------------------------------------------------------------------------
(* The writer.                                                             *)

\* (m_chroma_cbp << 4) | m_luma_cbp
m_cbp == 16 * mb.chroma_cbp + mb.luma_cbp

\* Faulty variant of CalculateIntra16Offset: luma counts before chroma.
CalculateIntra16OffsetSwapped(cbp, mode) ==
  1 + mode + (IF cbp % 16 # 0 THEN 4 ELSE 0) + 8 * (cbp \div 16)

\* MBUtil::CalculateIntra16Offset.
CalculateIntra16Offset(cbp, mode) ==
  (IF cbp % 16 # 0 THEN 13 ELSE 1) + mode + 4 * (cbp \div 16)

\* The macroblocks the intra mode decision can produce: the AC blocks of a
\* 16x16 macroblock are coded all or none.
IntraMacroblocks ==
  [type : {"I4"}, mode : {0}, chroma_mode : 0..3, luma_cbp : 0..15, chroma_cbp : 0..2]
  \cup [type : {"I16"}, mode : 0..3, chroma_mode : 0..3, luma_cbp : {0, 15}, chroma_cbp : 0..2]

InterMacroblock(luma, chroma) ==
  [type |-> "P16x16", mode |-> 0, chroma_mode |-> 0, luma_cbp |-> luma, chroma_cbp |-> chroma]

\* The run of skipped macroblocks starts an inter macroblock: there are none.
MBTypeElements ==
  CASE mb.type = "P16x16" -> <<<<"ue(v)", 0>>, <<"ue(v)", 0>>>>
    [] mb.type = "I4" -> <<<<"ue(v)", 0>>>>
    [] mb.type = "I16" -> <<<<"ue(v)", CalculateIntra16Offset(m_cbp, mb.mode)>>>>

\* Modes and vectors: OutputPredictionTypes and OutputChromaPredMode, or OutputMotionInfo.
PredictionElements ==
  CASE mb.type = "P16x16" -> <<<<"motion", 0>>>>
    [] mb.type = "I4" -> <<<<"intra4_modes", 0>>, <<"ue(v)", mb.chroma_mode>>>>
    [] mb.type = "I16" -> <<<<"ue(v)", mb.chroma_mode>>>>

\* A 16x16 intra macroblock says its pattern with its type.
CBPElements ==
  CASE mb.type = "P16x16" -> <<<<"ue(v)", s_cbp_me_map_inter[m_cbp + 1]>>>>
    [] mb.type = "I4" -> <<<<"ue(v)", s_cbp_me_map_intra[m_cbp + 1]>>>>
    [] mb.type = "I16" -> <<>>

\* The quantiser never changes; a 16x16 intra macroblock always says so.
QPDeltaElements == IF m_cbp > 0 \/ mb.type = "I16" THEN <<<<"se(v)", 0>>>> ELSE <<>>

\* The four 4x4 blocks of an 8x8 block, if it is coded.
LumaBlocks(coded, g) ==
  IF g \in coded THEN [n \in 1..4 |-> <<"luma", 4 * g + n - 1>>] ELSE <<>>

Bit(g) == <<1, 2, 4, 8>>[g + 1]

Coded8x8(cbp) == {g \in 0..3 : (cbp \div Bit(g)) % 2 = 1}

\* The 8x8 blocks in turn.
NormalLuma(coded) ==
  LumaBlocks(coded, 0) \o LumaBlocks(coded, 1) \o LumaBlocks(coded, 2) \o LumaBlocks(coded, 3)

LumaElements ==
  IF mb.type # "I16" THEN NormalLuma(Coded8x8(mb.luma_cbp))
  ELSE <<<<"luma_dc", 0>>>> \o IF mb.luma_cbp # 0 THEN NormalLuma(0..3) ELSE <<>>

\* Both DC blocks, then both planes' AC blocks.
ChromaElements ==
  (IF mb.chroma_cbp > 0 THEN <<<<"chroma_dc", 0>>, <<"chroma_dc", 1>>>> ELSE <<>>)
  \o (IF mb.chroma_cbp > 1 THEN [n \in 1..8 |-> <<"chroma_ac", n - 1>>] ELSE <<>>)

-----------------------------------------------------------------------------
(* A receiver (clause 7.3.5 of the standard) of what is in m_bytes_data; it *)
(* knows the slice type.                                                    *)

Unreadable == [type |-> "unreadable"]

\* Value of element n of the elements, when it is of this kind.
Is(elements, n, kind) == n <= Len(elements) /\ elements[n][1] = kind

\* Residual blocks by 7.3.5.3, as the kinds that must follow.
ExpectedResidual(type, luma, chroma) ==
  (IF type = "I16" THEN <<<<"luma_dc", 0>>>> ELSE <<>>)
  \o NormalLuma({g \in 0..3 : (luma \div Bit(g)) % 2 = 1})
  \o (IF chroma \in {1, 2} THEN <<<<"chroma_dc", 0>>, <<"chroma_dc", 1>>>> ELSE <<>>)
  \o (IF chroma = 2 THEN [n \in 1..8 |-> <<"chroma_ac", n - 1>>] ELSE <<>>)

\* From element n on: mb_qp_delta where there is one, and the residual.
ReadResidual(elements, n, found) ==
  LET has_delta == found.type = "I16" \/ found.luma_cbp > 0 \/ found.chroma_cbp > 0
      rest == SubSeq(elements, IF has_delta THEN n + 1 ELSE n, Len(elements))
  IN  IF /\ has_delta => Is(elements, n, "se(v)") /\ elements[n][2] = 0
         /\ rest = ExpectedResidual(found.type, found.luma_cbp, found.chroma_cbp)
      THEN found ELSE Unreadable

ReadInter(elements) ==
  IF /\ Is(elements, 1, "ue(v)") /\ elements[1][2] = 0
     /\ Is(elements, 2, "ue(v)") /\ elements[2][2] = 0
     /\ Is(elements, 3, "motion")
     /\ Is(elements, 4, "ue(v)") /\ elements[4][2] < 48
  THEN LET cbp == ReceivedPatternInter[elements[4][2] + 1]
       IN  ReadResidual(elements, 5, InterMacroblock(cbp % 16, cbp \div 16))
  ELSE Unreadable

ReadIntra4(elements) ==
  IF /\ Is(elements, 2, "intra4_modes")
     /\ Is(elements, 3, "ue(v)") /\ elements[3][2] < 4
     /\ Is(elements, 4, "ue(v)") /\ elements[4][2] < 48
  THEN LET cbp == ReceivedPatternIntra[elements[4][2] + 1]
       IN  ReadResidual(elements, 5, [type |-> "I4", mode |-> 0, chroma_mode |-> elements[3][2],
                                      luma_cbp |-> cbp % 16, chroma_cbp |-> cbp \div 16])
  ELSE Unreadable

\* Table 7-11: mode fastest, then chroma, then luma.
ReadIntra16(elements) ==
  LET type == elements[1][2] - 1
  IN  IF Is(elements, 2, "ue(v)") /\ elements[2][2] < 4
      THEN ReadResidual(elements, 3, [type |-> "I16", mode |-> type % 4, chroma_mode |-> elements[2][2],
                                      luma_cbp |-> 15 * (type \div 12), chroma_cbp |-> (type \div 4) % 3])
      ELSE Unreadable

Read(elements, inter_slice) ==
  CASE elements = <<>> -> Unreadable
    [] elements # <<>> /\ inter_slice -> ReadInter(elements)
    [] elements # <<>> /\ ~inter_slice /\ elements[1] = <<"ue(v)", 0>> -> ReadIntra4(elements)
    [] elements # <<>> /\ ~inter_slice /\ elements[1] # <<"ue(v)", 0>> ->
         IF elements[1][1] = "ue(v)" /\ elements[1][2] \in 1..24 THEN ReadIntra16(elements) ELSE Unreadable

-----------------------------------------------------------------------------
(* OutputMB, an action for every part.                                     *)

Init ==
  /\ mb \in IntraMacroblocks
  /\ pc = "type"
  /\ m_bytes_data = <<>>
  /\ readable = Unreadable

Write(elements) ==
  /\ m_bytes_data' = m_bytes_data \o elements
  /\ readable' = Read(m_bytes_data', mb.type = "P16x16")
  /\ UNCHANGED mb

OutputMBType == pc = "type" /\ Write(MBTypeElements) /\ pc' = "prediction"

OutputPrediction == pc = "prediction" /\ Write(PredictionElements) /\ pc' = "cbp"

OutputCBP == pc = "cbp" /\ Write(CBPElements) /\ pc' = "qp_delta"

OutputQPDelta == pc = "qp_delta" /\ Write(QPDeltaElements) /\ pc' = "luma"

OutputLuma == pc = "luma" /\ Write(LumaElements) /\ pc' = "chroma"

OutputChroma == pc = "chroma" /\ Write(ChromaElements) /\ pc' = "done"

Next ==
  OutputMBType \/ OutputPrediction \/ OutputCBP \/ OutputQPDelta \/ OutputLuma \/ OutputChroma
=============================================================================
