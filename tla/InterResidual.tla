---------------------------- MODULE InterResidual ----------------------------
(***************************************************************************)
(* Which coefficients of an inter macroblock survive: the thresholds of     *)
(* InterLumaFlowBase and CavlcPreCoderChroma8x8, the coded block pattern    *)
(* they leave, the blocks written under it, and the residual the encoder    *)
(* itself reconstructs with.                                                *)
(*                                                                         *)
(* The three are kept in different variables and dropped by different code: *)
(* a cheap 8x8 block loses its coefficients, a cheap macroblock only its    *)
(* coded block pattern, cheap chroma coefficients are dropped twice, where  *)
(* they are written and where they are reconstructed.  A block is its list  *)
(* of runs and levels in scan order.  Macroblock composes this with the     *)
(* syntax that is written.                                                  *)
(***************************************************************************)
EXTENDS Integers, Sequences, FiniteSets, SequencesExt

CONSTANTS
  LumaGroups,   \* quantised contents of an 8x8 block of luma: four blocks
  ChromaDCs,    \* quantised DC block of a chroma plane
  ChromaGroups  \* and its four AC blocks

Block == Seq([run : 0..15, level : Int \ {0}])

ASSUME InputAssumption ==
  /\ LumaGroups \subseteq [0..3 -> Block]
  /\ ChromaDCs \subseteq Block
  /\ ChromaGroups \subseteq [0..3 -> Block]

Planes == {"Cb", "Cr"}

VARIABLES
  pc,
  block_8x8,            \* the 8x8 block of luma that is quantised next
  m_residual_datas,     \* luma blocks, by 8x8 block and block in it
  m_coefficient_cost,   \* cost of the 8x8 blocks that were kept
  m_cbp,                \* the 8x8 blocks whose bit is set
  m_detailed_cbp,       \* the 4x4 blocks whose bit is set
  chroma_cbp,           \* m_cbp of InterChromaFlow: 0, 1 or 2
  m_cavlc_data_source,  \* chroma blocks to write, by plane
  m_quantizer,          \* chroma blocks to reconstruct with, by plane
  reconstructed         \* what the encoder's reconstruction added to the prediction

vars == <<pc, block_8x8, m_residual_datas, m_coefficient_cost, m_cbp, m_detailed_cbp,
          chroma_cbp, m_cavlc_data_source, m_quantizer, reconstructed>>

-----------------------------------------------------------------------------
s_max_coeff_cost == 999999
s_coeff_run_cost == <<3, 2, 2, 1, 1, 1, 0, 0, 0, 0, 0, 0, 0, 0, 0, 0>>
s_chroma_coeff_cost_threshold == 4
s_luma_coeff_cost_threshold == 4
s_mb_luma_coeff_cost_threshold == 5

\* CavlcPreCoderLuma4x4::Code and CavlcPreCoderChroma8x8::CodeACBlock.
CoefficientCost(block) ==
  FoldLeft(LAMBDA cost, c : cost + IF c.level \in {-1, 1} THEN s_coeff_run_cost[c.run + 1] ELSE s_max_coeff_cost,
           0, block)

GroupCost(group) ==
  CoefficientCost(group[0]) + CoefficientCost(group[1]) + CoefficientCost(group[2]) + CoefficientCost(group[3])

\* Blocks that are all zero.
NoGroup == [block_4x4 \in 0..3 |-> <<>>]

NoLuma == [g \in 0..3 |-> NoGroup]

NoChroma == [plane \in Planes |-> [dc |-> <<>>, ac |-> NoGroup]]

Larger(a, b) == IF a > b THEN a ELSE b

-----------------------------------------------------------------------------
Init ==
  /\ pc = "luma"
  /\ block_8x8 = 0
  /\ m_residual_datas = NoLuma
  /\ m_coefficient_cost = 0
  /\ m_cbp = {}
  /\ m_detailed_cbp = {}
  /\ chroma_cbp = 0
  /\ m_cavlc_data_source = NoChroma
  /\ m_quantizer = NoChroma
  /\ reconstructed = [luma |-> NoLuma, chroma |-> NoChroma]

\* Faulty variant of DetailedCBP: the bits of a cheap group are not reset.
DetailedCBPKept(g, group) == {<<g, b>> : b \in {k \in 0..3 : group[k] # <<>>}}

\* CheckCoefficientCost: a cheap group is reset to zeros.
AfterCheck(group) == IF GroupCost(group) <= s_luma_coeff_cost_threshold THEN NoGroup ELSE group

DetailedCBP(g, group) == {<<g, b>> : b \in {k \in 0..3 : AfterCheck(group)[k] # <<>>}}

\* One iteration of InterLumaFlowBase::TransformAndQuantize.
QuantizeLuma ==
  /\ pc = "luma"
  /\ block_8x8 < 4
  /\ \E group \in LumaGroups :
       /\ m_residual_datas' = [m_residual_datas EXCEPT ![block_8x8] = AfterCheck(group)]
       /\ m_detailed_cbp' = m_detailed_cbp \cup DetailedCBP(block_8x8, group)
       /\ m_coefficient_cost' =
            m_coefficient_cost + IF GroupCost(group) <= s_luma_coeff_cost_threshold THEN 0 ELSE GroupCost(group)
       /\ m_cbp' = IF AfterCheck(group) # NoGroup THEN m_cbp \cup {block_8x8} ELSE m_cbp
  /\ block_8x8' = block_8x8 + 1
  /\ UNCHANGED <<pc, chroma_cbp, m_cavlc_data_source, m_quantizer, reconstructed>>

\* The end of TransformAndQuantize: a cheap macroblock loses its pattern, and
\* keeps the coefficients.
CheckMacroblock ==
  /\ pc = "luma"
  /\ block_8x8 = 4
  /\ LET cheap == m_coefficient_cost <= s_mb_luma_coeff_cost_threshold
     IN  /\ m_cbp' = IF cheap THEN {} ELSE m_cbp
         /\ m_detailed_cbp' = IF cheap THEN {} ELSE m_detailed_cbp
  /\ pc' = "reconstruct"
  /\ UNCHANGED <<block_8x8, m_residual_datas, m_coefficient_cost, chroma_cbp,
                 m_cavlc_data_source, m_quantizer, reconstructed>>

\* InterP16x16LumaFlow::Reconstruct looks at the pattern of the whole macroblock.
ReconstructLuma ==
  /\ pc = "reconstruct"
  /\ reconstructed' = [reconstructed EXCEPT !.luma = IF m_cbp = {} THEN NoLuma ELSE m_residual_datas]
  /\ pc' = "Cb"
  /\ UNCHANGED <<block_8x8, m_residual_datas, m_coefficient_cost, m_cbp, m_detailed_cbp,
                 chroma_cbp, m_cavlc_data_source, m_quantizer>>

\* CavlcPreCoderChroma8x8::Code.
HasResetCoefficients(ac) == GroupCost(ac) < s_chroma_coeff_cost_threshold

\* Faulty variant of Quantized: dropped where they are written only.
QuantizedKept(ac) == ac

\* ChromaQuantizer::ResetACToZeros follows the pre-coder.
Quantized(ac) == IF HasResetCoefficients(ac) THEN NoGroup ELSE ac

\* What is written of the AC blocks.
Kept(ac) == IF HasResetCoefficients(ac) THEN NoGroup ELSE ac

\* GetCodedBlockPattern.
ChromaPattern(dc, ac) == IF Kept(ac) # NoGroup THEN 2 ELSE IF dc # <<>> THEN 1 ELSE 0

\* InterChromaFlow::TransformAndQuantize, InverseQuantizeAndTransform and
\* Reconstruct of one plane; the pattern is that of both.
CodeChroma(plane, following) ==
  /\ pc = plane
  /\ \E dc \in ChromaDCs, ac \in ChromaGroups :
       LET rebuilt == [dc |-> dc, ac |-> Quantized(ac)]
       IN  /\ chroma_cbp' = Larger(chroma_cbp, ChromaPattern(dc, ac))
           /\ m_cavlc_data_source' = [m_cavlc_data_source EXCEPT ![plane] = [dc |-> dc, ac |-> Kept(ac)]]
           /\ m_quantizer' = [m_quantizer EXCEPT ![plane] = rebuilt]
           /\ reconstructed' = [reconstructed EXCEPT !.chroma[plane] = rebuilt]
  /\ pc' = following
  /\ UNCHANGED <<block_8x8, m_residual_datas, m_coefficient_cost, m_cbp, m_detailed_cbp>>

Next ==
  \/ QuantizeLuma \/ CheckMacroblock \/ ReconstructLuma
  \/ CodeChroma("Cb", "Cr") \/ CodeChroma("Cr", "output")

\* The blocks written under a pattern, and zeros for the others: what a
\* receiver adds that has read this pattern.
ResidualUnder(luma, chroma) ==
  [luma |-> [g \in 0..3 |-> IF g \in luma THEN m_residual_datas[g] ELSE NoGroup],
   chroma |-> [plane \in Planes |->
                 [dc |-> IF chroma > 0 THEN m_cavlc_data_source[plane].dc ELSE <<>>,
                  ac |-> IF chroma > 1 THEN m_cavlc_data_source[plane].ac ELSE NoGroup]]]
=============================================================================
