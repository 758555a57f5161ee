----------------------------- MODULE Macroblock -----------------------------
(***************************************************************************)
(* One macroblock from the decision to the bits and back: an intra          *)
(* macroblock with any pattern its mode decision can produce, or an inter   *)
(* macroblock whose pattern is what the thresholds of InterResidual leave   *)
(* (MBInterRDOptimizer::Encode), written by MacroblockLayer                 *)
(* (MBFlowBase::Encode, then Binary) and read by a receiver, which then     *)
(* adds the residual it found to its prediction.                            *)
(***************************************************************************)
EXTENDS InterResidual

VARIABLES
  mb,            \* the macroblock, once it is decided
  layer_pc,      \* the element that comes next
  m_bytes_data,  \* the elements written
  readable,      \* ghost: what a receiver makes of them
  received       \* ghost: the residual it adds

layerVars == <<mb, layer_pc, m_bytes_data, readable>>

Layer == INSTANCE MacroblockLayer WITH pc <- layer_pc

Nothing == [luma |-> NoLuma, chroma |-> NoChroma]

-----------------------------------------------------------------------------
MacroblockInit ==
  /\ Init
  /\ received = Nothing
  /\ \/ Layer!Init
     \/ /\ mb = Layer!InterMacroblock(0, 0)
        /\ layer_pc = "decide"
        /\ m_bytes_data = <<>>
        /\ readable = Layer!Unreadable

\* A step of the luma and chroma flows of an inter macroblock.
CodeResidual ==
  /\ layer_pc = "decide"
  /\ Next
  /\ UNCHANGED <<layerVars, received>>

\* m_luma_cbp and m_chroma_cbp are taken over from the flows.
TakePattern ==
  /\ layer_pc = "decide"
  /\ pc = "output"
  /\ mb' = Layer!InterMacroblock(
              (IF 0 \in m_cbp THEN 1 ELSE 0) + (IF 1 \in m_cbp THEN 2 ELSE 0)
                + (IF 2 \in m_cbp THEN 4 ELSE 0) + (IF 3 \in m_cbp THEN 8 ELSE 0),
              chroma_cbp)
  /\ layer_pc' = "type"
  /\ UNCHANGED <<vars, m_bytes_data, readable, received>>

\* A step of OutputMB.
OutputMB ==
  /\ Layer!Next
  /\ UNCHANGED <<vars, received>>

\* The receiver's residual of an inter macroblock.
Receive ==
  /\ layer_pc = "done"
  /\ readable.type = "P16x16"
  /\ received' = ResidualUnder(Layer!Coded8x8(readable.luma_cbp), readable.chroma_cbp)
  /\ layer_pc' = "received"
  /\ UNCHANGED <<vars, mb, m_bytes_data, readable>>

MacroblockNext == CodeResidual \/ TakePattern \/ OutputMB \/ Receive

MacroblockSpec == MacroblockInit /\ [][MacroblockNext]_<<vars, layerVars, received>>

-----------------------------------------------------------------------------
(* Properties.                                                             *)

\* A receiver reads from the elements the macroblock that was written: which
\* elements there are depends on values of earlier ones, and the writer's
\* conditions are the reader's for every type and every pattern.
ReceiverRecoversMacroblock == layer_pc = "done" => readable = mb

\* What the encoder adds to its prediction is what a receiver adds, coefficient
\* for coefficient, whichever of the four thresholds dropped what.
ReconstructionIsReceivers == layer_pc = "received" => reconstructed = received

\* The blocks the deblocking filter takes for coded (strength two) are those in
\* which a receiver finds a coefficient.
FilterSeesReceivedBlocks ==
  layer_pc = "received" =>
    m_detailed_cbp = {b \in (0..3) \X (0..3) : received.luma[b[1]][b[2]] # <<>>}
=============================================================================
