--------------------------- MODULE MCMacroblock ---------------------------
(* Small configurations of Macroblock for TLC. *)
EXTENDS Macroblock

One(run) == <<[run |-> run, level |-> 1]>>
Two(run) == <<[run |-> run, level |-> -2]>>

AsGroup(blocks) == [k \in 0..3 |-> blocks[k + 1]]

\* Costs 0 without and with coefficients, 4 and 5 around both luma thresholds,
\* and more than any threshold.
SmallLumaGroups ==
  {AsGroup(g) : g \in {<<<<>>, <<>>, <<>>, <<>>>>,
                       <<One(1), <<>>, One(2), One(6)>>,
                       <<<<>>, One(0), <<>>, One(1)>>,
                       <<<<>>, <<>>, Two(0), <<>>>>}}

SmallChromaDCs == {<<>>, One(3)}

\* Costs 0 without and with coefficients, 3 and 4 around the threshold, and more.
SmallChromaGroups ==
  {AsGroup(g) : g \in {<<<<>>, <<>>, <<>>, <<>>>>,
                       <<One(6), <<>>, <<>>, <<>>>>,
                       <<One(0), <<>>, <<>>, <<>>>>,
                       <<One(1), One(2), <<>>, <<>>>>,
                       <<<<>>, <<>>, <<>>, Two(4)>>}}
=============================================================================
