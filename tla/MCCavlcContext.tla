--------------------------- MODULE MCCavlcContext ---------------------------
(* Small configurations of CavlcContext for TLC. *)
EXTENDS CavlcContext

\* An empty macroblock and one with coefficients where the macroblocks to its
\* right and below look; two of its 8x8 blocks are empty.
SmallLumaCounts ==
  {[b \in 0..15 |-> 0],
   [b \in 0..15 |-> IF b \in {2, 3, 7, 9, 12, 13} THEN 1 + (b % 4) ELSE 0]}

SmallChromaCounts == {[b \in 0..3 |-> 0], [b \in 0..3 |-> 2 * b]}
=============================================================================
