---------------------------- MODULE MCTransform ----------------------------
(***************************************************************************)
(* Blocks of the shapes whose coefficients are largest, or odd where the   *)
(* roundings tell orders apart.                                            *)
(***************************************************************************)
EXTENDS Transform

\* Sample (x, y), zero-based, of a shape.
Sample(shape, x, y) ==
  CASE shape = "black"   -> 0
    [] shape = "white"   -> 255
    [] shape = "grey"    -> 131
    [] shape = "checker" -> IF (x + y) % 2 = 0 THEN 255 ELSE 0
    [] shape = "columns" -> IF x \in {1, 2} THEN 255 ELSE 0
    [] shape = "corner"  -> IF x < 2 /\ y < 2 THEN 201 ELSE 14
    [] shape = "pixel"   -> IF x = 2 /\ y = 1 THEN 90 ELSE 73
    [] shape = "flat"    -> 73
    [] shape = "dot"     -> IF x = 0 /\ y = 0 THEN 106 ELSE 73
    [] shape = "ramp"    -> 3 + 17 * x + 41 * y
    [] shape = "noise"   -> (37 * x + 91 * y + 53 * x * y) % 256

Block(shape) == [y \in 1..4 |-> [x \in 1..4 |-> Sample(shape, x - 1, y - 1)]]

Shapes == {"black", "white", "grey", "checker", "columns", "corner", "pixel", "ramp", "noise"}

\* Block i of n of a plane that shows one shape in its first blocks and
\* another after them.
Plane(n, first, a, b) == [i \in 1..n |-> IF i <= first THEN Block(a) ELSE Block(b)]

Pairs == {<<"black", "white">>, <<"noise", "ramp">>, <<"pixel", "grey">>, <<"checker", "black">>}

\* One sample that differs spreads over all the coefficients, each too small to
\* be kept whole, and is more than two steps off where it was.
Dots ==
  {[kind |-> "4x4", original |-> <<Block("dot")>>, predicted |-> <<Block("flat")>>],
   [kind |-> "luma16", original |-> Plane(16, 16, "dot", "dot"), predicted |-> Plane(16, 16, "flat", "flat")],
   [kind |-> "chroma", original |-> Plane(4, 1, "dot", "flat"), predicted |-> Plane(4, 4, "flat", "flat")]}

MCInputs ==
  Dots \cup
  {[kind |-> "4x4", original |-> <<Block(a)>>, predicted |-> <<Block(b)>>] :
     a \in Shapes, b \in {"black", "grey", "columns", "white"}} \cup
  {[kind |-> "luma16", original |-> Plane(16, n, p[1], p[2]), predicted |-> Plane(16, 16, b, b)] :
     p \in Pairs, n \in {1, 8}, b \in {"black", "white"}} \cup
  {[kind |-> "luma16", original |-> Plane(16, 16, "white", "white"), predicted |-> Plane(16, 16, "black", "black")]} \cup
  {[kind |-> "chroma", original |-> Plane(4, n, p[1], p[2]), predicted |-> Plane(4, 4, b, b)] :
     p \in Pairs, n \in 1..4, b \in {"black", "grey", "white", "corner"}}

MCQPs == 0..51

=============================================================================
