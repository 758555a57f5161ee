-------------------------- MODULE MCIntraPrediction --------------------------
(* Small configurations of Intra4Modes and IntraPrediction for TLC. *)
EXTENDS IntraPrediction

\* The cheapest modes in turn from block to block; all modes alike, where the
\* most probable one wins; and modes that need more neighbours the cheaper.
Turns == [i \in 0..15 |-> [type \in PredictionTypes |-> (type + 9 - ((4 * i) % 9)) % 9]]
Alike == [i \in 0..15 |-> [type \in PredictionTypes |-> 1]]
Demanding == [i \in 0..15 |->
  [type \in PredictionTypes |-> IF type \in {DownRight, VerticalRight, HorizontalDown} THEN 0
                                ELSE IF type = DC THEN 2 ELSE (type + i) % 2]]
SmallPatterns == {Turns, Alike, Demanding}

\* Luma without a pattern; one chroma plane whose edges of the last macroblock rise
\* past the brightest colour, one where they fall past the darkest.  No sample of it
\* is zero, which stands for one not yet reconstructed.
SmallPicture(plane, x, y) ==
  CASE plane = "luma" -> 1 + ((37 * x + 91 * y + 53 * x * y) % 230)
    [] plane = "cb" -> IF x < 8 /\ y < 8 THEN 20 ELSE Smaller(255, 100 + 9 * (x + y) + (x % 3))
    [] plane = "cr" -> IF x > 11 \/ y > 11 THEN 3 + (y % 2) ELSE 180
=============================================================================
