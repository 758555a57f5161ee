-------------------------- MODULE MCInterPrediction --------------------------
(* Small configurations of InterPrediction for TLC. *)
EXTENDS InterPrediction

\* Far enough for a vector or two to leave the picture on every side, for two to
\* add up to more than the lower levels allow, and one for the other direction;
\* odd and even in whole samples.
SmallSearch == <<[x |-> 0, y |-> 4], [x |-> 36, y |-> -200], [x |-> -72, y |-> 196], [x |-> 4104, y |-> 8]>>

\* The list the program tries, and the one commented out beside it.
Live == <<"P16x16">>

Complete == <<"PSkip", "P16x16", "P16x8", "P8x16", "P8x8">>

Cheapest(candidate, best, sub) == [candidate |-> candidate, best |-> best, sub |-> sub]

\* Two inter pictures, the second with two references.
LiveSetting ==
  [level_idc |-> 10, allowed_mb_types |-> Live, pictures |-> 2,
   costs |-> {Cheapest(c, 1, 0) : c \in {0, 1, 2, 7}}]

\* One inter picture with every type and every way of cutting.
CompleteSetting ==
  [level_idc |-> 20, allowed_mb_types |-> Complete, pictures |-> 1,
   costs |-> {Cheapest(0, 1, 0), Cheapest(1, 2, 0), Cheapest(2, 3, 0), Cheapest(0, 4, 0)}
             \cup {Cheapest(s, 5, s) : s \in 0..3}]

SmallSettings == {LiveSetting, CompleteSetting}

\* A third picture in the buffer.
ThreeReferences == {[LiveSetting EXCEPT !.pictures = 3]}
=============================================================================
