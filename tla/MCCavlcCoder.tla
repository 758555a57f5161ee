---------------------------- MODULE MCCavlcCoder ----------------------------
(* The blocks TLC tries: every shape the tables distinguish and every level *)
(* size at which the level codes change.                                   *)
EXTENDS CavlcCoder, FiniteSetsExt

Zeros(n) == [i \in 1..n |-> 0]

\* The levels, lowest first, in a block: the zeros all before the lowest, all
\* before the highest, or the same number before each and the rest at the end.
Low(size, levels) == Zeros(size - Len(levels)) \o levels

High(size, levels, zeros) ==
  LET n == Len(levels)
  IN  SubSeq(levels, 1, n - 1) \o Zeros(zeros) \o <<levels[n]>> \o Zeros(size - n - zeros)

Even(size, levels, gap) ==
  [i \in 1..size |->
     IF i % (gap + 1) = 0 /\ i \div (gap + 1) <= Len(levels)
     THEN levels[i \div (gap + 1)] ELSE 0]

\* n levels of which the last ones are ones, in both signs.
Ones(n, ones) ==
  [k \in 1..n |-> IF k > n - ones THEN 1 - 2 * (k % 2) ELSE IF k % 2 = 0 THEN 2 ELSE -3]

\* Every count of coefficients and trailing ones, and for two of them every
\* number of zeros.
Shapes(size) ==
  {Zeros(size)} \cup
  UNION {{Low(size, Ones(n, ones)) : ones \in 0..Min({3, n})} : n \in 1..size} \cup
  UNION {{High(size, Ones(n, Min({n, 3})), zeros) : zeros \in 0..(size - n)} : n \in 1..size} \cup
  UNION {{Even(size, Ones(n, n % 3), gap) : gap \in 0..(size \div n) - 1} : n \in 1..size}

\* The levels around the steps of the codes: the trailing ones, the thresholds
\* of the suffix length, the escapes, and the largest an escape of twelve bits
\* holds.
Edges == {1, 2, 3, 4, 6, 7, 8, 9, 12, 13, 15, 16, 17, 18, 24, 25, 30, 31, 32, 48, 49,
          60, 61, 62, 120, 121, 122, 240, 241, 480, 481, 482, 2063}

Signed(S) == S \cup {-v : v \in S}

LevelPairs(size) == {Low(size, <<a, b>>) : a \in Signed(Edges), b \in Edges}

\* A climb of the suffix length, to its last value in eight levels.
Climbs(size) ==
  {Low(size, [k \in 1..n |-> IF k = 1 THEN last ELSE 2^(n - k)]) :
     n \in {4, Min({8, size})}, last \in Signed(Edges)}

\* Larger levels still, which the level coded first of a luma block can have.
Large == {2064, 2065, 6159, 6160, -6528, 14351}

SmallInputs ==
  UNION {[type : {t}, table : Tables(t), block : Shapes(GetMaxCoeffNum(t))] :
           t \in {"NormalLuma", "LumaAC", "ChromaDC"}}
  \cup UNION {[type : {t}, table : {0},
               block : LevelPairs(GetMaxCoeffNum(t)) \cup Climbs(GetMaxCoeffNum(t))] :
                t \in {"LumaDC", "ChromaDC"}}
  \cup [type : {"LumaDC"}, table : {1},
        block : UNION {{Low(16, <<a>>), Low(16, <<2, -7, a>>), <<1, 3>> \o Zeros(6) \o <<a>> \o Zeros(7)} :
                         a \in Large}]
  \cup [type : {"ChromaAC"}, table : {2}, block : {Low(15, <<1, 1>>)}]
=============================================================================
