-------------------------- MODULE DeblockingProofs --------------------------
(***************************************************************************)
(* Theorems about Deblocking: for every line of samples, every parameter    *)
(* and every pair of macroblocks the encoder gives an edge the strength a   *)
(* receiver gives it, and filters it as the receiver does.                  *)
(***************************************************************************)
EXTENDS Deblocking, FiniteSetTheorems, TLAPS

\* The four samples on one side of an edge.
Sides == [0..3 -> Int]

-----------------------------------------------------------------------------
(* The tables of FilterConstantValues are those of the standard.            *)

LEMMA AlphaTable ==
  ASSUME mbs.qp \in 0..51, ReceiverQP = mbs.qp
  PROVE  ReceiverAlpha = s_alpha_table[mbs.qp + 1] /\ ReceiverAlpha \in Int
  BY SMTT(60) DEF ReceiverAlpha, s_alpha_table

LEMMA BetaTable ==
  ASSUME mbs.qp \in 0..51, ReceiverQP = mbs.qp
  PROVE  ReceiverBeta = s_beta_table[mbs.qp + 1] /\ ReceiverBeta \in Int
  BY SMTT(60) DEF ReceiverBeta, s_beta_table

LEMMA GrowthRows ==
  ASSUME NEW s \in 1..3
  PROVE  /\ Len(Growth[s]) \in Nat
         /\ \A i \in 1..Len(Growth[s]) : Growth[s][i] \in Int
         /\ \A i, j \in 1..Len(Growth[s]) : i <= j => Growth[s][i] <= Growth[s][j]
  <1>1. s = 1 \/ s = 2 \/ s = 3
    OBVIOUS
  <1>2. CASE s = 1
    BY <1>2, SMTT(60) DEF Growth
  <1>3. CASE s = 2
    BY <1>3, SMTT(60) DEF Growth
  <1>4. CASE s = 3
    BY <1>4, SMTT(60) DEF Growth
  <1> QED  BY <1>1, <1>2, <1>3, <1>4

\* Parameter q has reached n of the parameters at which the bound grows.
Reached(s, q, n) ==
  /\ n \in 0..Len(Growth[s])
  /\ n > 0 => Growth[s][n] <= q
  /\ n < Len(Growth[s]) => q < Growth[s][n + 1]

\* The parameters of Growth never fall, so that one number of them is reached.
LEMMA OneBound ==
  ASSUME NEW s \in 1..3, NEW q \in Int, NEW n, NEW m, Reached(s, q, n), Reached(s, q, m)
  PROVE  n = m
  <1> DEFINE g == Growth[s]
  <1>1. /\ Len(g) \in Nat
        /\ \A i \in 1..Len(g) : g[i] \in Int
        /\ \A i, j \in 1..Len(g) : i <= j => g[i] <= g[j]
    BY GrowthRows
  <1>2. /\ n \in 0..Len(g) /\ (n > 0 => g[n] <= q) /\ (n < Len(g) => q < g[n + 1])
        /\ m \in 0..Len(g) /\ (m > 0 => g[m] <= q) /\ (m < Len(g) => q < g[m + 1])
    BY DEF Reached
  <1> HIDE DEF g
  <1>3. ASSUME n < m PROVE FALSE
    <2>1. q < g[n + 1] /\ g[m] <= q /\ n + 1 \in 1..Len(g) /\ m \in 1..Len(g) /\ n + 1 <= m
      BY <1>1, <1>2, <1>3
    <2>2. g[n + 1] <= g[m] /\ g[n + 1] \in Int /\ g[m] \in Int
      BY <1>1, <2>1
    <2> QED  BY <2>1, <2>2
  <1>4. ASSUME m < n PROVE FALSE
    <2>1. q < g[m + 1] /\ g[n] <= q /\ m + 1 \in 1..Len(g) /\ n \in 1..Len(g) /\ m + 1 <= n
      BY <1>1, <1>2, <1>4
    <2>2. g[m + 1] <= g[n] /\ g[m + 1] \in Int /\ g[n] \in Int
      BY <1>1, <2>1
    <2> QED  BY <2>1, <2>2
  <1> QED  BY <1>1, <1>2, <1>3, <1>4

\* So many are reached by parameter q as FilterConstantValues says.
LEMMA ClipRows == \A s \in 1..3, q \in 0..51 : Reached(s, q, s_clip_table[s][q + 1])
  <1> TAKE s \in 1..3, q \in 0..51
  <1>1. s = 1 \/ s = 2 \/ s = 3
    OBVIOUS
  <1>2. CASE s = 1
    BY <1>2, SMTT(60) DEF Growth, s_clip_table, Reached
  <1>3. CASE s = 2
    BY <1>3, SMTT(60) DEF Growth, s_clip_table, Reached
  <1>4. CASE s = 3
    BY <1>4, SMTT(60) DEF Growth, s_clip_table, Reached
  <1> QED  BY <1>1, <1>2, <1>3, <1>4

LEMMA ClipTable ==
  ASSUME NEW s \in 1..3, NEW qp \in 0..51, ReceiverQP = qp
  PROVE  ReceiverBound(s) = s_clip_table[s][qp + 1] /\ ReceiverBound(s) \in Int
  <1> DEFINE c == s_clip_table[s][qp + 1]
  <1>1. Reached(s, qp, c)
    BY ClipRows
  <1>2. ReceiverBound(s) = CHOOSE n \in 0..Len(Growth[s]) : Reached(s, qp, n)
    BY DEF ReceiverBound, Reached
  <1> HIDE DEF c
  <1>3. c \in 0..Len(Growth[s]) /\ Len(Growth[s]) \in Nat
    BY <1>1, GrowthRows DEF Reached
  <1>4. \A n \in 0..Len(Growth[s]) : Reached(s, qp, n) => n = c
    BY <1>1, OneBound
  <1>5. (CHOOSE n \in 0..Len(Growth[s]) : Reached(s, qp, n)) = c
    BY <1>1, <1>3, <1>4
  <1>6. ReceiverBound(s) = c /\ c \in Int
    BY <1>2, <1>3, <1>5
  <1> QED  BY <1>6 DEF c

-----------------------------------------------------------------------------
(* The encoder's parameters.                                                *)

\* The line is luma, or its chroma has the parameter of luma.
SameParameter == mbs.plane = "luma" \/ mbs.qp < 30

LEMMA Parameters ==
  ASSUME mbs \in Inputs, SameParameter
  PROVE  /\ index_a = mbs.qp
         /\ alpha = ReceiverAlpha /\ alpha \in Int
         /\ beta = ReceiverBeta /\ beta \in Int
         /\ \A s \in 1..3 : /\ s_clip_table[s][index_a + 1] = ReceiverBound(s)
                            /\ ReceiverBound(s) \in Int
  <1>1. mbs.qp \in 0..51
    BY InputsAssumption
  <1>2. ReceiverQP = mbs.qp
    BY DEF ReceiverQP, SameParameter
  <1>3. PICK qp \in 0..51 : qp = mbs.qp
    BY <1>1
  <1>4. index_a = qp
    <2>1. RightShift(qp + qp, 1) = qp
      BY DEF RightShift
    <2>2. Clamp(qp, 0, 51) = qp
      BY DEF Clamp
    <2> QED  BY <1>3, <2>1, <2>2 DEF index_a
  <1>5. alpha = ReceiverAlpha /\ ReceiverAlpha \in Int
    BY <1>1, <1>2, <1>3, <1>4, AlphaTable DEF alpha
  <1>6. beta = ReceiverBeta /\ ReceiverBeta \in Int
    BY <1>1, <1>2, <1>3, <1>4, BetaTable DEF beta
  <1>7. ASSUME NEW s \in 1..3
        PROVE  s_clip_table[s][index_a + 1] = ReceiverBound(s) /\ ReceiverBound(s) \in Int
    <2>1. ReceiverQP = qp
      BY <1>2, <1>3
    <2>2. ReceiverBound(s) = s_clip_table[s][qp + 1] /\ ReceiverBound(s) \in Int
      BY <2>1, ClipTable
    <2> QED  BY <1>4, <2>2
  <1> QED  BY <1>3, <1>4, <1>5, <1>6, <1>7

-----------------------------------------------------------------------------
(* The filters.                                                             *)

LEMMA Absolute == \A a \in Int, b \in Int : Abs(a - b) = Abs(b - a) /\ Abs(a - b) \in Int
  BY DEF Abs

LEMMA Shifts ==
  \A v \in Int : /\ RightShift(v, 1) = (v + 1) \div 2 /\ RightShift(v, 1) \in Int
                 /\ RightShift(v, 2) = (v + 2) \div 4 /\ RightShift(v, 2) \in Int
                 /\ RightShift(v, 3) = (v + 4) \div 8 /\ RightShift(v, 3) \in Int
  BY DEF RightShift

LEMMA Clamped == \A v \in Int, a \in Int, b \in Int : Clamp(v, a, b) \in Int
  BY DEF Clamp

LEMMA SmoothAgrees ==
  ASSUME mbs \in Inputs, SameParameter, NEW p \in Sides, NEW q \in Sides
  PROVE  Smooth(p, q) <=> /\ Abs(p[0] - q[0]) < ReceiverAlpha
                          /\ Abs(p[1] - p[0]) < ReceiverBeta
                          /\ Abs(q[1] - q[0]) < ReceiverBeta
  BY Absolute, Parameters DEF Smooth, Sides

\* One side that is smooth has the same name in both.
LEMMA SmallAgrees ==
  ASSUME mbs \in Inputs, SameParameter, NEW p \in Sides
  PROVE  Small(p) <=> (mbs.plane = "luma" /\ Abs(p[0] - p[2]) < beta)
  BY Absolute, Parameters DEF Small, Sides

LEMMA StrongAgrees ==
  ASSUME mbs \in Inputs, SameParameter, NEW l \in Sides, NEW r \in Sides
  PROVE  /\ (IF mbs.plane = "luma" THEN StrongLuma(l, r) ELSE StrongChroma(l, r)) = ReceiverStrong(l, r)
         /\ ReceiverStrong(l, r) \in Sides
  <1>1. /\ l[0] \in Int /\ l[1] \in Int /\ l[2] \in Int /\ l[3] \in Int
        /\ r[0] \in Int /\ r[1] \in Int
    BY DEF Sides
  <1>2. /\ RightShift(r[1] + 2 * (l[1] + (l[0] + r[0])) + l[2], 3)
             = (l[2] + 2 * l[1] + 2 * l[0] + 2 * r[0] + r[1] + 4) \div 8
        /\ RightShift(l[2] + l[1] + (l[0] + r[0]), 2) = (l[2] + l[1] + l[0] + r[0] + 2) \div 4
        /\ RightShift(2 * (l[3] + l[2]) + l[2] + l[1] + (l[0] + r[0]), 3)
             = (2 * l[3] + 3 * l[2] + l[1] + l[0] + r[0] + 4) \div 8
        /\ RightShift(2 * l[1] + l[0] + r[1], 2) = (2 * l[1] + l[0] + r[1] + 2) \div 4
    BY <1>1 DEF RightShift
  <1>3. /\ alpha = ReceiverAlpha
        /\ Abs(r[0] - l[0]) = Abs(l[0] - r[0])
        /\ Small(l) <=> (mbs.plane = "luma" /\ Abs(l[0] - l[2]) < beta)
    BY <1>1, Absolute, Parameters, SmallAgrees
  <1>4. ReceiverStrong(l, r) \in Sides
    BY <1>1 DEF ReceiverStrong, Sides
  <1>5. CASE mbs.plane = "luma"
    BY <1>2, <1>3, <1>4, <1>5 DEF StrongLuma, ReceiverStrong
  <1>6. CASE mbs.plane # "luma"
    BY <1>2, <1>3, <1>4, <1>6 DEF StrongChroma, ReceiverStrong
  <1> QED  BY <1>5, <1>6

\* The samples may move by the same amount.
LEMMA RoomAgrees ==
  ASSUME mbs \in Inputs, SameParameter, NEW p \in Sides, NEW q \in Sides, NEW c \in Int
  PROVE  LET smooth == {s \in {<<"p", p>>, <<"q", q>>} : Small(s[2])}
         IN  /\ Room(p, q, c, mbs.plane = "luma")
                  = c + (IF mbs.plane = "luma" THEN Cardinality(smooth) ELSE 1)
             /\ Room(p, q, c, mbs.plane = "luma") \in Int
  <1> DEFINE smooth == {s \in {<<"p", p>>, <<"q", q>>} : Small(s[2])}
             a == <<"p", p>>
             b == <<"q", q>>
  <1>1. a # b /\ a[2] = p /\ b[2] = q
    OBVIOUS
  <1>2. /\ Small(p) <=> (mbs.plane = "luma" /\ Abs(p[0] - p[2]) < beta)
        /\ Small(q) <=> (mbs.plane = "luma" /\ Abs(q[0] - q[2]) < beta)
    BY SmallAgrees
  <1>3. smooth = {s \in {a, b} : Small(s[2])}
    OBVIOUS
  <1> HIDE DEF smooth, a, b
  <1>4. Cardinality(smooth) = (IF Small(p) THEN 1 ELSE 0) + (IF Small(q) THEN 1 ELSE 0)
    <2>1. CASE Small(p) /\ Small(q)
      <3>1. smooth = {a, b}
        BY <1>1, <1>3, <2>1
      <3>2. Cardinality({a, b}) = 2
        <4>1. IsFiniteSet({a}) /\ Cardinality({a}) = 1 /\ b \notin {a}
          BY <1>1, FS_Singleton
        <4>2. Cardinality({a} \cup {b}) = IF b \in {a} THEN Cardinality({a}) ELSE Cardinality({a}) + 1
          BY <4>1, FS_AddElement
        <4>3. {a, b} = {a} \cup {b}
          OBVIOUS
        <4> QED  BY <4>1, <4>2, <4>3
      <3> QED  BY <2>1, <3>1, <3>2
    <2>2. CASE Small(p) /\ ~Small(q)
      <3>1. smooth = {a}
        BY <1>1, <1>3, <2>2
      <3> QED  BY <2>2, <3>1, FS_Singleton
    <2>3. CASE ~Small(p) /\ Small(q)
      <3>1. smooth = {b}
        BY <1>1, <1>3, <2>3
      <3> QED  BY <2>3, <3>1, FS_Singleton
    <2>4. CASE ~Small(p) /\ ~Small(q)
      <3>1. smooth = {}
        BY <1>1, <1>3, <2>4
      <3> QED  BY <2>4, <3>1, FS_EmptySet
    <2> QED  BY <2>1, <2>2, <2>3, <2>4
  <1>5. /\ Room(p, q, c, mbs.plane = "luma")
             = c + (IF mbs.plane = "luma" THEN Cardinality(smooth) ELSE 1)
        /\ Room(p, q, c, mbs.plane = "luma") \in Int
    BY <1>2, <1>4 DEF Room
  <1> QED  BY <1>5 DEF smooth

\* One side of the normal filter, whose nearest sample moves by delta.
LEMMA SideAgrees ==
  ASSUME mbs \in Inputs, SameParameter, NEW s \in 1..3,
         NEW l \in Sides, NEW r \in Sides, NEW delta \in Int
  PROVE  /\ NormalSide(l, r, delta, s_clip_table[s][index_a + 1], mbs.plane = "luma")
              = ReceiverNormal(s, l, r, delta)
         /\ ReceiverNormal(s, l, r, delta) \in Sides
  <1> DEFINE c == ReceiverBound(s)
  <1>1. s_clip_table[s][index_a + 1] = c /\ c \in Int
    BY Parameters
  <1>2. Small(l) <=> (mbs.plane = "luma" /\ Abs(l[0] - l[2]) < beta)
    BY SmallAgrees
  <1>3. /\ l[0] \in Int /\ l[1] \in Int /\ l[2] \in Int /\ r[0] \in Int
    BY DEF Sides
  <1> DEFINE near == Clamp(l[0] + delta, 0, 255)
             far == l[1] + Clamp((l[2] + ((l[0] + r[0] + 1) \div 2) - 2 * l[1]) \div 2, -c, c)
  <1>4. near \in Int /\ far \in Int
    BY <1>1, <1>3 DEF Clamp
  <1>5. RightShift(l[0] + r[0], 1) = (l[0] + r[0] + 1) \div 2
    BY <1>3 DEF RightShift
  <1>6. NormalSide(l, r, delta, c, mbs.plane = "luma")
          = IF Small(l) THEN [[l EXCEPT ![0] = near] EXCEPT ![1] = far] ELSE [l EXCEPT ![0] = near]
    BY <1>2, <1>5 DEF NormalSide
  <1>7. ReceiverNormal(s, l, r, delta) = [l EXCEPT ![0] = near, ![1] = IF Small(l) THEN far ELSE l[1]]
    BY DEF ReceiverNormal
  <1> HIDE DEF c, near, far
  <1>8. /\ (IF Small(l) THEN [[l EXCEPT ![0] = near] EXCEPT ![1] = far] ELSE [l EXCEPT ![0] = near])
             = [l EXCEPT ![0] = near, ![1] = IF Small(l) THEN far ELSE l[1]]
        /\ [l EXCEPT ![0] = near, ![1] = IF Small(l) THEN far ELSE l[1]] \in Sides
    <2>1. DOMAIN l = 0..3
      BY DEF Sides
    <2>2. CASE Small(l)
      <3>1. [[l EXCEPT ![0] = near] EXCEPT ![1] = far] = [l EXCEPT ![0] = near, ![1] = far]
        BY <2>1
      <3>2. [l EXCEPT ![0] = near, ![1] = far] \in Sides
        BY <1>4 DEF Sides
      <3> QED  BY <2>2, <3>1, <3>2
    <2>3. CASE ~Small(l)
      <3>1. [l EXCEPT ![0] = near] = [l EXCEPT ![0] = near, ![1] = l[1]]
        <4> DEFINE m == [l EXCEPT ![0] = near]
        <4>1. m \in Sides /\ m[1] = l[1]
          BY <1>4 DEF Sides
        <4>2. m = [m EXCEPT ![1] = l[1]]
          BY <4>1 DEF Sides
        <4>3. [l EXCEPT ![0] = near, ![1] = l[1]] = [m EXCEPT ![1] = l[1]]
          BY <2>1
        <4> QED  BY <4>2, <4>3
      <3>2. [l EXCEPT ![0] = near] \in Sides
        BY <1>4 DEF Sides
      <3> QED  BY <2>3, <3>1, <3>2
    <2> QED  BY <2>2, <2>3
  <1> QED  BY <1>1, <1>6, <1>7, <1>8

LEMMA NormalAgrees ==
  ASSUME mbs \in Inputs, SameParameter, NEW s \in 1..3, NEW p \in Sides, NEW q \in Sides
  PROVE  LET delta == ReceiverDelta(s, p, q)
         IN  /\ Normal(p, q, s_clip_table[s][index_a + 1], mbs.plane = "luma")
                  = <<ReceiverNormal(s, p, q, delta), ReceiverNormal(s, q, p, -delta)>>
             /\ ReceiverNormal(s, p, q, delta) \in Sides
             /\ ReceiverNormal(s, q, p, -delta) \in Sides
  <1> DEFINE c == s_clip_table[s][index_a + 1]
             room == Room(p, q, c, mbs.plane = "luma")
             delta == ReceiverDelta(s, p, q)
             smooth == {x \in {<<"p", p>>, <<"q", q>>} : Small(x[2])}
             dif == Clamp(RightShift(4 * (q[0] - p[0]) + (p[1] - q[1]), 3), -room, room)
  <1>1. c = ReceiverBound(s) /\ c \in Int
    BY Parameters
  <1>2. room = c + (IF mbs.plane = "luma" THEN Cardinality(smooth) ELSE 1) /\ room \in Int
    BY <1>1, RoomAgrees
  <1>3. RightShift(4 * (q[0] - p[0]) + (p[1] - q[1]), 3) = (4 * (q[0] - p[0]) + (p[1] - q[1]) + 4) \div 8
    BY DEF RightShift, Sides
  <1>4. delta = Clamp((4 * (q[0] - p[0]) + (p[1] - q[1]) + 4) \div 8, -room, room)
    BY <1>1, <1>2 DEF ReceiverDelta
  <1>5. dif = delta
    BY <1>3, <1>4
  <1>6. delta \in Int /\ -delta \in Int
    <2>1. (4 * (q[0] - p[0]) + (p[1] - q[1]) + 4) \div 8 \in Int /\ -room \in Int
      BY <1>2 DEF Sides
    <2>2. delta \in Int
      BY <1>2, <1>4, <2>1, Clamped
    <2> QED  BY <2>2
  <1>7. Normal(p, q, c, mbs.plane = "luma")
          = <<NormalSide(p, q, dif, c, mbs.plane = "luma"), NormalSide(q, p, -dif, c, mbs.plane = "luma")>>
    BY DEF Normal
  <1> HIDE DEF delta, dif
  <1>8. /\ NormalSide(p, q, delta, c, mbs.plane = "luma") = ReceiverNormal(s, p, q, delta)
        /\ NormalSide(q, p, -delta, c, mbs.plane = "luma") = ReceiverNormal(s, q, p, -delta)
        /\ ReceiverNormal(s, p, q, delta) \in Sides
        /\ ReceiverNormal(s, q, p, -delta) \in Sides
    BY <1>6, SideAgrees
  <1> QED  BY <1>5, <1>7, <1>8 DEF delta

-----------------------------------------------------------------------------
(* Strengths.                                                               *)

LEMMA BlocksAgree ==
  ASSUME NEW e \in 0..3
  PROVE  /\ QBlock(e) = BlockAt(4 * e)
         /\ PBlock(e) = BlockAt(4 * e - 1)
  <1>1. ((4 * e) % 16) \div 4 = e
    OBVIOUS
  <1>2. ((4 * e - 1) % 16) \div 4 = IF e = 0 THEN 3 ELSE e - 1
    OBVIOUS
  <1> QED  BY <1>1, <1>2 DEF QBlock, PBlock, BlockAt

LEMMA StrengthAgrees ==
  ASSUME mbs \in Inputs, NEW e \in 0..3
  PROVE  Strength(e) = ReceiverStrength(4 * e) /\ Strength(e) \in 0..4
  <1>1. mbs.intra \in BOOLEAN /\ mbs.p_motion \in Motion /\ mbs.q_motion \in Motion
    BY InputsAssumption
  <1>2. 4 * e = 0 <=> e = 0
    OBVIOUS
  <1>3. (4 * e - 1 < 0) <=> e = 0
    OBVIOUS
  <1>4. ~(4 * e < 0)
    OBVIOUS
  <1>5. IsLumaAllZero(e) <=> ~Coded(4 * e - 1) /\ ~Coded(4 * e)
    BY <1>3, <1>4, BlocksAgree DEF IsLumaAllZero, Coded
  <1>6. MotionAt(4 * e) = mbs.q_motion /\ MotionAt(4 * e - 1) = IF e = 0 THEN mbs.p_motion ELSE mbs.q_motion
    BY <1>3, <1>4 DEF MotionAt
  <1> DEFINE Different(p, q) == p.ref_id # q.ref_id \/ Abs(p.mv.x - q.mv.x) >= 4 \/ Abs(p.mv.y - q.mv.y) >= 4
  <1>7. Different(MotionAt(4 * e - 1), MotionAt(4 * e))
          <=> (e = 0 /\ IsMotionDifferent(mbs.p_motion, mbs.q_motion))
    <2>1. IsMotionDifferent(mbs.p_motion, mbs.q_motion) <=> Different(mbs.p_motion, mbs.q_motion)
      BY DEF IsMotionDifferent, mv_different_threshold
    <2>2. ~Different(mbs.q_motion, mbs.q_motion)
      <3>1. mbs.q_motion.mv.x \in Int /\ mbs.q_motion.mv.y \in Int
        BY <1>1 DEF Motion
      <3>2. \A n \in Int : Abs(n - n) = 0
        BY DEF Abs
      <3> QED  BY <3>1, <3>2
    <2> HIDE DEF Different
    <2> QED  BY <1>6, <2>1, <2>2
  <1>8. ReceiverStrength(4 * e) =
          CASE mbs.intra /\ 4 * e = 0 -> 4
            [] mbs.intra /\ 4 * e # 0 -> 3
            [] ~mbs.intra /\ (Coded(4 * e - 1) \/ Coded(4 * e)) -> 2
            [] ~mbs.intra /\ ~Coded(4 * e - 1) /\ ~Coded(4 * e) ->
                 IF Different(MotionAt(4 * e - 1), MotionAt(4 * e)) THEN 1 ELSE 0
    BY DEF ReceiverStrength
  <1> HIDE DEF Different
  <1>9. CASE mbs.intra
    BY <1>2, <1>8, <1>9 DEF Strength
  <1>10. CASE ~mbs.intra /\ ~IsLumaAllZero(e)
    BY <1>5, <1>8, <1>10 DEF Strength
  <1>11. CASE ~mbs.intra /\ IsLumaAllZero(e)
    BY <1>5, <1>7, <1>8, <1>11 DEF Strength
  <1> QED  BY <1>1, <1>9, <1>10, <1>11

\* The inductive invariant.
IInv ==
  /\ mbs \in Inputs
  /\ edge \in 0..4
  /\ SameParameter => line \in [-16..15 -> Int] /\ received = line

LEMMA EdgeStrengthAgrees ==
  ASSUME IInv, edge < Size \div 4
  PROVE  EdgeStrength = ReceiverEdgeStrength(edge) /\ EdgeStrength \in 0..4
  <1>1. CASE mbs.plane = "luma"
    <2>1. edge \in 0..3
      BY <1>1 DEF IInv, Size
    <2>2. Strength(edge) = ReceiverStrength(4 * edge) /\ Strength(edge) \in 0..4
      BY <2>1, StrengthAgrees DEF IInv
    <2> QED  BY <1>1, <2>2 DEF EdgeStrength, ReceiverEdgeStrength
  <1>2. CASE mbs.plane # "luma"
    <2>1. 2 * edge \in 0..3 /\ 4 * (2 * edge) = 2 * (4 * edge)
      BY <1>2 DEF IInv, Size
    <2>2. Strength(2 * edge) = ReceiverStrength(4 * (2 * edge)) /\ Strength(2 * edge) \in 0..4
      BY <2>1, StrengthAgrees DEF IInv
    <2> QED  BY <1>2, <2>1, <2>2 DEF EdgeStrength, ReceiverEdgeStrength
  <1> QED  BY <1>1, <1>2

-----------------------------------------------------------------------------
(* One edge.                                                                *)

\* The samples before and after the edge are those a receiver takes.
LEMMA SamplesAgree ==
  ASSUME IInv, SameParameter, edge < Size \div 4
  PROVE  /\ GetLeftData = [k \in 0..3 |-> line[4 * edge - 1 - k]]
         /\ GetRightData = [k \in 0..3 |-> line[4 * edge + k]]
         /\ GetLeftData \in Sides /\ GetRightData \in Sides
         /\ edge \in 0..3
  <1>1. edge \in 0..3 /\ Size \in {8, 16} /\ 4 * edge < Size
    BY DEF IInv, Size
  <1>2. ASSUME NEW k \in 0..3
        PROVE  LET x == ((edge * 4 - 1 + Size) % Size) - k
               IN  (IF edge = 0 THEN x - Size ELSE x) = 4 * edge - 1 - k
    <2>1. (edge * 4 - 1 + Size) % Size = IF edge = 0 THEN Size - 1 ELSE 4 * edge - 1
      <3>1. CASE Size = 8
        BY <1>1, <3>1
      <3>2. CASE Size = 16
        BY <1>1, <3>2
      <3> QED  BY <1>1, <3>1, <3>2
    <2> QED  BY <1>1, <2>1
  <1>3. \A k \in 0..3 : 4 * edge - 1 - k \in -16..15 /\ 4 * edge + k \in -16..15
    BY <1>1
  <1>4. \A k \in 0..3 : line[4 * edge - 1 - k] \in Int /\ line[4 * edge + k] \in Int
    BY <1>3 DEF IInv
  <1>5. GetLeftData = [k \in 0..3 |-> line[4 * edge - 1 - k]]
    BY <1>2 DEF GetLeftData
  <1>6. GetRightData = [k \in 0..3 |-> line[4 * edge + k]]
    BY <1>1 DEF GetRightData
  <1> QED  BY <1>1, <1>4, <1>5, <1>6 DEF Sides

\* Each side filtered as the receiver filters it.
LEMMA DoFilterAgrees ==
  ASSUME mbs \in Inputs, SameParameter, NEW s \in 1..4, NEW p \in Sides, NEW q \in Sides
  PROVE  LET delta == ReceiverDelta(s, p, q)
             new_p == IF s = 4 THEN ReceiverStrong(p, q) ELSE ReceiverNormal(s, p, q, delta)
             new_q == IF s = 4 THEN ReceiverStrong(q, p) ELSE ReceiverNormal(s, q, p, -delta)
         IN  /\ DoFilter(s, p, q) = IF Smooth(p, q) THEN <<new_p, new_q>> ELSE <<p, q>>
             /\ new_p \in Sides /\ new_q \in Sides
  <1>1. CASE s = 4
    <2>1. /\ (IF mbs.plane = "luma" THEN StrongLuma(p, q) ELSE StrongChroma(p, q)) = ReceiverStrong(p, q)
          /\ (IF mbs.plane = "luma" THEN StrongLuma(q, p) ELSE StrongChroma(q, p)) = ReceiverStrong(q, p)
          /\ ReceiverStrong(p, q) \in Sides /\ ReceiverStrong(q, p) \in Sides
      BY StrongAgrees
    <2>2. CASE mbs.plane = "luma"
      BY <1>1, <2>1, <2>2 DEF DoFilter
    <2>3. CASE mbs.plane # "luma"
      BY <1>1, <2>1, <2>3 DEF DoFilter
    <2> QED  BY <2>2, <2>3
  <1>2. CASE s # 4
    <2>1. s \in 1..3
      BY <1>2
    <2>2. LET delta == ReceiverDelta(s, p, q)
          IN  /\ Normal(p, q, s_clip_table[s][index_a + 1], mbs.plane = "luma")
                   = <<ReceiverNormal(s, p, q, delta), ReceiverNormal(s, q, p, -delta)>>
              /\ ReceiverNormal(s, p, q, delta) \in Sides
              /\ ReceiverNormal(s, q, p, -delta) \in Sides
      BY <2>1, NormalAgrees
    <2> QED  BY <1>2, <2>2 DEF DoFilter
  <1> QED  BY <1>1, <1>2

\* The samples beside the edge replaced by others.
Replaced(samples, p, q) ==
  [y \in DOMAIN samples |->
     IF y \in (4 * edge)..(4 * edge + 3) THEN q[y - 4 * edge]
     ELSE IF y \in (4 * edge - 4)..(4 * edge - 1) THEN p[4 * edge - 1 - y]
     ELSE samples[y]]

LEMMA ReplacedType ==
  ASSUME NEW e \in 0..3, e = edge, NEW samples \in [-16..15 -> Int], NEW p \in Sides, NEW q \in Sides
  PROVE  Replaced(samples, p, q) \in [-16..15 -> Int]
  <1>1. ASSUME NEW y \in -16..15
        PROVE  (IF y \in (4 * e)..(4 * e + 3) THEN q[y - 4 * e]
                ELSE IF y \in (4 * e - 4)..(4 * e - 1) THEN p[4 * e - 1 - y]
                ELSE samples[y]) \in Int
    <2>1. y \in (4 * e)..(4 * e + 3) => y - 4 * e \in 0..3
      OBVIOUS
    <2>2. y \in (4 * e - 4)..(4 * e - 1) => 4 * e - 1 - y \in 0..3
      OBVIOUS
    <2>3. \A k \in 0..3 : p[k] \in Int /\ q[k] \in Int
      BY DEF Sides
    <2>4. samples[y] \in Int
      BY <1>1
    <2> QED  BY <2>1, <2>2, <2>3, <2>4
  <1>2. DOMAIN samples = -16..15
    OBVIOUS
  <1> QED  BY <1>1, <1>2 DEF Replaced

\* Put back where they were taken from, the samples are the line.
LEMMA PutBack ==
  ASSUME NEW e \in 0..3, e = edge, NEW samples \in [-16..15 -> Int]
  PROVE  Replaced(samples, [k \in 0..3 |-> samples[4 * e - 1 - k]], [k \in 0..3 |-> samples[4 * e + k]]) = samples
  <1> DEFINE p == [k \in 0..3 |-> samples[4 * e - 1 - k]]
             q == [k \in 0..3 |-> samples[4 * e + k]]
  <1>1. ASSUME NEW y \in -16..15
        PROVE  (IF y \in (4 * e)..(4 * e + 3) THEN q[y - 4 * e]
                ELSE IF y \in (4 * e - 4)..(4 * e - 1) THEN p[4 * e - 1 - y]
                ELSE samples[y]) = samples[y]
    <2>1. CASE y \in (4 * e)..(4 * e + 3)
      <3>1. y - 4 * e \in 0..3 /\ 4 * e + (y - 4 * e) = y
        BY <2>1
      <3> QED  BY <2>1, <3>1
    <2>2. CASE y \in (4 * e - 4)..(4 * e - 1)
      <3>1. 4 * e - 1 - y \in 0..3 /\ 4 * e - 1 - (4 * e - 1 - y) = y /\ y \notin (4 * e)..(4 * e + 3)
        BY <2>2
      <3> QED  BY <2>2, <3>1
    <2> QED  BY <2>1, <2>2
  <1>2. DOMAIN samples = -16..15 /\ samples = [y \in -16..15 |-> samples[y]]
    OBVIOUS
  <1> HIDE DEF p, q
  <1>3. Replaced(samples, p, q) = samples
    BY <1>1, <1>2 DEF Replaced
  <1> QED  BY <1>3 DEF p, q

\* Both filter the edge to the same line.
LEMMA EdgeAgrees ==
  ASSUME IInv, SameParameter, edge < Size \div 4
  PROVE  LET filtered == DoFilter(EdgeStrength, GetLeftData, GetRightData)
             after == IF EdgeStrength = 0 THEN line ELSE SetData(filtered[1], filtered[2])
         IN  after = ReceiverEdge(edge, line) /\ after \in [-16..15 -> Int]
  <1> DEFINE p == [k \in 0..3 |-> line[4 * edge - 1 - k]]
             q == [k \in 0..3 |-> line[4 * edge + k]]
             s == EdgeStrength
             delta == ReceiverDelta(s, p, q)
             new_p == IF s = 4 THEN ReceiverStrong(p, q) ELSE ReceiverNormal(s, p, q, delta)
             new_q == IF s = 4 THEN ReceiverStrong(q, p) ELSE ReceiverNormal(s, q, p, -delta)
             filtered == DoFilter(s, p, q)
             after == IF s = 0 THEN line ELSE SetData(filtered[1], filtered[2])
  <1>1. /\ GetLeftData = p /\ GetRightData = q /\ p \in Sides /\ q \in Sides
        /\ edge \in 0..3
    BY SamplesAgree
  <1>2. mbs \in Inputs /\ line \in [-16..15 -> Int]
    BY DEF IInv
  <1>3. s = ReceiverEdgeStrength(edge) /\ s \in 0..4
    BY EdgeStrengthAgrees
  <1>4. \A a, b : SetData(a, b) = Replaced(line, a, b)
    BY <1>1 DEF SetData, Replaced
  <1>5. Smooth(p, q) <=> /\ Abs(p[0] - q[0]) < ReceiverAlpha
                         /\ Abs(p[1] - p[0]) < ReceiverBeta
                         /\ Abs(q[1] - q[0]) < ReceiverBeta
    BY <1>1, <1>2, SmoothAgrees
  <1>6. ReceiverEdge(edge, line) = IF s # 0 /\ Smooth(p, q) THEN Replaced(line, new_p, new_q) ELSE line
    BY <1>3, <1>5, Zenon DEF ReceiverEdge, Replaced
  <1> HIDE DEF p, q
  <1>7. CASE s = 0
    BY <1>1, <1>2, <1>6, <1>7
  <1>8. CASE s # 0
    <2>1. s \in 1..4
      BY <1>3, <1>8
    <2>2. /\ filtered = IF Smooth(p, q) THEN <<new_p, new_q>> ELSE <<p, q>>
          /\ new_p \in Sides /\ new_q \in Sides
      BY <1>1, <1>2, <2>1, DoFilterAgrees
    <2>3. Replaced(line, p, q) = line
      BY <1>1, <1>2, PutBack DEF p, q
    <2>4. Replaced(line, new_p, new_q) \in [-16..15 -> Int]
      BY <1>1, <1>2, <2>2, ReplacedType
    <2> HIDE DEF new_p, new_q, filtered, s
    <2>5. CASE Smooth(p, q)
      <3>1. filtered[1] = new_p /\ filtered[2] = new_q
        BY <2>2, <2>5
      <3>2. after = Replaced(line, new_p, new_q)
        BY <1>4, <1>8, <3>1
      <3> QED  BY <1>1, <1>6, <1>8, <2>4, <2>5, <3>2 DEF filtered, s
    <2>6. CASE ~Smooth(p, q)
      <3>1. filtered[1] = p /\ filtered[2] = q
        BY <2>2, <2>6
      <3>2. after = line
        BY <1>4, <1>8, <2>3, <3>1
      <3> QED  BY <1>1, <1>2, <1>6, <2>6, <3>2 DEF filtered, s
    <2> QED  BY <2>5, <2>6
  <1> QED  BY <1>7, <1>8

\* A line of samples is a line of integers.
LEMMA Widened ==
  ASSUME NEW S, NEW A, NEW B, \A v \in A : v \in B
  PROVE  \A f \in [S -> A] : f \in [S -> B]
  OBVIOUS

LEMMA StartsEqual == Init => IInv
  <1> SUFFICES ASSUME Init PROVE IInv
    OBVIOUS
  <1>1. mbs \in Inputs /\ edge = 0 /\ line = mbs.line /\ received = line
    BY DEF Init
  <1>2. mbs.line \in [-16..15 -> 0..255]
    BY <1>1, InputsAssumption
  <1>3. line \in [-16..15 -> Int]
    <2> DEFINE S == -16..15
               Bytes == 0..255
    <2>1. line \in [S -> Bytes]
      BY <1>1, <1>2
    <2>2. \A v \in Bytes : v \in Int
      OBVIOUS
    <2> HIDE DEF S, Bytes
    <2>3. \A f \in [S -> Bytes] : f \in [S -> Int]
      BY <2>2, Widened
    <2>4. line \in [S -> Int]
      BY <2>1, <2>3
    <2> QED  BY <2>4 DEF S
  <1> QED  BY <1>1, <1>3 DEF IInv

LEMMA StaysEqual == IInv /\ [Next]_vars => IInv'
  <1> SUFFICES ASSUME IInv, [Next]_vars PROVE IInv'
    OBVIOUS
  <1>1. CASE SkipEdge
    BY <1>1 DEF SkipEdge, IInv, SameParameter
  <1>2. CASE FilterEdge
    <2>1. edge < Size \div 4 /\ mbs' = mbs /\ edge' = edge + 1
      BY <1>2 DEF FilterEdge
    <2>2. edge' \in 0..4
      BY <2>1 DEF IInv, Size
    <2>3. ASSUME SameParameter
          PROVE  line' \in [-16..15 -> Int] /\ received' = line'
      <3>1. received = line
        BY <2>3 DEF IInv
      <3>2. /\ line' = ReceiverEdge(edge, line)
            /\ line' \in [-16..15 -> Int]
        BY <1>2, <2>1, <2>3, EdgeAgrees DEF FilterEdge
      <3>3. received' = ReceiverEdge(edge, line)
        BY <1>2, <3>1 DEF FilterEdge
      <3> QED  BY <3>2, <3>3
    <2> QED  BY <2>1, <2>2, <2>3 DEF IInv, SameParameter
  <1>3. CASE UNCHANGED vars
    BY <1>3 DEF vars, IInv, SameParameter
  <1> QED  BY <1>1, <1>2, <1>3 DEF Next

THEOREM LinesStayEqual == Spec => []IInv
  BY StartsEqual, StaysEqual, PTL DEF Spec

-----------------------------------------------------------------------------
(* What the invariant gives.                                                *)

\* Every edge, of luma and of chroma, has the strength FilterUtil is meant to
\* give it, whatever the coded blocks and the motion of the two macroblocks.
THEOREM StrengthsAgree == Spec => []StrengthsAreReceivers
  <1>1. IInv => StrengthsAreReceivers
    BY EdgeStrengthAgrees DEF StrengthsAreReceivers
  <1> QED  BY <1>1, LinesStayEqual, PTL

\* After every edge the line of samples is a receiver's, for every line, every
\* parameter in luma and those in chroma that luma and chroma share.
THEOREM FiltersAgree == Spec => []FilteredAsReceiver
  <1>1. IInv => FilteredAsReceiver
    BY DEF IInv, SameParameter, FilteredAsReceiver
  <1> QED  BY <1>1, LinesStayEqual, PTL
=============================================================================
