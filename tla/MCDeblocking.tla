--------------------------- MODULE MCDeblocking ---------------------------
(* Lines of samples and macroblocks for Deblocking. *)
EXTENDS Deblocking

Still == [ref_id |-> 0, mv |-> [x |-> 0, y |-> 0]]
Moved == {Still, [Still EXCEPT !.mv.x = 3], [Still EXCEPT !.mv.x = -4],
          [Still EXCEPT !.mv.y = 4], [Still EXCEPT !.ref_id = 1]}

\* Blocks of four samples with a gradient, one step up or down from block to
\* block, or up at the macroblock's edge only.
Stairs(base, step, gradient) ==
  [x \in -16..15 |->
     Clamp(base + gradient * (x % 4) + (IF (x \div 4) % 2 = 0 THEN step ELSE 0), 0, 255)]

Ridge(base, step, bend) ==
  [x \in -16..15 |->
     Clamp(base + (IF x >= 0 THEN step ELSE 0) + (IF x % 4 \in {1, 2} THEN bend ELSE 0), 0, 255)]

Steps == {-60, -17, -9, -4, -2, 0, 1, 3, 6, 12, 25, 100}

Lines == {Stairs(base, step, gradient) : base \in {2, 128}, step \in Steps, gradient \in {-1, 0, 2, 5}}
         \cup {Ridge(base, step, bend) : base \in {3, 250}, step \in Steps, bend \in {-2, 1, 4}}

FewLines == {Stairs(128, 3, 1), Stairs(100, -9, 2), Ridge(60, 5, 1), Ridge(253, 12, -1),
             Stairs(128, 16, 0), Stairs(128, -40, 1), Stairs(128, 100, 0)}

Kind(kind) ==
  CASE kind = "intra" -> [intra |-> TRUE, p_cbp |-> {}, q_cbp |-> {}, p_motion |-> Still, q_motion |-> Still]
    [] kind = "coded" -> [intra |-> FALSE, p_cbp |-> {}, q_cbp |-> {<<0, 1>>, <<2, 1>>}, p_motion |-> Still, q_motion |-> Still]
    [] kind = "moved" -> [intra |-> FALSE, p_cbp |-> {}, q_cbp |-> {}, p_motion |-> Still, q_motion |-> [Still EXCEPT !.mv.x = 9]]

Input(kind, direction, plane, at, has_neighbour, qp, samples) ==
  [direction |-> direction, plane |-> plane, at |-> at, has_neighbour |-> has_neighbour,
   intra |-> kind.intra, p_cbp |-> kind.p_cbp, q_cbp |-> kind.q_cbp,
   p_motion |-> kind.p_motion, q_motion |-> kind.q_motion, qp |-> qp, line |-> samples]

\* Every filter on every line, at parameters of different tables.
Filtered ==
  {Input(Kind(kind), "vertical", plane, 1, TRUE, qp, samples) :
     kind \in {"intra", "coded", "moved"}, plane \in {"luma", "chroma"}, qp \in {15, 18, 28, 29, 40, 51}, samples \in Lines}

\* Every parameter, on few lines.
Parameters ==
  {Input(Kind(kind), "vertical", plane, 1, TRUE, qp, samples) :
     kind \in {"intra", "coded", "moved"}, plane \in {"luma", "chroma"}, qp \in 0..51, samples \in FewLines}

\* Which blocks are coded, where the line is and which motion the macroblocks have.
CodedBlocks == {{}, {<<3, 1>>, <<1, 3>>}, {<<0, 2>>, <<2, 0>>}, {<<1, 1>>}, {<<3, 0>>}}

Strengths ==
  {Input([intra |-> FALSE, p_cbp |-> p, q_cbp |-> q, p_motion |-> Still, q_motion |-> motion],
         direction, plane, at, has_neighbour, 28, Stairs(100, -9, 2)) :
     p \in CodedBlocks, q \in CodedBlocks, motion \in Moved, direction \in Directions,
     plane \in {"luma", "chroma"}, at \in 0..3, has_neighbour \in BOOLEAN}

SmallInputs == Filtered \cup Parameters \cup Strengths
=============================================================================
