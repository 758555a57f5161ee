------------------------------ MODULE Receiver ------------------------------
(***************************************************************************)
(* What a receiver of the bit stream derives from the parameter sets and   *)
(* the slice headers alone: the order count of each picture, whether it    *)
(* believes a frame was lost, and its list of references.  The rules are   *)
(* those of the coding standard for what this encoder signals: order count *)
(* type 0, every picture a reference, sliding window marking, no           *)
(* reordering.  A receiver lives outside the repository; the encoder is    *)
(* held against it.                                                        *)
(***************************************************************************)
EXTENDS Integers, Sequences, FiniteSets

\* Before the first picture.  refs is oldest first.
NoPictures == [pics |-> <<>>, refs |-> <<>>, msb |-> 0, lsb |-> 0]

OrderCountMsb(maxLsb, acc, lsb) ==
  CASE lsb < acc.lsb /\ acc.lsb - lsb >= maxLsb \div 2 -> acc.msb + maxLsb
    [] lsb > acc.lsb /\ lsb - acc.lsb > maxLsb \div 2  -> acc.msb - maxLsb
    [] OTHER -> acc.msb

\* A reference's frame_num as seen from a picture numbered current.
FrameNumWrap(maxNum, current, num) == IF num > current THEN num - maxNum ELSE num

\* The picture number of the reference at place i.
PicNum(maxNum, refs, current, i) == FrameNumWrap(maxNum, current, refs[i].frame_num)

\* References by descending picture number, as picture indices: at place k the
\* one with k - 1 references above it.
InitialList(maxNum, refs, current) ==
  LET above(i) == {j \in DOMAIN refs : PicNum(maxNum, refs, current, j) > PicNum(maxNum, refs, current, i)}
  IN  [k \in DOMAIN refs |-> refs[CHOOSE i \in DOMAIN refs : Cardinality(above(i)) = k - 1].pic]

\* Drops the reference with the smallest picture number when the window is full.
SlideWindow(maxNum, size, refs, current) ==
  LET oldest == CHOOSE i \in DOMAIN refs :
                  \A j \in DOMAIN refs : PicNum(maxNum, refs, current, i) <= PicNum(maxNum, refs, current, j)
  IN  IF Len(refs) < size THEN refs
      ELSE [k \in 1..(Len(refs) - 1) |-> IF k < oldest THEN refs[k] ELSE refs[k + 1]]

Receive(sps, acc, slice) ==
  LET maxNum == 2^sps.log2_max_frame_num
      maxLsb == 2^sps.log2_max_pic_order_cnt_lsb
      start  == IF slice.idr_pic_flag THEN [NoPictures EXCEPT !.pics = acc.pics] ELSE acc
      msb    == OrderCountMsb(maxLsb, start, slice.pic_order_cnt_lsb)
      kept   == SlideWindow(maxNum, sps.max_num_ref_frames, start.refs, slice.frame_num)
      me     == Len(acc.pics) + 1
      expected == IF start.refs = <<>> THEN 0
                  ELSE (start.refs[Len(start.refs)].frame_num + 1) % maxNum
  IN  [pics |-> Append(acc.pics,
                  [order |-> msb + slice.pic_order_cnt_lsb,
                   lost  |-> slice.frame_num # expected,
                   list0 |-> InitialList(maxNum, start.refs, slice.frame_num)]),
       refs |-> Append(kept, [frame_num |-> slice.frame_num, pic |-> me]),
       msb  |-> msb,
       lsb  |-> slice.pic_order_cnt_lsb]
=============================================================================
