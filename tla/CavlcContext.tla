---------------------------- MODULE CavlcContext ----------------------------
(***************************************************************************)
(* The coefficient counts the coder keeps of the blocks of a picture, and  *)
(* the macroblock coders that use them: class CavlcContext with            *)
(* MBIntraRDOptimizer, MBInterRDOptimizer and the OutputCoefficients of    *)
(* their flows.                                                            *)
(*                                                                         *)
(* The table a block is coded with follows from the counts to its left and *)
(* above it (nC).  The counts live in one map, which the trials of the     *)
(* mode decision write as well, before the macroblock is coded for good; a *)
(* receiver knows only what was coded for good.  Coding a block for good   *)
(* is one action; a trial, which nothing interrupts, is one action too.    *)
(***************************************************************************)
EXTENDS Integers, Sequences

CONSTANTS
  m_width_in_mb, m_height_in_mb,
  Pictures,      \* bound: pictures coded
  LumaCounts,    \* bound: the numbers of coefficients of 16 luma blocks tried
  ChromaCounts   \* bound: the same of the 4 blocks of a chroma plane

ASSUME SizeAssumption ==
  /\ m_width_in_mb \in Nat \ {0}
  /\ m_height_in_mb \in Nat \ {0}
  /\ Pictures \in Nat

ASSUME CountsAssumption ==
  /\ LumaCounts \subseteq [0..15 -> 0..16]
  /\ ChromaCounts \subseteq [0..3 -> 0..15]

VARIABLES
  picture,          \* pictures completed
  m_mb_addr,        \* the macroblock being coded
  step,             \* the step of its coding that comes next
  flow,             \* the macroblock type, its counts and coded block pattern
  m_coeff_num_map,  \* the counts, per plane and block index of the picture
  queue,            \* the blocks OutputCoefficients has still to code
  sent              \* ghost: per plane and place of the picture the count a
                    \* receiver has read in this picture, or NotRead

contextVars == <<picture, m_mb_addr, step, flow, m_coeff_num_map, queue, sent>>

-----------------------------------------------------------------------------
(* The map.  Blocks of a plane are numbered in raster order over the whole *)
(* picture; 4 by 4 of them make a macroblock in luma, 2 by 2 in chroma.    *)

CavlcContextType == {"Luma", "Cb", "Cr"}

MapDataType(data_type) ==
  CASE data_type \in {"NormalLuma", "LumaDC", "LumaAC"} -> "Luma"
    [] data_type = "CbAC" -> "Cb"
    [] data_type = "CrAC" -> "Cr"

BlocksPerSide(context_type) == IF context_type = "Luma" THEN 4 ELSE 2

RowLength(context_type) == BlocksPerSide(context_type) * m_width_in_mb

\* Init: the indices of the map.
Indices(context_type) ==
  0..(RowLength(context_type) * BlocksPerSide(context_type) * m_height_in_mb - 1)

Zeros == [t \in CavlcContextType |-> [i \in Indices(t) |-> 0]]

GetBlockIndex(data_type, mb_addr, block_index) ==
  LET t == MapDataType(data_type)
      n == BlocksPerSide(t)
      x == (mb_addr % m_width_in_mb) * n + (block_index % n)
      y == (mb_addr \div m_width_in_mb) * n + (block_index \div n)
  IN  y * RowLength(t) + x

\* SetCoeffNum: the DC block of a macroblock belongs to no place of the map.
SetCoeffNum(map, data_type, mb_addr, block_index, coeff_num) ==
  IF data_type = "LumaDC" THEN map
  ELSE [map EXCEPT ![MapDataType(data_type)][GetBlockIndex(data_type, mb_addr, block_index)]
          = coeff_num]

\* Faulty variant of GetNC: the average of the two is not rounded up.
GetNCRoundedDown(data_type, mb_addr, block_index) ==
  LET t == MapDataType(data_type)
      i == GetBlockIndex(data_type, mb_addr, block_index)
      left_available == i % RowLength(t) # 0
      up_available == i >= RowLength(t)
      left == m_coeff_num_map[t][i - 1]
      up == m_coeff_num_map[t][i - RowLength(t)]
  IN  CASE left_available /\ up_available  -> (left + up) \div 2
        [] left_available /\ ~up_available -> left
        [] ~left_available /\ up_available -> up
        [] OTHER -> 0

\* The mean of the left and the upper block's counts, rounded up, or the one
\* that is in the picture.
GetNC(data_type, mb_addr, block_index) ==
  LET t == MapDataType(data_type)
      i == GetBlockIndex(data_type, mb_addr, block_index)
      left_available == i % RowLength(t) # 0
      up_available == i >= RowLength(t)
      left == m_coeff_num_map[t][i - 1]
      up == m_coeff_num_map[t][i - RowLength(t)]
  IN  CASE left_available /\ up_available  -> (left + up + 1) \div 2
        [] left_available /\ ~up_available -> left
        [] ~left_available /\ up_available -> up
        [] OTHER -> 0

-----------------------------------------------------------------------------
(* Operations on the counts of a whole macroblock.                         *)

\* The blocks of a plane of a macroblock get the counts given.
SetCounts(map, data_type, mb_addr, counts) ==
  LET t == MapDataType(data_type)
      own == [b \in DOMAIN counts |-> GetBlockIndex(data_type, mb_addr, b)]
  IN  [map EXCEPT ![t] = [i \in DOMAIN @ |->
         IF \E b \in DOMAIN own : own[b] = i
         THEN counts[CHOOSE b \in DOMAIN own : own[b] = i] ELSE @[i]]]

GetMBLumaCoeffNums(map, mb_addr) ==
  [b \in 0..15 |-> map["Luma"][GetBlockIndex("NormalLuma", mb_addr, b)]]

SetMBLumaCoeffNums(map, mb_addr, coeff_nums) ==
  SetCounts(map, "NormalLuma", mb_addr, coeff_nums)

ResetMBCoeffNums(map, mb_addr) ==
  LET luma == SetCounts(map, "NormalLuma", mb_addr, [b \in 0..15 |-> 0])
      cb == SetCounts(luma, "CbAC", mb_addr, [b \in 0..3 |-> 0])
  IN  SetCounts(cb, "CrAC", mb_addr, [b \in 0..3 |-> 0])

-----------------------------------------------------------------------------
(* What a macroblock's OutputCoefficients codes.  A flow is the result of  *)
(* the transforms: the counts of its blocks.  Chroma DC is coded too, but  *)
(* neither reads nor writes a count.                                       *)

Coding(data_type, block_index, coeff_num) ==
  [type |-> data_type, block |-> block_index, num |-> coeff_num]

CalculateBlockIndex(block_8x8, block_4x4) ==
  (block_8x8 % 2) * 2 + (block_4x4 % 2) + 4 * ((block_8x8 \div 2) * 2 + (block_4x4 \div 2))

s_scan_block_orders == <<0, 1, 4, 5, 2, 3, 6, 7, 8, 9, 12, 13, 10, 11, 14, 15>>

NonZero8x8(luma) ==
  {b8 \in 0..3 : \E b4 \in 0..3 : luma[CalculateBlockIndex(b8, b4)] # 0}

\* Intra16LumaFlow: the DC block, which may hold any number of coefficients,
\* and all the AC blocks if one is not empty.
Intra16Coefficients(luma) ==
  <<Coding("LumaDC", 0, 16)>> \o
  (IF NonZero8x8(luma) = {} THEN <<>>
   ELSE [k \in 1..16 |-> Coding("LumaAC", s_scan_block_orders[k], luma[s_scan_block_orders[k]])])

\* Intra4LumaFlow and InterLumaFlowBase: the blocks of the 8x8 blocks whose bit
\* of the coded block pattern is set.
Coefficients8x8(luma, cbp, b8) ==
  IF b8 \notin cbp THEN <<>>
  ELSE [k \in 1..4 |->
          LET b == CalculateBlockIndex(b8, k - 1) IN Coding("NormalLuma", b, luma[b])]

NormalCoefficients(luma, cbp) ==
  Coefficients8x8(luma, cbp, 0) \o Coefficients8x8(luma, cbp, 1)
    \o Coefficients8x8(luma, cbp, 2) \o Coefficients8x8(luma, cbp, 3)

\* IntraChromaFlow and InterChromaFlow: both planes if one has AC coefficients.
HasChromaAC(f) == \E b \in 0..3 : f.cb[b] # 0 \/ f.cr[b] # 0

ChromaCoefficients(f) ==
  IF ~HasChromaAC(f) THEN <<>>
  ELSE [k \in 1..4 |-> Coding("CbAC", k - 1, f.cb[k - 1])] \o
       [k \in 1..4 |-> Coding("CrAC", k - 1, f.cr[k - 1])]

OutputCoefficients(f) ==
  (IF f.type = "I16" THEN Intra16Coefficients(f.luma) ELSE NormalCoefficients(f.luma, f.cbp))
  \o ChromaCoefficients(f)

\* Coding a block stores its count; so does coding one to learn its price.
Coded(map, mb_addr, codings) ==
  LET coded[k \in 0..Len(codings)] ==
        IF k = 0 THEN map
        ELSE SetCoeffNum(coded[k - 1], codings[k].type, mb_addr, codings[k].block, codings[k].num)
  IN  coded[Len(codings)]

\* Faulty variant of AfterTrial: the counts of the trial are kept.
AfterTrialKept(map, mb_addr, old_mb_luma_coeff_nums) == map

\* MBIntraRDOptimizer::Encode puts the luma counts back after each trial.
AfterTrial(map, mb_addr, old_mb_luma_coeff_nums) ==
  SetMBLumaCoeffNums(map, mb_addr, old_mb_luma_coeff_nums)

-----------------------------------------------------------------------------
(* The receiver.  It reads the blocks in the order of the standard and     *)
(* keeps the counts by place, not by index.                                *)

NotRead == -1

InMB(mb_addr, n, x, y) == <<(mb_addr % m_width_in_mb) * n + x, (mb_addr \div m_width_in_mb) * n + y>>

Places(context_type) ==
  (0..RowLength(context_type) - 1) \X (0..(BlocksPerSide(context_type) * m_height_in_mb - 1))

NothingRead == [t \in CavlcContextType |-> [p \in Places(t) |-> NotRead]]

\* Where the 4x4 block with the number blkIdx lies in its macroblock.
LumaPlace(blkIdx) ==
  <<2 * ((blkIdx \div 4) % 2) + (blkIdx % 2), 2 * (blkIdx \div 8) + ((blkIdx % 4) \div 2)>>

Reading(context_type, at, counts) == [plane |-> context_type, at |-> at, counts |-> counts]

\* The blocks it expects, from the macroblock's type and coded block pattern.
ExpectedLuma8x8(coded_8x8, b8) ==
  IF b8 \notin coded_8x8 THEN <<>>
  ELSE [k \in 1..4 |-> Reading("Luma", LumaPlace(4 * b8 + k - 1), TRUE)]

ExpectedChroma(context_type) ==
  [k \in 1..4 |-> Reading(context_type, <<(k - 1) % 2, (k - 1) \div 2>>, TRUE)]

Coded8x8(f) ==
  IF f.type # "I16" THEN f.cbp ELSE IF NonZero8x8(f.luma) = {} THEN {} ELSE 0..3

Expected(f) ==
  (IF f.type = "I16" THEN <<Reading("Luma", <<0, 0>>, FALSE)>> ELSE <<>>)
    \o (ExpectedLuma8x8(Coded8x8(f), 0) \o ExpectedLuma8x8(Coded8x8(f), 1)
          \o ExpectedLuma8x8(Coded8x8(f), 2) \o ExpectedLuma8x8(Coded8x8(f), 3))
    \o (IF HasChromaAC(f) THEN ExpectedChroma("Cb") \o ExpectedChroma("Cr") ELSE <<>>)

\* The block it reads next, with its place in the picture.
NextRead ==
  LET e == Expected(flow)[Len(Expected(flow)) - Len(queue) + 1]
  IN  [e EXCEPT !.at = InMB(m_mb_addr, BlocksPerSide(e.plane), @[1], @[2])]

\* The count of a block it has read, or of none.
ReadAt(plane, at) == IF at \in Places(plane) THEN sent[plane][at] ELSE NotRead

ReceiverNC(plane, at) ==
  LET nA == ReadAt(plane, <<at[1] - 1, at[2]>>)
      nB == ReadAt(plane, <<at[1], at[2] - 1>>)
  IN  CASE nA # NotRead /\ nB # NotRead -> (nA + nB + 1) \div 2
        [] nA # NotRead /\ nB = NotRead -> nA
        [] nA = NotRead /\ nB # NotRead -> nB
        [] OTHER -> 0

\* A macroblock's blocks count as empty until they are read.
ReadMB(s, mb_addr) ==
  [t \in CavlcContextType |-> [p \in Places(t) |->
     IF <<p[1] \div BlocksPerSide(t), p[2] \div BlocksPerSide(t)>> =
        <<mb_addr % m_width_in_mb, mb_addr \div m_width_in_mb>> THEN 0 ELSE s[t][p]]]

-----------------------------------------------------------------------------
(* The macroblock coders.                                                  *)

NoFlow == [type |-> "none"]

ContextInit ==
  /\ picture = 0
  /\ m_mb_addr = 0
  /\ step = "encode"
  /\ flow = NoFlow
  /\ m_coeff_num_map = Zeros
  /\ queue = <<>>
  /\ sent = NothingRead

\* The first trial of MBIntraRDOptimizer::Encode.  Its cost is always the least
\* so far.  The chroma flow it is coded with serves both trials.
TryIntra16 ==
  /\ step = "encode"
  /\ picture = 0
  /\ \E luma \in LumaCounts, cb \in ChromaCounts, cr \in ChromaCounts :
       LET f == [type |-> "I16", luma |-> luma, cbp |-> {}, cb |-> cb, cr |-> cr]
           old == GetMBLumaCoeffNums(m_coeff_num_map, m_mb_addr)
       IN  /\ m_coeff_num_map' =
                AfterTrial(Coded(m_coeff_num_map, m_mb_addr, OutputCoefficients(f)),
                           m_mb_addr, old)
           /\ flow' = f
  /\ step' = "intra4"
  /\ UNCHANGED <<picture, m_mb_addr, queue, sent>>

\* The second.  Every node leaves the count of the prediction it chose; if the
\* distortion alone is too high the macroblock is not coded to learn its price.
TryIntra4 ==
  /\ step = "intra4"
  /\ \E luma \in LumaCounts, distortion_too_high \in BOOLEAN, better \in BOOLEAN :
       LET f == [flow EXCEPT !.type = "I4", !.luma = luma, !.cbp = NonZero8x8(luma)]
           old == GetMBLumaCoeffNums(m_coeff_num_map, m_mb_addr)
           nodes == SetMBLumaCoeffNums(m_coeff_num_map, m_mb_addr, luma)
           priced == IF distortion_too_high THEN nodes
                     ELSE Coded(nodes, m_mb_addr, OutputCoefficients(f))
       IN  /\ better => ~distortion_too_high
           /\ m_coeff_num_map' = AfterTrial(priced, m_mb_addr, old)
           /\ flow' = IF better THEN f ELSE flow
  /\ step' = "binary"
  /\ UNCHANGED <<picture, m_mb_addr, queue, sent>>

\* MBInterRDOptimizer::Encode: one macroblock type, priced with Binary.  Few and
\* small coefficients are dropped as a whole.
TryInter16x16 ==
  /\ step = "encode"
  /\ picture > 0
  /\ \E luma \in LumaCounts, cb \in ChromaCounts, cr \in ChromaCounts :
       \E cbp \in {{}, NonZero8x8(luma)} :
         LET f == [type |-> "P16x16", luma |-> luma, cbp |-> cbp, cb |-> cb, cr |-> cr]
         IN  /\ m_coeff_num_map' = Coded(ResetMBCoeffNums(m_coeff_num_map, m_mb_addr),
                                         m_mb_addr, OutputCoefficients(f))
             /\ flow' = f
  /\ step' = "binary"
  /\ UNCHANGED <<picture, m_mb_addr, queue, sent>>

\* Binary up to the coefficients; an inter macroblock clears its counts first.
StartBinary ==
  /\ step = "binary"
  /\ m_coeff_num_map' = IF flow.type = "P16x16" THEN ResetMBCoeffNums(m_coeff_num_map, m_mb_addr)
                        ELSE m_coeff_num_map
  /\ queue' = OutputCoefficients(flow)
  /\ sent' = ReadMB(sent, m_mb_addr)
  /\ step' = "coefficients"
  /\ UNCHANGED <<picture, m_mb_addr, flow>>

\* CavlcNonCdcCoder::DoCode, for good.
CodeBlock ==
  LET c == Head(queue)
  IN  /\ step = "coefficients"
      /\ queue # <<>>
      /\ m_coeff_num_map' = SetCoeffNum(m_coeff_num_map, c.type, m_mb_addr, c.block, c.num)
      /\ sent' = IF NextRead.counts THEN [sent EXCEPT ![NextRead.plane][NextRead.at] = c.num]
                 ELSE sent
      /\ queue' = Tail(queue)
      /\ UNCHANGED <<picture, m_mb_addr, step, flow>>

NextMB ==
  /\ step = "coefficients"
  /\ queue = <<>>
  /\ m_mb_addr < m_width_in_mb * m_height_in_mb - 1
  /\ m_mb_addr' = m_mb_addr + 1
  /\ flow' = NoFlow
  /\ step' = "encode"
  /\ UNCHANGED <<picture, m_coeff_num_map, queue, sent>>

\* Encoder::Encode resets the map between pictures.
NextPicture ==
  /\ step = "coefficients"
  /\ queue = <<>>
  /\ m_mb_addr = m_width_in_mb * m_height_in_mb - 1
  /\ picture < Pictures
  /\ picture' = picture + 1
  /\ m_mb_addr' = 0
  /\ flow' = NoFlow
  /\ m_coeff_num_map' = Zeros
  /\ sent' = NothingRead
  /\ step' = "encode"
  /\ UNCHANGED queue

ContextNext ==
  \/ TryIntra16
  \/ TryIntra4
  \/ TryInter16x16
  \/ StartBinary
  \/ CodeBlock
  \/ NextMB
  \/ NextPicture

ContextSpec == ContextInit /\ [][ContextNext]_contextVars

-----------------------------------------------------------------------------
(* Properties.                                                             *)

\* Whenever a block is coded for good, the number that selects its code table
\* is the one the receiver finds from the blocks it has read: what the trials of
\* this macroblock left behind, blocks that were not coded, the DC block and the
\* edges of the picture included.
ReceiverFindsSameNC ==
  step = "coefficients" /\ queue # <<>> =>
    GetNC(Head(queue).type, m_mb_addr, Head(queue).block) = ReceiverNC(NextRead.plane, NextRead.at)

\* Between macroblocks the map says of every block read in this picture what
\* the receiver read.
CountsMirrorReceiver ==
  step = "encode" =>
    \A t \in CavlcContextType : \A p \in Places(t) :
      sent[t][p] # NotRead => m_coeff_num_map[t][p[1] + p[2] * RowLength(t)] = sent[t][p]
=============================================================================
