--------------------------- MODULE MacroblockProofs ---------------------------
(***************************************************************************)
(* Theorems about the coding of a macroblock.                              *)
(*                                                                         *)
(* Of Macroblock, for any quantised coefficients: a receiver reads back    *)
(* the macroblock that was written, adds the residual the encoder added,   *)
(* and deblocking takes the right blocks for coded.                        *)
(*                                                                         *)
(* Of CavlcContext, for a picture of any size and any numbers of           *)
(* coefficients: encoder and receiver select the same table for every      *)
(* block.  The map is indexed by block, what a receiver knows by place;    *)
(* the proof sees both by place (IndexAt, PlaceOf), states which places an *)
(* operation touches (Touches) and follows the blocks still to be coded    *)
(* (ContextInv).                                                           *)
(*                                                                         *)
(* Of CavlcCoder, for every block of coefficients whose levels fit the     *)
(* escapes, every data type and every table: a receiver that parses the    *)
(* bits finds the block.  No codeword of a table begins another, because   *)
(* those that begin with it fill a room (Room) of the codes of sixteen     *)
(* bits and the rooms are apart, so what was written is the one thing that *)
(* is possible.  What a receiver knows of the counts, the levels and the   *)
(* suffix length while DoCode runs is what the coder knows (CoderInv).     *)
(***************************************************************************)
EXTENDS Macroblock, CavlcContext, CavlcCoder, SequenceTheorems, WellFoundedInduction, TLAPS

-----------------------------------------------------------------------------
(* The syntax.  Whatever the macroblock, its elements are a fixed part with *)
(* the type, the modes and the pattern, mb_qp_delta or not, and blocks.     *)

Kind == {"ue(v)", "se(v)", "motion", "intra4_modes", "luma_dc", "luma", "chroma_dc", "chroma_ac"}

Element == Kind \X Int

\* The code numbers of the pattern are read back by the standard's table.
LEMMA IntraPatterns ==
  \A c \in 0..47 :
    /\ Layer!s_cbp_me_map_intra[c + 1] \in 0..47
    /\ Layer!ReceivedPatternIntra[Layer!s_cbp_me_map_intra[c + 1] + 1] = c
  BY SMTT(60) DEF Layer!s_cbp_me_map_intra, Layer!ReceivedPatternIntra

LEMMA InterPatterns ==
  \A c \in 0..47 :
    /\ Layer!s_cbp_me_map_inter[c + 1] \in 0..47
    /\ Layer!ReceivedPatternInter[Layer!s_cbp_me_map_inter[c + 1] + 1] = c
  BY SMTT(60) DEF Layer!s_cbp_me_map_inter, Layer!ReceivedPatternInter

\* A sequence after a part of known length is found where that part ends.
LEMMA Behind ==
  ASSUME NEW first \in Seq(Element), NEW rest \in Seq(Element)
  PROVE  /\ first \o rest \in Seq(Element)
         /\ Len(first \o rest) = Len(first) + Len(rest)
         /\ \A i \in 1..Len(first) : (first \o rest)[i] = first[i]
         /\ SubSeq(first \o rest, Len(first) + 1, Len(first \o rest)) = rest
  <1>1. /\ first \o rest \in Seq(Element) /\ Len(first \o rest) = Len(first) + Len(rest)
        /\ \A i \in 1..Len(first) : (first \o rest)[i] = first[i]
        /\ Len(first) \in Nat /\ Len(rest) \in Nat
    BY ConcatProperties, LenProperties
  <1>2. CASE rest = <<>>
    BY <1>1, <1>2, SubSeqEmpty
  <1>3. CASE rest # <<>>
    <2>1. Len(rest) \in Nat \ {0}
      BY <1>1, <1>3, EmptySeq
    <2>2. SubSeq(first \o rest, Len(first) + 1, Len(first) + Len(rest))
            = SubSeq(rest, Len(first) + 1 - Len(first), Len(first) + Len(rest) - Len(first))
      BY <1>1, <2>1, SubSeqOfConcat2
    <2>3. SubSeq(rest, 1, Len(rest)) = rest
      BY SubSeqFull
    <2> QED  BY <1>1, <2>2, <2>3
  <1> QED  BY <1>1, <1>2, <1>3

LEMMA Kinds ==
  /\ "ue(v)" \in Kind /\ "se(v)" \in Kind /\ "motion" \in Kind /\ "intra4_modes" \in Kind
  /\ "luma_dc" \in Kind /\ "luma" \in Kind /\ "chroma_dc" \in Kind /\ "chroma_ac" \in Kind
  BY DEF Kind

LEMMA Pair == \A k \in Kind, v \in Int : <<k, v>> \in Element
  BY DEF Element

LEMMA Single == \A e \in Element : <<e>> \in Seq(Element)
  OBVIOUS

LEMMA Literals ==
  /\ <<<<"luma_dc", 0>>>> \in Seq(Element)
  /\ <<<<"se(v)", 0>>>> \in Seq(Element)
  /\ <<<<"chroma_dc", 0>>, <<"chroma_dc", 1>>>> \in Seq(Element)
  <1>1. <<<<"luma_dc", 0>>>> \in Seq(Element)
    <2>1. <<"luma_dc", 0>> \in Element
      <3>1. "luma_dc" \in Kind
        BY Kinds
      <3> QED  BY <3>1, Pair
    <2> QED  BY <2>1
  <1>2. <<<<"se(v)", 0>>>> \in Seq(Element)
    <2>1. <<"se(v)", 0>> \in Element
      <3>1. "se(v)" \in Kind
        BY Kinds
      <3> QED  BY <3>1, Pair
    <2> QED  BY <2>1
  <1>3. <<<<"chroma_dc", 0>>, <<"chroma_dc", 1>>>> \in Seq(Element)
    <2>1. <<"chroma_dc", 0>> \in Element
      <3>1. "chroma_dc" \in Kind
        BY Kinds
      <3> QED  BY <3>1, Pair
    <2>2. <<"chroma_dc", 1>> \in Element
      <3>1. "chroma_dc" \in Kind
        BY Kinds
      <3> QED  BY <3>1, Pair
    <2> QED  BY <2>1, <2>2
  <1> QED  BY <1>1, <1>2, <1>3

\* The fixed parts, with the lengths of their three pieces.
LEMMA TwoOneOne ==
  ASSUME NEW a \in Element, NEW b \in Element, NEW c \in Element, NEW d \in Element
  PROVE  LET s == (<<a, b>> \o <<c>>) \o <<d>>
         IN  s \in Seq(Element) /\ Len(s) = 4 /\ s[1] = a /\ s[2] = b /\ s[3] = c /\ s[4] = d
  <1>1. <<a, b>> \in Seq(Element) /\ <<c>> \in Seq(Element) /\ <<d>> \in Seq(Element)
    OBVIOUS
  <1>2. LET t == <<a, b>> \o <<c>> IN t \in Seq(Element) /\ Len(t) = 3 /\ t[1] = a /\ t[2] = b /\ t[3] = c
    BY <1>1, ConcatProperties
  <1> QED  BY <1>1, <1>2, ConcatProperties

LEMMA OneTwoOne ==
  ASSUME NEW a \in Element, NEW b \in Element, NEW c \in Element, NEW d \in Element
  PROVE  LET s == (<<a>> \o <<b, c>>) \o <<d>>
         IN  s \in Seq(Element) /\ Len(s) = 4 /\ s[1] = a /\ s[2] = b /\ s[3] = c /\ s[4] = d
  <1>1. <<a>> \in Seq(Element) /\ <<b, c>> \in Seq(Element) /\ <<d>> \in Seq(Element)
    OBVIOUS
  <1>2. LET t == <<a>> \o <<b, c>> IN t \in Seq(Element) /\ Len(t) = 3 /\ t[1] = a /\ t[2] = b /\ t[3] = c
    BY <1>1, ConcatProperties
  <1> QED  BY <1>1, <1>2, ConcatProperties

LEMMA OneOne ==
  ASSUME NEW a \in Element, NEW b \in Element
  PROVE  LET s == (<<a>> \o <<b>>) \o <<>>
         IN  s \in Seq(Element) /\ Len(s) = 2 /\ s[1] = a /\ s[2] = b
  <1>1. <<a>> \in Seq(Element) /\ <<b>> \in Seq(Element)
    OBVIOUS
  <1>2. LET t == <<a>> \o <<b>> IN t \in Seq(Element) /\ Len(t) = 2 /\ t[1] = a /\ t[2] = b
    BY <1>1, ConcatProperties
  <1> QED  BY <1>1, <1>2, ConcatEmptySeq

LEMMA PatternParts ==
  \A a \in 0..2, b \in 0..15 :
    16 * a + b \in 0..47 /\ (16 * a + b) % 16 = b /\ (16 * a + b) \div 16 = a
  OBVIOUS

LEMMA PatternPositive ==
  \A a \in 0..2, b \in 0..15 : (16 * a + b > 0) <=> (b > 0 \/ a > 0)
  OBVIOUS

LEMMA NoElements == <<>> \in Seq(Element) /\ Len(<<>>) = 0
  OBVIOUS

LEMMA ElementRun ==
  ASSUME NEW n \in Nat, NEW f \in [1..n -> Element]
  PROVE  f \in Seq(Element) /\ Len(f) = n
  BY SeqDef, LenProperties

LEMMA Blocks ==
  ASSUME NEW coded
  PROVE  Layer!NormalLuma(coded) \in Seq(Element)
  <1>1. ASSUME NEW g \in 0..3
        PROVE  Layer!LumaBlocks(coded, g) \in Seq(Element)
    <2>1. ASSUME NEW n \in 1..4
          PROVE  <<"luma", 4 * g + n - 1>> \in Element
      <3>1. 4 * g + n - 1 \in Int
        OBVIOUS
      <3> QED  BY <3>1, Kinds DEF Element
    <2>2. [n \in 1..4 |-> <<"luma", 4 * g + n - 1>>] \in [1..4 -> Element]
      BY <2>1
    <2> QED  BY <2>2, ElementRun, NoElements DEF Layer!LumaBlocks
  <1> QED  BY <1>1, ConcatProperties DEF Layer!NormalLuma

LEMMA ChromaBlocks ==
  /\ <<<<"chroma_dc", 0>>, <<"chroma_dc", 1>>>> \in Seq(Element)
  /\ [n \in 1..8 |-> <<"chroma_ac", n - 1>>] \in Seq(Element)
  <1>1. ASSUME NEW n \in 1..8
        PROVE  <<"chroma_ac", n - 1>> \in Element
    <2>1. n - 1 \in Int
      OBVIOUS
    <2> QED  BY <2>1, Kinds DEF Element
  <1>2. [n \in 1..8 |-> <<"chroma_ac", n - 1>>] \in [1..8 -> Element]
    BY <1>1
  <1> QED  BY <1>2, ElementRun, Literals

\* The blocks of luma and chroma are those macroblock_layer( ) expects.
Residual == Layer!LumaElements \o Layer!ChromaElements

InterMacroblocks ==
  [type : {"P16x16"}, mode : {0}, chroma_mode : {0}, luma_cbp : 0..15, chroma_cbp : 0..2]

Written == Layer!IntraMacroblocks \cup InterMacroblocks

LEMMA ResidualType ==
  Layer!LumaElements \in Seq(Element) /\ Layer!ChromaElements \in Seq(Element) /\ Residual \in Seq(Element)
  <1>1. Layer!LumaElements \in Seq(Element)
    <2>1. <<<<"luma_dc", 0>>>> \in Seq(Element)
      BY Literals
    <2>2. (IF mb.luma_cbp # 0 THEN Layer!NormalLuma(0..3) ELSE <<>>) \in Seq(Element)
      BY Blocks, NoElements
    <2>3. <<<<"luma_dc", 0>>>> \o (IF mb.luma_cbp # 0 THEN Layer!NormalLuma(0..3) ELSE <<>>) \in Seq(Element)
      BY <2>1, <2>2, ConcatProperties
    <2> QED  BY <2>3, Blocks DEF Layer!LumaElements
  <1>2. Layer!ChromaElements \in Seq(Element)
    <2> DEFINE cdc == IF mb.chroma_cbp > 0 THEN <<<<"chroma_dc", 0>>, <<"chroma_dc", 1>>>> ELSE <<>>
               cac == IF mb.chroma_cbp > 1 THEN [n \in 1..8 |-> <<"chroma_ac", n - 1>>] ELSE <<>>
    <2>1. cdc \in Seq(Element) /\ cac \in Seq(Element)
      BY ChromaBlocks, NoElements
    <2>2. Layer!ChromaElements = cdc \o cac
      BY DEF Layer!ChromaElements
    <2> HIDE DEF cdc, cac
    <2> QED  BY <2>1, <2>2, ConcatProperties
  <1> QED  BY <1>1, <1>2, ConcatProperties DEF Residual

LEMMA ResidualExpected ==
  ASSUME mb \in Written
  PROVE  Residual = Layer!ExpectedResidual(mb.type, mb.luma_cbp, mb.chroma_cbp)
  <1> DEFINE dc == IF mb.type = "I16" THEN <<<<"luma_dc", 0>>>> ELSE <<>>
             luma == Layer!NormalLuma(Layer!Coded8x8(mb.luma_cbp))
             cdc == IF mb.chroma_cbp > 0 THEN <<<<"chroma_dc", 0>>, <<"chroma_dc", 1>>>> ELSE <<>>
             cac == IF mb.chroma_cbp > 1 THEN [n \in 1..8 |-> <<"chroma_ac", n - 1>>] ELSE <<>>
  <1>1. dc \in Seq(Element) /\ luma \in Seq(Element) /\ cdc \in Seq(Element) /\ cac \in Seq(Element)
    <2>1. <<<<"luma_dc", 0>>>> \in Seq(Element)
      BY Literals
    <2> QED  BY <2>1, Blocks, ChromaBlocks, NoElements
  <1>2. Layer!LumaElements = dc \o luma
    <2>1. CASE mb.type # "I16"
      BY <1>1, <2>1, ConcatEmptySeq DEF Layer!LumaElements
    <2>2. CASE mb.type = "I16"
      <3>1. mb.luma_cbp \in {0, 15}
        BY <2>2 DEF Written, Layer!IntraMacroblocks, InterMacroblocks
      <3>2. CASE mb.luma_cbp = 15
        <4>1. Layer!Coded8x8(15) = 0..3
          BY DEF Layer!Coded8x8, Layer!Bit
        <4>2. Layer!LumaElements = <<<<"luma_dc", 0>>>> \o Layer!NormalLuma(0..3)
          <5>1. mb.luma_cbp # 0
            BY <3>2
          <5> QED  BY <2>2, <5>1, Zenon DEF Layer!LumaElements
        <4>3. Layer!Coded8x8(mb.luma_cbp) = 0..3
          BY <3>2, <4>1
        <4> QED  BY <2>2, <4>2, <4>3
      <3>3. CASE mb.luma_cbp = 0
        <4>1. Layer!Coded8x8(0) = {}
          BY DEF Layer!Coded8x8, Layer!Bit
        <4>2. Layer!NormalLuma({}) = <<>>
          BY NoElements, ConcatEmptySeq DEF Layer!NormalLuma, Layer!LumaBlocks
        <4> QED  BY <2>2, <3>3, <4>1, <4>2 DEF Layer!LumaElements
      <3> QED  BY <3>1, <3>2, <3>3
    <2> QED  BY <2>1, <2>2
  <1>3. Layer!ChromaElements = cdc \o cac
    BY DEF Layer!ChromaElements
  <1>4. mb.chroma_cbp \in 0..2
    BY DEF Written, Layer!IntraMacroblocks, InterMacroblocks
  <1>5. /\ (mb.chroma_cbp \in {1, 2}) <=> mb.chroma_cbp > 0
        /\ (mb.chroma_cbp = 2) <=> mb.chroma_cbp > 1
    BY <1>4
  <1>6. Layer!ExpectedResidual(mb.type, mb.luma_cbp, mb.chroma_cbp) = ((dc \o luma) \o cdc) \o cac
    BY <1>5 DEF Layer!ExpectedResidual, Layer!Coded8x8
  <1>7. dc \o luma \in Seq(Element)
    BY <1>1, ConcatProperties
  <1> HIDE DEF dc, luma, cdc, cac
  <1>8. ((dc \o luma) \o cdc) \o cac = (dc \o luma) \o (cdc \o cac)
    BY <1>1, <1>7, ConcatAssociative, SMTT(30)
  <1> QED  BY <1>2, <1>3, <1>6, <1>8 DEF Residual

-----------------------------------------------------------------------------
(* Reading it back.                                                        *)

\* mb_qp_delta is there exactly when a receiver expects it.
LEMMA ReadsResidual ==
  ASSUME mb \in Written, NEW first \in Seq(Element), Len(first) \in Nat
  PROVE  /\ (first \o Layer!QPDeltaElements) \o Residual \in Seq(Element)
         /\ Len((first \o Layer!QPDeltaElements) \o Residual) >= Len(first)
         /\ \A i \in 1..Len(first) : ((first \o Layer!QPDeltaElements) \o Residual)[i] = first[i]
         /\ Layer!ReadResidual((first \o Layer!QPDeltaElements) \o Residual, Len(first) + 1, mb) = mb
  <1> DEFINE delta == Layer!QPDeltaElements
             all == (first \o delta) \o Residual
             has_delta == mb.type = "I16" \/ mb.luma_cbp > 0 \/ mb.chroma_cbp > 0
  <1>1. mb.luma_cbp \in 0..15 /\ mb.chroma_cbp \in 0..2
    BY DEF Written, Layer!IntraMacroblocks, InterMacroblocks
  <1>2. delta = IF has_delta THEN <<<<"se(v)", 0>>>> ELSE <<>>
    <2>1. Layer!m_cbp = 16 * mb.chroma_cbp + mb.luma_cbp
      BY DEF Layer!m_cbp
    <2>2. Layer!m_cbp > 0 <=> (mb.luma_cbp > 0 \/ mb.chroma_cbp > 0)
      BY <1>1, <2>1, PatternPositive
    <2> QED  BY <2>2 DEF Layer!QPDeltaElements
  <1>3. delta \in Seq(Element)
    <2>1. <<<<"se(v)", 0>>>> \in Seq(Element)
      BY Literals
    <2> QED  BY <1>2, <2>1, NoElements
  <1>4. Residual \in Seq(Element) /\ first \o delta \in Seq(Element)
    BY <1>3, ResidualType, ConcatProperties
  <1>5. Len(delta) = IF has_delta THEN 1 ELSE 0
    BY <1>2
  <1>6. /\ Len(first \o delta) = Len(first) + Len(delta)
        /\ \A i \in 1..Len(first) : (first \o delta)[i] = first[i]
        /\ has_delta => (first \o delta)[Len(first) + 1] = <<"se(v)", 0>>
    BY <1>2, <1>3, <1>5, ConcatProperties
  <1>7. /\ all \in Seq(Element) /\ Len(all) = Len(first \o delta) + Len(Residual)
        /\ \A i \in 1..Len(first \o delta) : all[i] = (first \o delta)[i]
        /\ SubSeq(all, Len(first \o delta) + 1, Len(all)) = Residual
    BY <1>4, Behind
  <1>8. Len(Residual) \in Nat
    BY <1>4, LenProperties
  <1>9. \A i \in 1..Len(first) : all[i] = first[i]
    BY <1>5, <1>6, <1>7
  <1>10. has_delta => Layer!Is(all, Len(first) + 1, "se(v)") /\ all[Len(first) + 1][2] = 0
    BY <1>5, <1>6, <1>7, <1>8 DEF Layer!Is
  <1>11. SubSeq(all, IF has_delta THEN (Len(first) + 1) + 1 ELSE Len(first) + 1, Len(all))
           = Layer!ExpectedResidual(mb.type, mb.luma_cbp, mb.chroma_cbp)
    <2>1. Len(first \o delta) + 1 = IF has_delta THEN (Len(first) + 1) + 1 ELSE Len(first) + 1
      BY <1>5, <1>6
    <2> QED  BY <1>7, <2>1, ResidualExpected
  <1>12. Layer!ReadResidual(all, Len(first) + 1, mb) = mb
    BY <1>10, <1>11 DEF Layer!ReadResidual
  <1> QED  BY <1>5, <1>6, <1>7, <1>8, <1>9, <1>12

\* The fixed part of an inter macroblock, and how a receiver reads it.
LEMMA ReadsInter ==
  ASSUME mb \in InterMacroblocks
  PROVE  LET first == (Layer!MBTypeElements \o Layer!PredictionElements) \o Layer!CBPElements
         IN  /\ first \in Seq(Element)
             /\ Layer!Read((first \o Layer!QPDeltaElements) \o Residual, mb.type = "P16x16") = mb
  <1> DEFINE first == (Layer!MBTypeElements \o Layer!PredictionElements) \o Layer!CBPElements
             v == Layer!s_cbp_me_map_inter[Layer!m_cbp + 1]
             all == (first \o Layer!QPDeltaElements) \o Residual
  <1>1. /\ mb.type = "P16x16" /\ mb.luma_cbp \in 0..15 /\ mb.chroma_cbp \in 0..2
        /\ mb = Layer!InterMacroblock(mb.luma_cbp, mb.chroma_cbp)
    BY DEF InterMacroblocks, Layer!InterMacroblock
  <1>2. Layer!m_cbp = 16 * mb.chroma_cbp + mb.luma_cbp
    BY DEF Layer!m_cbp
  <1>3. Layer!m_cbp \in 0..47 /\ Layer!m_cbp % 16 = mb.luma_cbp /\ Layer!m_cbp \div 16 = mb.chroma_cbp
    BY <1>1, <1>2, PatternParts
  <1>4. v \in 0..47 /\ Layer!ReceivedPatternInter[v + 1] = Layer!m_cbp
    BY <1>3, InterPatterns
  <1>5. first = (<<<<"ue(v)", 0>>, <<"ue(v)", 0>>>> \o <<<<"motion", 0>>>>) \o <<<<"ue(v)", v>>>>
    <2>1. Layer!MBTypeElements = <<<<"ue(v)", 0>>, <<"ue(v)", 0>>>>
      BY <1>1, Zenon DEF Layer!MBTypeElements
    <2>2. Layer!PredictionElements = <<<<"motion", 0>>>>
      BY <1>1, Zenon DEF Layer!PredictionElements
    <2>3. Layer!CBPElements = <<<<"ue(v)", v>>>>
      BY <1>1, Zenon DEF Layer!CBPElements
    <2> QED  BY <2>1, <2>2, <2>3, Zenon
  <1> HIDE DEF v
  <1>6. /\ first \in Seq(Element) /\ Len(first) = 4
        /\ first[1] = <<"ue(v)", 0>> /\ first[2] = <<"ue(v)", 0>>
        /\ first[3] = <<"motion", 0>> /\ first[4] = <<"ue(v)", v>>
    <2>1. <<"ue(v)", 0>> \in Element
      <3>1. "ue(v)" \in Kind
        BY Kinds
      <3> QED  BY <3>1, Pair
    <2>2. <<"motion", 0>> \in Element
      <3>1. "motion" \in Kind
        BY Kinds
      <3> QED  BY <3>1, Pair
    <2>3. <<"ue(v)", v>> \in Element
      <3>1. "ue(v)" \in Kind
        BY Kinds
      <3> QED  BY <3>1, <1>4, Pair
    <2> QED  BY <1>5, <2>1, <2>2, <2>3, TwoOneOne
  <1>7. /\ Len(all) >= 4
        /\ \A i \in 1..4 : all[i] = first[i]
        /\ Layer!ReadResidual(all, 5, mb) = mb
        /\ all \in Seq(Element)
    <2> HIDE DEF first
    <2>1. mb \in Written /\ Len(first) \in Nat
      BY <1>6 DEF Written
    <2>2. /\ all \in Seq(Element)
          /\ Len(all) >= Len(first)
          /\ \A i \in 1..Len(first) : all[i] = first[i]
          /\ Layer!ReadResidual(all, Len(first) + 1, mb) = mb
      BY <1>6, <2>1, ReadsResidual
    <2>3. Len(first) + 1 = 5
      BY <1>6
    <2> HIDE DEF all
    <2> QED  BY <1>6, <2>2, <2>3
  <1>8. /\ Layer!Is(all, 1, "ue(v)") /\ all[1][2] = 0
        /\ Layer!Is(all, 2, "ue(v)") /\ all[2][2] = 0
        /\ Layer!Is(all, 3, "motion")
        /\ Layer!Is(all, 4, "ue(v)") /\ all[4][2] = v
    <2>1. Len(all) \in Nat
      BY <1>7, LenProperties
    <2>2. /\ all[1] = <<"ue(v)", 0>> /\ all[2] = <<"ue(v)", 0>>
          /\ all[3] = <<"motion", 0>> /\ all[4] = <<"ue(v)", v>>
      <3> HIDE DEF all, first
      <3> QED  BY <1>6, <1>7
    <2> HIDE DEF all
    <2> QED  BY <1>7, <2>1, <2>2 DEF Layer!Is
  <1> HIDE DEF all
  <1>9. Layer!ReadInter(all) = mb
    BY <1>1, <1>3, <1>4, <1>7, <1>8, SMTT(30) DEF Layer!ReadInter
  <1>10. all # <<>>
    BY <1>7
  <1>11. Layer!Read(all, mb.type = "P16x16") = Layer!ReadInter(all)
    BY <1>1, <1>10 DEF Layer!Read
  <1> QED  BY <1>6, <1>9, <1>11 DEF all

LEMMA ReadsIntra4 ==
  ASSUME mb \in Layer!IntraMacroblocks, mb.type = "I4"
  PROVE  LET first == (Layer!MBTypeElements \o Layer!PredictionElements) \o Layer!CBPElements
         IN  /\ first \in Seq(Element)
             /\ Layer!Read((first \o Layer!QPDeltaElements) \o Residual, mb.type = "P16x16") = mb
  <1> DEFINE first == (Layer!MBTypeElements \o Layer!PredictionElements) \o Layer!CBPElements
             v == Layer!s_cbp_me_map_intra[Layer!m_cbp + 1]
             all == (first \o Layer!QPDeltaElements) \o Residual
             made(chroma, cbp) == [type |-> "I4", mode |-> 0, chroma_mode |-> chroma,
                                   luma_cbp |-> cbp % 16, chroma_cbp |-> cbp \div 16]
  <1>1. /\ mb.luma_cbp \in 0..15 /\ mb.chroma_cbp \in 0..2 /\ mb.chroma_mode \in 0..3
        /\ mb = [type |-> "I4", mode |-> 0, chroma_mode |-> mb.chroma_mode,
                 luma_cbp |-> mb.luma_cbp, chroma_cbp |-> mb.chroma_cbp]
    BY DEF Layer!IntraMacroblocks
  <1>2. Layer!m_cbp = 16 * mb.chroma_cbp + mb.luma_cbp
    BY DEF Layer!m_cbp
  <1>3. Layer!m_cbp \in 0..47 /\ Layer!m_cbp % 16 = mb.luma_cbp /\ Layer!m_cbp \div 16 = mb.chroma_cbp
    BY <1>1, <1>2, PatternParts
  <1>4. v \in 0..47 /\ Layer!ReceivedPatternIntra[v + 1] = Layer!m_cbp
    BY <1>3, IntraPatterns
  <1>5. made(mb.chroma_mode, Layer!m_cbp) = mb
    BY <1>1, <1>3
  <1>6. first = (<<<<"ue(v)", 0>>>> \o <<<<"intra4_modes", 0>>, <<"ue(v)", mb.chroma_mode>>>>) \o <<<<"ue(v)", v>>>>
    <2>1. Layer!MBTypeElements = <<<<"ue(v)", 0>>>>
      BY Zenon DEF Layer!MBTypeElements
    <2>2. Layer!PredictionElements = <<<<"intra4_modes", 0>>, <<"ue(v)", mb.chroma_mode>>>>
      BY Zenon DEF Layer!PredictionElements
    <2>3. Layer!CBPElements = <<<<"ue(v)", v>>>>
      BY Zenon DEF Layer!CBPElements
    <2> QED  BY <2>1, <2>2, <2>3, Zenon
  <1> HIDE DEF v
  <1>7. /\ first \in Seq(Element) /\ Len(first) = 4
        /\ first[1] = <<"ue(v)", 0>> /\ first[2] = <<"intra4_modes", 0>>
        /\ first[3] = <<"ue(v)", mb.chroma_mode>> /\ first[4] = <<"ue(v)", v>>
    <2>1. <<"ue(v)", 0>> \in Element
      <3>1. "ue(v)" \in Kind
        BY Kinds
      <3> QED  BY <3>1, Pair
    <2>2. <<"intra4_modes", 0>> \in Element
      <3>1. "intra4_modes" \in Kind
        BY Kinds
      <3> QED  BY <3>1, Pair
    <2>3. <<"ue(v)", mb.chroma_mode>> \in Element /\ <<"ue(v)", v>> \in Element
      <3>1. "ue(v)" \in Kind
        BY Kinds
      <3> QED  BY <1>1, <1>4, <3>1, Pair
    <2> QED  BY <1>6, <2>1, <2>2, <2>3, OneTwoOne
  <1>8. /\ Len(all) >= 4 /\ Len(all) \in Nat
        /\ \A i \in 1..4 : all[i] = first[i]
        /\ Layer!ReadResidual(all, 5, mb) = mb
    <2> HIDE DEF first
    <2>1. mb \in Written /\ Len(first) \in Nat
      BY <1>7 DEF Written
    <2>2. /\ all \in Seq(Element)
          /\ Len(all) >= Len(first)
          /\ \A i \in 1..Len(first) : all[i] = first[i]
          /\ Layer!ReadResidual(all, Len(first) + 1, mb) = mb
      BY <1>7, <2>1, ReadsResidual
    <2>3. Len(first) + 1 = 5
      BY <1>7
    <2> HIDE DEF all
    <2>4. Len(all) \in Nat
      BY <2>2, LenProperties
    <2> QED  BY <1>7, <2>2, <2>3, <2>4
  <1> HIDE DEF all, first
  <1>9. /\ all[1] = <<"ue(v)", 0>> /\ all[2] = <<"intra4_modes", 0>>
        /\ all[3] = <<"ue(v)", mb.chroma_mode>> /\ all[4] = <<"ue(v)", v>>
    BY <1>7, <1>8
  <1>10. /\ Layer!Is(all, 2, "intra4_modes")
         /\ Layer!Is(all, 3, "ue(v)") /\ all[3][2] = mb.chroma_mode
         /\ Layer!Is(all, 4, "ue(v)") /\ all[4][2] = v
    BY <1>8, <1>9 DEF Layer!Is
  <1>11. Layer!ReadIntra4(all) = Layer!ReadResidual(all, 5, made(mb.chroma_mode, Layer!m_cbp))
    BY <1>1, <1>4, <1>10 DEF Layer!ReadIntra4
  <1>12. all # <<>>
    BY <1>8
  <1>13. Layer!Read(all, mb.type = "P16x16") = Layer!ReadIntra4(all)
    BY <1>9, <1>12 DEF Layer!Read
  <1> QED  BY <1>5, <1>7, <1>8, <1>11, <1>13 DEF all, first

\* The pattern of a 16x16 macroblock is in the number of its type.
LEMMA TypeNumbers ==
  \A m \in 0..3, c \in 0..2, l \in {0, 15} :
    LET number == Layer!CalculateIntra16Offset(16 * c + l, m)
    IN  /\ number \in 1..24
        /\ (number - 1) % 4 = m
        /\ 15 * ((number - 1) \div 12) = l
        /\ ((number - 1) \div 4) % 3 = c
  BY DEF Layer!CalculateIntra16Offset

LEMMA ReadsIntra16 ==
  ASSUME mb \in Layer!IntraMacroblocks, mb.type = "I16"
  PROVE  LET first == (Layer!MBTypeElements \o Layer!PredictionElements) \o Layer!CBPElements
         IN  /\ first \in Seq(Element)
             /\ Layer!Read((first \o Layer!QPDeltaElements) \o Residual, mb.type = "P16x16") = mb
  <1> DEFINE first == (Layer!MBTypeElements \o Layer!PredictionElements) \o Layer!CBPElements
             v == Layer!CalculateIntra16Offset(Layer!m_cbp, mb.mode)
             all == (first \o Layer!QPDeltaElements) \o Residual
             made(type, chroma) == [type |-> "I16", mode |-> type % 4, chroma_mode |-> chroma,
                                    luma_cbp |-> 15 * (type \div 12), chroma_cbp |-> (type \div 4) % 3]
  <1>1. /\ mb.luma_cbp \in {0, 15} /\ mb.chroma_cbp \in 0..2 /\ mb.chroma_mode \in 0..3 /\ mb.mode \in 0..3
        /\ mb = [type |-> "I16", mode |-> mb.mode, chroma_mode |-> mb.chroma_mode,
                 luma_cbp |-> mb.luma_cbp, chroma_cbp |-> mb.chroma_cbp]
    BY DEF Layer!IntraMacroblocks
  <1>2. Layer!m_cbp = 16 * mb.chroma_cbp + mb.luma_cbp
    BY DEF Layer!m_cbp
  <1>3. /\ v \in 1..24 /\ (v - 1) % 4 = mb.mode
        /\ 15 * ((v - 1) \div 12) = mb.luma_cbp /\ ((v - 1) \div 4) % 3 = mb.chroma_cbp
    BY <1>1, <1>2, TypeNumbers
  <1>4. first = (<<<<"ue(v)", v>>>> \o <<<<"ue(v)", mb.chroma_mode>>>>) \o <<>>
    <2>1. Layer!MBTypeElements = <<<<"ue(v)", v>>>>
      BY Zenon DEF Layer!MBTypeElements
    <2>2. Layer!PredictionElements = <<<<"ue(v)", mb.chroma_mode>>>>
      BY Zenon DEF Layer!PredictionElements
    <2>3. Layer!CBPElements = <<>>
      BY Zenon DEF Layer!CBPElements
    <2> QED  BY <2>1, <2>2, <2>3, Zenon
  <1> HIDE DEF v
  <1>5. made(v - 1, mb.chroma_mode) = mb
    BY <1>1, <1>3
  <1>6. /\ first \in Seq(Element) /\ Len(first) = 2
        /\ first[1] = <<"ue(v)", v>> /\ first[2] = <<"ue(v)", mb.chroma_mode>>
    <2>1. <<"ue(v)", mb.chroma_mode>> \in Element /\ <<"ue(v)", v>> \in Element
      <3>1. "ue(v)" \in Kind
        BY Kinds
      <3> QED  BY <1>1, <1>3, <3>1, Pair
    <2> QED  BY <1>4, <2>1, OneOne
  <1>7. /\ Len(all) >= 2 /\ Len(all) \in Nat
        /\ \A i \in 1..2 : all[i] = first[i]
        /\ Layer!ReadResidual(all, 3, mb) = mb
    <2> HIDE DEF first
    <2>1. mb \in Written /\ Len(first) \in Nat
      BY <1>6 DEF Written
    <2>2. /\ all \in Seq(Element)
          /\ Len(all) >= Len(first)
          /\ \A i \in 1..Len(first) : all[i] = first[i]
          /\ Layer!ReadResidual(all, Len(first) + 1, mb) = mb
      BY <1>6, <2>1, ReadsResidual
    <2>3. Len(first) + 1 = 3
      BY <1>6
    <2> HIDE DEF all
    <2>4. Len(all) \in Nat
      BY <2>2, LenProperties
    <2> QED  BY <1>6, <2>2, <2>3, <2>4
  <1> HIDE DEF all, first
  <1>8. all[1] = <<"ue(v)", v>> /\ all[2] = <<"ue(v)", mb.chroma_mode>>
    BY <1>6, <1>7
  <1>9. Layer!Is(all, 2, "ue(v)") /\ all[2][2] = mb.chroma_mode /\ all[1][1] = "ue(v)" /\ all[1][2] = v
    BY <1>7, <1>8 DEF Layer!Is
  <1>10. Layer!ReadIntra16(all) = Layer!ReadResidual(all, 3, made(v - 1, mb.chroma_mode))
    BY <1>1, <1>9 DEF Layer!ReadIntra16
  <1>11. all # <<>> /\ all[1] # <<"ue(v)", 0>>
    BY <1>3, <1>7, <1>8
  <1>12. Layer!Read(all, mb.type = "P16x16") = Layer!ReadIntra16(all)
    BY <1>3, <1>9, <1>11 DEF Layer!Read
  <1> QED  BY <1>5, <1>6, <1>7, <1>10, <1>12 DEF all, first

First == (Layer!MBTypeElements \o Layer!PredictionElements) \o Layer!CBPElements

LEMMA ReadsBack ==
  ASSUME mb \in Written
  PROVE  /\ First \in Seq(Element) /\ First \o Layer!QPDeltaElements \in Seq(Element)
         /\ Layer!Read((First \o Layer!QPDeltaElements) \o Residual, mb.type = "P16x16") = mb
  <1>0. mb \in Layer!IntraMacroblocks => mb.type = "I4" \/ mb.type = "I16"
    BY DEF Layer!IntraMacroblocks
  <1>1. \/ mb \in InterMacroblocks
        \/ mb \in Layer!IntraMacroblocks /\ (mb.type = "I4" \/ mb.type = "I16")
    BY <1>0 DEF Written
  <1>2. /\ First \in Seq(Element)
        /\ Layer!Read((First \o Layer!QPDeltaElements) \o Residual, mb.type = "P16x16") = mb
    BY <1>1, ReadsInter, ReadsIntra4, ReadsIntra16 DEF First
  <1>3. Layer!QPDeltaElements \in Seq(Element)
    BY Literals, NoElements DEF Layer!QPDeltaElements
  <1> QED  BY <1>2, <1>3, ConcatProperties

\* The elements of the type come first, behind nothing.
LEMMA TypeFirst ==
  ASSUME mb \in Written
  PROVE  <<>> \o Layer!MBTypeElements = Layer!MBTypeElements
  <1> DEFINE v == Layer!CalculateIntra16Offset(Layer!m_cbp, mb.mode)
  <1>1. mb.type \in {"P16x16", "I4", "I16"}
    BY DEF Written, Layer!IntraMacroblocks, InterMacroblocks
  <1>2. \/ Layer!MBTypeElements = <<<<"ue(v)", 0>>, <<"ue(v)", 0>>>>
        \/ Layer!MBTypeElements = <<<<"ue(v)", 0>>>>
        \/ Layer!MBTypeElements = <<<<"ue(v)", v>>>>
    BY <1>1, Zenon DEF Layer!MBTypeElements
  <1> HIDE DEF v
  <1> DEFINE S == {<<"ue(v)", 0>>, <<"ue(v)", v>>}
  <1>3. /\ <<<<"ue(v)", 0>>, <<"ue(v)", 0>>>> \in Seq(S)
        /\ <<<<"ue(v)", 0>>>> \in Seq(S) /\ <<<<"ue(v)", v>>>> \in Seq(S)
    <2>1. <<"ue(v)", 0>> \in S /\ <<"ue(v)", v>> \in S
      OBVIOUS
    <2> HIDE DEF S
    <2> QED  BY <2>1
  <1> HIDE DEF S
  <1>4. Layer!MBTypeElements \in Seq(S)
    BY <1>2, <1>3
  <1> QED  BY <1>4, ConcatEmptySeq

-----------------------------------------------------------------------------
(* The residual.  The pattern and the bits of the deblocking filter say of  *)
(* the coefficients kept which are there, until a cheap macroblock loses    *)
(* both; what is reconstructed follows the pattern.                         *)

LumaBlocks == [0..3 -> [0..3 -> Block]]

ChromaBlock == [dc : Block, ac : [0..3 -> Block]]

PatternsFollow ==
  /\ m_cbp = {g \in 0..3 : m_residual_datas[g] # NoGroup}
  /\ m_detailed_cbp = {b \in (0..3) \X (0..3) : m_residual_datas[b[1]][b[2]] # <<>>}

UnderPattern == [g \in 0..3 |-> IF g \in m_cbp THEN m_residual_datas[g] ELSE NoGroup]

LumaInv ==
  /\ block_8x8 \in 0..4
  /\ m_residual_datas \in LumaBlocks
  /\ \A g \in block_8x8..3 : m_residual_datas[g] = NoGroup
  /\ PatternsFollow \/ (pc # "luma" /\ m_cbp = {} /\ m_detailed_cbp = {})
  /\ pc \in {"luma", "reconstruct"} \/ reconstructed.luma = UnderPattern

ChromaInv ==
  /\ m_cavlc_data_source \in [Planes -> ChromaBlock]
  /\ reconstructed.chroma = m_cavlc_data_source
  /\ chroma_cbp \in 0..2
  /\ chroma_cbp < 2 => \A plane \in Planes : m_cavlc_data_source[plane].ac = NoGroup
  /\ chroma_cbp = 0 => \A plane \in Planes : m_cavlc_data_source[plane].dc = <<>>

ResidualInv ==
  /\ pc \in {"luma", "reconstruct", "Cb", "Cr", "output"}
  /\ reconstructed \in [luma : LumaBlocks, chroma : [Planes -> ChromaBlock]]
  /\ LumaInv
  /\ ChromaInv

LEMMA EmptyGroup == <<>> \in Block /\ NoGroup \in [0..3 -> Block] /\ NoLuma \in LumaBlocks
                    /\ NoChroma \in [Planes -> ChromaBlock]
  <1>1. <<>> \in Block
    BY EmptySeq DEF Block
  <1> QED  BY <1>1 DEF NoGroup, NoLuma, NoChroma, LumaBlocks, ChromaBlock

LEMMA ResidualInit == Init => ResidualInv
  <1> SUFFICES ASSUME Init PROVE ResidualInv
    OBVIOUS
  <1>1. PatternsFollow
    BY DEF Init, PatternsFollow, NoLuma, NoGroup
  <1>2. LumaInv
    BY <1>1, EmptyGroup DEF Init, LumaInv, NoLuma
  <1>3. ChromaInv
    BY EmptyGroup DEF Init, ChromaInv, NoChroma
  <1> QED  BY <1>2, <1>3, EmptyGroup DEF Init, ResidualInv

LEMMA QuantizeLumaKeeps ==
  ASSUME ResidualInv, QuantizeLuma
  PROVE  ResidualInv'
  <1> PICK group \in LumaGroups :
        /\ m_residual_datas' = [m_residual_datas EXCEPT ![block_8x8] = AfterCheck(group)]
        /\ m_detailed_cbp' = m_detailed_cbp \cup DetailedCBP(block_8x8, group)
        /\ m_cbp' = IF AfterCheck(group) # NoGroup THEN m_cbp \cup {block_8x8} ELSE m_cbp
    BY DEF QuantizeLuma
  <1> DEFINE kept == AfterCheck(group)
  <1>1. /\ pc = "luma" /\ pc' = pc /\ block_8x8 \in 0..3 /\ block_8x8' = block_8x8 + 1
        /\ UNCHANGED <<chroma_cbp, m_cavlc_data_source, reconstructed>>
    BY DEF QuantizeLuma, ResidualInv, LumaInv
  <1>2. kept \in [0..3 -> Block]
    BY EmptyGroup, InputAssumption DEF AfterCheck
  <1>3. /\ m_residual_datas' \in LumaBlocks
        /\ m_residual_datas'[block_8x8] = kept
        /\ \A g \in 0..3 : g # block_8x8 => m_residual_datas'[g] = m_residual_datas[g]
        /\ m_residual_datas[block_8x8] = NoGroup
        /\ PatternsFollow
    BY <1>1, <1>2 DEF ResidualInv, LumaInv, LumaBlocks
  <1>4. DetailedCBP(block_8x8, group) = {<<block_8x8, b>> : b \in {k \in 0..3 : kept[k] # <<>>}}
    BY DEF DetailedCBP
  <1> HIDE DEF kept
  <1>5. m_cbp' = {g \in 0..3 : m_residual_datas'[g] # NoGroup}
    BY <1>1, <1>3 DEF PatternsFollow, kept
  <1>6. m_detailed_cbp' = {b \in (0..3) \X (0..3) : m_residual_datas'[b[1]][b[2]] # <<>>}
    <2>1. \A k \in 0..3 : m_residual_datas[block_8x8][k] = <<>>
      BY <1>3 DEF NoGroup
    <2> QED  BY <1>1, <1>3, <1>4, <2>1 DEF PatternsFollow
  <1>7. LumaInv'
    BY <1>1, <1>3, <1>5, <1>6 DEF ResidualInv, LumaInv, PatternsFollow
  <1>8. ChromaInv'
    BY <1>1 DEF ResidualInv, ChromaInv
  <1> QED  BY <1>1, <1>7, <1>8 DEF ResidualInv

LEMMA CheckMacroblockKeeps ==
  ASSUME ResidualInv, CheckMacroblock
  PROVE  ResidualInv'
  <1>1. /\ pc = "luma" /\ pc' = "reconstruct" /\ block_8x8' = block_8x8
        /\ UNCHANGED <<m_residual_datas, chroma_cbp, m_cavlc_data_source, reconstructed>>
        /\ \/ m_cbp' = {} /\ m_detailed_cbp' = {}
           \/ m_cbp' = m_cbp /\ m_detailed_cbp' = m_detailed_cbp
    BY DEF CheckMacroblock
  <1>2. LumaInv'
    BY <1>1 DEF ResidualInv, LumaInv, PatternsFollow
  <1>3. ChromaInv'
    BY <1>1 DEF ResidualInv, ChromaInv
  <1> QED  BY <1>1, <1>2, <1>3 DEF ResidualInv

LEMMA ReconstructLumaKeeps ==
  ASSUME ResidualInv, ReconstructLuma
  PROVE  ResidualInv'
  <1>1. /\ pc = "reconstruct" /\ pc' = "Cb"
        /\ UNCHANGED <<block_8x8, m_residual_datas, m_cbp, m_detailed_cbp, chroma_cbp, m_cavlc_data_source>>
        /\ reconstructed' = [reconstructed EXCEPT !.luma = IF m_cbp = {} THEN NoLuma ELSE m_residual_datas]
    BY DEF ReconstructLuma
  <1>2. m_residual_datas \in LumaBlocks
    BY DEF ResidualInv, LumaInv
  <1>3. (IF m_cbp = {} THEN NoLuma ELSE m_residual_datas) = UnderPattern
    <2>1. CASE m_cbp = {}
      BY <2>1 DEF UnderPattern, NoLuma
    <2>2. CASE m_cbp # {}
      <3>1. \A g \in 0..3 : g \notin m_cbp => m_residual_datas[g] = NoGroup
        BY <2>2 DEF ResidualInv, LumaInv, PatternsFollow
      <3>2. m_residual_datas = [g \in 0..3 |-> m_residual_datas[g]]
        BY <1>2 DEF LumaBlocks
      <3> QED  BY <2>2, <3>1, <3>2 DEF UnderPattern
    <2> QED  BY <2>1, <2>2
  <1>4. UnderPattern \in LumaBlocks
    BY <1>2, EmptyGroup DEF UnderPattern, LumaBlocks
  <1>5. /\ reconstructed'.luma = UnderPattern
        /\ reconstructed'.chroma = reconstructed.chroma
        /\ reconstructed' \in [luma : LumaBlocks, chroma : [Planes -> ChromaBlock]]
    BY <1>1, <1>3, <1>4 DEF ResidualInv
  <1>6. UnderPattern' = UnderPattern /\ PatternsFollow' = PatternsFollow
    BY <1>1 DEF UnderPattern, PatternsFollow
  <1>7. LumaInv'
    BY <1>1, <1>5, <1>6 DEF ResidualInv, LumaInv
  <1>8. ChromaInv'
    BY <1>1, <1>5 DEF ResidualInv, ChromaInv
  <1> QED  BY <1>1, <1>5, <1>7, <1>8 DEF ResidualInv

\* What the pre-coder drops the quantiser drops, and the pattern is that of what
\* is left, in both planes.
LEMMA CodeChromaKeeps ==
  ASSUME ResidualInv, NEW plane \in Planes, NEW following \in {"Cr", "output"},
         CodeChroma(plane, following)
  PROVE  ResidualInv'
  <1> PICK dc \in ChromaDCs, ac \in ChromaGroups :
        /\ chroma_cbp' = Larger(chroma_cbp, ChromaPattern(dc, ac))
        /\ m_cavlc_data_source' = [m_cavlc_data_source EXCEPT ![plane] = [dc |-> dc, ac |-> Kept(ac)]]
        /\ reconstructed' = [reconstructed EXCEPT !.chroma[plane] = [dc |-> dc, ac |-> Quantized(ac)]]
    BY DEF CodeChroma
  <1> DEFINE coded == [dc |-> dc, ac |-> Kept(ac)]
  <1>1. /\ pc = plane /\ pc' = following
        /\ UNCHANGED <<block_8x8, m_residual_datas, m_cbp, m_detailed_cbp>>
    BY DEF CodeChroma
  <1>2. Quantized(ac) = Kept(ac)
    BY DEF Quantized, Kept
  <1>3. coded \in ChromaBlock /\ coded.dc = dc /\ coded.ac = Kept(ac)
    <2>1. dc \in Block /\ Kept(ac) \in [0..3 -> Block]
      BY EmptyGroup, InputAssumption DEF Kept
    <2> QED  BY <2>1 DEF ChromaBlock
  <1> HIDE DEF coded
  <1>4. /\ m_cavlc_data_source' = [m_cavlc_data_source EXCEPT ![plane] = coded]
        /\ reconstructed' = [reconstructed EXCEPT !.chroma[plane] = coded]
    BY <1>2 DEF coded
  <1>5. /\ reconstructed'.luma = reconstructed.luma
        /\ reconstructed'.chroma = [reconstructed.chroma EXCEPT ![plane] = coded]
        /\ reconstructed' \in [luma : LumaBlocks, chroma : [Planes -> ChromaBlock]]
    BY <1>3, <1>4 DEF ResidualInv
  <1>6. /\ m_cavlc_data_source' \in [Planes -> ChromaBlock]
        /\ m_cavlc_data_source'[plane] = coded
        /\ \A other \in Planes : other # plane => m_cavlc_data_source'[other] = m_cavlc_data_source[other]
    BY <1>3, <1>4 DEF ResidualInv, ChromaInv
  <1>7. /\ chroma_cbp' \in 0..2
        /\ chroma_cbp' < 2 => chroma_cbp < 2 /\ Kept(ac) = NoGroup
        /\ chroma_cbp' = 0 => chroma_cbp = 0 /\ dc = <<>>
    BY DEF ResidualInv, ChromaInv, Larger, ChromaPattern
  <1>8. ChromaInv'
    BY <1>3, <1>4, <1>5, <1>6, <1>7 DEF ResidualInv, ChromaInv
  <1>9. LumaInv'
    <2>1. UnderPattern' = UnderPattern /\ PatternsFollow' = PatternsFollow
      BY <1>1 DEF UnderPattern, PatternsFollow
    <2> QED  BY <1>1, <1>5, <2>1 DEF ResidualInv, LumaInv, Planes
  <1> QED  BY <1>1, <1>5, <1>8, <1>9 DEF ResidualInv

LEMMA ResidualStep ==
  ASSUME ResidualInv, Next
  PROVE  ResidualInv'
  <1>1. "Cb" \in Planes /\ "Cr" \in Planes
    BY DEF Planes
  <1> QED
    BY <1>1, QuantizeLumaKeeps, CheckMacroblockKeeps, ReconstructLumaKeeps, CodeChromaKeeps DEF Next

\* When all is coded, what stands under the patterns is what is reconstructed.
LEMMA ResidualIsReconstructed ==
  ASSUME ResidualInv, pc = "output"
  PROVE  /\ ResidualUnder(m_cbp, chroma_cbp) = reconstructed
         /\ m_detailed_cbp = {b \in (0..3) \X (0..3) : reconstructed.luma[b[1]][b[2]] # <<>>}
  <1> DEFINE under == ResidualUnder(m_cbp, chroma_cbp)
  <1>1. under.luma = UnderPattern /\ reconstructed.luma = UnderPattern
    BY DEF ResidualUnder, UnderPattern, ResidualInv, LumaInv
  <1>2. under.chroma = m_cavlc_data_source
    <2>1. ASSUME NEW plane \in Planes
          PROVE  [dc |-> IF chroma_cbp > 0 THEN m_cavlc_data_source[plane].dc ELSE <<>>,
                  ac |-> IF chroma_cbp > 1 THEN m_cavlc_data_source[plane].ac ELSE NoGroup]
                   = m_cavlc_data_source[plane]
      <3>1. m_cavlc_data_source[plane] \in ChromaBlock /\ chroma_cbp \in 0..2
        BY DEF ResidualInv, ChromaInv
      <3>2. /\ (IF chroma_cbp > 0 THEN m_cavlc_data_source[plane].dc ELSE <<>>) = m_cavlc_data_source[plane].dc
            /\ (IF chroma_cbp > 1 THEN m_cavlc_data_source[plane].ac ELSE NoGroup) = m_cavlc_data_source[plane].ac
        BY <3>1 DEF ResidualInv, ChromaInv
      <3> QED  BY <3>1, <3>2 DEF ChromaBlock
    <2>2. m_cavlc_data_source \in [Planes -> ChromaBlock]
      BY DEF ResidualInv, ChromaInv
    <2> QED  BY <2>1, <2>2 DEF ResidualUnder
  <1>3. reconstructed = [luma |-> reconstructed.luma, chroma |-> reconstructed.chroma]
    BY DEF ResidualInv
  <1>4. under = [luma |-> under.luma, chroma |-> under.chroma]
    BY DEF ResidualUnder
  <1>5. reconstructed.chroma = m_cavlc_data_source
    BY DEF ResidualInv, ChromaInv
  <1>6. m_detailed_cbp = {b \in (0..3) \X (0..3) : UnderPattern[b[1]][b[2]] # <<>>}
    <2>1. CASE m_cbp = {} /\ m_detailed_cbp = {}
      <3>1. \A g \in 0..3, k \in 0..3 : UnderPattern[g][k] = <<>>
        BY <2>1 DEF UnderPattern, NoGroup
      <3> QED  BY <2>1, <3>1
    <2>2. CASE PatternsFollow
      <3>1. \A g \in 0..3 : UnderPattern[g] = m_residual_datas[g]
        BY <2>2 DEF UnderPattern, PatternsFollow
      <3> QED  BY <2>2, <3>1 DEF PatternsFollow
    <2> QED  BY <2>1, <2>2 DEF ResidualInv, LumaInv
  <1> HIDE DEF under
  <1> QED  BY <1>1, <1>2, <1>3, <1>4, <1>5, <1>6 DEF under

-----------------------------------------------------------------------------
(* Both together.  The elements written are those up to layer_pc; from the  *)
(* moment the pattern is taken over nothing of the residual changes.        *)

\* The elements in front of each part.
InFront ==
  CASE layer_pc \in {"decide", "type"} -> <<>>
    [] layer_pc = "prediction" -> Layer!MBTypeElements
    [] layer_pc = "cbp" -> Layer!MBTypeElements \o Layer!PredictionElements
    [] layer_pc = "qp_delta" -> First
    [] layer_pc = "luma" -> First \o Layer!QPDeltaElements
    [] layer_pc = "chroma" -> (First \o Layer!QPDeltaElements) \o Layer!LumaElements
    [] OTHER -> (First \o Layer!QPDeltaElements) \o Residual

LayerInv ==
  /\ layer_pc \in {"decide", "type", "prediction", "cbp", "qp_delta", "luma", "chroma", "done", "received"}
  /\ m_bytes_data = InFront
  /\ layer_pc # "decide" => mb \in Written
  /\ layer_pc \in {"done", "received"} => readable = mb
  /\ layer_pc # "decide" /\ mb.type = "P16x16" =>
       /\ pc = "output"
       /\ Layer!Coded8x8(mb.luma_cbp) = m_cbp
       /\ mb.chroma_cbp = chroma_cbp
  /\ layer_pc = "received" => received = ResidualUnder(m_cbp, chroma_cbp) /\ mb.type = "P16x16"

\* The inductive invariant.
IInv == ResidualInv /\ LayerInv

LEMMA Bits ==
  \A a \in 0..1, b \in 0..1, c \in 0..1, d \in 0..1 :
    LET v == a + 2 * b + 4 * c + 8 * d
    IN  /\ v \in 0..15
        /\ (v \div 1) % 2 = a /\ (v \div 2) % 2 = b /\ (v \div 4) % 2 = c /\ (v \div 8) % 2 = d
  OBVIOUS

\* The pattern that is taken over has the bits of the 8x8 blocks.
LEMMA PatternBits ==
  ASSUME NEW S \in SUBSET (0..3)
  PROVE  LET v == (IF 0 \in S THEN 1 ELSE 0) + (IF 1 \in S THEN 2 ELSE 0)
                    + (IF 2 \in S THEN 4 ELSE 0) + (IF 3 \in S THEN 8 ELSE 0)
         IN  v \in 0..15 /\ Layer!Coded8x8(v) = S
  <1> DEFINE a == IF 0 \in S THEN 1 ELSE 0
             b == IF 1 \in S THEN 1 ELSE 0
             c == IF 2 \in S THEN 1 ELSE 0
             d == IF 3 \in S THEN 1 ELSE 0
             v == (IF 0 \in S THEN 1 ELSE 0) + (IF 1 \in S THEN 2 ELSE 0)
                    + (IF 2 \in S THEN 4 ELSE 0) + (IF 3 \in S THEN 8 ELSE 0)
  <1>1. v = a + 2 * b + 4 * c + 8 * d /\ a \in 0..1 /\ b \in 0..1 /\ c \in 0..1 /\ d \in 0..1
    OBVIOUS
  <1>2. /\ (a = 1) <=> (0 \in S)
        /\ (b = 1) <=> (1 \in S)
        /\ (c = 1) <=> (2 \in S)
        /\ (d = 1) <=> (3 \in S)
    OBVIOUS
  <1> HIDE DEF a, b, c, d, v
  <1>3. v \in 0..15 /\ (v \div 1) % 2 = a /\ (v \div 2) % 2 = b /\ (v \div 4) % 2 = c /\ (v \div 8) % 2 = d
    BY <1>1, Bits
  <1>4. Layer!Bit(0) = 1 /\ Layer!Bit(1) = 2 /\ Layer!Bit(2) = 4 /\ Layer!Bit(3) = 8
    BY DEF Layer!Bit
  <1>5. \A g \in 0..3 : (v \div Layer!Bit(g)) % 2 = 1 <=> g \in S
    <2> TAKE g \in 0..3
    <2>1. g = 0 \/ g = 1 \/ g = 2 \/ g = 3
      OBVIOUS
    <2> QED  BY <1>2, <1>3, <1>4, <2>1
  <1> QED  BY <1>3, <1>5 DEF Layer!Coded8x8, v

LEMMA MacroblockInitInv == MacroblockInit => IInv
  <1> SUFFICES ASSUME MacroblockInit PROVE IInv
    OBVIOUS
  <1>1. ResidualInv
    BY ResidualInit DEF MacroblockInit
  <1>2. CASE Layer!Init
    <2>1. mb \in Layer!IntraMacroblocks /\ layer_pc = "type" /\ m_bytes_data = <<>>
      BY <1>2 DEF Layer!Init
    <2>2. mb \in Written /\ mb.type # "P16x16"
      BY <2>1 DEF Written, Layer!IntraMacroblocks
    <2> QED  BY <1>1, <2>1, <2>2 DEF IInv, LayerInv, InFront
  <1>3. CASE layer_pc = "decide" /\ m_bytes_data = <<>>
    BY <1>1, <1>3 DEF IInv, LayerInv, InFront
  <1> QED  BY <1>2, <1>3 DEF MacroblockInit

\* A step of the writer: each writes the elements of its part.
LEMMA OutputKeeps ==
  ASSUME IInv, OutputMB
  PROVE  IInv'
  <1>1. /\ UNCHANGED <<vars, received>> /\ mb' = mb
        /\ layer_pc \in {"type", "prediction", "cbp", "qp_delta", "luma", "chroma"}
    BY DEF OutputMB, Layer!Next, Layer!OutputMBType, Layer!OutputPrediction, Layer!OutputCBP,
           Layer!OutputQPDelta, Layer!OutputLuma, Layer!OutputChroma, Layer!Write
  <1>2. mb \in Written /\ m_bytes_data = InFront
    BY <1>1 DEF IInv, LayerInv
  <1>3. /\ Layer!MBTypeElements' = Layer!MBTypeElements
        /\ Layer!PredictionElements' = Layer!PredictionElements
        /\ Layer!CBPElements' = Layer!CBPElements
        /\ Layer!QPDeltaElements' = Layer!QPDeltaElements
        /\ Layer!LumaElements' = Layer!LumaElements
        /\ Layer!ChromaElements' = Layer!ChromaElements
    BY <1>1 DEF Layer!MBTypeElements, Layer!PredictionElements, Layer!CBPElements, Layer!QPDeltaElements,
                Layer!LumaElements, Layer!ChromaElements, Layer!m_cbp
  <1>4. First' = First /\ Residual' = Residual
    BY <1>3 DEF First, Residual
  <1>5. ResidualInv'
    BY <1>1 DEF IInv, ResidualInv, LumaInv, ChromaInv, PatternsFollow, UnderPattern, vars
  <1>6. ASSUME layer_pc' \in {"prediction", "cbp", "qp_delta", "luma", "chroma", "done"},
               m_bytes_data' = InFront',
               layer_pc' = "done" => readable' = mb
        PROVE  IInv'
    BY <1>1, <1>2, <1>5, <1>6 DEF IInv, LayerInv, Written, vars, Layer!Coded8x8
  <1>7. CASE Layer!OutputMBType
    <2>1. layer_pc = "type" /\ layer_pc' = "prediction" /\ m_bytes_data' = m_bytes_data \o Layer!MBTypeElements
      BY <1>7 DEF Layer!OutputMBType, Layer!Write
    <2>2. m_bytes_data = <<>> /\ InFront' = Layer!MBTypeElements
      BY <1>2, <1>3, <2>1 DEF InFront
    <2>3. m_bytes_data' = InFront'
      BY <1>2, <2>1, <2>2, TypeFirst
    <2> QED  BY <1>6, <2>1, <2>3
  <1>8. CASE Layer!OutputPrediction
    <2>1. layer_pc = "prediction" /\ layer_pc' = "cbp" /\ m_bytes_data' = m_bytes_data \o Layer!PredictionElements
      BY <1>8 DEF Layer!OutputPrediction, Layer!Write
    <2>2. m_bytes_data' = InFront'
      BY <1>2, <1>3, <2>1 DEF InFront
    <2> QED  BY <1>6, <2>1, <2>2
  <1>9. CASE Layer!OutputCBP
    <2>1. layer_pc = "cbp" /\ layer_pc' = "qp_delta" /\ m_bytes_data' = m_bytes_data \o Layer!CBPElements
      BY <1>9 DEF Layer!OutputCBP, Layer!Write
    <2>2. m_bytes_data' = InFront'
      BY <1>2, <1>4, <2>1 DEF InFront, First
    <2> QED  BY <1>6, <2>1, <2>2
  <1>10. CASE Layer!OutputQPDelta
    <2>1. layer_pc = "qp_delta" /\ layer_pc' = "luma" /\ m_bytes_data' = m_bytes_data \o Layer!QPDeltaElements
      BY <1>10 DEF Layer!OutputQPDelta, Layer!Write
    <2>2. m_bytes_data' = InFront'
      BY <1>2, <1>3, <1>4, <2>1 DEF InFront
    <2> QED  BY <1>6, <2>1, <2>2
  <1>11. CASE Layer!OutputLuma
    <2>1. layer_pc = "luma" /\ layer_pc' = "chroma" /\ m_bytes_data' = m_bytes_data \o Layer!LumaElements
      BY <1>11 DEF Layer!OutputLuma, Layer!Write
    <2>2. m_bytes_data' = InFront'
      BY <1>2, <1>3, <1>4, <2>1 DEF InFront
    <2> QED  BY <1>6, <2>1, <2>2
  <1>12. CASE Layer!OutputChroma
    <2>1. /\ layer_pc = "chroma" /\ layer_pc' = "done"
          /\ m_bytes_data' = m_bytes_data \o Layer!ChromaElements
          /\ readable' = Layer!Read(m_bytes_data', mb.type = "P16x16")
      BY <1>12 DEF Layer!OutputChroma, Layer!Write
    <2>2. m_bytes_data = (First \o Layer!QPDeltaElements) \o Layer!LumaElements
      BY <1>2, <2>1 DEF InFront
    <2>3. /\ First \o Layer!QPDeltaElements \in Seq(Element)
          /\ Layer!LumaElements \in Seq(Element) /\ Layer!ChromaElements \in Seq(Element)
      BY <1>2, ReadsBack, ResidualType
    <2>4. m_bytes_data' = (First \o Layer!QPDeltaElements) \o Residual
      <3> DEFINE A == First \o Layer!QPDeltaElements
                 B == Layer!LumaElements
                 C == Layer!ChromaElements
      <3>1. A \in Seq(Element) /\ B \in Seq(Element) /\ C \in Seq(Element)
        BY <2>3
      <3>2. m_bytes_data' = (A \o B) \o C /\ Residual = B \o C
        BY <2>1, <2>2 DEF Residual
      <3> HIDE DEF A, B, C
      <3>3. (A \o B) \o C = A \o (B \o C)
        BY <3>1, ConcatAssociative
      <3>4. m_bytes_data' = A \o Residual
        BY <3>2, <3>3
      <3> QED  BY <3>4 DEF A
    <2>5. m_bytes_data' = InFront'
      BY <1>3, <1>4, <2>1, <2>4 DEF InFront
    <2>6. readable' = mb
      BY <1>2, <2>1, <2>4, ReadsBack
    <2> QED  BY <1>6, <2>1, <2>5, <2>6
  <1> QED  BY <1>7, <1>8, <1>9, <1>10, <1>11, <1>12 DEF OutputMB, Layer!Next

\* The pattern of an inter macroblock is that of its coefficients.
LEMMA TakePatternKeeps ==
  ASSUME IInv, TakePattern
  PROVE  IInv'
  <1> DEFINE v == (IF 0 \in m_cbp THEN 1 ELSE 0) + (IF 1 \in m_cbp THEN 2 ELSE 0)
                    + (IF 2 \in m_cbp THEN 4 ELSE 0) + (IF 3 \in m_cbp THEN 8 ELSE 0)
  <1>1. /\ layer_pc = "decide" /\ layer_pc' = "type" /\ pc = "output"
        /\ mb' = Layer!InterMacroblock(v, chroma_cbp)
        /\ UNCHANGED <<vars, m_bytes_data, readable, received>>
    BY DEF TakePattern
  <1>2. m_cbp \in SUBSET (0..3) /\ chroma_cbp \in 0..2
    BY DEF IInv, ResidualInv, LumaInv, ChromaInv, PatternsFollow
  <1>3. v \in 0..15 /\ Layer!Coded8x8(v) = m_cbp
    BY <1>2, PatternBits
  <1> HIDE DEF v
  <1>4. /\ mb' \in InterMacroblocks /\ mb'.type = "P16x16"
        /\ mb'.luma_cbp = v /\ mb'.chroma_cbp = chroma_cbp
    BY <1>1, <1>2, <1>3 DEF Layer!InterMacroblock, InterMacroblocks
  <1>5. ResidualInv'
    BY <1>1 DEF IInv, ResidualInv, LumaInv, ChromaInv, PatternsFollow, UnderPattern, vars
  <1>6. m_bytes_data' = InFront'
    BY <1>1 DEF IInv, LayerInv, InFront
  <1>7. mb' \in Written'
    BY <1>4 DEF Written, InterMacroblocks, Layer!IntraMacroblocks
  <1>8. /\ pc' = "output" /\ Layer!Coded8x8(mb'.luma_cbp) = m_cbp' /\ mb'.chroma_cbp = chroma_cbp'
    BY <1>1, <1>3, <1>4 DEF vars
  <1>9. (Layer!Coded8x8(mb.luma_cbp))' = Layer!Coded8x8(mb'.luma_cbp)
    BY DEF Layer!Coded8x8
  <1> QED  BY <1>1, <1>5, <1>6, <1>7, <1>8, <1>9 DEF IInv, LayerInv

LEMMA CodeResidualKeeps ==
  ASSUME IInv, CodeResidual
  PROVE  IInv'
  <1>1. layer_pc = "decide" /\ UNCHANGED <<layerVars, received>> /\ Next
    BY DEF CodeResidual
  <1>2. ResidualInv'
    BY <1>1, ResidualStep DEF IInv
  <1>3. LayerInv'
    BY <1>1 DEF IInv, LayerInv, InFront, layerVars
  <1> QED  BY <1>2, <1>3 DEF IInv

\* The receiver has read mb, whose patterns are those of the flows.
LEMMA ReceiveKeeps ==
  ASSUME IInv, Receive
  PROVE  IInv'
  <1>1. /\ layer_pc = "done" /\ layer_pc' = "received" /\ readable.type = "P16x16"
        /\ received' = ResidualUnder(Layer!Coded8x8(readable.luma_cbp), readable.chroma_cbp)
        /\ UNCHANGED <<vars, mb, m_bytes_data, readable>>
    BY DEF Receive
  <1>2. /\ readable = mb /\ mb \in Written /\ m_bytes_data = InFront /\ pc = "output"
        /\ Layer!Coded8x8(mb.luma_cbp) = m_cbp /\ mb.chroma_cbp = chroma_cbp
    BY <1>1 DEF IInv, LayerInv
  <1>3. received' = ResidualUnder(m_cbp, chroma_cbp)
    BY <1>1, <1>2
  <1>4. (ResidualUnder(m_cbp, chroma_cbp))' = ResidualUnder(m_cbp, chroma_cbp)
    BY <1>1 DEF ResidualUnder, vars
  <1>5. ResidualInv'
    BY <1>1 DEF IInv, ResidualInv, LumaInv, ChromaInv, PatternsFollow, UnderPattern, vars
  <1>6. InFront' = InFront
    <2>1. First' = First /\ Residual' = Residual /\ Layer!QPDeltaElements' = Layer!QPDeltaElements
      BY <1>1 DEF First, Residual, Layer!MBTypeElements, Layer!PredictionElements, Layer!CBPElements,
                  Layer!QPDeltaElements, Layer!LumaElements, Layer!ChromaElements, Layer!m_cbp
    <2> QED  BY <1>1, <2>1 DEF InFront
  <1>7. mb' \in Written'
    BY <1>1, <1>2 DEF Written, InterMacroblocks, Layer!IntraMacroblocks
  <1>8. (Layer!Coded8x8(mb.luma_cbp))' = m_cbp' /\ mb'.chroma_cbp = chroma_cbp' /\ pc' = "output"
    BY <1>1, <1>2 DEF Layer!Coded8x8, vars
  <1> QED  BY <1>1, <1>2, <1>3, <1>4, <1>5, <1>6, <1>7, <1>8 DEF IInv, LayerInv

LEMMA MacroblockStep == IInv /\ [MacroblockNext]_<<vars, layerVars, received>> => IInv'
  <1> SUFFICES ASSUME IInv, [MacroblockNext]_<<vars, layerVars, received>> PROVE IInv'
    OBVIOUS
  <1>1. CASE MacroblockNext
    BY <1>1, CodeResidualKeeps, TakePatternKeeps, OutputKeeps, ReceiveKeeps DEF MacroblockNext
  <1>2. CASE UNCHANGED <<vars, layerVars, received>>
    <2>1. ResidualInv'
      BY <1>2 DEF IInv, ResidualInv, LumaInv, ChromaInv, PatternsFollow, UnderPattern, vars
    <2>2. InFront' = InFront /\ mb' = mb /\ layer_pc' = layer_pc
      BY <1>2 DEF InFront, First, Residual, Layer!MBTypeElements, Layer!PredictionElements, Layer!CBPElements,
                  Layer!QPDeltaElements, Layer!LumaElements, Layer!ChromaElements, Layer!m_cbp, layerVars
    <2>3. LayerInv'
      BY <1>2, <2>2 DEF IInv, LayerInv, Written, InterMacroblocks, Layer!IntraMacroblocks,
                        Layer!Coded8x8, ResidualUnder, vars, layerVars
    <2> QED  BY <2>1, <2>3 DEF IInv
  <1> QED  BY <1>1, <1>2

THEOREM MacroblockInvariant == MacroblockSpec => []IInv
  BY MacroblockInitInv, MacroblockStep, PTL DEF MacroblockSpec

-----------------------------------------------------------------------------
(* What the invariant gives.                                               *)

\* A receiver reads from the elements the macroblock that was written, with
\* either kind of intra macroblock, every mode and all 48 patterns of each.
THEOREM RecoversMacroblock == MacroblockSpec => []ReceiverRecoversMacroblock
  <1>1. IInv => ReceiverRecoversMacroblock
    BY DEF IInv, LayerInv, ReceiverRecoversMacroblock
  <1> QED  BY <1>1, MacroblockInvariant, PTL

\* What the encoder adds to its prediction is what a receiver adds, wherever
\* the thresholds lie and whichever of them dropped what.
THEOREM ReconstructsAsReceiver == MacroblockSpec => []ReconstructionIsReceivers
  <1>1. ASSUME IInv PROVE ReconstructionIsReceivers
    <2>1. CASE layer_pc = "received"
      <3>1. ResidualInv /\ pc = "output" /\ received = ResidualUnder(m_cbp, chroma_cbp)
        BY <1>1, <2>1 DEF IInv, LayerInv
      <3> QED  BY <3>1, ResidualIsReconstructed DEF ReconstructionIsReceivers
    <2> QED  BY <2>1 DEF ReconstructionIsReceivers
  <1> QED  BY <1>1, MacroblockInvariant, PTL

\* The blocks the deblocking filter takes for coded are those a receiver finds
\* coefficients in.
THEOREM FilterSeesBlocks == MacroblockSpec => []FilterSeesReceivedBlocks
  <1>1. ASSUME IInv PROVE FilterSeesReceivedBlocks
    <2>1. CASE layer_pc = "received"
      <3>1. ResidualInv /\ pc = "output" /\ received = ResidualUnder(m_cbp, chroma_cbp)
        BY <1>1, <2>1 DEF IInv, LayerInv
      <3>2. received = reconstructed
        BY <3>1, ResidualIsReconstructed
      <3> QED  BY <3>1, <3>2, ResidualIsReconstructed DEF FilterSeesReceivedBlocks
    <2> QED  BY <2>1 DEF FilterSeesReceivedBlocks
  <1> QED  BY <1>1, MacroblockInvariant, PTL

-----------------------------------------------------------------------------
(* Induction.                                                              *)

\* A set of natural numbers has a least one.
LEMMA Least ==
  ASSUME NEW T, T \subseteq Nat, T # {}
  PROVE  \E n \in T : \A m \in T : n <= m
  <1> DEFINE R == {ss \in Nat \X Nat : ss[1] < ss[2]}
  <1>1. IsWellFoundedOn(R, Nat)
    BY NatLessThanWellFounded DEF OpToRel
  <1> HIDE DEF R
  <1>2. PICK n \in T : \A m \in T : ~ (<<m, n>> \in R)
    BY <1>1, WFMin
  <1>3. ASSUME NEW m \in T
        PROVE  n <= m
    <2>1. m \in Nat /\ n \in Nat /\ <<m, n>> \notin R
      BY <1>2
    <2>2. m < n => <<m, n>> \in R
      BY <2>1 DEF R
    <2> QED
      BY <2>1, <2>2
  <1> QED
    BY <1>3

\* Induction, for the set of the numbers a fact holds of.
LEMMA Induction ==
  ASSUME NEW S, 0 \in S, \A n \in Nat : n \in S => n + 1 \in S
  PROVE  \A n \in Nat : n \in S
  <1> DEFINE T == Nat \ S
  <1>1. SUFFICES ASSUME T # {} PROVE FALSE
    OBVIOUS
  <1>2. PICK n \in T : \A m \in T : n <= m
    <2>1. T \subseteq Nat
      OBVIOUS
    <2> HIDE DEF T
    <2> QED
      BY <1>1, <2>1, Least
  <1>3. n \in Nat /\ n # 0 /\ n - 1 \in Nat
    OBVIOUS
  <1>4. n - 1 \notin T
    BY <1>2, <1>3
  <1>5. (n - 1) + 1 \in S
    BY <1>3, <1>4
  <1> QED
    BY <1>3, <1>5

\* A rule keeps to a set; a function on 0..n that takes it from a first value.
Keeps(rule, V, n) == \A k \in 1..n, x \in V : rule[<<x, k>>] \in V

Computes(f, rule, base, n) == f[0] = base /\ \A k \in 1..n : f[k] = rule[<<f[k - 1], k>>]

\* A function given by its first value and a rule exists.
LEMMA Recursion ==
  ASSUME NEW n \in Nat, NEW V, NEW base \in V, NEW rule,
         Keeps(rule, V, n)
  PROVE  \E f \in [0..n -> V] : Computes(f, rule, base, n)
  <1> DEFINE Runs(f, m) == f \in [0..m -> V] /\ f[0] = base /\ \A k \in 1..m : f[k] = rule[<<f[k - 1], k>>]
             S == {m \in Nat : m <= n => \E f : Runs(f, m)}
  <1>1. 0 \in S
    <2>1. Runs([k \in 0..0 |-> base], 0)
      OBVIOUS
    <2> QED
      BY <2>1
  <1>2. ASSUME NEW m \in Nat, m \in S
        PROVE  m + 1 \in S
    <2> SUFFICES ASSUME m + 1 <= n
                 PROVE  \E f : Runs(f, m + 1)
      OBVIOUS
    <2>1. PICK f : Runs(f, m)
      BY <1>2
    <2> DEFINE next == rule[<<f[m], m + 1>>]
               g == [k \in 0..(m + 1) |-> IF k <= m THEN f[k] ELSE next]
    <2>2. f[m] \in V /\ next \in V
      BY <2>1 DEF Keeps
    <2>3. g \in [0..(m + 1) -> V] /\ g[0] = base
      <3>1. \A k \in 0..m : f[k] \in V
        BY <2>1
      <3> HIDE DEF next
      <3> QED
        BY <2>1, <2>2, <3>1
    <2>4. ASSUME NEW k \in 1..(m + 1)
          PROVE  g[k] = rule[<<g[k - 1], k>>]
      <3>1. k - 1 \in 0..m /\ g[k - 1] = f[k - 1]
        OBVIOUS
      <3>2. CASE k <= m
        <4>1. g[k] = f[k] /\ k \in 1..m
          BY <3>2
        <4> HIDE DEF g
        <4> QED
          BY <2>1, <3>1, <4>1
      <3>3. CASE k = m + 1
        <4>1. g[k] = next /\ k - 1 = m
          BY <3>3
        <4> HIDE DEF g
        <4> QED
          BY <3>1, <3>3, <4>1
      <3> QED
        BY <3>2, <3>3
    <2> HIDE DEF g
    <2> QED
      BY <2>3, <2>4
  <1> HIDE DEF S
  <1>3. n \in S
    BY <1>1, <1>2, Induction
  <1> QED
    BY <1>3 DEF S, Computes

-----------------------------------------------------------------------------
(* Blocks by place and by index.                                           *)

ContextMBs == 0..(m_width_in_mb * m_height_in_mb - 1)

BlocksOf(t) == IF t = "Luma" THEN 0..15 ELSE 0..3

\* The index of a place, the place of a block of a macroblock, and the
\* macroblock a place belongs to.
IndexAt(t, p) == p[1] + p[2] * RowLength(t)

PlaceOf(t, a, b) == InMB(a, BlocksPerSide(t), b % BlocksPerSide(t), b \div BlocksPerSide(t))

Owner(t, p) == (p[1] \div BlocksPerSide(t)) + (p[2] \div BlocksPerSide(t)) * m_width_in_mb

LEMMA Sides ==
  ASSUME NEW t \in CavlcContextType
  PROVE  /\ BlocksPerSide(t) \in {2, 4} /\ BlocksOf(t) = 0..(BlocksPerSide(t) * BlocksPerSide(t) - 1)
         /\ m_width_in_mb \in Nat \ {0} /\ m_height_in_mb \in Nat \ {0}
         /\ RowLength(t) = BlocksPerSide(t) * m_width_in_mb /\ RowLength(t) \in Nat \ {0}
  <1>1. m_width_in_mb \in Nat \ {0} /\ m_height_in_mb \in Nat \ {0}
    BY SizeAssumption
  <1>2. CASE t = "Luma"
    BY <1>1, <1>2 DEF BlocksPerSide, BlocksOf, RowLength
  <1>3. CASE t # "Luma"
    BY <1>1, <1>3 DEF BlocksPerSide, BlocksOf, RowLength
  <1> QED
    BY <1>2, <1>3

\* Places in a plane of size by rows, as numbers.
LEMMA PlaceInPlane ==
  ASSUME NEW size \in Nat \ {0}, NEW rows \in Nat, NEW x \in 0..(size - 1), NEW y \in 0..(rows - 1)
  PROVE  x + y * size \in 0..(size * rows - 1)
  <1>1. y * size \in Nat /\ (rows - 1) * size \in Nat /\ (rows - 1) * size = size * rows - size
    OBVIOUS
  <1>2. y * size <= (rows - 1) * size
    <2>1. (rows - 1) * size = y * size + ((rows - 1) - y) * size /\ ((rows - 1) - y) * size >= 0
      OBVIOUS
    <2> QED
      BY <1>1, <2>1
  <1> QED
    BY <1>1, <1>2

\* Different places have different numbers.
LEMMA PlacesDiffer ==
  ASSUME NEW size \in Nat \ {0}, NEW x \in 0..(size - 1), NEW u \in 0..(size - 1),
         NEW y \in Nat, NEW v \in Nat, x + y * size = u + v * size
  PROVE  x = u /\ y = v
  <1>1. y * size \in Nat /\ v * size \in Nat
    OBVIOUS
  <1>2. ASSUME y < v
        PROVE  FALSE
    <2>1. v * size = y * size + (v - y) * size /\ (v - y) * size >= size
      BY <1>2
    <2> QED
      BY <1>1, <2>1
  <1>3. ASSUME v < y
        PROVE  FALSE
    <2>1. y * size = v * size + (y - v) * size /\ (y - v) * size >= size
      BY <1>3
    <2> QED
      BY <1>1, <2>1
  <1> QED
    BY <1>1, <1>2, <1>3

\* The column and the row of a number.
LEMMA NumberedPlace ==
  ASSUME NEW size \in Nat \ {0}, NEW x \in 0..(size - 1), NEW y \in Nat
  PROVE  (x + y * size) % size = x /\ (x + y * size) \div size = y
  <1> DEFINE a == x + y * size
  <1>1. a \in Nat
    OBVIOUS
  <1> HIDE DEF a
  <1>2. a % size \in 0..(size - 1) /\ a \div size \in Nat /\ a = (a % size) + (a \div size) * size
    BY <1>1
  <1> DEFINE u == a % size
             v == a \div size
  <1>3. u \in 0..(size - 1) /\ v \in Nat /\ x + y * size = u + v * size
    BY <1>2 DEF a
  <1> HIDE DEF u, v
  <1>4. x = u /\ y = v
    BY <1>3, PlacesDiffer
  <1> QED
    BY <1>4 DEF u, v, a

LEMMA MBPlaces ==
  ASSUME NEW a \in ContextMBs
  PROVE  /\ a % m_width_in_mb \in 0..(m_width_in_mb - 1)
         /\ a \div m_width_in_mb \in 0..(m_height_in_mb - 1)
         /\ a = (a % m_width_in_mb) + (a \div m_width_in_mb) * m_width_in_mb
  <1> DEFINE W == m_width_in_mb
             H == m_height_in_mb
             q == a \div W
             r == a % W
  <1>1. W \in Nat \ {0} /\ H \in Nat \ {0} /\ a \in Nat /\ a < W * H
    BY SizeAssumption DEF ContextMBs
  <1>2. r \in 0..(W - 1) /\ q \in Nat /\ a = r + q * W
    BY <1>1
  <1> HIDE DEF W, H, q, r
  <1>3. q < H
    <2> SUFFICES ASSUME q >= H
                 PROVE  FALSE
      BY <1>1, <1>2
    <2>1. q * W = H * W + (q - H) * W /\ (q - H) * W >= 0
      BY <1>1, <1>2
    <2> QED
      BY <1>1, <1>2, <2>1
  <1> QED
    BY <1>1, <1>2, <1>3 DEF W, H, q, r

\* A place of the picture has an index, and no other place has it.
LEMMA PlaceIndex ==
  ASSUME NEW t \in CavlcContextType, NEW p \in Places(t)
  PROVE  /\ IndexAt(t, p) \in Indices(t)
         /\ \A q \in Places(t) : IndexAt(t, q) = IndexAt(t, p) => q = p
  <1> DEFINE size == RowLength(t)
             rows == BlocksPerSide(t) * m_height_in_mb
  <1>1. size \in Nat \ {0} /\ rows \in Nat
    BY Sides
  <1>2. Places(t) = (0..(size - 1)) \X (0..(rows - 1)) /\ Indices(t) = 0..(size * rows - 1)
    <2>1. size * rows = RowLength(t) * BlocksPerSide(t) * m_height_in_mb
      BY Sides
    <2> QED
      BY <2>1 DEF Places, Indices
  <1> HIDE DEF size, rows
  <1>3. \A q \in Places(t) : q = <<q[1], q[2]>> /\ q[1] \in 0..(size - 1) /\ q[2] \in 0..(rows - 1) /\ q[2] \in Nat
    BY <1>1, <1>2
  <1>4. p[1] + p[2] * size \in Indices(t)
    BY <1>1, <1>2, <1>3, PlaceInPlane
  <1>5. ASSUME NEW q \in Places(t), q[1] + q[2] * size = p[1] + p[2] * size
        PROVE  q = p
    <2>1. q[1] = p[1] /\ q[2] = p[2]
      BY <1>1, <1>3, <1>5, PlacesDiffer
    <2> QED
      BY <1>3, <2>1
  <1> QED
    BY <1>4, <1>5, Zenon DEF IndexAt, size

\* The blocks of a macroblock lie in it, at the index the encoder finds.
LEMMA BlockPlace ==
  ASSUME NEW t \in CavlcContextType, NEW a \in ContextMBs, NEW b \in BlocksOf(t)
  PROVE  /\ PlaceOf(t, a, b) \in Places(t)
         /\ Owner(t, PlaceOf(t, a, b)) = a
         /\ \A d : MapDataType(d) = t => GetBlockIndex(d, a, b) = IndexAt(t, PlaceOf(t, a, b))
  <1> DEFINE n == BlocksPerSide(t)
             c == a % m_width_in_mb
             r == a \div m_width_in_mb
             x == c * n + (b % n)
             y == r * n + (b \div n)
  <1>1. n \in {2, 4} /\ b \in 0..(n * n - 1) /\ RowLength(t) = n * m_width_in_mb
        /\ m_width_in_mb \in Nat \ {0} /\ m_height_in_mb \in Nat \ {0} /\ RowLength(t) \in Nat
    BY Sides
  <1>2. /\ c \in 0..(m_width_in_mb - 1) /\ r \in 0..(m_height_in_mb - 1)
        /\ a = c + r * m_width_in_mb
    BY MBPlaces
  <1>3. PlaceOf(t, a, b) = <<x, y>>
    BY DEF PlaceOf, InMB
  <1>4. \A d : MapDataType(d) = t => GetBlockIndex(d, a, b) = y * RowLength(t) + x
    BY Zenon DEF GetBlockIndex
  <1> HIDE DEF n, c, r
  <1>5. b % n \in 0..(n - 1) /\ b \div n \in 0..(n - 1)
    <2>1. CASE n = 2
      BY <1>1, <2>1
    <2>2. CASE n = 4
      BY <1>1, <2>2
    <2> QED
      BY <1>1, <2>1, <2>2
  <1> DEFINE u == b % n
             v == b \div n
  <1> HIDE DEF u, v
  <1>6. x = c * n + u /\ y = r * n + v /\ u \in 0..(n - 1) /\ v \in 0..(n - 1)
    BY <1>5 DEF u, v
  <1> HIDE DEF x, y
  <1>7. /\ x \in 0..(n * m_width_in_mb - 1) /\ y \in 0..(n * m_height_in_mb - 1)
        /\ x \div n = c /\ y \div n = r
    <2>1. CASE n = 2
      BY <1>1, <1>2, <1>6, <2>1
    <2>2. CASE n = 4
      BY <1>1, <1>2, <1>6, <2>2
    <2> QED
      BY <1>1, <2>1, <2>2
  <1>8. <<x, y>> \in Places(t)
    BY <1>1, <1>7 DEF Places, n
  <1>9. Owner(t, <<x, y>>) = a
    BY <1>2, <1>7 DEF Owner, n
  <1>10. IndexAt(t, <<x, y>>) = y * RowLength(t) + x
    <2>1. x \in Nat /\ y \in Nat /\ y * RowLength(t) \in Nat
      BY <1>1, <1>7
    <2> QED
      BY <2>1 DEF IndexAt
  <1> QED
    BY <1>3, <1>4, <1>8, <1>9, <1>10, Zenon

\* Every place belongs to a macroblock, and is that of one of its blocks.
LEMMA PlaceOwned ==
  ASSUME NEW t \in CavlcContextType, NEW p \in Places(t)
  PROVE  /\ Owner(t, p) \in ContextMBs
         /\ <<p[1] \div BlocksPerSide(t), p[2] \div BlocksPerSide(t)>>
              = <<Owner(t, p) % m_width_in_mb, Owner(t, p) \div m_width_in_mb>>
         /\ \E b \in BlocksOf(t) : p = PlaceOf(t, Owner(t, p), b)
  <1> DEFINE n == BlocksPerSide(t)
             c == p[1] \div n
             r == p[2] \div n
             b == (p[1] % n) + n * (p[2] % n)
  <1>1. n \in {2, 4} /\ BlocksOf(t) = 0..(n * n - 1) /\ RowLength(t) = n * m_width_in_mb
        /\ m_width_in_mb \in Nat \ {0} /\ m_height_in_mb \in Nat \ {0}
    BY Sides
  <1>2. p = <<p[1], p[2]>> /\ p[1] \in 0..(n * m_width_in_mb - 1) /\ p[2] \in 0..(n * m_height_in_mb - 1)
    BY <1>1 DEF Places
  <1> HIDE DEF n
  <1> DEFINE x == p[1]
             y == p[2]
             u == x % n
             v == y % n
  <1> HIDE DEF x, y
  <1>3. /\ c \in 0..(m_width_in_mb - 1) /\ r \in 0..(m_height_in_mb - 1)
        /\ c * n + u = x /\ r * n + v = y /\ u \in 0..(n - 1) /\ v \in 0..(n - 1)
    <2>1. x \in 0..(n * m_width_in_mb - 1) /\ y \in 0..(n * m_height_in_mb - 1)
      BY <1>2 DEF x, y
    <2>2. c = x \div n /\ r = y \div n
      BY DEF x, y
    <2> HIDE DEF c, r
    <2>3. CASE n = 2
      <3>1. /\ x \div 2 \in 0..(m_width_in_mb - 1) /\ (x \div 2) * 2 + (x % 2) = x /\ x % 2 \in 0..1
        BY <1>1, <2>1, <2>3
      <3>2. /\ y \div 2 \in 0..(m_height_in_mb - 1) /\ (y \div 2) * 2 + (y % 2) = y /\ y % 2 \in 0..1
        BY <1>1, <2>1, <2>3
      <3> QED
        BY <2>2, <2>3, <3>1, <3>2
    <2>4. CASE n = 4
      <3>1. /\ x \div 4 \in 0..(m_width_in_mb - 1) /\ (x \div 4) * 4 + (x % 4) = x /\ x % 4 \in 0..3
        BY <1>1, <2>1, <2>4
      <3>2. /\ y \div 4 \in 0..(m_height_in_mb - 1) /\ (y \div 4) * 4 + (y % 4) = y /\ y % 4 \in 0..3
        BY <1>1, <2>1, <2>4
      <3> QED
        BY <2>2, <2>4, <3>1, <3>2
    <2> QED
      BY <1>1, <2>3, <2>4
  <1>31. b = u + n * v
    BY DEF x, y
  <1> HIDE DEF c, r, u, v, b
  <1>32. b \in 0..(n * n - 1) /\ b % n = u /\ b \div n = v
    <2>1. CASE n = 2
      BY <1>3, <1>31, <2>1
    <2>2. CASE n = 4
      BY <1>3, <1>31, <2>2
    <2> QED
      BY <1>1, <2>1, <2>2
  <1> DEFINE a == c + r * m_width_in_mb
  <1>4. a \in ContextMBs /\ a % m_width_in_mb = c /\ a \div m_width_in_mb = r
    <2>1. r \in Nat
      BY <1>1, <1>3
    <2>2. c + r * m_width_in_mb \in 0..(m_width_in_mb * m_height_in_mb - 1)
      BY <1>1, <1>3, PlaceInPlane
    <2>3. (c + r * m_width_in_mb) % m_width_in_mb = c /\ (c + r * m_width_in_mb) \div m_width_in_mb = r
      BY <1>1, <1>3, <2>1, NumberedPlace
    <2> QED
      BY <2>2, <2>3 DEF ContextMBs
  <1>5. Owner(t, p) = a
    BY DEF Owner, c, r, n
  <1> HIDE DEF a
  <1>6. PlaceOf(t, a, b) = p
    <2>1. PlaceOf(t, a, b) = <<c * n + (b % n), r * n + (b \div n)>>
      BY <1>4 DEF PlaceOf, InMB, n
    <2> QED
      BY <1>2, <1>3, <1>32, <2>1 DEF x, y
  <1>7. b \in BlocksOf(t)
    BY <1>1, <1>32
  <1> QED
    BY <1>4, <1>5, <1>6, <1>7 DEF c, r, n

\* The blocks to the left of a block and above it: the encoder finds the edges
\* of the picture, and their indices, from the block's index alone.
LEMMA Neighbours ==
  ASSUME NEW t \in CavlcContextType, NEW p \in Places(t)
  PROVE  LET i == IndexAt(t, p)
             left == <<p[1] - 1, p[2]>>
             up == <<p[1], p[2] - 1>>
         IN  /\ (i % RowLength(t) # 0) <=> left \in Places(t)
             /\ (i >= RowLength(t)) <=> up \in Places(t)
             /\ left \in Places(t) => IndexAt(t, left) = i - 1 /\ Owner(t, left) <= Owner(t, p)
             /\ up \in Places(t) => IndexAt(t, up) = i - RowLength(t) /\ Owner(t, up) <= Owner(t, p)
  <1> DEFINE size == RowLength(t)
             n == BlocksPerSide(t)
             rows == n * m_height_in_mb
             x == p[1]
             y == p[2]
             left == <<x - 1, y>>
             up == <<x, y - 1>>
             i == x + y * size
  <1>1. size \in Nat \ {0} /\ n \in {2, 4} /\ rows \in Nat /\ m_width_in_mb \in Nat
    BY Sides
  <1>2. Places(t) = (0..(size - 1)) \X (0..(rows - 1))
    BY DEF Places
  <1> HIDE DEF size, rows
  <1>3. x \in 0..(size - 1) /\ y \in 0..(rows - 1) /\ y \in Nat
    BY <1>1, <1>2
  <1> HIDE DEF x, y
  <1>4. (left \in Places(t)) <=> x # 0
    BY <1>1, <1>2, <1>3
  <1>5. (up \in Places(t)) <=> y # 0
    BY <1>1, <1>2, <1>3
  <1>6. i % size = x
    BY <1>1, <1>3, NumberedPlace
  <1>7. (i >= size) <=> y # 0
    <2>1. CASE y = 0
      BY <1>1, <1>3, <2>1
    <2>2. CASE y # 0
      <3>1. y * size = size + (y - 1) * size /\ (y - 1) * size >= 0
        BY <1>1, <1>3, <2>2
      <3> QED
        BY <1>1, <1>3, <2>2, <3>1
    <2> QED
      BY <2>1, <2>2
  <1>8. /\ (x - 1) + y * size = i - 1
        /\ x + (y - 1) * size = i - size
    BY <1>1, <1>3
  <1>9. x # 0 => Owner(t, left) <= Owner(t, p)
    <2> SUFFICES ASSUME x # 0
                 PROVE  Owner(t, left) <= Owner(t, p)
      OBVIOUS
    <2> DEFINE s == (y \div n) * m_width_in_mb
    <2>1. Owner(t, left) = ((x - 1) \div n) + s /\ Owner(t, p) = (x \div n) + s
      BY DEF Owner, x, y, n
    <2>2. s \in Int
      BY <1>1, <1>3
    <2> HIDE DEF s, n
    <2>3. (x - 1) \div n \in Int /\ x \div n \in Int /\ (x - 1) \div n <= x \div n
      <3>1. CASE n = 2
        BY <1>3, <3>1
      <3>2. CASE n = 4
        BY <1>3, <3>2
      <3> QED
        BY <1>1, <3>1, <3>2 DEF n
    <2> QED
      BY <2>1, <2>2, <2>3
  <1>10. y # 0 => Owner(t, up) <= Owner(t, p)
    <2> SUFFICES ASSUME y # 0
                 PROVE  Owner(t, up) <= Owner(t, p)
      OBVIOUS
    <2> DEFINE s == x \div n
               v == (y - 1) \div n
               w == y \div n
    <2>1. Owner(t, up) = s + v * m_width_in_mb /\ Owner(t, p) = s + w * m_width_in_mb
      BY DEF Owner, x, y, n
    <2> HIDE DEF n
    <2>2. s \in Int /\ v \in Nat /\ w \in Nat /\ v <= w
      <3>1. CASE n = 2
        BY <1>3, <3>1
      <3>2. CASE n = 4
        BY <1>3, <3>2
      <3> QED
        BY <1>1, <3>1, <3>2 DEF n
    <2> HIDE DEF s, v, w
    <2> DEFINE before == v * m_width_in_mb
               after == w * m_width_in_mb
    <2>3. after = before + (w - v) * m_width_in_mb
          /\ (w - v) * m_width_in_mb >= 0 /\ before \in Int
      BY <1>1, <2>2
    <2>4. before <= after /\ after \in Int
      BY <1>1, <2>2, <2>3
    <2> HIDE DEF before, after
    <2>5. s + before <= s + after
      BY <2>2, <2>3, <2>4
    <2> QED
      BY <2>1, <2>5 DEF before, after
  <1>11. IndexAt(t, p) = i /\ IndexAt(t, left) = i - 1 /\ IndexAt(t, up) = i - size
    <2>1. left[1] = x - 1 /\ left[2] = y /\ up[1] = x /\ up[2] = y - 1
      OBVIOUS
    <2> HIDE DEF left, up
    <2> QED
      BY <1>8, <2>1 DEF IndexAt, size, x, y
  <1> HIDE DEF i
  <1>12. left = <<p[1] - 1, p[2]>> /\ up = <<p[1], p[2] - 1>>
    BY DEF x, y
  <1> HIDE DEF left, up
  <1>13. size = RowLength(t)
    BY DEF size
  <1> QED
    BY <1>4, <1>5, <1>6, <1>7, <1>9, <1>10, <1>11, <1>12, <1>13

-----------------------------------------------------------------------------
(* The map, seen by place.                                                 *)

AllCounts == UNION {[Indices(t) -> Int] : t \in CavlcContextType}

Maps == {m \in [CavlcContextType -> AllCounts] : \A t \in CavlcContextType : m[t] \in [Indices(t) -> Int]}

CountAt(m, t, p) == m[t][IndexAt(t, p)]

\* The maps differ at most in one macroblock, and there at most in these planes.
Touches(m2, m, a, planes) ==
  \A t \in CavlcContextType : \A p \in Places(t) :
    (Owner(t, p) = a => t \notin planes) => CountAt(m2, t, p) = CountAt(m, t, p)

LEMMA MapsAre ==
  ASSUME NEW m
  PROVE  m \in Maps <=> /\ m = [t \in CavlcContextType |-> m[t]]
                        /\ \A t \in CavlcContextType : m[t] \in [Indices(t) -> Int]
  <1>1. ASSUME m \in Maps
        PROVE  /\ m = [t \in CavlcContextType |-> m[t]]
               /\ \A t \in CavlcContextType : m[t] \in [Indices(t) -> Int]
    BY <1>1 DEF Maps
  <1>2. ASSUME m = [t \in CavlcContextType |-> m[t]],
               \A t \in CavlcContextType : m[t] \in [Indices(t) -> Int]
        PROVE  m \in Maps
    <2>1. \A t \in CavlcContextType : m[t] \in AllCounts
      BY <1>2 DEF AllCounts
    <2>2. m \in [CavlcContextType -> AllCounts]
      BY <1>2, <2>1
    <2> QED
      BY <1>2, <2>2 DEF Maps
  <1> QED
    BY <1>1, <1>2

LEMMA CountsAre ==
  ASSUME NEW m \in Maps, NEW t \in CavlcContextType, NEW p \in Places(t)
  PROVE  CountAt(m, t, p) \in Int
  <1>1. IndexAt(t, p) \in Indices(t)
    BY PlaceIndex
  <1>2. m[t] \in [Indices(t) -> Int]
    BY DEF Maps
  <1> QED
    BY <1>1, <1>2 DEF CountAt

LEMMA ZerosAre ==
  /\ Zeros \in Maps
  /\ \A t \in CavlcContextType : \A p \in Places(t) : CountAt(Zeros, t, p) = 0
  <1>1. Zeros = [t \in CavlcContextType |-> Zeros[t]]
        /\ \A t \in CavlcContextType : Zeros[t] = [i \in Indices(t) |-> 0]
    BY DEF Zeros
  <1>2. \A t \in CavlcContextType : Zeros[t] \in [Indices(t) -> Int]
    BY <1>1
  <1>3. ASSUME NEW t \in CavlcContextType, NEW p \in Places(t)
        PROVE  CountAt(Zeros, t, p) = 0
    <2>1. IndexAt(t, p) \in Indices(t)
      BY PlaceIndex
    <2> QED
      BY <1>1, <2>1 DEF CountAt
  <1>4. Zeros \in Maps
    <2> HIDE DEF Maps
    <2> QED
      BY <1>1, <1>2, MapsAre, Zenon
  <1> QED
    BY <1>3, <1>4

\* Blocks of a macroblock have different places.
LEMMA BlocksDiffer ==
  ASSUME NEW t \in CavlcContextType, NEW a \in ContextMBs, NEW b \in BlocksOf(t), NEW e \in BlocksOf(t),
         PlaceOf(t, a, b) = PlaceOf(t, a, e)
  PROVE  b = e
  <1> DEFINE n == BlocksPerSide(t)
             x == (a % m_width_in_mb) * n
             y == (a \div m_width_in_mb) * n
  <1>1. n \in {2, 4} /\ b \in 0..(n * n - 1) /\ e \in 0..(n * n - 1)
    BY Sides
  <1>2. x + (b % n) = x + (e % n) /\ y + (b \div n) = y + (e \div n)
    BY DEF PlaceOf, InMB
  <1>3. x \in Nat /\ y \in Nat
    <2>1. a % m_width_in_mb \in Nat /\ a \div m_width_in_mb \in Nat
      BY MBPlaces, Sides
    <2>2. n \in Nat
      BY <1>1
    <2> HIDE DEF n
    <2> QED
      BY <2>1, <2>2
  <1> HIDE DEF n, x, y
  <1>4. CASE n = 2
    BY <1>1, <1>2, <1>3, <1>4
  <1>5. CASE n = 4
    BY <1>1, <1>2, <1>3, <1>5
  <1> QED
    BY <1>1, <1>4, <1>5

DataTypes == {"NormalLuma", "LumaDC", "LumaAC", "CbAC", "CrAC"}

LEMMA PlanesAre == \A d \in DataTypes : MapDataType(d) \in CavlcContextType
  BY DEF DataTypes, MapDataType, CavlcContextType

\* A count stored is that of the block's place, and no other changes.
LEMMA SetOne ==
  ASSUME NEW m \in Maps, NEW d \in DataTypes, NEW a \in ContextMBs,
         NEW b \in BlocksOf(MapDataType(d)), NEW num \in Int
  PROVE  /\ SetCoeffNum(m, d, a, b, num) \in Maps
         /\ \A t \in CavlcContextType : \A p \in Places(t) :
              CountAt(SetCoeffNum(m, d, a, b, num), t, p) =
                IF d # "LumaDC" /\ t = MapDataType(d) /\ p = PlaceOf(t, a, b) THEN num
                ELSE CountAt(m, t, p)
  <1> DEFINE plane == MapDataType(d)
             place == PlaceOf(plane, a, b)
             i == GetBlockIndex(d, a, b)
             m2 == SetCoeffNum(m, d, a, b, num)
  <1>1. plane \in CavlcContextType
    BY PlanesAre
  <1>2. place \in Places(plane) /\ i = IndexAt(plane, place) /\ i \in Indices(plane)
    <2>1. place \in Places(plane) /\ i = IndexAt(plane, place)
      BY <1>1, BlockPlace
    <2> QED
      BY <1>1, <2>1, PlaceIndex
  <1>3. CASE d = "LumaDC"
    BY <1>3, Zenon DEF SetCoeffNum
  <1>4. CASE d # "LumaDC"
    <2>1. m2 = [m EXCEPT ![plane] = [m[plane] EXCEPT ![i] = num]]
      BY <1>4 DEF SetCoeffNum
    <2> HIDE DEF m2, plane, place, i
    <2>2. m = [t \in CavlcContextType |-> m[t]]
          /\ \A t \in CavlcContextType : m[t] \in [Indices(t) -> Int]
      BY MapsAre, Zenon
    <2>3. /\ m2 = [t \in CavlcContextType |-> m2[t]]
          /\ m2[plane] = [m[plane] EXCEPT ![i] = num]
          /\ \A t \in CavlcContextType : t # plane => m2[t] = m[t]
      BY <1>1, <2>1, <2>2
    <2>4. m2[plane] \in [Indices(plane) -> Int]
          /\ \A j \in Indices(plane) : m2[plane][j] = IF j = i THEN num ELSE m[plane][j]
      BY <1>1, <1>2, <2>2, <2>3
    <2>5. m2 \in Maps
      <3>1. \A t \in CavlcContextType : m2[t] \in [Indices(t) -> Int]
        BY <2>2, <2>3, <2>4, Zenon
      <3> QED
        BY <2>3, <3>1, MapsAre, Zenon
    <2>6. ASSUME NEW t \in CavlcContextType, NEW p \in Places(t)
          PROVE  CountAt(m2, t, p) = IF t = plane /\ p = PlaceOf(t, a, b) THEN num ELSE CountAt(m, t, p)
      <3>1. CASE t # plane
        BY <2>3, <3>1 DEF CountAt
      <3>2. CASE t = plane
        <4>1. IndexAt(t, p) \in Indices(plane) /\ (IndexAt(t, p) = i <=> p = place)
          BY <1>1, <1>2, <3>2, PlaceIndex, Zenon
        <4>2. place = PlaceOf(t, a, b)
          BY <3>2 DEF place
        <4> QED
          BY <2>4, <3>2, <4>1, <4>2 DEF CountAt
      <3> QED
        BY <3>1, <3>2
    <2> QED
      BY <1>4, <2>5, <2>6 DEF m2, plane
  <1> QED
    BY <1>3, <1>4

\* The counts of a plane of a macroblock stored at once.
LEMMA SetMany ==
  ASSUME NEW m \in Maps, NEW d \in DataTypes, NEW a \in ContextMBs,
         NEW counts \in [BlocksOf(MapDataType(d)) -> Int]
  PROVE  /\ SetCounts(m, d, a, counts) \in Maps
         /\ Touches(SetCounts(m, d, a, counts), m, a, {MapDataType(d)})
         /\ \A b \in BlocksOf(MapDataType(d)) :
              CountAt(SetCounts(m, d, a, counts), MapDataType(d), PlaceOf(MapDataType(d), a, b)) = counts[b]
  <1> DEFINE plane == MapDataType(d)
             own == [b \in DOMAIN counts |-> GetBlockIndex(d, a, b)]
             m2 == SetCounts(m, d, a, counts)
             row == [i \in DOMAIN m[plane] |-> IF \E b \in DOMAIN own : own[b] = i
                       THEN counts[CHOOSE b \in DOMAIN own : own[b] = i] ELSE m[plane][i]]
  <1>1. plane \in CavlcContextType
    BY PlanesAre
  <1>2. /\ DOMAIN own = BlocksOf(plane)
        /\ \A b \in BlocksOf(plane) : /\ own[b] = IndexAt(plane, PlaceOf(plane, a, b))
                                      /\ PlaceOf(plane, a, b) \in Places(plane)
                                      /\ own[b] \in Indices(plane)
                                      /\ Owner(plane, PlaceOf(plane, a, b)) = a
    <2>1. DOMAIN own = BlocksOf(plane) /\ \A b \in BlocksOf(plane) : own[b] = GetBlockIndex(d, a, b)
      OBVIOUS
    <2>2. ASSUME NEW b \in BlocksOf(plane)
          PROVE  /\ own[b] = IndexAt(plane, PlaceOf(plane, a, b))
                 /\ PlaceOf(plane, a, b) \in Places(plane)
                 /\ own[b] \in Indices(plane)
                 /\ Owner(plane, PlaceOf(plane, a, b)) = a
      <3>1. /\ PlaceOf(plane, a, b) \in Places(plane) /\ Owner(plane, PlaceOf(plane, a, b)) = a
            /\ GetBlockIndex(d, a, b) = IndexAt(plane, PlaceOf(plane, a, b))
        BY <1>1, BlockPlace
      <3>2. IndexAt(plane, PlaceOf(plane, a, b)) \in Indices(plane)
        BY <1>1, <3>1, PlaceIndex
      <3> QED
        BY <2>1, <3>1, <3>2
    <2> QED
      BY <2>1, <2>2
  <1>3. m2 = [m EXCEPT ![plane] = row]
    BY Zenon DEF SetCounts
  <1> HIDE DEF m2, plane, own
  <1>4. m = [t \in CavlcContextType |-> m[t]]
        /\ \A t \in CavlcContextType : m[t] \in [Indices(t) -> Int]
    BY MapsAre, Zenon
  <1>5. DOMAIN m[plane] = Indices(plane)
    BY <1>1, <1>4
  <1>6. ASSUME NEW b \in BlocksOf(plane)
        PROVE  row[own[b]] = counts[b]
    <2>1. own[b] \in DOMAIN m[plane] /\ \E e \in DOMAIN own : own[e] = own[b]
      BY <1>2, <1>5
    <2> DEFINE e == CHOOSE e \in DOMAIN own : own[e] = own[b]
    <2>2. e \in BlocksOf(plane) /\ own[e] = own[b]
      BY <1>2, <2>1
    <2>3. row[own[b]] = counts[e]
      BY <2>1, Zenon
    <2> HIDE DEF e, row
    <2>4. PlaceOf(plane, a, e) = PlaceOf(plane, a, b)
      BY <1>1, <1>2, <2>2, PlaceIndex, Zenon
    <2>5. e = b
      BY <1>1, <2>2, <2>4, BlocksDiffer
    <2> QED
      BY <2>3, <2>5
  <1>7. ASSUME NEW i \in Indices(plane)
        PROVE  row[i] \in Int
    <2>1. CASE \E b \in DOMAIN own : own[b] = i
      <3>1. PICK b \in BlocksOf(plane) : own[b] = i
        BY <1>2, <2>1
      <3>2. row[i] = counts[b]
        BY <1>6, <3>1, Zenon
      <3>3. counts[b] \in Int
        BY DEF plane
      <3> QED
        BY <3>2, <3>3
    <2>2. CASE ~ \E b \in DOMAIN own : own[b] = i
      <3>1. row[i] = m[plane][i]
        BY <1>5, <2>2, Zenon
      <3> QED
        BY <1>1, <1>4, <3>1
    <2> QED
      BY <2>1, <2>2
  <1>8. row \in [Indices(plane) -> Int]
    <2>1. DOMAIN row = Indices(plane) /\ row = [i \in DOMAIN row |-> row[i]]
      BY <1>5
    <2> HIDE DEF row
    <2> QED
      BY <1>7, <2>1
  <1>9. ASSUME NEW p \in Places(plane), Owner(plane, p) # a
        PROVE  row[IndexAt(plane, p)] = m[plane][IndexAt(plane, p)]
    <2>1. IndexAt(plane, p) \in Indices(plane)
      BY <1>1, PlaceIndex
    <2>2. ASSUME NEW b \in DOMAIN own, own[b] = IndexAt(plane, p)
          PROVE  FALSE
      <3>1. p = PlaceOf(plane, a, b)
        BY <1>1, <1>2, <2>2, PlaceIndex, Zenon
      <3> QED
        BY <1>2, <1>9, <2>2, <3>1
    <2> QED
      BY <1>5, <2>1, <2>2, Zenon
  <1> HIDE DEF row
  <1>10. /\ m2 = [t \in CavlcContextType |-> m2[t]]
         /\ m2[plane] = row
         /\ \A t \in CavlcContextType : t # plane => m2[t] = m[t]
    BY <1>1, <1>3, <1>4
  <1>11. m2 \in Maps
    <2>1. \A t \in CavlcContextType : m2[t] \in [Indices(t) -> Int]
      BY <1>4, <1>8, <1>10, Zenon
    <2> QED
      BY <1>10, <2>1, MapsAre, Zenon
  <1>12. Touches(m2, m, a, {plane})
    BY <1>9, <1>10 DEF Touches, CountAt
  <1>13. \A b \in BlocksOf(plane) : CountAt(m2, plane, PlaceOf(plane, a, b)) = counts[b]
    BY <1>2, <1>6, <1>10, Zenon DEF CountAt
  <1> QED
    BY <1>11, <1>12, <1>13 DEF m2, plane

-----------------------------------------------------------------------------
(* What a macroblock codes, and what a receiver expects.                   *)

Codings == {c \in [type : DataTypes, block : 0..15, num : 0..16] : c.block \in BlocksOf(MapDataType(c.type))}

PlanesOf(f) == IF HasChromaAC(f) THEN CavlcContextType ELSE {"Luma"}

LEMMA CodingsAre ==
  ASSUME NEW c \in Codings
  PROVE  /\ c.type \in DataTypes /\ MapDataType(c.type) \in CavlcContextType
         /\ c.block \in BlocksOf(MapDataType(c.type)) /\ c.num \in 0..16
  BY PlanesAre DEF Codings

\* Coding blocks changes the counts of their macroblock only.
Codes(coded, m, a, cs) ==
  coded = [k \in 0..Len(cs) |->
             IF k = 0 THEN m
             ELSE SetCoeffNum(coded[k - 1], cs[k].type, a, cs[k].block, cs[k].num)]

LEMMA CodedTouches ==
  ASSUME NEW m \in Maps, NEW a \in ContextMBs, NEW cs \in Seq(Codings), NEW planes,
         \A k \in 1..Len(cs) : MapDataType(cs[k].type) \in planes
  PROVE  Coded(m, a, cs) \in Maps /\ Touches(Coded(m, a, cs), m, a, planes)
  <1> DEFINE n == Len(cs)
             V == {v \in Maps : Touches(v, m, a, planes)}
             rule == [xk \in V \X (1..n) |-> SetCoeffNum(xk[1], cs[xk[2]].type, a, cs[xk[2]].block, cs[xk[2]].num)]
             g == CHOOSE coded : Codes(coded, m, a, cs)
  <1>0. n \in Nat
    OBVIOUS
  <1>1. \A k \in 1..n, x \in V :
          rule[<<x, k>>] = SetCoeffNum(x, cs[k].type, a, cs[k].block, cs[k].num)
    OBVIOUS
  <1>2. m \in V
    BY Zenon DEF Touches
  <1>3. ASSUME NEW k \in 1..n, NEW x \in V
        PROVE  SetCoeffNum(x, cs[k].type, a, cs[k].block, cs[k].num) \in V
    <2> DEFINE d == cs[k].type
               b == cs[k].block
               num == cs[k].num
               x2 == SetCoeffNum(x, d, a, b, num)
    <2>1. cs[k] \in Codings
      BY <1>0
    <2>2. d \in DataTypes /\ b \in BlocksOf(MapDataType(d)) /\ num \in Int /\ MapDataType(d) \in CavlcContextType
      BY <2>1, CodingsAre
    <2>3. MapDataType(d) \in planes
      OBVIOUS
    <2>4. x \in Maps /\ Touches(x, m, a, planes)
      OBVIOUS
    <2> HIDE DEF d, b, num, V
    <2>5. x2 \in Maps /\ \A t \in CavlcContextType : \A p \in Places(t) :
            CountAt(x2, t, p) = IF d # "LumaDC" /\ t = MapDataType(d) /\ p = PlaceOf(t, a, b) THEN num
                                ELSE CountAt(x, t, p)
      BY <2>2, <2>4, SetOne
    <2> HIDE DEF x2
    <2>6. Owner(MapDataType(d), PlaceOf(MapDataType(d), a, b)) = a
      BY <2>2, BlockPlace
    <2>7. Touches(x2, m, a, planes)
      <3> SUFFICES ASSUME NEW t \in CavlcContextType, NEW p \in Places(t), Owner(t, p) = a => t \notin planes
                   PROVE  CountAt(x2, t, p) = CountAt(m, t, p)
        BY Zenon DEF Touches
      <3>1. CountAt(x, t, p) = CountAt(m, t, p)
        BY <2>4, Zenon DEF Touches
      <3>2. ~ (t = MapDataType(d) /\ p = PlaceOf(t, a, b))
        BY <2>3, <2>6, Zenon
      <3> QED
        BY <2>5, <3>1, <3>2, Zenon
    <2> QED
      BY <2>5, <2>7 DEF V, x2, d, b, num
  <1> HIDE DEF V, rule
  <1>4. Keeps(rule, V, n)
    BY <1>1, <1>3 DEF Keeps
  <1>5. PICK f \in [0..n -> V] : Computes(f, rule, m, n)
    <2> HIDE DEF n
    <2> QED
      BY <1>0, <1>2, <1>4, Recursion, Zenon
  <1>6. Codes(f, m, a, cs)
    <2>1. \A k \in 0..n : f[k] = IF k = 0 THEN m ELSE SetCoeffNum(f[k - 1], cs[k].type, a, cs[k].block, cs[k].num)
      <3> SUFFICES ASSUME NEW k \in 1..n
                   PROVE  f[k] = SetCoeffNum(f[k - 1], cs[k].type, a, cs[k].block, cs[k].num)
        BY <1>0, <1>5 DEF Computes
      <3>1. k - 1 \in 0..n
        BY <1>0
      <3> QED
        BY <1>1, <1>5, <3>1 DEF Computes
    <2>2. f = [k \in 0..n |-> f[k]]
      BY <1>5
    <2> QED
      BY <2>1, <2>2, Zenon DEF Codes
  <1>7. Codes(g, m, a, cs)
    BY <1>6, Zenon
  <1> HIDE DEF g
  <1>8. g[0] = m /\ \A k \in 1..n : g[k] = SetCoeffNum(g[k - 1], cs[k].type, a, cs[k].block, cs[k].num)
    BY <1>7 DEF Codes
  <1> DEFINE S == {k \in Nat : k <= n => g[k] \in V}
  <1>9. 0 \in S
    BY <1>2, <1>8
  <1>10. ASSUME NEW k \in Nat, k \in S
         PROVE  k + 1 \in S
    <2> SUFFICES ASSUME k + 1 <= n PROVE g[k + 1] \in V
      OBVIOUS
    <2>1. k + 1 \in 1..n /\ (k + 1) - 1 = k /\ g[k] \in V
      BY <1>0, <1>10
    <2> QED
      BY <1>3, <1>8, <2>1
  <1>11. n \in S
    <2> HIDE DEF S
    <2> QED
      BY <1>0, <1>9, <1>10, Induction
  <1>12. Coded(m, a, cs) = g[n]
    BY Zenon DEF Coded, Codes, g
  <1> QED
    BY <1>0, <1>11, <1>12 DEF V

-----------------------------------------------------------------------------
(* The blocks in order.                                                    *)

Readings == [plane : CavlcContextType, at : Int \X Int, counts : BOOLEAN]

\* A reading is that of a coding.
Matches(e, c) ==
  /\ e.plane = MapDataType(c.type)
  /\ e.at = <<c.block % BlocksPerSide(e.plane), c.block \div BlocksPerSide(e.plane)>>
  /\ e.counts <=> c.type # "LumaDC"

\* A sequence of readings is that of a sequence of codings, of these types.
Alike(expected, cs, types) ==
  /\ expected \in Seq(Readings)
  /\ cs \in Seq(Codings)
  /\ Len(expected) = Len(cs)
  /\ \A k \in 1..Len(cs) : Matches(expected[k], cs[k]) /\ cs[k].type \in types

\* Blocks of a chroma plane are coded in raster order.
InRaster(cs) ==
  \A i \in 1..Len(cs), j \in 1..Len(cs) :
    i < j /\ cs[i].type = cs[j].type /\ cs[j].type \in {"CbAC", "CrAC"} => cs[i].block < cs[j].block

LEMMA AlikeParts ==
  ASSUME NEW e1, NEW e2, NEW c1, NEW c2, NEW types, Alike(e1, c1, types), Alike(e2, c2, types)
  PROVE  Alike(e1 \o e2, c1 \o c2, types)
  <1> DEFINE e == e1 \o e2
             c == c1 \o c2
  <1>1. e1 \in Seq(Readings) /\ e2 \in Seq(Readings) /\ c1 \in Seq(Codings) /\ c2 \in Seq(Codings)
        /\ Len(e1) = Len(c1) /\ Len(e2) = Len(c2)
    BY DEF Alike
  <1>2. e \in Seq(Readings) /\ c \in Seq(Codings) /\ Len(e) = Len(e1) + Len(e2) /\ Len(c) = Len(c1) + Len(c2)
    BY <1>1, ConcatProperties
  <1>3. ASSUME NEW k \in 1..Len(c)
        PROVE  Matches(e[k], c[k]) /\ c[k].type \in types
    <2>1. CASE k <= Len(c1)
      <3>1. e[k] = e1[k] /\ c[k] = c1[k] /\ k \in 1..Len(c1)
        BY <1>1, <1>2, <2>1, ConcatProperties
      <3> QED
        BY <3>1 DEF Alike
    <2>2. CASE k > Len(c1)
      <3>1. e[k] = e2[k - Len(e1)] /\ c[k] = c2[k - Len(c1)] /\ k - Len(c1) \in 1..Len(c2)
        BY <1>1, <1>2, <2>2, ConcatProperties
      <3> QED
        BY <1>1, <3>1 DEF Alike
    <2> QED
      BY <1>1, <1>2, <2>1, <2>2
  <1> QED
    BY <1>1, <1>2, <1>3 DEF Alike

LEMMA AlikeNone == \A types : Alike(<<>>, <<>>, types)
  BY DEF Alike

Flows ==
  [type : {"I16", "I4", "P16x16"}, luma : [0..15 -> 0..16], cbp : SUBSET (0..3),
   cb : [0..3 -> 0..15], cr : [0..3 -> 0..15]]

\* A block of the luma plane and its number in the order of coding.
LEMMA LumaPlaces ==
  \A k \in 1..16 :
    /\ s_scan_block_orders[k] \in 0..15
    /\ LumaPlace(k - 1) = <<s_scan_block_orders[k] % 4, s_scan_block_orders[k] \div 4>>
  BY SMT DEF s_scan_block_orders, LumaPlace

LEMMA Places8x8 ==
  \A b8 \in 0..3 : \A k \in 1..4 :
    /\ CalculateBlockIndex(b8, k - 1) \in 0..15
    /\ CalculateBlockIndex(b8, k - 1) = s_scan_block_orders[4 * b8 + k]
  BY SMT DEF s_scan_block_orders, CalculateBlockIndex

LEMMA LumaReading ==
  ASSUME NEW k \in 1..16, NEW d \in {"NormalLuma", "LumaAC"}, NEW num \in 0..16
  PROVE  LET e == Reading("Luma", LumaPlace(k - 1), TRUE)
             c == Coding(d, s_scan_block_orders[k], num)
         IN  e \in Readings /\ c \in Codings /\ Matches(e, c) /\ c.type = d
  <1> DEFINE b == s_scan_block_orders[k]
             e == Reading("Luma", LumaPlace(k - 1), TRUE)
             c == Coding(d, b, num)
  <1>1. b \in 0..15 /\ LumaPlace(k - 1) = <<b % 4, b \div 4>> /\ b % 4 \in Int /\ b \div 4 \in Int
    BY LumaPlaces
  <1>2. /\ e.plane = "Luma" /\ e.at = LumaPlace(k - 1) /\ e.counts = TRUE
        /\ e = [plane |-> "Luma", at |-> LumaPlace(k - 1), counts |-> TRUE]
        /\ c.type = d /\ c.block = b /\ c.num = num
        /\ c = [type |-> d, block |-> b, num |-> num]
    BY DEF Reading, Coding
  <1> HIDE DEF b, e, c
  <1>3. MapDataType(d) = "Luma" /\ d # "LumaDC" /\ BlocksPerSide("Luma") = 4 /\ BlocksOf("Luma") = 0..15
        /\ d \in DataTypes /\ "Luma" \in CavlcContextType
    BY DEF MapDataType, BlocksPerSide, BlocksOf, DataTypes, CavlcContextType
  <1>4. e \in Readings
    BY <1>1, <1>2, <1>3 DEF Readings
  <1>5. c \in Codings
    BY <1>1, <1>2, <1>3 DEF Codings
  <1>6. Matches(e, c)
    BY <1>1, <1>2, <1>3 DEF Matches
  <1> QED
    BY <1>2, <1>4, <1>5, <1>6 DEF e, c, b

LEMMA ChromaReading ==
  ASSUME NEW k \in 1..4, NEW d \in {"CbAC", "CrAC"}, NEW num \in 0..15
  PROVE  LET e == Reading(MapDataType(d), <<(k - 1) % 2, (k - 1) \div 2>>, TRUE)
             c == Coding(d, k - 1, num)
         IN  e \in Readings /\ c \in Codings /\ Matches(e, c) /\ c.type = d
  <1> DEFINE e == Reading(MapDataType(d), <<(k - 1) % 2, (k - 1) \div 2>>, TRUE)
             c == Coding(d, k - 1, num)
             plane == MapDataType(d)
  <1>1. (k - 1) % 2 \in Int /\ (k - 1) \div 2 \in Int /\ k - 1 \in 0..3 /\ k - 1 \in 0..15 /\ num \in 0..16
    OBVIOUS
  <1>2. /\ e.plane = plane /\ e.at = <<(k - 1) % 2, (k - 1) \div 2>> /\ e.counts = TRUE
        /\ e = [plane |-> plane, at |-> <<(k - 1) % 2, (k - 1) \div 2>>, counts |-> TRUE]
        /\ c.type = d /\ c.block = k - 1 /\ c.num = num
        /\ c = [type |-> d, block |-> k - 1, num |-> num]
    BY DEF Reading, Coding
  <1>3. plane \in CavlcContextType /\ d # "LumaDC" /\ BlocksPerSide(plane) = 2 /\ BlocksOf(plane) = 0..3 /\ d \in DataTypes
    BY DEF MapDataType, BlocksPerSide, BlocksOf, DataTypes, CavlcContextType
  <1> HIDE DEF e, c, plane
  <1>4. e \in Readings
    BY <1>1, <1>2, <1>3 DEF Readings
  <1>5. c \in Codings
    BY <1>1, <1>2, <1>3 DEF Codings, plane
  <1>6. Matches(e, c)
    BY <1>1, <1>2, <1>3 DEF Matches, plane
  <1> QED
    BY <1>2, <1>4, <1>5, <1>6 DEF e, c, plane

\* Sequences given by their length and elements.
LEMMA AlikeFunctions ==
  ASSUME NEW n \in Nat, NEW e, NEW c, e = [k \in 1..n |-> e[k]], c = [k \in 1..n |-> c[k]], NEW types,
         \A k \in 1..n : /\ e[k] \in Readings /\ c[k] \in Codings
                         /\ Matches(e[k], c[k]) /\ c[k].type \in types
  PROVE  Alike(e, c, types)
  <1>1. e \in [1..n -> Readings] /\ c \in [1..n -> Codings]
    BY Zenon
  <1>2. e \in Seq(Readings) /\ c \in Seq(Codings) /\ Len(e) = n /\ Len(c) = n
    BY <1>1
  <1> QED
    BY <1>2, Zenon DEF Alike

-----------------------------------------------------------------------------
(* The codings of a macroblock part by part.                               *)

LumaTypes == {"NormalLuma", "LumaDC", "LumaAC"}

ChromaTypes == {"CbAC", "CrAC"}

LumaCountings == [0..15 -> 0..16]

\* The four blocks of an 8x8 block.
RunOf(type, luma, b8) ==
  [k \in 1..4 |-> Coding(type, s_scan_block_orders[4 * b8 + k], luma[s_scan_block_orders[4 * b8 + k]])]

LEMMA RunAlike ==
  ASSUME NEW type \in {"NormalLuma", "LumaAC"}, NEW luma \in LumaCountings, NEW b8 \in 0..3, NEW coded_8x8, b8 \in coded_8x8
  PROVE  Alike(ExpectedLuma8x8(coded_8x8, b8), RunOf(type, luma, b8), LumaTypes)
  <1> DEFINE e == [k \in 1..4 |-> Reading("Luma", LumaPlace(4 * b8 + k - 1), TRUE)]
             c == RunOf(type, luma, b8)
  <1>1. ExpectedLuma8x8(coded_8x8, b8) = e
    BY DEF ExpectedLuma8x8
  <1>2. ASSUME NEW k \in 1..4
        PROVE  e[k] \in Readings /\ c[k] \in Codings /\ Matches(e[k], c[k]) /\ c[k].type \in LumaTypes
    <2> DEFINE j == 4 * b8 + k
               num == luma[s_scan_block_orders[j]]
    <2>1. j \in 1..16 /\ 4 * b8 + k - 1 = j - 1
      OBVIOUS
    <2> HIDE DEF j
    <2>2. num \in 0..16
      BY <2>1, LumaPlaces DEF LumaCountings
    <2>3. e[k] = Reading("Luma", LumaPlace(j - 1), TRUE) /\ c[k] = Coding(type, s_scan_block_orders[j], num)
      BY <2>1 DEF RunOf, j
    <2> HIDE DEF num, e, c
    <2>4. type \in LumaTypes
      BY DEF LumaTypes
    <2> QED
      BY <2>1, <2>2, <2>3, <2>4, LumaReading
  <1>3. e = [k \in 1..4 |-> e[k]] /\ c = [k \in 1..4 |-> c[k]]
    BY DEF RunOf
  <1> HIDE DEF e, c
  <1>4. Alike(e, c, LumaTypes)
    BY <1>2, <1>3, AlikeFunctions
  <1> QED
    BY <1>1, <1>4 DEF c

LEMMA NormalAlike ==
  ASSUME NEW luma \in LumaCountings, NEW cbp \in SUBSET (0..3), NEW b8 \in 0..3
  PROVE  Alike(ExpectedLuma8x8(cbp, b8), Coefficients8x8(luma, cbp, b8), LumaTypes)
  <1>1. CASE b8 \notin cbp
    <2>1. ExpectedLuma8x8(cbp, b8) = <<>> /\ Coefficients8x8(luma, cbp, b8) = <<>>
      BY <1>1 DEF ExpectedLuma8x8, Coefficients8x8
    <2> QED
      BY <2>1, AlikeNone
  <1>2. CASE b8 \in cbp
    <2>1. Coefficients8x8(luma, cbp, b8) = RunOf("NormalLuma", luma, b8)
      <3>1. Coefficients8x8(luma, cbp, b8) =
              [k \in 1..4 |-> Coding("NormalLuma", CalculateBlockIndex(b8, k - 1), luma[CalculateBlockIndex(b8, k - 1)])]
        BY <1>2, Zenon DEF Coefficients8x8
      <3>2. \A k \in 1..4 : CalculateBlockIndex(b8, k - 1) = s_scan_block_orders[4 * b8 + k]
        BY Places8x8
      <3> QED
        BY <3>1, <3>2, Zenon DEF RunOf
    <2>2. "NormalLuma" \in {"NormalLuma", "LumaAC"}
      OBVIOUS
    <2>3. Alike(ExpectedLuma8x8(cbp, b8), RunOf("NormalLuma", luma, b8), LumaTypes)
      BY <1>2, <2>2, RunAlike
    <2> QED
      BY <2>1, <2>3
  <1> QED
    BY <1>1, <1>2

LEMMA RunIsSeq ==
  ASSUME NEW S, NEW n \in Nat, NEW part \in [1..n -> S]
  PROVE  part \in Seq(S) /\ Len(part) = n
  OBVIOUS

LEMMA FourIsSeq == \A S : \A part \in [1..4 -> S] : part \in Seq(S) /\ Len(part) = 4
  <1>1. 4 \in Nat
    OBVIOUS
  <1> QED
    BY <1>1, RunIsSeq, Zenon

\* A sequence of the elements of f behind the first n.
IsRun(S, part, f, n, m) == part \in Seq(S) /\ Len(part) = m /\ \A k \in 1..m : part[k] = f[n + k]

LEMMA RunMore ==
  ASSUME NEW S, NEW f, NEW n \in Nat, NEW m \in Nat, NEW head, NEW part,
         IsRun(S, head, f, 0, n), IsRun(S, part, f, n, m)
  PROVE  IsRun(S, head \o part, f, 0, n + m)
  <1>1. /\ head \in Seq(S) /\ Len(head) = n /\ \A k \in 1..n : head[k] = f[0 + k]
        /\ part \in Seq(S) /\ Len(part) = m /\ \A k \in 1..m : part[k] = f[n + k]
    BY DEF IsRun
  <1>2. head \o part \in Seq(S) /\ Len(head \o part) = n + m
    BY <1>1, ConcatProperties
  <1>3. ASSUME NEW k \in 1..(n + m)
        PROVE  (head \o part)[k] = f[0 + k]
    <2>1. CASE k <= n
      <3>1. (head \o part)[k] = head[k] /\ k \in 1..n
        BY <1>1, <2>1, ConcatProperties
      <3> QED
        BY <1>1, <3>1
    <2>2. CASE k > n
      <3>1. k - n \in 1..m /\ n + (k - n) = 0 + k
        BY <2>2
      <3>2. (head \o part)[k] = part[k - Len(head)]
        BY <1>1, <2>2, ConcatProperties
      <3>3. part[k - n] = f[n + (k - n)]
        BY <1>1, <3>1
      <3> QED
        BY <1>1, <3>1, <3>2, <3>3
    <2>3. k <= n \/ k > n
      OBVIOUS
    <2> QED
      BY ONLY <2>1, <2>2, <2>3
  <1> QED
    BY <1>2, <1>3 DEF IsRun

\* Sixteen elements are four times four.
LEMMA FourRuns ==
  ASSUME NEW S, NEW f \in [1..16 -> S]
  PROVE  f = [k \in 1..4 |-> f[4 * 0 + k]] \o [k \in 1..4 |-> f[4 * 1 + k]]
               \o [k \in 1..4 |-> f[4 * 2 + k]] \o [k \in 1..4 |-> f[4 * 3 + k]]
  <1> DEFINE r(b) == [k \in 1..4 |-> f[4 * b + k]]
  <1>1. ASSUME NEW b \in 0..3
        PROVE  IsRun(S, r(b), f, 4 * b, 4)
    <2>1. \A k \in 1..4 : f[4 * b + k] \in S
      OBVIOUS
    <2>2. r(b) \in [1..4 -> S] /\ \A k \in 1..4 : r(b)[k] = f[4 * b + k]
      BY <2>1
    <2> HIDE DEF r
    <2>3. r(b) \in Seq(S) /\ Len(r(b)) = 4
      BY <2>2, FourIsSeq
    <2> QED
      BY <2>2, <2>3, Zenon DEF IsRun
  <1> HIDE DEF r
  <1>2. /\ IsRun(S, r(0), f, 0, 4) /\ IsRun(S, r(1), f, 4, 4)
        /\ IsRun(S, r(2), f, 8, 4) /\ IsRun(S, r(3), f, 12, 4)
    <2>1. /\ 0 \in 0..3 /\ 1 \in 0..3 /\ 2 \in 0..3 /\ 3 \in 0..3
          /\ 4 * 0 = 0 /\ 4 * 1 = 4 /\ 4 * 2 = 8 /\ 4 * 3 = 12
      OBVIOUS
    <2>2. /\ IsRun(S, r(0), f, 4 * 0, 4) /\ IsRun(S, r(1), f, 4 * 1, 4)
          /\ IsRun(S, r(2), f, 4 * 2, 4) /\ IsRun(S, r(3), f, 4 * 3, 4)
      BY ONLY <1>1, <2>1, Zenon
    <2> QED
      BY <2>1, <2>2
  <1>3. 4 \in Nat /\ 8 \in Nat /\ 12 \in Nat /\ 8 = 4 + 4 /\ 12 = 8 + 4 /\ 16 = 12 + 4
    OBVIOUS
  <1> DEFINE two == r(0) \o r(1)
             three == two \o r(2)
             four == three \o r(3)
  <1>4. IsRun(S, two, f, 0, 8)
    BY <1>2, <1>3, RunMore
  <1> HIDE DEF two
  <1>5. IsRun(S, three, f, 0, 12)
    BY <1>2, <1>3, <1>4, RunMore
  <1> HIDE DEF three
  <1>6. IsRun(S, four, f, 0, 16)
    BY <1>2, <1>3, <1>5, RunMore
  <1> HIDE DEF four
  <1>7. four = f
    <2>1. four \in Seq(S) /\ Len(four) = 16 /\ \A k \in 1..16 : four[k] = f[k]
      BY <1>6 DEF IsRun
    <2> QED
      BY <2>1
  <1> QED
    BY <1>7 DEF four, three, two, r

LEMMA ACAlike ==
  ASSUME NEW luma \in LumaCountings
  PROVE  Alike(ExpectedLuma8x8(0..3, 0) \o ExpectedLuma8x8(0..3, 1)
                 \o ExpectedLuma8x8(0..3, 2) \o ExpectedLuma8x8(0..3, 3),
               [k \in 1..16 |-> Coding("LumaAC", s_scan_block_orders[k], luma[s_scan_block_orders[k]])],
               LumaTypes)
  <1> DEFINE c == [k \in 1..16 |-> Coding("LumaAC", s_scan_block_orders[k], luma[s_scan_block_orders[k]])]
             r(b) == RunOf("LumaAC", luma, b)
             e(b) == ExpectedLuma8x8(0..3, b)
  <1>1. ASSUME NEW b \in 0..3
        PROVE  Alike(e(b), r(b), LumaTypes)
    <2>1. "LumaAC" \in {"NormalLuma", "LumaAC"} /\ b \in 0..3
      OBVIOUS
    <2> QED
      BY <2>1, RunAlike
  <1>2. c = r(0) \o r(1) \o r(2) \o r(3)
    <2>1. c \in [1..16 -> {c[k] : k \in 1..16}]
      OBVIOUS
    <2>2. \A b \in 0..3 : r(b) = [k \in 1..4 |-> c[4 * b + k]]
      <3> SUFFICES ASSUME NEW b \in 0..3
                   PROVE  r(b) = [k \in 1..4 |-> c[4 * b + k]]
        OBVIOUS
      <3>1. \A k \in 1..4 : 4 * b + k \in 1..16
        OBVIOUS
      <3>2. \A k \in 1..4 : c[4 * b + k] = Coding("LumaAC", s_scan_block_orders[4 * b + k], luma[s_scan_block_orders[4 * b + k]])
        BY <3>1, Zenon
      <3> HIDE DEF c
      <3> QED
        BY <3>2, Zenon DEF RunOf
    <2> HIDE DEF c, r
    <2>3. /\ r(0) = [k \in 1..4 |-> c[4 * 0 + k]] /\ r(1) = [k \in 1..4 |-> c[4 * 1 + k]]
          /\ r(2) = [k \in 1..4 |-> c[4 * 2 + k]] /\ r(3) = [k \in 1..4 |-> c[4 * 3 + k]]
      <3>1. 0 \in 0..3 /\ 1 \in 0..3 /\ 2 \in 0..3 /\ 3 \in 0..3
        OBVIOUS
      <3> QED
        BY <2>2, <3>1, Zenon
    <2>4. c = [k \in 1..4 |-> c[4 * 0 + k]] \o [k \in 1..4 |-> c[4 * 1 + k]]
               \o [k \in 1..4 |-> c[4 * 2 + k]] \o [k \in 1..4 |-> c[4 * 3 + k]]
      BY <2>1, FourRuns, Zenon
    <2> QED
      BY <2>3, <2>4, Zenon
  <1> HIDE DEF c, r, e
  <1>3. Alike(e(0), r(0), LumaTypes) /\ Alike(e(1), r(1), LumaTypes)
        /\ Alike(e(2), r(2), LumaTypes) /\ Alike(e(3), r(3), LumaTypes)
    BY <1>1
  <1>4. Alike(e(0) \o e(1), r(0) \o r(1), LumaTypes)
    BY <1>3, AlikeParts, Zenon
  <1>5. Alike(e(0) \o e(1) \o e(2), r(0) \o r(1) \o r(2), LumaTypes)
    BY <1>3, <1>4, AlikeParts, Zenon
  <1>6. Alike(e(0) \o e(1) \o e(2) \o e(3), r(0) \o r(1) \o r(2) \o r(3), LumaTypes)
    BY <1>3, <1>5, AlikeParts, Zenon
  <1> QED
    BY <1>2, <1>6, Zenon DEF c, e

\* The luma blocks of a macroblock, with the DC block of Intra16x16.
LumaCoefficients(f) ==
  IF f.type = "I16" THEN Intra16Coefficients(f.luma) ELSE NormalCoefficients(f.luma, f.cbp)

ExpectedLuma(f) ==
  (IF f.type = "I16" THEN <<Reading("Luma", <<0, 0>>, FALSE)>> ELSE <<>>)
    \o (ExpectedLuma8x8(Coded8x8(f), 0) \o ExpectedLuma8x8(Coded8x8(f), 1)
          \o ExpectedLuma8x8(Coded8x8(f), 2) \o ExpectedLuma8x8(Coded8x8(f), 3))

LEMMA DCAlike == Alike(<<Reading("Luma", <<0, 0>>, FALSE)>>, <<Coding("LumaDC", 0, 16)>>, LumaTypes)
  <1> DEFINE e == Reading("Luma", <<0, 0>>, FALSE)
             c == Coding("LumaDC", 0, 16)
  <1>1. /\ e = [plane |-> "Luma", at |-> <<0, 0>>, counts |-> FALSE]
        /\ c = [type |-> "LumaDC", block |-> 0, num |-> 16]
    BY DEF Reading, Coding
  <1>2. e \in Readings
    <2>1. "Luma" \in CavlcContextType /\ <<0, 0>> \in Int \X Int /\ FALSE \in BOOLEAN
      BY DEF CavlcContextType
    <2> HIDE DEF e
    <2>2. [plane |-> "Luma", at |-> <<0, 0>>, counts |-> FALSE] \in Readings
      BY <2>1, Zenon DEF Readings
    <2> QED
      BY <1>1, <2>2, Zenon
  <1>3. c \in Codings
    BY <1>1 DEF Codings, DataTypes, MapDataType, BlocksOf
  <1>4. Matches(e, c) /\ c.type \in LumaTypes
    <2>1. MapDataType("LumaDC") = "Luma" /\ BlocksPerSide("Luma") = 4 /\ 0 % 4 = 0 /\ 0 \div 4 = 0
      BY DEF MapDataType, BlocksPerSide
    <2>2. e.plane = "Luma" /\ e.at = <<0, 0>> /\ e.counts = FALSE /\ c.type = "LumaDC" /\ c.block = 0
      BY DEF Reading, Coding
    <2> HIDE DEF e, c
    <2>3. <<c.block % BlocksPerSide(e.plane), c.block \div BlocksPerSide(e.plane)>> = <<0, 0>>
      BY <2>1, <2>2
    <2> QED
      BY <2>1, <2>2, <2>3 DEF Matches, LumaTypes
  <1> HIDE DEF e, c
  <1>5. /\ <<e>> \in Seq(Readings) /\ <<c>> \in Seq(Codings) /\ Len(<<e>>) = 1 /\ Len(<<c>>) = 1
        /\ \A k \in 1..1 : <<e>>[k] = e /\ <<c>>[k] = c
    BY <1>2, <1>3
  <1>6. Alike(<<e>>, <<c>>, LumaTypes)
    BY <1>4, <1>5, Zenon DEF Alike
  <1> QED
    BY <1>6 DEF e, c

LEMMA LumaAlike ==
  ASSUME NEW f \in Flows
  PROVE  Alike(ExpectedLuma(f), LumaCoefficients(f), LumaTypes)
  <1> DEFINE e(b) == ExpectedLuma8x8(Coded8x8(f), b)
             c(b) == Coefficients8x8(f.luma, f.cbp, b)
             four == e(0) \o e(1) \o e(2) \o e(3)
             dc == <<Coding("LumaDC", 0, 16)>>
             ac == [k \in 1..16 |-> Coding("LumaAC", s_scan_block_orders[k], f.luma[s_scan_block_orders[k]])]
  <1>1. f.luma \in LumaCountings /\ f.cbp \in SUBSET (0..3)
    BY DEF Flows, LumaCountings
  <1>2. CASE f.type = "I16" /\ NonZero8x8(f.luma) = {}
    <2>1. Coded8x8(f) = {} /\ LumaCoefficients(f) = dc \o <<>>
      BY <1>2 DEF Coded8x8, LumaCoefficients, Intra16Coefficients
    <2>2. ExpectedLuma(f) = <<Reading("Luma", <<0, 0>>, FALSE)>> \o four
      BY <1>2, Zenon DEF ExpectedLuma
    <2>3. four = <<>>
      <3>1. \A b : e(b) = <<>>
        BY <2>1 DEF ExpectedLuma8x8
      <3> QED
        BY <3>1
    <2> HIDE DEF four, dc
    <2>4. Alike(<<Reading("Luma", <<0, 0>>, FALSE)>>, dc, LumaTypes)
      BY DCAlike DEF dc
    <2> QED
      BY <2>1, <2>2, <2>3, <2>4, AlikeNone, AlikeParts, Zenon
  <1>3. CASE f.type = "I16" /\ NonZero8x8(f.luma) # {}
    <2>1. Coded8x8(f) = 0..3 /\ LumaCoefficients(f) = dc \o ac
      BY <1>3, Zenon DEF Coded8x8, LumaCoefficients, Intra16Coefficients
    <2>2. ExpectedLuma(f) = <<Reading("Luma", <<0, 0>>, FALSE)>> \o four
      BY <1>3, Zenon DEF ExpectedLuma
    <2>3. Alike(four, ac, LumaTypes)
      BY <1>1, <2>1, ACAlike, Zenon
    <2>4. Alike(<<Reading("Luma", <<0, 0>>, FALSE)>>, dc, LumaTypes)
      BY DCAlike DEF dc
    <2> HIDE DEF four, dc, ac
    <2> QED
      BY <2>1, <2>2, <2>3, <2>4, AlikeParts, Zenon
  <1>4. CASE f.type # "I16"
    <2>1. Coded8x8(f) = f.cbp /\ LumaCoefficients(f) = c(0) \o c(1) \o c(2) \o c(3)
      BY <1>4, Zenon DEF Coded8x8, LumaCoefficients, NormalCoefficients
    <2>2. ExpectedLuma(f) = <<>> \o four
      BY <1>4, Zenon DEF ExpectedLuma
    <2>3. \A b \in 0..3 : Alike(e(b), c(b), LumaTypes)
      BY <1>1, <2>1, NormalAlike
    <2> HIDE DEF e, c
    <2>4. Alike(e(0), c(0), LumaTypes) /\ Alike(e(1), c(1), LumaTypes)
          /\ Alike(e(2), c(2), LumaTypes) /\ Alike(e(3), c(3), LumaTypes)
      BY <2>3
    <2>5. Alike(e(0) \o e(1), c(0) \o c(1), LumaTypes)
      BY <2>4, AlikeParts, Zenon
    <2>6. Alike(e(0) \o e(1) \o e(2), c(0) \o c(1) \o c(2), LumaTypes)
      BY <2>4, <2>5, AlikeParts, Zenon
    <2>7. Alike(four, LumaCoefficients(f), LumaTypes)
      BY <2>1, <2>4, <2>6, AlikeParts, Zenon
    <2>8. four \in Seq(Readings)
      BY <2>7, Zenon DEF Alike
    <2>9. <<>> \o four = four
      <3> HIDE DEF four
      <3> QED
        BY <2>8
    <2> QED
      BY <2>2, <2>7, <2>9, Zenon
  <1> QED
    BY <1>2, <1>3, <1>4

ChromaRun(type, counts) == [k \in 1..4 |-> Coding(type, k - 1, counts[k - 1])]

LEMMA ChromaRunAlike ==
  ASSUME NEW type \in ChromaTypes, NEW counts \in [0..3 -> 0..15]
  PROVE  /\ Alike(ExpectedChroma(MapDataType(type)), ChromaRun(type, counts), {type})
         /\ Len(ChromaRun(type, counts)) = 4
         /\ \A k \in 1..4 : ChromaRun(type, counts)[k].block = k - 1
  <1> DEFINE e == ExpectedChroma(MapDataType(type))
             c == ChromaRun(type, counts)
  <1>1. /\ e = [k \in 1..4 |-> Reading(MapDataType(type), <<(k - 1) % 2, (k - 1) \div 2>>, TRUE)]
        /\ c = [k \in 1..4 |-> Coding(type, k - 1, counts[k - 1])]
    BY Zenon DEF ExpectedChroma, ChromaRun
  <1> HIDE DEF e, c
  <1>2. ASSUME NEW k \in 1..4
        PROVE  e[k] \in Readings /\ c[k] \in Codings /\ Matches(e[k], c[k]) /\ c[k].type \in {type} /\ c[k].block = k - 1
    <2> DEFINE num == counts[k - 1]
               reading == Reading(MapDataType(type), <<(k - 1) % 2, (k - 1) \div 2>>, TRUE)
               coding == Coding(type, k - 1, num)
    <2>1. num \in 0..15
      OBVIOUS
    <2>2. e[k] = reading /\ c[k] = coding
      BY <1>1, Zenon
    <2>3. coding.block = k - 1
      BY DEF Coding
    <2>4. type \in {"CbAC", "CrAC"}
      BY DEF ChromaTypes
    <2> HIDE DEF num
    <2>5. reading \in Readings /\ coding \in Codings /\ Matches(reading, coding) /\ coding.type = type
      BY <2>1, <2>4, ChromaReading
    <2> HIDE DEF reading, coding
    <2> QED
      BY <2>2, <2>3, <2>5
  <1>3. e = [k \in 1..4 |-> e[k]] /\ c = [k \in 1..4 |-> c[k]]
    BY <1>1
  <1>4. Alike(e, c, {type})
    <2>1. 4 \in Nat
      OBVIOUS
    <2> QED
      BY <1>2, <1>3, <2>1, AlikeFunctions
  <1>5. Len(c) = 4
    <2>1. c \in [1..4 -> Codings]
      BY <1>2, <1>3, Zenon
    <2> QED
      BY <2>1, FourIsSeq, Zenon
  <1> QED
    BY <1>2, <1>4, <1>5 DEF e, c

LEMMA AlikeWider ==
  ASSUME NEW e, NEW c, NEW types, NEW wider, types \subseteq wider, Alike(e, c, types)
  PROVE  Alike(e, c, wider)
  BY Zenon DEF Alike

\* The blocks of a chroma plane are all there.
HoldsPlane(cs, t) == \A b \in BlocksOf(t) : \E k \in 1..Len(cs) : MapDataType(cs[k].type) = t /\ cs[k].block = b

LEMMA ChromaAlike ==
  ASSUME NEW f \in Flows, HasChromaAC(f)
  PROVE  /\ Alike(ExpectedChroma("Cb") \o ExpectedChroma("Cr"), ChromaCoefficients(f), ChromaTypes)
         /\ InRaster(ChromaCoefficients(f))
         /\ HoldsPlane(ChromaCoefficients(f), "Cb") /\ HoldsPlane(ChromaCoefficients(f), "Cr")
  <1> DEFINE cb == ChromaRun("CbAC", f.cb)
             cr == ChromaRun("CrAC", f.cr)
             c == ChromaCoefficients(f)
  <1>1. c = cb \o cr
    BY Zenon DEF ChromaCoefficients, ChromaRun
  <1>2. f.cb \in [0..3 -> 0..15] /\ f.cr \in [0..3 -> 0..15]
    BY DEF Flows
  <1>3. /\ "CbAC" \in ChromaTypes /\ "CrAC" \in ChromaTypes
        /\ MapDataType("CbAC") = "Cb" /\ MapDataType("CrAC") = "Cr"
        /\ {"CbAC"} \subseteq ChromaTypes /\ {"CrAC"} \subseteq ChromaTypes
    BY DEF ChromaTypes, MapDataType
  <1>4. /\ Alike(ExpectedChroma("Cb"), cb, {"CbAC"}) /\ Len(cb) = 4 /\ \A k \in 1..4 : cb[k].block = k - 1
        /\ Alike(ExpectedChroma("Cr"), cr, {"CrAC"}) /\ Len(cr) = 4 /\ \A k \in 1..4 : cr[k].block = k - 1
    BY <1>2, <1>3, ChromaRunAlike, Zenon
  <1> HIDE DEF cb, cr, c
  <1>5. Alike(ExpectedChroma("Cb") \o ExpectedChroma("Cr"), cb \o cr, ChromaTypes)
    <2>1. Alike(ExpectedChroma("Cb"), cb, ChromaTypes) /\ Alike(ExpectedChroma("Cr"), cr, ChromaTypes)
      BY <1>3, <1>4, AlikeWider
    <2> QED
      BY <2>1, AlikeParts
  <1>6. /\ cb \in Seq(Codings) /\ \A k \in 1..4 : cb[k].type = "CbAC" /\ cb[k].block = k - 1
        /\ cr \in Seq(Codings) /\ \A k \in 1..4 : cr[k].type = "CrAC" /\ cr[k].block = k - 1
    BY <1>4, Zenon DEF Alike
  <1>7. Len(c) = 8 /\ \A k \in 1..8 : c[k] = IF k <= 4 THEN cb[k] ELSE cr[k - 4]
    <2>1. Len(c) = Len(cb) + Len(cr)
          /\ \A k \in 1..(Len(cb) + Len(cr)) : c[k] = IF k <= Len(cb) THEN cb[k] ELSE cr[k - Len(cb)]
      BY <1>1, <1>6, ConcatProperties
    <2> QED
      BY <1>4, <2>1
  <1>8. \A k \in 1..8 : /\ c[k].type = IF k <= 4 THEN "CbAC" ELSE "CrAC"
                        /\ c[k].block = IF k <= 4 THEN k - 1 ELSE k - 5
    <2> SUFFICES ASSUME NEW k \in 1..8
                 PROVE  /\ c[k].type = IF k <= 4 THEN "CbAC" ELSE "CrAC"
                        /\ c[k].block = IF k <= 4 THEN k - 1 ELSE k - 5
      OBVIOUS
    <2>1. CASE k <= 4
      BY <1>6, <1>7, <2>1
    <2>2. CASE k > 4
      <3>1. k - 4 \in 1..4 /\ (k - 4) - 1 = k - 5
        BY <2>2
      <3> QED
        BY <1>6, <1>7, <2>2, <3>1
    <2>3. k <= 4 \/ k > 4
      OBVIOUS
    <2> QED
      BY <2>1, <2>2, <2>3
  <1>9. InRaster(c)
    <2> SUFFICES ASSUME NEW i \in 1..8, NEW j \in 1..8, i < j, c[i].type = c[j].type
                 PROVE  c[i].block < c[j].block
      BY <1>7, Zenon DEF InRaster
    <2>1. (i <= 4 /\ j <= 4) \/ (i > 4 /\ j > 4)
      BY <1>8
    <2> QED
      BY <1>8, <2>1
  <1>10. BlocksOf("Cb") = 0..3 /\ BlocksOf("Cr") = 0..3
    BY DEF BlocksOf
  <1>11. HoldsPlane(c, "Cb")
    <2>1. \A b \in 0..3 : b + 1 \in 1..8 /\ b + 1 <= 4 /\ (b + 1) - 1 = b
      OBVIOUS
    <2>2. \A b \in 0..3 : MapDataType(c[b + 1].type) = "Cb" /\ c[b + 1].block = b /\ b + 1 \in 1..Len(c)
      BY <1>3, <1>7, <1>8, <2>1
    <2> QED
      BY <1>10, <2>2, Zenon DEF HoldsPlane
  <1>12. HoldsPlane(c, "Cr")
    <2>1. \A b \in 0..3 : b + 5 \in 1..8 /\ ~ (b + 5 <= 4) /\ (b + 5) - 5 = b
      OBVIOUS
    <2>2. \A b \in 0..3 : MapDataType(c[b + 5].type) = "Cr" /\ c[b + 5].block = b /\ b + 5 \in 1..Len(c)
      BY <1>3, <1>7, <1>8, <2>1
    <2> QED
      BY <1>10, <2>2, Zenon DEF HoldsPlane
  <1> QED
    BY <1>1, <1>5, <1>9, <1>11, <1>12 DEF c

\* What a macroblock codes is what a receiver expects, block for block.
LEMMA OutputShape ==
  ASSUME NEW f \in Flows
  PROVE  /\ Alike(Expected(f), OutputCoefficients(f), DataTypes)
         /\ InRaster(OutputCoefficients(f))
         /\ \A k \in 1..Len(OutputCoefficients(f)) : MapDataType(OutputCoefficients(f)[k].type) \in PlanesOf(f)
         /\ HasChromaAC(f) => HoldsPlane(OutputCoefficients(f), "Cb") /\ HoldsPlane(OutputCoefficients(f), "Cr")
  <1> DEFINE eL == ExpectedLuma(f)
             cL == LumaCoefficients(f)
             eC == IF HasChromaAC(f) THEN ExpectedChroma("Cb") \o ExpectedChroma("Cr") ELSE <<>>
             cC == ChromaCoefficients(f)
             out == OutputCoefficients(f)
             types == IF HasChromaAC(f) THEN DataTypes ELSE LumaTypes
  <1>1. Expected(f) = eL \o eC /\ out = cL \o cC
    BY Zenon DEF Expected, ExpectedLuma, OutputCoefficients, LumaCoefficients
  <1>2. /\ LumaTypes \subseteq DataTypes /\ ChromaTypes \subseteq DataTypes
        /\ \A d \in LumaTypes : d \notin ChromaTypes /\ MapDataType(d) = "Luma"
        /\ \A d \in DataTypes : MapDataType(d) \in CavlcContextType
    BY PlanesAre DEF LumaTypes, ChromaTypes, DataTypes, MapDataType
  <1>3. Alike(eL, cL, LumaTypes)
    BY LumaAlike
  <1>4. IF HasChromaAC(f) THEN Alike(eC, cC, ChromaTypes) /\ InRaster(cC) ELSE eC = <<>> /\ cC = <<>>
    BY ChromaAlike, Zenon DEF ChromaCoefficients
  <1>5. Alike(eL \o eC, cL \o cC, types)
    <2>1. CASE HasChromaAC(f)
      <3>1. Alike(eL, cL, DataTypes) /\ Alike(eC, cC, DataTypes)
        BY <1>2, <1>3, <1>4, <2>1, AlikeWider, Zenon
      <3> HIDE DEF eL, cL, eC, cC
      <3>2. Alike(eL \o eC, cL \o cC, DataTypes)
        BY <3>1, AlikeParts
      <3> QED
        BY <2>1, <3>2
    <2>2. CASE ~ HasChromaAC(f)
      <3>1. Alike(eC, cC, LumaTypes)
        BY <1>4, <2>2, AlikeNone, Zenon
      <3> HIDE DEF eL, cL, eC, cC
      <3>2. Alike(eL \o eC, cL \o cC, LumaTypes)
        BY <1>3, <3>1, AlikeParts
      <3> QED
        BY <2>2, <3>2
    <2> QED
      BY <2>1, <2>2
  <1> HIDE DEF eL, cL, eC, cC, out
  <1>6. Alike(Expected(f), out, DataTypes)
    BY <1>1, <1>2, <1>5, AlikeWider, Zenon
  <1>7. \A k \in 1..Len(out) : out[k].type \in types
    BY <1>1, <1>5, Zenon DEF Alike
  <1>8. \A k \in 1..Len(out) : MapDataType(out[k].type) \in PlanesOf(f)
    BY <1>2, <1>7 DEF PlanesOf
  <1>9. InRaster(out)
    <2>1. CASE ~ HasChromaAC(f)
      BY <1>2, <1>7, <2>1, Zenon DEF InRaster, ChromaTypes
    <2>2. CASE HasChromaAC(f)
      <3> DEFINE n == Len(cL)
      <3>1. /\ cL \in Seq(Codings) /\ cC \in Seq(Codings) /\ InRaster(cC)
            /\ \A k \in 1..n : cL[k].type \in LumaTypes
        BY <1>3, <1>4, <2>2, Zenon DEF Alike
      <3>2. n \in Nat /\ Len(cC) \in Nat
        BY <3>1
      <3>3. Len(out) = n + Len(cC)
        BY <1>1, <3>1, ConcatProperties
      <3>4. \A k \in 1..Len(out) : out[k] = IF k <= n THEN cL[k] ELSE cC[k - n]
        BY <1>1, <3>1, <3>3, ConcatProperties
      <3> HIDE DEF n
      <3> SUFFICES ASSUME NEW i \in 1..Len(out), NEW j \in 1..Len(out), i < j, out[i].type = out[j].type,
                          out[j].type \in {"CbAC", "CrAC"}
                   PROVE  out[i].block < out[j].block
        BY Zenon DEF InRaster
      <3>5. ~ (i <= n) /\ ~ (j <= n)
        <4>1. \A k \in 1..Len(out) : k <= n => k \in 1..n /\ out[k] = cL[k]
          BY <3>2, <3>3, <3>4
        <4>2. \A k \in 1..Len(out) : k <= n => out[k].type \in LumaTypes
          BY <3>1, <4>1 DEF n
        <4> QED
          BY <4>2, <1>2 DEF ChromaTypes
      <3>6. i - n \in 1..Len(cC) /\ j - n \in 1..Len(cC) /\ i - n < j - n
        BY <3>2, <3>3, <3>5
      <3>7. out[i] = cC[i - n] /\ out[j] = cC[j - n]
        BY <3>4, <3>5
      <3> QED
        BY <3>1, <3>6, <3>7, Zenon DEF InRaster
    <2> QED
      BY <2>1, <2>2
  <1>10. ASSUME NEW t, HoldsPlane(cC, t)
         PROVE  HoldsPlane(out, t)
    <2>1. cL \in Seq(Codings) /\ cC \in Seq(Codings)
      <3>1. CASE HasChromaAC(f)
        BY <1>3, <1>4, <3>1, Zenon DEF Alike
      <3>2. CASE ~ HasChromaAC(f)
        <4>1. cL \in Seq(Codings) /\ cC = <<>>
          BY <1>3, <1>4, <3>2, Zenon DEF Alike
        <4> QED
          BY <4>1
      <3> QED
        BY <3>1, <3>2
    <2> SUFFICES ASSUME NEW b \in BlocksOf(t)
                 PROVE  \E k \in 1..Len(out) : MapDataType(out[k].type) = t /\ out[k].block = b
      BY Zenon DEF HoldsPlane
    <2>2. PICK k \in 1..Len(cC) : MapDataType(cC[k].type) = t /\ cC[k].block = b
      BY <1>10, Zenon DEF HoldsPlane
    <2>3. Len(cL) \in Nat /\ Len(cC) \in Nat /\ Len(out) = Len(cL) + Len(cC)
      BY <1>1, <2>1, ConcatProperties
    <2>4. k + Len(cL) \in 1..Len(out) /\ ~ (k + Len(cL) <= Len(cL)) /\ (k + Len(cL)) - Len(cL) = k
      BY <2>3
    <2>5. out[k + Len(cL)] = cC[(k + Len(cL)) - Len(cL)]
      BY <1>1, <2>1, <2>3, <2>4, ConcatProperties
    <2> QED
      BY <2>2, <2>4, <2>5
  <1>11. HasChromaAC(f) => HoldsPlane(out, "Cb") /\ HoldsPlane(out, "Cr")
    <2>1. HasChromaAC(f) => HoldsPlane(cC, "Cb") /\ HoldsPlane(cC, "Cr")
      BY ChromaAlike DEF cC
    <2> QED
      BY <1>10, <2>1
  <1> QED
    BY <1>6, <1>8, <1>9, <1>11 DEF out

-----------------------------------------------------------------------------
(* The invariant.  The map mirrors what a receiver has read, but for the   *)
(* chroma blocks still to be coded, and holds nothing of what comes later. *)

Sents == {s \in [CavlcContextType -> UNION {[Places(t) -> Int] : t \in CavlcContextType}] :
            \A t \in CavlcContextType : s[t] \in [Places(t) -> Int]}

ContextTypes ==
  /\ picture \in Nat
  /\ m_mb_addr \in ContextMBs
  /\ step \in {"encode", "intra4", "binary", "coefficients"}
  /\ m_coeff_num_map \in Maps
  /\ sent \in Sents
  /\ step # "encode" => flow \in Flows
  /\ step = "intra4" => flow.type # "P16x16"

\* What is left to code of a macroblock is the end of what it codes.
IsRest(rest, all) ==
  /\ rest \in Seq(Codings)
  /\ Len(rest) <= Len(all)
  /\ \A i \in 1..Len(rest) : rest[i] = all[Len(all) - Len(rest) + i]

QueueInv == IF step = "coefficients" THEN IsRest(queue, OutputCoefficients(flow)) ELSE queue = <<>>

\* A receiver has read the macroblocks before this one and, once its syntax is
\* being written, this one.
ReadSoFar(t, p) == Owner(t, p) < m_mb_addr \/ (Owner(t, p) = m_mb_addr /\ step = "coefficients")

ReadInv ==
  \A t \in CavlcContextType : \A p \in Places(t) :
    IF ReadSoFar(t, p) THEN sent[t][p] \in Nat ELSE sent[t][p] = NotRead

\* A chroma block of this macroblock still to be coded, whose count is that of
\* a trial.
Pending(t, p) ==
  t # "Luma" /\ \E i \in 1..Len(queue) :
    MapDataType(queue[i].type) = t /\ PlaceOf(t, m_mb_addr, queue[i].block) = p

\* What the map holds of a place: what was read, what a trial left, or nothing.
OwnCount(t, p) ==
  CASE step = "encode" -> CountAt(m_coeff_num_map, t, p) = 0
    [] step \in {"intra4", "binary"} ->
         \/ flow.type = "P16x16"
         \/ t # "Luma" /\ HasChromaAC(flow)
         \/ CountAt(m_coeff_num_map, t, p) = 0
    [] OTHER -> CountAt(m_coeff_num_map, t, p) = sent[t][p] \/ Pending(t, p)

MapInv ==
  \A t \in CavlcContextType : \A p \in Places(t) :
    /\ Owner(t, p) < m_mb_addr => CountAt(m_coeff_num_map, t, p) = sent[t][p]
    /\ Owner(t, p) > m_mb_addr => CountAt(m_coeff_num_map, t, p) = 0
    /\ Owner(t, p) = m_mb_addr => OwnCount(t, p)

ContextInv == ContextTypes /\ QueueInv /\ ReadInv /\ MapInv

-----------------------------------------------------------------------------
(* What the operations change, and what is read next.                      *)

LEMMA SentsAre ==
  ASSUME NEW s
  PROVE  s \in Sents <=> /\ s = [t \in CavlcContextType |-> s[t]]
                         /\ \A t \in CavlcContextType : s[t] \in [Places(t) -> Int]
  <1> DEFINE All == UNION {[Places(t) -> Int] : t \in CavlcContextType}
  <1>1. ASSUME s \in Sents
        PROVE  /\ s = [t \in CavlcContextType |-> s[t]]
               /\ \A t \in CavlcContextType : s[t] \in [Places(t) -> Int]
    BY <1>1 DEF Sents
  <1>2. ASSUME s = [t \in CavlcContextType |-> s[t]],
               \A t \in CavlcContextType : s[t] \in [Places(t) -> Int]
        PROVE  s \in Sents
    <2>1. \A t \in CavlcContextType : s[t] \in All
      BY <1>2
    <2> HIDE DEF All
    <2>2. s \in [CavlcContextType -> All]
      BY <1>2, <2>1
    <2> QED
      BY <1>2, <2>2 DEF Sents, All
  <1> QED
    BY <1>1, <1>2

LEMMA NothingReadIs ==
  /\ NothingRead \in Sents
  /\ \A t \in CavlcContextType : \A p \in Places(t) : NothingRead[t][p] = NotRead
  <1>1. NothingRead = [t \in CavlcContextType |-> NothingRead[t]]
        /\ \A t \in CavlcContextType : NothingRead[t] = [p \in Places(t) |-> NotRead]
    BY DEF NothingRead
  <1>2. \A t \in CavlcContextType : NothingRead[t] \in [Places(t) -> Int]
    BY <1>1 DEF NotRead
  <1>3. NothingRead \in Sents
    <2> HIDE DEF Sents
    <2> QED
      BY <1>1, <1>2, SentsAre, Zenon
  <1> QED
    BY <1>1, <1>3

\* What reading a macroblock changes.
LEMMA ReadMBIs ==
  ASSUME NEW s \in Sents, NEW a \in ContextMBs
  PROVE  /\ ReadMB(s, a) \in Sents
         /\ \A t \in CavlcContextType : \A p \in Places(t) :
              ReadMB(s, a)[t][p] = IF Owner(t, p) = a THEN 0 ELSE s[t][p]
  <1> DEFINE r == ReadMB(s, a)
             In(t, p) == <<p[1] \div BlocksPerSide(t), p[2] \div BlocksPerSide(t)>> =
                         <<a % m_width_in_mb, a \div m_width_in_mb>>
  <1>1. r = [t \in CavlcContextType |-> r[t]]
        /\ \A t \in CavlcContextType : r[t] = [p \in Places(t) |-> IF In(t, p) THEN 0 ELSE s[t][p]]
    BY DEF ReadMB
  <1> HIDE DEF r
  <1>2. ASSUME NEW t \in CavlcContextType, NEW p \in Places(t)
        PROVE  In(t, p) <=> Owner(t, p) = a
    <2>1. <<p[1] \div BlocksPerSide(t), p[2] \div BlocksPerSide(t)>>
              = <<Owner(t, p) % m_width_in_mb, Owner(t, p) \div m_width_in_mb>>
          /\ Owner(t, p) \in ContextMBs
      BY PlaceOwned
    <2>2. Owner(t, p) = a => In(t, p)
      BY <2>1
    <2>3. ASSUME In(t, p)
          PROVE  Owner(t, p) = a
      <3>1. Owner(t, p) % m_width_in_mb = a % m_width_in_mb /\ Owner(t, p) \div m_width_in_mb = a \div m_width_in_mb
        BY <2>1, <2>3
      <3> DEFINE o == Owner(t, p)
      <3> HIDE DEF o
      <3>2. o = (o % m_width_in_mb) + (o \div m_width_in_mb) * m_width_in_mb
        BY <2>1, MBPlaces DEF o
      <3>3. a = (a % m_width_in_mb) + (a \div m_width_in_mb) * m_width_in_mb
        BY MBPlaces
      <3>4. o = a
        BY ONLY <3>1, <3>2, <3>3 DEF o
      <3> QED
        BY <3>4 DEF o
    <2> QED
      BY <2>2, <2>3
  <1> HIDE DEF In
  <1>3. \A t \in CavlcContextType : s[t] \in [Places(t) -> Int]
    BY SentsAre, Zenon
  <1>4. \A t \in CavlcContextType : r[t] \in [Places(t) -> Int]
    BY <1>1, <1>3
  <1>5. r \in Sents
    BY <1>1, <1>4, SentsAre, Zenon
  <1>6. \A t \in CavlcContextType : \A p \in Places(t) : r[t][p] = IF Owner(t, p) = a THEN 0 ELSE s[t][p]
    BY <1>1, <1>2
  <1> QED
    BY <1>5, <1>6 DEF r

\* The luma counts kept before a trial.
LEMMA OldCounts ==
  ASSUME NEW m \in Maps, NEW a \in ContextMBs
  PROVE  /\ GetMBLumaCoeffNums(m, a) \in [BlocksOf("Luma") -> Int]
         /\ \A b \in BlocksOf("Luma") : GetMBLumaCoeffNums(m, a)[b] = CountAt(m, "Luma", PlaceOf("Luma", a, b))
  <1> DEFINE old == GetMBLumaCoeffNums(m, a)
  <1>1. "Luma" \in CavlcContextType /\ BlocksOf("Luma") = 0..15 /\ MapDataType("NormalLuma") = "Luma"
    BY DEF CavlcContextType, BlocksOf, MapDataType
  <1>2. old = [b \in BlocksOf("Luma") |-> m["Luma"][GetBlockIndex("NormalLuma", a, b)]]
    BY <1>1 DEF GetMBLumaCoeffNums
  <1> HIDE DEF old
  <1>3. ASSUME NEW b \in BlocksOf("Luma")
        PROVE  old[b] = CountAt(m, "Luma", PlaceOf("Luma", a, b)) /\ old[b] \in Int
    <2>1. /\ GetBlockIndex("NormalLuma", a, b) = IndexAt("Luma", PlaceOf("Luma", a, b))
          /\ PlaceOf("Luma", a, b) \in Places("Luma")
      BY <1>1, BlockPlace
    <2>2. old[b] = CountAt(m, "Luma", PlaceOf("Luma", a, b))
      BY <1>2, <2>1 DEF CountAt
    <2>3. CountAt(m, "Luma", PlaceOf("Luma", a, b)) \in Int
      BY <1>1, <2>1, CountsAre
    <2> QED
      BY <2>2, <2>3
  <1>4. old \in [BlocksOf("Luma") -> Int]
    BY <1>2, <1>3, Zenon
  <1> QED
    BY <1>3, <1>4 DEF old

\* After a trial only chroma counts of the macroblock can have changed.
LEMMA TrialKeeps ==
  ASSUME NEW m \in Maps, NEW m2 \in Maps, NEW a \in ContextMBs, NEW planes,
         Touches(m2, m, a, planes)
  PROVE  /\ AfterTrial(m2, a, GetMBLumaCoeffNums(m, a)) \in Maps
         /\ Touches(AfterTrial(m2, a, GetMBLumaCoeffNums(m, a)), m, a, planes \ {"Luma"})
  <1> DEFINE old == GetMBLumaCoeffNums(m, a)
             m3 == AfterTrial(m2, a, old)
  <1>1. "Luma" \in CavlcContextType /\ "NormalLuma" \in DataTypes /\ MapDataType("NormalLuma") = "Luma"
    BY DEF CavlcContextType, DataTypes, MapDataType
  <1>2. m3 = SetCounts(m2, "NormalLuma", a, old)
    BY DEF AfterTrial, SetMBLumaCoeffNums
  <1>3. old \in [BlocksOf("Luma") -> Int]
        /\ \A b \in BlocksOf("Luma") : old[b] = CountAt(m, "Luma", PlaceOf("Luma", a, b))
    BY OldCounts
  <1> HIDE DEF m3, old
  <1>4. /\ m3 \in Maps /\ Touches(m3, m2, a, {"Luma"})
        /\ \A b \in BlocksOf("Luma") : CountAt(m3, "Luma", PlaceOf("Luma", a, b)) = old[b]
    BY <1>1, <1>2, <1>3, SetMany
  <1>5. ASSUME NEW t \in CavlcContextType, NEW p \in Places(t), Owner(t, p) = a => t \notin planes \ {"Luma"}
        PROVE  CountAt(m3, t, p) = CountAt(m, t, p)
    <2>1. CASE Owner(t, p) = a /\ t = "Luma"
      <3>1. PICK b \in BlocksOf("Luma") : p = PlaceOf("Luma", a, b)
        BY <2>1, PlaceOwned
      <3> QED
        BY <1>3, <1>4, <2>1, <3>1
    <2>2. CASE ~ (Owner(t, p) = a /\ t = "Luma")
      <3>1. CountAt(m3, t, p) = CountAt(m2, t, p)
        BY <1>4, <2>2 DEF Touches
      <3>2. CountAt(m2, t, p) = CountAt(m, t, p)
        BY <1>5, <2>2 DEF Touches
      <3> QED
        BY <3>1, <3>2
    <2> QED
      BY <2>1, <2>2
  <1> QED
    BY <1>4, <1>5 DEF Touches, m3, old

LEMMA TouchesMore ==
  ASSUME NEW m1, NEW m2, NEW m3, NEW a, NEW first, NEW second, NEW planes,
         Touches(m2, m1, a, first), Touches(m3, m2, a, second), first \subseteq planes, second \subseteq planes
  PROVE  Touches(m3, m1, a, planes)
  <1>1. ASSUME NEW t \in CavlcContextType, NEW p \in Places(t), Owner(t, p) = a => t \notin planes
        PROVE  CountAt(m3, t, p) = CountAt(m1, t, p)
    BY <1>1, Zenon DEF Touches
  <1> QED
    BY <1>1, Zenon DEF Touches

\* An inter macroblock starts with empty blocks.
LEMMA ResetKeeps ==
  ASSUME NEW m \in Maps, NEW a \in ContextMBs
  PROVE  /\ ResetMBCoeffNums(m, a) \in Maps
         /\ Touches(ResetMBCoeffNums(m, a), m, a, CavlcContextType)
         /\ \A t \in CavlcContextType : \A p \in Places(t) :
              Owner(t, p) = a => CountAt(ResetMBCoeffNums(m, a), t, p) = 0
  <1> DEFINE m1 == SetCounts(m, "NormalLuma", a, [b \in 0..15 |-> 0])
             m2 == SetCounts(m1, "CbAC", a, [b \in 0..3 |-> 0])
             m3 == SetCounts(m2, "CrAC", a, [b \in 0..3 |-> 0])
  <1>1. /\ CavlcContextType = {"Luma", "Cb", "Cr"} /\ {"NormalLuma", "CbAC", "CrAC"} \subseteq DataTypes
        /\ MapDataType("NormalLuma") = "Luma" /\ MapDataType("CbAC") = "Cb" /\ MapDataType("CrAC") = "Cr"
        /\ BlocksOf("Luma") = 0..15 /\ BlocksOf("Cb") = 0..3 /\ BlocksOf("Cr") = 0..3
    BY DEF CavlcContextType, DataTypes, MapDataType, BlocksOf
  <1>2. ResetMBCoeffNums(m, a) = m3
    BY DEF ResetMBCoeffNums
  <1>3. /\ [b \in 0..15 |-> 0] \in [BlocksOf("Luma") -> Int] /\ \A b \in 0..15 : [e \in 0..15 |-> 0][b] = 0
        /\ [b \in 0..3 |-> 0] \in [BlocksOf("Cb") -> Int] /\ [b \in 0..3 |-> 0] \in [BlocksOf("Cr") -> Int]
        /\ \A b \in 0..3 : [e \in 0..3 |-> 0][b] = 0
    BY <1>1
  <1>4. /\ m1 \in Maps /\ Touches(m1, m, a, {"Luma"})
        /\ \A b \in 0..15 : CountAt(m1, "Luma", PlaceOf("Luma", a, b)) = 0
    <2>1. /\ m1 \in Maps /\ Touches(m1, m, a, {"Luma"})
          /\ \A b \in BlocksOf("Luma") : CountAt(m1, "Luma", PlaceOf("Luma", a, b)) = [e \in 0..15 |-> 0][b]
      BY <1>1, <1>3, SetMany
    <2> HIDE DEF m1
    <2> QED
      BY <1>1, <1>3, <2>1
  <1> HIDE DEF m1
  <1>5. /\ m2 \in Maps /\ Touches(m2, m1, a, {"Cb"})
        /\ \A b \in 0..3 : CountAt(m2, "Cb", PlaceOf("Cb", a, b)) = 0
    <2>1. /\ m2 \in Maps /\ Touches(m2, m1, a, {"Cb"})
          /\ \A b \in BlocksOf("Cb") : CountAt(m2, "Cb", PlaceOf("Cb", a, b)) = [e \in 0..3 |-> 0][b]
      BY <1>1, <1>3, <1>4, SetMany
    <2> HIDE DEF m2
    <2> QED
      BY <1>1, <1>3, <2>1
  <1> HIDE DEF m2
  <1>6. /\ m3 \in Maps /\ Touches(m3, m2, a, {"Cr"})
        /\ \A b \in 0..3 : CountAt(m3, "Cr", PlaceOf("Cr", a, b)) = 0
    <2>1. /\ m3 \in Maps /\ Touches(m3, m2, a, {"Cr"})
          /\ \A b \in BlocksOf("Cr") : CountAt(m3, "Cr", PlaceOf("Cr", a, b)) = [e \in 0..3 |-> 0][b]
      BY <1>1, <1>3, <1>5, SetMany
    <2> HIDE DEF m3
    <2> QED
      BY <1>1, <1>3, <2>1
  <1> HIDE DEF m3
  <1>7. Touches(m3, m, a, CavlcContextType)
    <2>1. Touches(m2, m, a, CavlcContextType)
      BY <1>1, <1>4, <1>5, TouchesMore
    <2> QED
      BY <1>1, <1>6, <2>1, TouchesMore
  <1>8. ASSUME NEW t \in CavlcContextType, NEW p \in Places(t), Owner(t, p) = a
        PROVE  CountAt(m3, t, p) = 0
    <2>1. PICK b \in BlocksOf(t) : p = PlaceOf(t, a, b)
      BY <1>8, PlaceOwned
    <2>2. CASE t = "Luma"
      <3>1. CountAt(m1, t, p) = 0
        BY <1>1, <1>4, <2>1, <2>2
      <3>2. CountAt(m2, t, p) = CountAt(m1, t, p) /\ CountAt(m3, t, p) = CountAt(m2, t, p)
        BY <1>5, <1>6, <2>2 DEF Touches
      <3> QED
        BY <3>1, <3>2
    <2>3. CASE t = "Cb"
      <3>1. CountAt(m2, t, p) = 0
        BY <1>1, <1>5, <2>1, <2>3
      <3>2. CountAt(m3, t, p) = CountAt(m2, t, p)
        BY <1>6, <2>3 DEF Touches
      <3> QED
        BY <3>1, <3>2
    <2>4. CASE t = "Cr"
      BY <1>1, <1>6, <2>1, <2>4
    <2> QED
      BY <1>1, <2>2, <2>3, <2>4
  <1> QED
    BY <1>2, <1>6, <1>7, <1>8

\* The reading that goes with the block coded next.
LEMMA NextReadIs ==
  ASSUME ContextTypes, QueueInv, step = "coefficients", queue # <<>>
  PROVE  LET c == Head(queue)
             t == MapDataType(c.type)
         IN  /\ c \in Codings
             /\ NextRead.plane = t
             /\ NextRead.at = PlaceOf(t, m_mb_addr, c.block)
             /\ NextRead.counts <=> c.type # "LumaDC"
  <1> DEFINE out == OutputCoefficients(flow)
             c == Head(queue)
             t == MapDataType(c.type)
             n == Len(out) - Len(queue) + 1
             e == Expected(flow)[n]
             x == c.block % BlocksPerSide(t)
             y == c.block \div BlocksPerSide(t)
  <1>1. flow \in Flows
    BY DEF ContextTypes
  <1>2. Alike(Expected(flow), out, DataTypes)
    BY <1>1, OutputShape
  <1>3. IsRest(queue, out)
    BY DEF QueueInv
  <1> HIDE DEF out
  <1>4. /\ queue \in Seq(Codings) /\ c = queue[1] /\ c \in Codings /\ Len(queue) \in Nat /\ 1 \in 1..Len(queue)
        /\ Len(out) \in Nat /\ Len(queue) <= Len(out)
    BY <1>2, <1>3 DEF IsRest, Alike
  <1>5. n \in 1..Len(out) /\ c = out[n]
    BY <1>3, <1>4 DEF IsRest
  <1>6. Len(Expected(flow)) = Len(out)
    BY <1>2 DEF Alike
  <1> HIDE DEF n, c
  <1>7. Matches(e, c) /\ e \in Readings
    BY <1>2, <1>5, <1>6 DEF Alike
  <1>8. NextRead = [e EXCEPT !.at = InMB(m_mb_addr, BlocksPerSide(e.plane), e.at[1], e.at[2])]
    BY <1>6 DEF NextRead, n
  <1> HIDE DEF e
  <1>9. e.plane = t /\ e.at = <<x, y>> /\ (e.counts <=> c.type # "LumaDC")
    BY <1>7, Zenon DEF Matches
  <1>10. NextRead.plane = e.plane /\ NextRead.counts = e.counts
         /\ NextRead.at = InMB(m_mb_addr, BlocksPerSide(e.plane), e.at[1], e.at[2])
    BY <1>7, <1>8 DEF Readings
  <1>11. e.at[1] = x /\ e.at[2] = y
    BY <1>9
  <1> HIDE DEF x, y
  <1>12. NextRead.at = PlaceOf(t, m_mb_addr, c.block)
    BY <1>9, <1>10, <1>11 DEF PlaceOf, x, y
  <1> QED
    BY <1>4, <1>9, <1>10, <1>12 DEF c

-----------------------------------------------------------------------------
(* The invariant is kept.                                                  *)

LEMMA Owners ==
  \A t \in CavlcContextType : \A p \in Places(t) : Owner(t, p) \in Nat /\ Owner(t, p) < m_width_in_mb * m_height_in_mb
  <1>1. m_width_in_mb * m_height_in_mb \in Nat
    BY SizeAssumption
  <1>2. \A t \in CavlcContextType : \A p \in Places(t) : Owner(t, p) \in ContextMBs
    BY PlaceOwned
  <1> QED
    BY <1>1, <1>2 DEF ContextMBs

LEMMA FlowsMade ==
  ASSUME NEW luma \in LumaCounts, NEW cb \in ChromaCounts, NEW cr \in ChromaCounts,
         NEW type \in {"I16", "I4", "P16x16"}, NEW cbp \in SUBSET (0..3)
  PROVE  [type |-> type, luma |-> luma, cbp |-> cbp, cb |-> cb, cr |-> cr] \in Flows
  <1>1. luma \in [0..15 -> 0..16] /\ cb \in [0..3 -> 0..15] /\ cr \in [0..3 -> 0..15]
    BY CountsAssumption
  <1> QED
    BY <1>1 DEF Flows

LEMMA InvInit == ContextInit => ContextInv
  <1> SUFFICES ASSUME ContextInit
               PROVE  ContextInv
    OBVIOUS
  <1> USE DEF ContextInit
  <1>1. 0 \in ContextMBs
    <2>1. m_width_in_mb * m_height_in_mb \in Nat \ {0}
      BY SizeAssumption
    <2> QED
      BY <2>1 DEF ContextMBs
  <1>2. ContextTypes
    BY <1>1, ZerosAre, NothingReadIs DEF ContextTypes
  <1>3. QueueInv
    BY DEF QueueInv
  <1>4. ReadInv
    BY Owners, NothingReadIs DEF ReadInv, ReadSoFar
  <1>5. MapInv
    BY Owners, ZerosAre DEF MapInv, OwnCount
  <1> QED
    BY <1>2, <1>3, <1>4, <1>5 DEF ContextInv

\* The mode decision: the map may change, in this macroblock, in what OwnCount
\* leaves open.
LEMMA DecisionKeeps ==
  ASSUME ContextInv, step \in {"encode", "intra4"}, step' \in {"intra4", "binary"},
         flow' \in Flows, step' = "intra4" => flow'.type # "P16x16",
         m_coeff_num_map' \in Maps,
         Touches(m_coeff_num_map', m_coeff_num_map, m_mb_addr,
                 IF flow'.type = "P16x16" THEN CavlcContextType ELSE PlanesOf(flow') \ {"Luma"}),
         step = "intra4" => (HasChromaAC(flow)) = (HasChromaAC(flow')),
         UNCHANGED <<picture, m_mb_addr, queue, sent>>
  PROVE  ContextInv'
  <1> DEFINE planes == IF flow'.type = "P16x16" THEN CavlcContextType ELSE PlanesOf(flow') \ {"Luma"}
  <1>1. ContextTypes'
    BY DEF ContextTypes, ContextInv
  <1>2. QueueInv'
    BY DEF QueueInv, ContextInv
  <1>3. ReadInv'
    <2> SUFFICES ASSUME NEW t \in CavlcContextType, NEW p \in Places(t)
                 PROVE  IF ReadSoFar(t, p)' THEN sent[t][p] \in Nat ELSE sent[t][p] = NotRead
      BY DEF ReadInv
    <2>1. ReadSoFar(t, p)' <=> ReadSoFar(t, p)
      BY DEF ReadSoFar
    <2> QED
      BY <2>1 DEF ReadInv, ContextInv
  <1>4. MapInv'
    <2> SUFFICES ASSUME NEW t \in CavlcContextType, NEW p \in Places(t)
                 PROVE  /\ Owner(t, p) < m_mb_addr => CountAt(m_coeff_num_map', t, p) = sent[t][p]
                        /\ Owner(t, p) > m_mb_addr => CountAt(m_coeff_num_map', t, p) = 0
                        /\ Owner(t, p) = m_mb_addr => OwnCount(t, p)'
      BY DEF MapInv, CountAt
    <2>1. /\ Owner(t, p) < m_mb_addr => CountAt(m_coeff_num_map, t, p) = sent[t][p]
          /\ Owner(t, p) > m_mb_addr => CountAt(m_coeff_num_map, t, p) = 0
          /\ Owner(t, p) = m_mb_addr => OwnCount(t, p)
      BY DEF MapInv, ContextInv
    <2>2. (Owner(t, p) = m_mb_addr => t \notin planes) => CountAt(m_coeff_num_map', t, p) = CountAt(m_coeff_num_map, t, p)
      BY Zenon DEF Touches
    <2>3. m_mb_addr \in Nat /\ Owner(t, p) \in Nat
      BY Owners, SizeAssumption DEF ContextInv, ContextTypes, ContextMBs
    <2>4. ASSUME Owner(t, p) = m_mb_addr
          PROVE  OwnCount(t, p)'
      <3>1. t \in planes => flow'.type = "P16x16" \/ (t # "Luma" /\ HasChromaAC(flow'))
        BY DEF PlanesOf
      <3>2. ASSUME t \notin planes
            PROVE  flow'.type = "P16x16" \/ (t # "Luma" /\ HasChromaAC(flow')) \/ CountAt(m_coeff_num_map', t, p) = 0
        <4>1. CASE step = "encode"
          <5>1. CountAt(m_coeff_num_map, t, p) = 0
            BY <2>1, <2>4, <4>1 DEF OwnCount
          <5> QED
            BY <2>2, <3>2, <5>1
        <4>2. CASE step = "intra4"
          <5>1. flow.type # "P16x16"
            BY <4>2 DEF ContextInv, ContextTypes
          <5>2. (t # "Luma" /\ HasChromaAC(flow)) \/ CountAt(m_coeff_num_map, t, p) = 0
            BY <2>1, <2>4, <4>2, <5>1 DEF OwnCount
          <5> QED
            BY <2>2, <3>2, <4>2, <5>2
        <4> QED
          BY <4>1, <4>2
      <3>3. flow'.type = "P16x16" \/ (t # "Luma" /\ HasChromaAC(flow')) \/ CountAt(m_coeff_num_map', t, p) = 0
        BY <3>1, <3>2
      <3>4. (HasChromaAC(flow))' <=> HasChromaAC(flow')
        BY DEF HasChromaAC
      <3>5. CountAt(m_coeff_num_map, t, p)' = CountAt(m_coeff_num_map', t, p)
        BY DEF CountAt, IndexAt, RowLength, BlocksPerSide
      <3> QED
        BY <3>3, <3>4, <3>5 DEF OwnCount
    <2> QED
      BY <2>1, <2>2, <2>3, <2>4
  <1> QED
    BY <1>1, <1>2, <1>3, <1>4 DEF ContextInv

LEMMA OutputIs ==
  ASSUME NEW f \in Flows
  PROVE  /\ OutputCoefficients(f) \in Seq(Codings)
         /\ \A k \in 1..Len(OutputCoefficients(f)) : MapDataType(OutputCoefficients(f)[k].type) \in PlanesOf(f)
  BY OutputShape, Zenon DEF Alike

LEMMA TryIntra16Keeps == ContextInv /\ TryIntra16 => ContextInv'
  <1> SUFFICES ASSUME ContextInv, TryIntra16
               PROVE  ContextInv'
    OBVIOUS
  <1> DEFINE m == m_coeff_num_map
             a == m_mb_addr
             f(luma, cb, cr) == [type |-> "I16", luma |-> luma, cbp |-> {}, cb |-> cb, cr |-> cr]
  <1>1. PICK luma \in LumaCounts, cb \in ChromaCounts, cr \in ChromaCounts :
          /\ m' = AfterTrial(Coded(m, a, OutputCoefficients(f(luma, cb, cr))), a, GetMBLumaCoeffNums(m, a))
          /\ flow' = f(luma, cb, cr)
    BY Zenon DEF TryIntra16
  <1> DEFINE g == f(luma, cb, cr)
  <1>2. step = "encode" /\ step' = "intra4" /\ UNCHANGED <<picture, m_mb_addr, queue, sent>>
    BY DEF TryIntra16
  <1>3. g \in Flows /\ g.type = "I16"
    BY FlowsMade
  <1> HIDE DEF f, g
  <1>4. m \in Maps /\ a \in ContextMBs
    BY DEF ContextInv, ContextTypes
  <1> HIDE DEF m, a
  <1>5. Coded(m, a, OutputCoefficients(g)) \in Maps /\ Touches(Coded(m, a, OutputCoefficients(g)), m, a, PlanesOf(g))
    BY <1>3, <1>4, OutputIs, CodedTouches
  <1>6. m' \in Maps /\ Touches(m', m, a, PlanesOf(g) \ {"Luma"})
    BY <1>1, <1>4, <1>5, TrialKeeps DEF g
  <1>7. flow' = g
    BY <1>1 DEF g
  <1> QED
    BY <1>2, <1>3, <1>6, <1>7, DecisionKeeps DEF m, a

LEMMA TryIntra4Keeps == ContextInv /\ TryIntra4 => ContextInv'
  <1> SUFFICES ASSUME ContextInv, TryIntra4
               PROVE  ContextInv'
    OBVIOUS
  <1> DEFINE m == m_coeff_num_map
             a == m_mb_addr
             f(luma) == [flow EXCEPT !.type = "I4", !.luma = luma, !.cbp = NonZero8x8(luma)]
             nodes(luma) == SetMBLumaCoeffNums(m, a, luma)
  <1>1. PICK luma \in LumaCounts, distortion_too_high \in BOOLEAN, better \in BOOLEAN :
          /\ m' = AfterTrial(IF distortion_too_high THEN nodes(luma)
                             ELSE Coded(nodes(luma), a, OutputCoefficients(f(luma))), a, GetMBLumaCoeffNums(m, a))
          /\ flow' = IF better THEN f(luma) ELSE flow
    BY Zenon DEF TryIntra4
  <1> DEFINE g == f(luma)
             n == nodes(luma)
             priced == IF distortion_too_high THEN n ELSE Coded(n, a, OutputCoefficients(g))
  <1>2. step = "intra4" /\ step' = "binary" /\ UNCHANGED <<picture, m_mb_addr, queue, sent>>
    BY DEF TryIntra4
  <1>3. flow \in Flows /\ flow.type # "P16x16" /\ luma \in [0..15 -> 0..16] /\ m \in Maps /\ a \in ContextMBs
    BY <1>2, CountsAssumption DEF ContextInv, ContextTypes
  <1>4. g \in Flows /\ g.type = "I4" /\ g.cb = flow.cb /\ g.cr = flow.cr
    BY <1>3 DEF Flows, NonZero8x8
  <1>5. (HasChromaAC(g)) = (HasChromaAC(flow))
    <2> HIDE DEF g
    <2> QED
      BY <1>4, Zenon DEF HasChromaAC
  <1>6. n \in Maps /\ Touches(n, m, a, {"Luma"})
    <2>1. /\ "NormalLuma" \in DataTypes /\ MapDataType("NormalLuma") = "Luma" /\ luma \in [BlocksOf("Luma") -> Int]
      BY <1>3 DEF DataTypes, MapDataType, BlocksOf
    <2>2. n = SetCounts(m, "NormalLuma", a, luma)
      BY DEF SetMBLumaCoeffNums
    <2> HIDE DEF n, m, a
    <2> QED
      BY <1>3, <2>1, <2>2, SetMany
  <1> HIDE DEF f, g, nodes, n, m, a
  <1>7. Coded(n, a, OutputCoefficients(g)) \in Maps /\ Touches(Coded(n, a, OutputCoefficients(g)), n, a, PlanesOf(g))
    BY <1>3, <1>4, <1>6, OutputIs, CodedTouches
  <1>8. {"Luma"} \subseteq PlanesOf(g) /\ PlanesOf(g) = PlanesOf(flow)
    BY <1>5 DEF PlanesOf, CavlcContextType
  <1>9. priced \in Maps /\ Touches(priced, m, a, PlanesOf(g))
    <2>1. CASE distortion_too_high
      <3>1. Touches(n, m, a, PlanesOf(g))
        <4>1. Touches(m, m, a, {"Luma"})
          BY Zenon DEF Touches
        <4> QED
          BY <1>6, <1>8, <4>1, TouchesMore
      <3> QED
        BY <1>6, <2>1, <3>1
    <2>2. CASE ~ distortion_too_high
      <3>1. Touches(Coded(n, a, OutputCoefficients(g)), m, a, PlanesOf(g))
        BY <1>6, <1>7, <1>8, TouchesMore
      <3> QED
        BY <1>7, <2>2, <3>1
    <2> QED
      BY <2>1, <2>2
  <1>10. m' = AfterTrial(priced, a, GetMBLumaCoeffNums(m, a))
    BY <1>1 DEF g, n
  <1> HIDE DEF priced
  <1>11. m' \in Maps /\ Touches(m', m, a, PlanesOf(g) \ {"Luma"})
    BY <1>3, <1>9, <1>10, TrialKeeps
  <1>12. flow' = g \/ flow' = flow
    BY <1>1 DEF g
  <1>13. flow' \in Flows /\ flow'.type # "P16x16" /\ PlanesOf(flow') = PlanesOf(g) /\ (HasChromaAC(flow')) = (HasChromaAC(flow))
    BY <1>3, <1>4, <1>5, <1>8, <1>12
  <1> QED
    BY <1>2, <1>11, <1>13, DecisionKeeps DEF m, a

LEMMA TryInter16x16Keeps == ContextInv /\ TryInter16x16 => ContextInv'
  <1> SUFFICES ASSUME ContextInv, TryInter16x16
               PROVE  ContextInv'
    OBVIOUS
  <1> DEFINE m == m_coeff_num_map
             a == m_mb_addr
             f(luma, cb, cr, cbp) == [type |-> "P16x16", luma |-> luma, cbp |-> cbp, cb |-> cb, cr |-> cr]
  <1>0. PICK luma \in LumaCounts, cb \in ChromaCounts, cr \in ChromaCounts : \E cbp \in {{}, NonZero8x8(luma)} :
          /\ m' = Coded(ResetMBCoeffNums(m, a), a, OutputCoefficients(f(luma, cb, cr, cbp)))
          /\ flow' = f(luma, cb, cr, cbp)
    BY Zenon DEF TryInter16x16
  <1>1. PICK cbp \in {{}, NonZero8x8(luma)} :
          /\ m' = Coded(ResetMBCoeffNums(m, a), a, OutputCoefficients(f(luma, cb, cr, cbp)))
          /\ flow' = f(luma, cb, cr, cbp)
    BY <1>0, Zenon
  <1> DEFINE g == f(luma, cb, cr, cbp)
             n == ResetMBCoeffNums(m, a)
  <1>2. step = "encode" /\ step' = "binary" /\ UNCHANGED <<picture, m_mb_addr, queue, sent>>
    BY DEF TryInter16x16
  <1>3. g \in Flows /\ g.type = "P16x16"
    <2>1. cbp \in SUBSET (0..3)
      BY DEF NonZero8x8
    <2> QED
      BY <2>1, FlowsMade
  <1> HIDE DEF f, g
  <1>4. m \in Maps /\ a \in ContextMBs
    BY DEF ContextInv, ContextTypes
  <1> HIDE DEF m, a
  <1>5. n \in Maps /\ Touches(n, m, a, CavlcContextType)
    BY <1>4, ResetKeeps
  <1> HIDE DEF n
  <1>6. Coded(n, a, OutputCoefficients(g)) \in Maps /\ Touches(Coded(n, a, OutputCoefficients(g)), n, a, PlanesOf(g))
    BY <1>3, <1>4, <1>5, OutputIs, CodedTouches
  <1>7. m' = Coded(n, a, OutputCoefficients(g)) /\ flow' = g
    BY <1>1 DEF g, n
  <1>8. m' \in Maps /\ Touches(m', m, a, CavlcContextType)
    <2>1. PlanesOf(g) \subseteq CavlcContextType
      BY DEF PlanesOf, CavlcContextType
    <2> QED
      BY <1>5, <1>6, <1>7, <2>1, TouchesMore
  <1> QED
    BY <1>2, <1>3, <1>7, <1>8, DecisionKeeps DEF m, a

LEMMA StartBinaryKeeps == ContextInv /\ StartBinary => ContextInv'
  <1> SUFFICES ASSUME ContextInv, StartBinary
               PROVE  ContextInv'
    OBVIOUS
  <1> DEFINE m == m_coeff_num_map
             a == m_mb_addr
             out == OutputCoefficients(flow)
  <1>1. /\ step = "binary" /\ step' = "coefficients" /\ UNCHANGED <<picture, m_mb_addr, flow>>
        /\ queue' = out /\ sent' = ReadMB(sent, a)
        /\ m' = IF flow.type = "P16x16" THEN ResetMBCoeffNums(m, a) ELSE m
    BY DEF StartBinary
  <1>2. flow \in Flows /\ m \in Maps /\ a \in ContextMBs /\ sent \in Sents
    BY <1>1 DEF ContextInv, ContextTypes
  <1>3. /\ sent' \in Sents
        /\ \A t \in CavlcContextType : \A p \in Places(t) : sent'[t][p] = IF Owner(t, p) = a THEN 0 ELSE sent[t][p]
    BY <1>1, <1>2, ReadMBIs
  <1>4. /\ m' \in Maps
        /\ Touches(m', m, a, CavlcContextType)
        /\ flow.type = "P16x16" => \A t \in CavlcContextType : \A p \in Places(t) :
             Owner(t, p) = a => CountAt(m', t, p) = 0
    <2>1. CASE flow.type = "P16x16"
      <3>1. m' = ResetMBCoeffNums(m, a)
        BY <1>1, <2>1
      <3> HIDE DEF m, a
      <3> QED
        BY <1>2, <3>1, ResetKeeps
    <2>2. CASE flow.type # "P16x16"
      <3>1. m' = m
        BY <1>1, <2>2
      <3> QED
        BY <1>2, <2>2, <3>1 DEF Touches
    <2> QED
      BY <2>1, <2>2
  <1>5. ContextTypes'
    BY <1>1, <1>2, <1>3, <1>4 DEF ContextTypes, ContextInv
  <1>6. QueueInv'
    <2>1. OutputCoefficients(flow)' = out
      BY <1>1
    <2>2. IsRest(out, out)
      <3>1. out \in Seq(Codings)
        BY <1>2, OutputIs
      <3> HIDE DEF out
      <3>2. Len(out) \in Nat
        BY <3>1
      <3>3. Len(out) <= Len(out) /\ \A i \in 1..Len(out) : Len(out) - Len(out) + i = i
        BY <3>2
      <3> QED
        BY <3>1, <3>3 DEF IsRest
    <2> QED
      BY <1>1, <2>1, <2>2 DEF QueueInv
  <1>7. ASSUME NEW t \in CavlcContextType, NEW p \in Places(t)
        PROVE  /\ Owner(t, p) \in Nat /\ a \in Nat
               /\ ReadSoFar(t, p)' <=> Owner(t, p) < a \/ Owner(t, p) = a
               /\ ReadSoFar(t, p) <=> Owner(t, p) < a
    BY <1>1, <1>2, Owners, SizeAssumption DEF ReadSoFar, ContextMBs
  <1>8. ReadInv'
    <2> SUFFICES ASSUME NEW t \in CavlcContextType, NEW p \in Places(t)
                 PROVE  IF ReadSoFar(t, p)' THEN sent'[t][p] \in Nat ELSE sent'[t][p] = NotRead
      BY DEF ReadInv
    <2>1. IF ReadSoFar(t, p) THEN sent[t][p] \in Nat ELSE sent[t][p] = NotRead
      BY DEF ReadInv, ContextInv
    <2> QED
      BY <1>3, <1>7, <2>1
  <1>9. MapInv'
    <2> SUFFICES ASSUME NEW t \in CavlcContextType, NEW p \in Places(t)
                 PROVE  /\ Owner(t, p) < a => CountAt(m', t, p) = sent'[t][p]
                        /\ Owner(t, p) > a => CountAt(m', t, p) = 0
                        /\ Owner(t, p) = a => OwnCount(t, p)'
      BY <1>1 DEF MapInv, CountAt
    <2>1. /\ Owner(t, p) < a => CountAt(m, t, p) = sent[t][p]
          /\ Owner(t, p) > a => CountAt(m, t, p) = 0
          /\ Owner(t, p) = a => OwnCount(t, p)
      BY DEF MapInv, ContextInv
    <2>2. Owner(t, p) # a => CountAt(m', t, p) = CountAt(m, t, p)
      BY <1>4, Zenon DEF Touches
    <2>3. ASSUME Owner(t, p) = a
          PROVE  OwnCount(t, p)'
      <3>1. sent'[t][p] = 0
        BY <1>3, <2>3
      <3>2. CASE flow.type = "P16x16"
        <4>1. CountAt(m', t, p) = sent'[t][p]
          BY <1>4, <2>3, <3>1, <3>2
        <4> QED
          BY <1>1, <4>1 DEF OwnCount, CountAt
      <3>3. CASE flow.type # "P16x16"
        <4>1. (t # "Luma" /\ HasChromaAC(flow)) \/ CountAt(m, t, p) = 0
          BY <1>1, <2>1, <2>3, <3>3 DEF OwnCount
        <4>2. CASE CountAt(m, t, p) = 0
          <5>1. CountAt(m', t, p) = sent'[t][p]
            BY <1>1, <3>1, <3>3, <4>2
          <5> QED
            BY <1>1, <5>1 DEF OwnCount, CountAt
        <4>3. CASE t # "Luma" /\ HasChromaAC(flow)
          <5>1. t = "Cb" \/ t = "Cr"
            BY <4>3 DEF CavlcContextType
          <5>2. HoldsPlane(out, t)
            BY <1>2, <4>3, <5>1, OutputShape
          <5>3. PICK b \in BlocksOf(t) : p = PlaceOf(t, a, b)
            BY <2>3, PlaceOwned
          <5>4. PICK k \in 1..Len(out) : MapDataType(out[k].type) = t /\ out[k].block = b
            BY <5>2, Zenon DEF HoldsPlane
          <5>5. \E i \in 1..Len(queue') : MapDataType(queue'[i].type) = t /\ PlaceOf(t, a, queue'[i].block) = p
            BY <1>1, <5>3, <5>4, Zenon
          <5>6. Pending(t, p)'
            BY <1>1, <4>3, <5>5 DEF Pending
          <5> QED
            BY <1>1, <5>6 DEF OwnCount
        <4> QED
          BY <4>1, <4>2, <4>3
      <3> QED
        BY <3>2, <3>3
    <2> QED
      BY <1>3, <1>7, <2>1, <2>2, <2>3
  <1> QED
    BY <1>5, <1>6, <1>8, <1>9 DEF ContextInv

LEMMA CodeBlockKeeps == ContextInv /\ CodeBlock => ContextInv'
  <1> SUFFICES ASSUME ContextInv, CodeBlock
               PROVE  ContextInv'
    OBVIOUS
  <1> DEFINE m == m_coeff_num_map
             a == m_mb_addr
             out == OutputCoefficients(flow)
             c == Head(queue)
             plane == MapDataType(c.type)
             place == PlaceOf(plane, a, c.block)
             Target(t, p) == c.type # "LumaDC" /\ t = plane /\ p = place
  <1>1. /\ step = "coefficients" /\ queue # <<>> /\ UNCHANGED <<picture, m_mb_addr, step, flow>>
        /\ m' = SetCoeffNum(m, c.type, a, c.block, c.num)
        /\ sent' = IF NextRead.counts THEN [sent EXCEPT ![NextRead.plane][NextRead.at] = c.num] ELSE sent
        /\ queue' = Tail(queue)
    BY DEF CodeBlock
  <1>2. m \in Maps /\ a \in ContextMBs /\ sent \in Sents /\ ContextTypes /\ QueueInv
    BY <1>1 DEF ContextInv, ContextTypes
  <1>3. /\ c \in Codings /\ NextRead.plane = plane /\ NextRead.at = place
        /\ NextRead.counts <=> c.type # "LumaDC"
    BY <1>1, <1>2, NextReadIs
  <1>4. /\ c.type \in DataTypes /\ plane \in CavlcContextType /\ c.block \in BlocksOf(plane) /\ c.num \in 0..16
        /\ place \in Places(plane) /\ Owner(plane, place) = a
    <2>1. c.type \in DataTypes /\ plane \in CavlcContextType /\ c.block \in BlocksOf(plane) /\ c.num \in 0..16
      BY <1>3, CodingsAre
    <2> HIDE DEF c, a, plane
    <2> QED
      BY <1>2, <2>1, BlockPlace
  <1>5. /\ m' \in Maps
        /\ \A t \in CavlcContextType : \A p \in Places(t) :
             CountAt(m', t, p) = IF Target(t, p) THEN c.num ELSE CountAt(m, t, p)
    <2>1. c.num \in Int
      BY <1>4
    <2>2. /\ SetCoeffNum(m, c.type, a, c.block, c.num) \in Maps
          /\ \A t \in CavlcContextType : \A p \in Places(t) :
              CountAt(SetCoeffNum(m, c.type, a, c.block, c.num), t, p) =
                IF c.type # "LumaDC" /\ t = plane /\ p = PlaceOf(t, a, c.block) THEN c.num
                ELSE CountAt(m, t, p)
      BY <1>2, <1>4, <2>1, SetOne
    <2> HIDE DEF m, a, c
    <2> QED
      BY <1>1, <2>2
  <1>6. /\ sent' \in Sents
        /\ \A t \in CavlcContextType : \A p \in Places(t) :
             sent'[t][p] = IF Target(t, p) THEN c.num ELSE sent[t][p]
    <2> HIDE DEF c, plane, place
    <2>1. CASE c.type = "LumaDC"
      BY <1>1, <1>2, <1>3, <2>1
    <2>2. CASE c.type # "LumaDC"
      <3>1. sent' = [sent EXCEPT ![plane] = [sent[plane] EXCEPT ![place] = c.num]]
        BY <1>1, <1>3, <2>2
      <3>2. sent = [t \in CavlcContextType |-> sent[t]]
            /\ \A t \in CavlcContextType : sent[t] \in [Places(t) -> Int]
        BY <1>2, SentsAre, Zenon
      <3>3. /\ sent' = [t \in CavlcContextType |-> sent'[t]]
            /\ sent'[plane] = [sent[plane] EXCEPT ![place] = c.num]
            /\ \A t \in CavlcContextType : t # plane => sent'[t] = sent[t]
        BY <1>4, <3>1, <3>2
      <3>4. sent'[plane] \in [Places(plane) -> Int]
            /\ \A p \in Places(plane) : sent'[plane][p] = IF p = place THEN c.num ELSE sent[plane][p]
        <4>1. c.num \in Int
          BY <1>4
        <4> QED
          BY <1>4, <3>2, <3>3, <4>1
      <3>5. \A t \in CavlcContextType : sent'[t] \in [Places(t) -> Int]
        BY <3>2, <3>3, <3>4, Zenon
      <3>6. sent' \in Sents
        BY <3>3, <3>5, SentsAre, Zenon
      <3> QED
        BY <2>2, <3>3, <3>4, <3>6
    <2> QED
      BY <2>1, <2>2
  <1>7. ContextTypes'
    BY <1>1, <1>2, <1>5, <1>6 DEF ContextTypes
  <1>8. IsRest(queue, out)
    BY <1>1, <1>2 DEF QueueInv
  <1>9. /\ queue \in Seq(Codings) /\ Len(queue) \in Nat \ {0} /\ queue' \in Seq(Codings)
        /\ Len(queue') = Len(queue) - 1 /\ c = queue[1]
        /\ \A i \in 1..(Len(queue) - 1) : queue'[i] = queue[i + 1]
    <2>1. queue \in Seq(Codings) /\ queue # <<>>
      BY <1>1, <1>8 DEF IsRest
    <2> QED
      BY <1>1, <2>1
  <1>10. QueueInv'
    <2>1. out' = out
      BY <1>1
    <2>2. out \in Seq(Codings)
      <3>1. flow \in Flows
        BY <1>1, <1>2 DEF ContextTypes
      <3> QED
        BY <3>1, OutputIs
    <2> HIDE DEF out
    <2>3. Len(out) \in Nat /\ Len(queue) <= Len(out)
      BY <1>8, <2>2 DEF IsRest
    <2>4. ASSUME NEW i \in 1..Len(queue')
          PROVE  queue'[i] = out[Len(out) - Len(queue') + i]
      <3>1. i \in 1..(Len(queue) - 1) /\ i + 1 \in 1..Len(queue)
            /\ Len(out) - Len(queue') + i = Len(out) - Len(queue) + (i + 1)
        <4> DEFINE n == Len(queue)
                   n2 == Len(queue')
                   k == Len(out)
        <4>1. n \in Nat /\ n2 = n - 1 /\ k \in Nat /\ i \in 1..n2
          BY <1>9, <2>3
        <4> HIDE DEF n, n2, k
        <4>2. i \in 1..(n - 1) /\ i + 1 \in 1..n /\ k - n2 + i = k - n + (i + 1)
          BY <4>1
        <4> QED
          BY <4>2 DEF n, n2, k
      <3>2. queue[i + 1] = out[Len(out) - Len(queue) + (i + 1)]
        BY <1>8, <3>1, Zenon DEF IsRest
      <3> QED
        BY <1>9, <3>1, <3>2
    <2>5. IsRest(queue', out)
      <3>1. Len(queue') <= Len(out)
        BY <1>9, <2>3
      <3> QED
        BY <1>9, <2>4, <3>1 DEF IsRest
    <2> QED
      BY <1>1, <2>1, <2>5 DEF QueueInv, out
  <1>11. \A t \in CavlcContextType : \A p \in Places(t) : Target(t, p) => Owner(t, p) = a
    BY <1>4
  <1>12. a \in Nat /\ \A t \in CavlcContextType : \A p \in Places(t) : Owner(t, p) \in Nat
    BY <1>2, Owners, SizeAssumption DEF ContextMBs
  <1>13. ReadInv'
    <2> SUFFICES ASSUME NEW t \in CavlcContextType, NEW p \in Places(t)
                 PROVE  IF ReadSoFar(t, p)' THEN sent'[t][p] \in Nat ELSE sent'[t][p] = NotRead
      BY DEF ReadInv
    <2>1. IF ReadSoFar(t, p) THEN sent[t][p] \in Nat ELSE sent[t][p] = NotRead
      BY DEF ReadInv, ContextInv
    <2>2. ReadSoFar(t, p)' <=> ReadSoFar(t, p)
      BY <1>1 DEF ReadSoFar
    <2>3. Target(t, p) => ReadSoFar(t, p)
      BY <1>1, <1>11 DEF ReadSoFar
    <2>4. sent'[t][p] = IF Target(t, p) THEN c.num ELSE sent[t][p]
      BY <1>6
    <2>5. c.num \in Nat
      BY <1>4
    <2> HIDE DEF Target
    <2> QED
      BY <2>1, <2>2, <2>3, <2>4, <2>5
  <1>14. MapInv'
    <2> SUFFICES ASSUME NEW t \in CavlcContextType, NEW p \in Places(t)
                 PROVE  /\ Owner(t, p) < a => CountAt(m', t, p) = sent'[t][p]
                        /\ Owner(t, p) > a => CountAt(m', t, p) = 0
                        /\ Owner(t, p) = a => OwnCount(t, p)'
      BY <1>1 DEF MapInv, CountAt
    <2>1. /\ Owner(t, p) < a => CountAt(m, t, p) = sent[t][p]
          /\ Owner(t, p) > a => CountAt(m, t, p) = 0
          /\ Owner(t, p) = a => OwnCount(t, p)
      BY DEF MapInv, ContextInv
    <2>2. /\ CountAt(m', t, p) = IF Target(t, p) THEN c.num ELSE CountAt(m, t, p)
          /\ sent'[t][p] = IF Target(t, p) THEN c.num ELSE sent[t][p]
          /\ Target(t, p) => Owner(t, p) = a
          /\ Owner(t, p) \in Nat
      BY <1>5, <1>6, <1>11, <1>12
    <2>3. ASSUME Owner(t, p) = a
          PROVE  CountAt(m', t, p) = sent'[t][p] \/ Pending(t, p)'
      <3>1. CASE Target(t, p)
        BY <2>2, <3>1
      <3>2. CASE ~ Target(t, p)
        <4>1. CountAt(m, t, p) = sent[t][p] \/ Pending(t, p)
          BY <1>1, <2>1, <2>3 DEF OwnCount
        <4>2. ASSUME Pending(t, p)
              PROVE  Pending(t, p)'
          <5>1. PICK i \in 1..Len(queue) : MapDataType(queue[i].type) = t /\ PlaceOf(t, a, queue[i].block) = p
            BY <4>2, Zenon DEF Pending
          <5>2. t # "Luma"
            BY <4>2 DEF Pending
          <5>3. i # 1
            <6>1. ASSUME i = 1
                  PROVE  Target(t, p)
              <7>1. plane = t /\ place = p
                BY <1>9, <5>1, <6>1
              <7>2. c.type # "LumaDC"
                BY <5>2, <7>1 DEF MapDataType
              <7> QED
                BY <7>1, <7>2
            <6> QED
              BY <3>2, <6>1
          <5>4. i - 1 \in 1..(Len(queue) - 1) /\ (i - 1) + 1 = i
            BY <1>9, <5>3
          <5>5. queue'[i - 1] = queue[i] /\ i - 1 \in 1..Len(queue')
            BY <1>9, <5>4
          <5>6. \E j \in 1..Len(queue') : MapDataType(queue'[j].type) = t /\ PlaceOf(t, a, queue'[j].block) = p
            BY <5>1, <5>5, Zenon
          <5> QED
            BY <1>1, <5>2, <5>6 DEF Pending
        <4> QED
          BY <2>2, <3>2, <4>1, <4>2
      <3> QED
        BY <3>1, <3>2
    <2>4. Owner(t, p) = a => OwnCount(t, p)'
      BY <1>1, <2>3 DEF OwnCount, CountAt
    <2> HIDE DEF Target
    <2> QED
      BY <1>12, <2>1, <2>2, <2>4
  <1> QED
    BY <1>7, <1>10, <1>13, <1>14 DEF ContextInv

\* The macroblock is finished: the map mirrors all of it.
LEMMA Finished ==
  ASSUME ContextInv, step = "coefficients", queue = <<>>
  PROVE  \A t \in CavlcContextType : \A p \in Places(t) :
           Owner(t, p) <= m_mb_addr => CountAt(m_coeff_num_map, t, p) = sent[t][p]
  <1> SUFFICES ASSUME NEW t \in CavlcContextType, NEW p \in Places(t), Owner(t, p) <= m_mb_addr
               PROVE  CountAt(m_coeff_num_map, t, p) = sent[t][p]
    OBVIOUS
  <1>1. /\ Owner(t, p) < m_mb_addr => CountAt(m_coeff_num_map, t, p) = sent[t][p]
        /\ Owner(t, p) = m_mb_addr => OwnCount(t, p)
    BY DEF MapInv, ContextInv
  <1>2. m_mb_addr \in Nat /\ Owner(t, p) \in Nat
    BY Owners, SizeAssumption DEF ContextInv, ContextTypes, ContextMBs
  <1>3. ~ Pending(t, p)
    BY DEF Pending
  <1>4. Owner(t, p) = m_mb_addr => CountAt(m_coeff_num_map, t, p) = sent[t][p]
    BY <1>1, <1>3 DEF OwnCount
  <1> QED
    BY <1>1, <1>2, <1>4

LEMMA NextMBKeeps == ContextInv /\ NextMB => ContextInv'
  <1> SUFFICES ASSUME ContextInv, NextMB
               PROVE  ContextInv'
    OBVIOUS
  <1> DEFINE m == m_coeff_num_map
             a == m_mb_addr
  <1>1. /\ step = "coefficients" /\ queue = <<>> /\ a < m_width_in_mb * m_height_in_mb - 1
        /\ a' = a + 1 /\ step' = "encode" /\ UNCHANGED <<picture, m, queue, sent>>
    BY DEF NextMB
  <1>2. a \in Nat /\ a' \in ContextMBs /\ m_width_in_mb * m_height_in_mb \in Nat
    BY <1>1, SizeAssumption DEF ContextInv, ContextTypes, ContextMBs
  <1>3. \A t \in CavlcContextType : \A p \in Places(t) : Owner(t, p) \in Nat
    BY Owners
  <1>4. ContextTypes' /\ QueueInv'
    BY <1>1, <1>2 DEF ContextTypes, QueueInv, ContextInv
  <1>5. ReadInv'
    <2> SUFFICES ASSUME NEW t \in CavlcContextType, NEW p \in Places(t)
                 PROVE  IF ReadSoFar(t, p)' THEN sent[t][p] \in Nat ELSE sent[t][p] = NotRead
      BY <1>1 DEF ReadInv
    <2>1. ReadSoFar(t, p)' <=> ReadSoFar(t, p)
      BY <1>1, <1>2, <1>3 DEF ReadSoFar
    <2> QED
      BY <2>1 DEF ReadInv, ContextInv
  <1>6. MapInv'
    <2> SUFFICES ASSUME NEW t \in CavlcContextType, NEW p \in Places(t)
                 PROVE  /\ Owner(t, p) < a + 1 => CountAt(m, t, p) = sent[t][p]
                        /\ Owner(t, p) > a + 1 => CountAt(m, t, p) = 0
                        /\ Owner(t, p) = a + 1 => CountAt(m, t, p) = 0
      BY <1>1 DEF MapInv, OwnCount, CountAt
    <2>1. Owner(t, p) > a => CountAt(m, t, p) = 0
      BY DEF MapInv, ContextInv
    <2>2. Owner(t, p) <= a => CountAt(m, t, p) = sent[t][p]
      BY <1>1, Finished
    <2> QED
      BY <1>2, <1>3, <2>1, <2>2
  <1> QED
    BY <1>4, <1>5, <1>6 DEF ContextInv

LEMMA NextPictureKeeps == ContextInv /\ NextPicture => ContextInv'
  <1> SUFFICES ASSUME ContextInv, NextPicture
               PROVE  ContextInv'
    OBVIOUS
  <1>1. /\ queue = <<>> /\ picture' = picture + 1 /\ m_mb_addr' = 0 /\ step' = "encode"
        /\ m_coeff_num_map' = Zeros /\ sent' = NothingRead /\ UNCHANGED queue
    BY DEF NextPicture
  <1>2. 0 \in ContextMBs
    <2>1. m_width_in_mb * m_height_in_mb \in Nat \ {0}
      BY SizeAssumption
    <2> QED
      BY <2>1 DEF ContextMBs
  <1>3. ContextTypes' /\ QueueInv'
    BY <1>1, <1>2, ZerosAre, NothingReadIs DEF ContextTypes, QueueInv, ContextInv
  <1>4. ReadInv'
    <2> SUFFICES ASSUME NEW t \in CavlcContextType, NEW p \in Places(t)
                 PROVE  ~ ReadSoFar(t, p)' /\ sent'[t][p] = NotRead
      BY DEF ReadInv
    <2> QED
      BY <1>1, Owners, NothingReadIs DEF ReadSoFar
  <1>5. MapInv'
    <2> SUFFICES ASSUME NEW t \in CavlcContextType, NEW p \in Places(t)
                 PROVE  CountAt(Zeros, t, p) = 0 /\ ~ (Owner(t, p) < 0)
      BY <1>1 DEF MapInv, OwnCount, CountAt
    <2> QED
      BY Owners, ZerosAre
  <1> QED
    BY <1>3, <1>4, <1>5 DEF ContextInv

LEMMA ContextStep == ContextInv /\ [ContextNext]_contextVars => ContextInv'
  <1> SUFFICES ASSUME ContextInv, [ContextNext]_contextVars
               PROVE  ContextInv'
    OBVIOUS
  <1>1. CASE TryIntra16
    BY <1>1, TryIntra16Keeps
  <1>2. CASE TryIntra4
    BY <1>2, TryIntra4Keeps
  <1>3. CASE TryInter16x16
    BY <1>3, TryInter16x16Keeps
  <1>4. CASE StartBinary
    BY <1>4, StartBinaryKeeps
  <1>5. CASE CodeBlock
    BY <1>5, CodeBlockKeeps
  <1>6. CASE NextMB
    BY <1>6, NextMBKeeps
  <1>7. CASE NextPicture
    BY <1>7, NextPictureKeeps
  <1>8. CASE UNCHANGED contextVars
    BY <1>8 DEF contextVars, ContextInv, ContextTypes, QueueInv, ReadInv, ReadSoFar, MapInv, OwnCount, Pending, CountAt
  <1> QED
    BY <1>1, <1>2, <1>3, <1>4, <1>5, <1>6, <1>7, <1>8 DEF ContextNext

\* ContextInv holds always: the map mirrors what a receiver has read, and holds
\* nothing of the macroblocks to come.
THEOREM ContextInvariant == ContextSpec => []ContextInv
  <1> QED
    BY InvInit, ContextStep, PTL DEF ContextSpec

\* Between macroblocks the map says of every block read in this picture what the
\* receiver read.
THEOREM CountsMirror == ContextSpec => []CountsMirrorReceiver
  <1>1. ContextInv => CountsMirrorReceiver
    <2> SUFFICES ASSUME ContextInv, step = "encode", NEW t \in CavlcContextType, NEW p \in Places(t), sent[t][p] # NotRead
                 PROVE  m_coeff_num_map[t][p[1] + p[2] * RowLength(t)] = sent[t][p]
      BY Zenon DEF CountsMirrorReceiver
    <2>1. Owner(t, p) < m_mb_addr
      BY DEF ContextInv, ReadInv, ReadSoFar
    <2>2. CountAt(m_coeff_num_map, t, p) = sent[t][p]
      BY <2>1 DEF ContextInv, MapInv
    <2> QED
      BY <2>2 DEF CountAt, IndexAt
  <1> QED
    BY <1>1, ContextInvariant, PTL

-----------------------------------------------------------------------------
(* The table of a block.  The two neighbours are coded or empty by then.   *)

\* The block to the left of a block of the same macroblock, and the one above,
\* come before it.
LEMMA Before ==
  ASSUME NEW t \in CavlcContextType, NEW a \in ContextMBs, NEW b \in BlocksOf(t), NEW e \in BlocksOf(t),
         LET p == PlaceOf(t, a, b)
         IN  PlaceOf(t, a, e) = <<p[1] - 1, p[2]>> \/ PlaceOf(t, a, e) = <<p[1], p[2] - 1>>
  PROVE  e < b
  <1> DEFINE n == BlocksPerSide(t)
             x == (a % m_width_in_mb) * n
             y == (a \div m_width_in_mb) * n
  <1>1. n \in {2, 4} /\ b \in 0..(n * n - 1) /\ e \in 0..(n * n - 1)
    BY Sides
  <1>2. x \in Nat /\ y \in Nat
    <2>1. a % m_width_in_mb \in Nat /\ a \div m_width_in_mb \in Nat
      BY MBPlaces, Sides
    <2>2. n \in Nat
      BY <1>1
    <2> HIDE DEF n
    <2> QED
      BY <2>1, <2>2
  <1>3. /\ PlaceOf(t, a, b) = <<x + (b % n), y + (b \div n)>>
        /\ PlaceOf(t, a, e) = <<x + (e % n), y + (e \div n)>>
    BY DEF PlaceOf, InMB
  <1> HIDE DEF n, x, y
  <1> DEFINE u == x + (b % n)
             v == y + (b \div n)
             r == x + (e % n)
             s == y + (e \div n)
  <1> HIDE DEF u, v, r, s
  <1>4. (r = u - 1 /\ s = v) \/ (r = u /\ s = v - 1)
    <2>1. <<r, s>> = <<u - 1, v>> \/ <<r, s>> = <<u, v - 1>>
      BY <1>3 DEF u, v, r, s
    <2> QED
      BY <2>1
  <1>5. CASE n = 2
    BY <1>1, <1>2, <1>4, <1>5 DEF u, v, r, s
  <1>6. CASE n = 4
    BY <1>1, <1>2, <1>4, <1>6 DEF u, v, r, s
  <1> QED
    BY <1>1, <1>5, <1>6

\* Of the blocks to the left of the one coded next and above it the map says
\* what a receiver has read.
LEMMA NeighbourMirrored ==
  ASSUME ContextInv, step = "coefficients", queue # <<>>, NEW q,
         LET t == MapDataType(Head(queue).type)
             p == PlaceOf(t, m_mb_addr, Head(queue).block)
         IN  q \in Places(t) /\ Owner(t, q) <= m_mb_addr /\ (q = <<p[1] - 1, p[2]>> \/ q = <<p[1], p[2] - 1>>)
  PROVE  LET t == MapDataType(Head(queue).type)
         IN  CountAt(m_coeff_num_map, t, q) = sent[t][q] /\ sent[t][q] \in Nat
  <1> DEFINE m == m_coeff_num_map
             a == m_mb_addr
             out == OutputCoefficients(flow)
             c == Head(queue)
             t == MapDataType(c.type)
             p == PlaceOf(t, a, c.block)
  <1>1. ContextTypes /\ QueueInv /\ ReadInv /\ MapInv /\ a \in ContextMBs /\ flow \in Flows
    BY DEF ContextInv, ContextTypes
  <1>2. c \in Codings
    BY <1>1, NextReadIs
  <1>3. c.type \in DataTypes /\ t \in CavlcContextType /\ c.block \in BlocksOf(t)
    BY <1>2, CodingsAre
  <1>4. q \in Places(t) /\ Owner(t, q) <= a /\ (q = <<p[1] - 1, p[2]>> \/ q = <<p[1], p[2] - 1>>)
    OBVIOUS
  <1> HIDE DEF m, t, p, c
  <1>5. a \in Nat /\ Owner(t, q) \in Nat
    BY <1>1, <1>3, <1>4, Owners, SizeAssumption DEF ContextMBs
  <1>6. ReadSoFar(t, q)
    BY <1>4, <1>5 DEF ReadSoFar
  <1>7. sent[t][q] \in Nat
    BY <1>1, <1>3, <1>4, <1>6 DEF ReadInv
  <1>8. CASE Owner(t, q) < a
    BY <1>1, <1>3, <1>4, <1>7, <1>8 DEF MapInv, m, t, c
  <1>9. CASE Owner(t, q) = a
    <2>1. OwnCount(t, q)
      BY <1>1, <1>3, <1>4, <1>9 DEF MapInv
    <2>2. ASSUME Pending(t, q)
          PROVE  FALSE
      <3>1. t # "Luma" /\ \E i \in 1..Len(queue) : MapDataType(queue[i].type) = t /\ PlaceOf(t, a, queue[i].block) = q
        BY <2>2, Zenon DEF Pending
      <3>2. PICK i \in 1..Len(queue) : MapDataType(queue[i].type) = t /\ PlaceOf(t, a, queue[i].block) = q
        BY <3>1
      <3>3. IsRest(queue, out) /\ out \in Seq(Codings) /\ InRaster(out)
        BY <1>1, OutputIs, OutputShape DEF QueueInv
      <3> HIDE DEF out
      <3>4. /\ queue \in Seq(Codings) /\ Len(queue) \in Nat /\ Len(out) \in Nat /\ Len(queue) <= Len(out)
            /\ c = queue[1] /\ 1 \in 1..Len(queue) /\ queue[i] \in Codings
        BY <3>3 DEF IsRest, c
      <3>5. queue[i].type \in DataTypes /\ queue[i].block \in BlocksOf(t)
        BY <3>2, <3>4, CodingsAre
      <3>6. queue[i].block < c.block
        BY <1>1, <1>3, <1>4, <3>2, <3>5, Before DEF p
      <3>7. queue[i].type = c.type /\ c.type \in {"CbAC", "CrAC"}
        <4>1. \A d \in DataTypes : MapDataType(d) = "Luma" \/ d \in {"CbAC", "CrAC"}
          BY DEF DataTypes, MapDataType
        <4>2. MapDataType("CbAC") = "Cb" /\ MapDataType("CrAC") = "Cr"
          BY DEF MapDataType
        <4>3. MapDataType(c.type) = t
          BY DEF t
        <4> QED
          BY <1>3, <3>1, <3>2, <3>5, <4>1, <4>2, <4>3
      <3> DEFINE first == Len(out) - Len(queue) + 1
                 later == Len(out) - Len(queue) + i
      <3>8. first \in 1..Len(out) /\ later \in 1..Len(out) /\ (i # 1 => first < later)
        BY <3>4
      <3>9. queue[1] = out[first] /\ queue[i] = out[later]
        BY <3>3, <3>4, Zenon DEF IsRest
      <3> HIDE DEF first, later
      <3>10. c.block \in Int
        BY <1>2 DEF Codings
      <3>11. i # 1
        BY <3>4, <3>6, <3>10
      <3>12. c.block < queue[i].block
        BY <3>3, <3>4, <3>7, <3>8, <3>9, <3>11 DEF InRaster
      <3>13. queue[i].block \in Int
        BY <3>4 DEF Codings
      <3> QED
        BY <3>6, <3>10, <3>12, <3>13
    <2>3. CountAt(m, t, q) = sent[t][q]
      BY <2>1, <2>2 DEF OwnCount, m
    <2> QED
      BY <1>7, <2>3 DEF m, t, c
  <1> QED
    BY <1>4, <1>5, <1>8, <1>9

LEMMA SameNC == ContextInv => ReceiverFindsSameNC
  <1> DEFINE m == m_coeff_num_map
             a == m_mb_addr
             c == Head(queue)
             t == MapDataType(c.type)
             p == PlaceOf(t, a, c.block)
             i == IndexAt(t, p)
             left == <<p[1] - 1, p[2]>>
             up == <<p[1], p[2] - 1>>
  <1> SUFFICES ASSUME ContextInv, step = "coefficients", queue # <<>>
               PROVE  GetNC(c.type, a, c.block) = ReceiverNC(NextRead.plane, NextRead.at)
    BY DEF ReceiverFindsSameNC
  <1>1. ContextTypes /\ QueueInv /\ a \in ContextMBs
    BY DEF ContextInv, ContextTypes
  <1>2. c \in Codings /\ NextRead.plane = t /\ NextRead.at = p
    BY <1>1, NextReadIs
  <1>3. t \in CavlcContextType /\ c.block \in BlocksOf(t)
    BY <1>2, CodingsAre
  <1>4. p \in Places(t) /\ Owner(t, p) = a /\ GetBlockIndex(c.type, a, c.block) = i
    <2> HIDE DEF a
    <2> QED
      BY <1>1, <1>3, BlockPlace
  <1>5. /\ (i % RowLength(t) # 0) <=> left \in Places(t)
        /\ (i >= RowLength(t)) <=> up \in Places(t)
        /\ left \in Places(t) => IndexAt(t, left) = i - 1 /\ Owner(t, left) <= Owner(t, p)
        /\ up \in Places(t) => IndexAt(t, up) = i - RowLength(t) /\ Owner(t, up) <= Owner(t, p)
    <2> HIDE DEF p
    <2> QED
      BY <1>3, <1>4, Neighbours
  <1>6. left \in Places(t) => m[t][i - 1] = ReadAt(t, left) /\ ReadAt(t, left) \in Nat
    <2> SUFFICES ASSUME left \in Places(t)
                 PROVE  m[t][i - 1] = ReadAt(t, left) /\ ReadAt(t, left) \in Nat
      OBVIOUS
    <2>1. CountAt(m, t, left) = sent[t][left] /\ sent[t][left] \in Nat
      BY <1>4, <1>5, NeighbourMirrored
    <2> HIDE DEF left, i, m, t
    <2> QED
      BY <1>5, <2>1 DEF CountAt, ReadAt
  <1>7. up \in Places(t) => m[t][i - RowLength(t)] = ReadAt(t, up) /\ ReadAt(t, up) \in Nat
    <2> SUFFICES ASSUME up \in Places(t)
                 PROVE  m[t][i - RowLength(t)] = ReadAt(t, up) /\ ReadAt(t, up) \in Nat
      OBVIOUS
    <2>1. CountAt(m, t, up) = sent[t][up] /\ sent[t][up] \in Nat
      BY <1>4, <1>5, NeighbourMirrored
    <2> HIDE DEF up, i, m, t
    <2> QED
      BY <1>5, <2>1 DEF CountAt, ReadAt
  <1>8. /\ left \notin Places(t) => ReadAt(t, left) = NotRead
        /\ up \notin Places(t) => ReadAt(t, up) = NotRead
        /\ \A v \in Nat : v # NotRead
    BY DEF ReadAt, NotRead
  <1>9. GetNC(c.type, a, c.block) =
          CASE i % RowLength(t) # 0 /\ i >= RowLength(t) -> (m[t][i - 1] + m[t][i - RowLength(t)] + 1) \div 2
            [] i % RowLength(t) # 0 /\ ~ (i >= RowLength(t)) -> m[t][i - 1]
            [] ~ (i % RowLength(t) # 0) /\ i >= RowLength(t) -> m[t][i - RowLength(t)]
            [] OTHER -> 0
    BY <1>4, Zenon DEF GetNC
  <1>10. ReceiverNC(t, p) =
           CASE ReadAt(t, left) # NotRead /\ ReadAt(t, up) # NotRead -> (ReadAt(t, left) + ReadAt(t, up) + 1) \div 2
             [] ReadAt(t, left) # NotRead /\ ReadAt(t, up) = NotRead -> ReadAt(t, left)
             [] ReadAt(t, left) = NotRead /\ ReadAt(t, up) # NotRead -> ReadAt(t, up)
             [] OTHER -> 0
    BY Zenon DEF ReceiverNC
  <1> DEFINE nA == ReadAt(t, left)
             nB == ReadAt(t, up)
             hasA == left \in Places(t)
             hasB == up \in Places(t)
             vA == m[t][i - 1]
             vB == m[t][i - RowLength(t)]
             hL == i % RowLength(t) # 0
             hU == i >= RowLength(t)
  <1>11. /\ hL <=> hasA
         /\ hU <=> hasB
         /\ hasA => vA = nA /\ nA # NotRead
         /\ hasB => vB = nB /\ nB # NotRead
         /\ ~ hasA => nA = NotRead
         /\ ~ hasB => nB = NotRead
    BY <1>5, <1>6, <1>7, <1>8
  <1>12. GetNC(c.type, a, c.block) =
           CASE hL /\ hU -> (vA + vB + 1) \div 2 [] hL /\ ~ hU -> vA [] ~ hL /\ hU -> vB [] OTHER -> 0
    BY <1>9
  <1>13. ReceiverNC(t, p) =
           CASE nA # NotRead /\ nB # NotRead -> (nA + nB + 1) \div 2
             [] nA # NotRead /\ nB = NotRead -> nA
             [] nA = NotRead /\ nB # NotRead -> nB
             [] OTHER -> 0
    BY <1>10
  <1>14. GetNC(c.type, a, c.block) = ReceiverNC(t, p)
    <2> DEFINE g == GetNC(c.type, a, c.block)
               r == ReceiverNC(t, p)
    <2> HIDE DEF nA, nB, hasA, hasB, vA, vB, hL, hU, g, r
    <2>1. g = CASE hL /\ hU -> (vA + vB + 1) \div 2 [] hL /\ ~ hU -> vA [] ~ hL /\ hU -> vB [] OTHER -> 0
      BY <1>12 DEF g
    <2>2. r = CASE nA # NotRead /\ nB # NotRead -> (nA + nB + 1) \div 2
                [] nA # NotRead /\ nB = NotRead -> nA
                [] nA = NotRead /\ nB # NotRead -> nB
                [] OTHER -> 0
      BY <1>13 DEF r
    <2>3. g = r
      BY <1>11, <2>1, <2>2
    <2> QED
      BY <2>3 DEF g, r
  <1> QED
    BY <1>2, <1>14

\* Whatever is coded, the number that selects the code table of a block is the
\* one the receiver finds.
THEOREM ReceiverNCAgrees == ContextSpec => []ReceiverFindsSameNC
  <1> QED
    BY SameNC, ContextInvariant, PTL

-----------------------------------------------------------------------------
(* CavlcCoder.  Numbers and their bits.                                    *)

LEMMA Powers ==
  /\ 2^0 = 1 /\ 2^1 = 2 /\ 2^2 = 4 /\ 2^3 = 8 /\ 2^4 = 16 /\ 2^5 = 32 /\ 2^6 = 64 /\ 2^7 = 128
  /\ 2^8 = 256 /\ 2^9 = 512 /\ 2^10 = 1024 /\ 2^11 = 2048 /\ 2^12 = 4096 /\ 2^13 = 8192
  /\ 2^14 = 16384 /\ 2^15 = 32768 /\ 2^16 = 65536 /\ 2^17 = 131072 /\ 2^18 = 262144
  /\ 2^19 = 524288 /\ 2^20 = 1048576 /\ 2^21 = 2097152 /\ 2^22 = 4194304 /\ 2^23 = 8388608
  /\ 2^24 = 16777216 /\ 2^25 = 33554432 /\ 2^26 = 67108864 /\ 2^27 = 134217728
  /\ 2^28 = 268435456 /\ 2^29 = 536870912 /\ 2^30 = 1073741824 /\ 2^31 = 2147483648
  /\ 2^32 = 4294967296
  BY SMT

\* A power doubles from one exponent to the next, up to the width of a uint32_t.
LEMMA PowerDoubles ==
  ASSUME NEW n \in 0..32
  PROVE  /\ 2^n \in Nat \ {0}
         /\ n < 32 => 2^(n + 1) = 2 * 2^n
  <1> DEFINE e(k) == 2^k
  <1>1. /\ e(0) = 1 /\ e(1) = 2 /\ e(2) = 4 /\ e(3) = 8 /\ e(4) = 16 /\ e(5) = 32 /\ e(6) = 64
        /\ e(7) = 128 /\ e(8) = 256 /\ e(9) = 512 /\ e(10) = 1024 /\ e(11) = 2048 /\ e(12) = 4096
        /\ e(13) = 8192 /\ e(14) = 16384 /\ e(15) = 32768 /\ e(16) = 65536 /\ e(17) = 131072
        /\ e(18) = 262144 /\ e(19) = 524288 /\ e(20) = 1048576 /\ e(21) = 2097152
        /\ e(22) = 4194304 /\ e(23) = 8388608 /\ e(24) = 16777216 /\ e(25) = 33554432
        /\ e(26) = 67108864 /\ e(27) = 134217728 /\ e(28) = 268435456 /\ e(29) = 536870912
        /\ e(30) = 1073741824 /\ e(31) = 2147483648 /\ e(32) = 4294967296
    BY Powers, SMT
  <1> HIDE DEF e
  <1>2. e(n) \in Nat \ {0} /\ (n < 32 => e(n + 1) = 2 * e(n))
    BY <1>1, SMTT(30)
  <1> QED
    BY <1>2 DEF e

\* There is one quotient and one remainder.
LEMMA Quotient ==
  ASSUME NEW p \in Nat \ {0}, NEW q \in Nat, NEW r \in 0..(p - 1), NEW v \in Nat, v = p * q + r
  PROVE  v \div p = q /\ v % p = r
  BY SMT

\* A number is made of its quotient and its remainder.
LEMMA Division ==
  ASSUME NEW v \in Nat, NEW p \in Nat \ {0}
  PROVE  /\ v \div p \in Nat /\ v % p \in 0..(p - 1)
         /\ v = p * (v \div p) + (v % p)
  <1> DEFINE q == v \div p
  <1>1. q \in Int /\ v % p \in 0..(p - 1)
    BY SMT
  <1>2. v < p * q + p
    BY SMT
  <1>3. v = p * (v \div p) + (v % p)
    BY Z3
  <1> HIDE DEF q
  <1>4. ~(q < 0)
    BY <1>1, <1>2, SMT
  <1> QED
    BY <1>1, <1>3, <1>4 DEF q

\* Dividing twice.
LEMMA Halved ==
  ASSUME NEW v \in Nat, NEW p \in Nat \ {0}
  PROVE  v \div (2 * p) = (v \div p) \div 2
  <1> DEFINE q == v \div p
             r == v % p
             a == q \div 2
             b == q % 2
  <1>1. q \in Nat /\ r \in 0..(p - 1) /\ v = p * q + r
    BY Division
  <1>2. a \in Nat /\ b \in {0, 1} /\ q = 2 * a + b
    BY <1>1
  <1> HIDE DEF q, r, a, b
  <1>3. /\ p * q = (2 * p) * a + p * b
        /\ p * b \in {0, p}
    <2>1. CASE b = 0
      BY <1>2, <2>1, SMT
    <2>2. CASE b = 1
      BY <1>2, <2>2, SMT
    <2> QED
      BY <1>2, <2>1, <2>2
  <1> DEFINE twice == 2 * p
             rest == p * b + r
  <1>4. twice \in Nat \ {0} /\ rest \in 0..(twice - 1)
    BY <1>1, <1>3
  <1>5. v = twice * a + rest
    <2>1. v = twice * a + p * b + r
      BY <1>1, <1>3, SMT
    <2>2. twice * a \in Int /\ p * b \in Int
      BY <1>2, <1>3, SMT
    <2> QED
      BY <1>1, <2>1, <2>2, SMT
  <1>6. v \div twice = a
    <2> HIDE DEF twice, rest
    <2> QED
      BY <1>2, <1>4, <1>5, Quotient
  <1> QED
    BY <1>6 DEF a, q

\* A power of a sum.
LEMMA PowerOfSum ==
  ASSUME NEW a \in 0..32, NEW b \in 0..32, a + b <= 32
  PROVE  2^(a + b) = 2^a * 2^b
  <1> DEFINE S == {n \in Nat : a + n <= 32 => 2^(a + n) = 2^a * 2^n}
  <1>1. 0 \in S
    <2>1. a + 0 = a
      OBVIOUS
    <2>2. PICK p \in Nat : p = 2^a
      BY PowerDoubles
    <2>3. 2^0 = 1 /\ p = p * 1
      BY Powers
    <2> QED
      BY <2>1, <2>2, <2>3
  <1>2. ASSUME NEW n \in Nat, n \in S
        PROVE  n + 1 \in S
    <2> SUFFICES ASSUME a + (n + 1) <= 32
                 PROVE  2^(a + (n + 1)) = 2^a * 2^(n + 1)
      OBVIOUS
    <2>1. n \in 0..32 /\ n < 32 /\ a + n \in 0..32 /\ a + n < 32 /\ a + (n + 1) = (a + n) + 1
      OBVIOUS
    <2>2. 2^(n + 1) = 2 * 2^n /\ 2^((a + n) + 1) = 2 * 2^(a + n) /\ 2^n \in Nat /\ 2^a \in Nat
      BY <2>1, PowerDoubles
    <2>3. 2^(a + n) = 2^a * 2^n
      BY <1>2, <2>1
    <2>4. PICK p \in Nat, q \in Nat : p = 2^a /\ q = 2^n
      BY <2>2
    <2>5. 2 * (p * q) = p * (2 * q)
      OBVIOUS
    <2> QED
      BY <2>1, <2>2, <2>3, <2>4, <2>5
  <1> HIDE DEF S
  <1>3. b \in S
    BY <1>1, <1>2, Induction
  <1> QED
    BY <1>3 DEF S

\* Dividing by two powers.
LEMMA DividedTwice ==
  ASSUME NEW x \in Nat, NEW a \in 0..32, NEW b \in 0..32, a + b <= 32
  PROVE  x \div 2^(a + b) = (x \div 2^a) \div 2^b
  <1> DEFINE S == {n \in Nat : a + n <= 32 => x \div 2^(a + n) = (x \div 2^a) \div 2^n}
  <1>0. x \div 2^a \in Nat
    BY PowerDoubles, Division
  <1>1. 0 \in S
    <2>1. 2^0 = 1 /\ a + 0 = a
      BY Powers
    <2>2. \A q \in Nat : q \div 1 = q
      OBVIOUS
    <2> QED
      BY <1>0, <2>1, <2>2
  <1>2. ASSUME NEW n \in Nat, n \in S
        PROVE  n + 1 \in S
    <2> SUFFICES ASSUME a + (n + 1) <= 32
                 PROVE  x \div 2^(a + (n + 1)) = (x \div 2^a) \div 2^(n + 1)
      OBVIOUS
    <2>1. n \in 0..32 /\ n < 32 /\ a + n \in 0..32 /\ a + n < 32 /\ a + (n + 1) = (a + n) + 1
      OBVIOUS
    <2>2. 2^(n + 1) = 2 * 2^n /\ 2^((a + n) + 1) = 2 * 2^(a + n)
          /\ 2^n \in Nat \ {0} /\ 2^(a + n) \in Nat \ {0}
      BY <2>1, PowerDoubles
    <2>3. x \div 2^(a + n) = (x \div 2^a) \div 2^n
      BY <1>2, <2>1
    <2>4. x \div (2 * 2^(a + n)) = (x \div 2^(a + n)) \div 2
      BY <2>2, Halved
    <2>5. (x \div 2^a) \div (2 * 2^n) = ((x \div 2^a) \div 2^n) \div 2
      BY <1>0, <2>2, Halved
    <2> QED
      BY <2>1, <2>2, <2>3, <2>4, <2>5
  <1> HIDE DEF S
  <1>3. b \in S
    BY <1>1, <1>2, Induction
  <1> QED
    BY <1>3 DEF S

\* A bit of a number, and what it adds to the bits above it.
LEMMA BitIs ==
  ASSUME NEW x \in Nat, NEW n \in 0..31
  PROVE  /\ Bit(x, n) \in {0, 1}
         /\ x \div 2^n \in Nat
         /\ x \div 2^n = 2 * (x \div 2^(n + 1)) + Bit(x, n)
  <1>1. 2^n \in Nat \ {0} /\ 2^(n + 1) = 2 * 2^n
    <2>1. n \in 0..32 /\ n < 32
      OBVIOUS
    <2> QED
      BY <2>1, PowerDoubles
  <1>2. x \div 2^n \in Nat /\ x \div (2 * 2^n) = (x \div 2^n) \div 2
    BY <1>1, Division, Halved
  <1>3. PICK q \in Nat : q = x \div 2^n
    BY <1>2
  <1>4. q = 2 * (q \div 2) + (q % 2) /\ q % 2 \in {0, 1}
    BY <1>3
  <1> QED
    BY <1>1, <1>2, <1>3, <1>4, Zenon DEF Bit

\* A number less than a power has no bits from there on.
LEMMA BelowPower ==
  ASSUME NEW n \in 0..32, NEW x \in Nat, x < 2^n
  PROVE  x \div 2^n = 0
  <1>1. 2^n \in Nat \ {0} /\ x \in 0..(2^n - 1) /\ x = 2^n * 0 + x
    BY PowerDoubles
  <1> QED
    BY <1>1, Quotient

\* Numbers with the same bits are the same.
LEMMA SameNumber ==
  ASSUME NEW n \in 0..31, NEW x \in Nat, NEW y \in Nat, x < 2^n, y < 2^n,
         \A i \in 0..(n - 1) : Bit(x, i) = Bit(y, i)
  PROVE  x = y
  <1> DEFINE S == {k \in Nat : k <= n => x \div 2^(n - k) = y \div 2^(n - k)}
  <1>1. 0 \in S
    <2>1. x \div 2^n = 0 /\ y \div 2^n = 0 /\ n - 0 = n
      BY BelowPower
    <2> QED
      BY <2>1
  <1>2. ASSUME NEW k \in Nat, k \in S
        PROVE  k + 1 \in S
    <2> SUFFICES ASSUME k + 1 <= n
                 PROVE  x \div 2^(n - (k + 1)) = y \div 2^(n - (k + 1))
      OBVIOUS
    <2>1. PICK m \in 0..(n - 1) : m = n - (k + 1) /\ m + 1 = n - k /\ m \in 0..31
      OBVIOUS
    <2>2. x \div 2^(m + 1) = y \div 2^(m + 1)
      BY <1>2, <2>1
    <2>3. /\ x \div 2^m = 2 * (x \div 2^(m + 1)) + Bit(x, m)
          /\ y \div 2^m = 2 * (y \div 2^(m + 1)) + Bit(y, m)
      BY <2>1, BitIs
    <2> QED
      BY <2>1, <2>2, <2>3
  <1> HIDE DEF S
  <1>3. n \in S
    BY <1>1, <1>2, Induction
  <1>4. x \div 2^0 = x /\ y \div 2^0 = y /\ n - n = 0
    BY Powers
  <1> QED
    BY <1>3, <1>4 DEF S

-----------------------------------------------------------------------------
(* Codewords.                                                              *)

Words == [len : 1..44, code : Nat]

\* The codewords of the tables.
TableWords == {w \in [len : 1..16, code : Nat] : w.code < 2^(w.len)}

\* The bits of a codeword, one by one.
LEMMA CodeBitsAre ==
  ASSUME NEW w \in Words
  PROVE  /\ CodeBits(w) \in Seq({0, 1})
         /\ Len(CodeBits(w)) = w.len
         /\ \A i \in 1..w.len :
              CodeBits(w)[i] = IF w.len - i > 24 THEN 0 ELSE Bit(w.code, w.len - i)
  <1>1. w.len \in 1..44 /\ w.code \in Nat
    BY DEF Words
  <1>2. ASSUME NEW i \in 1..w.len
        PROVE  (IF w.len - i > 24 THEN 0 ELSE Bit(w.code, w.len - i)) \in {0, 1}
    <2>1. CASE w.len - i > 24
      BY <2>1
    <2>2. CASE ~(w.len - i > 24)
      <3>1. w.len - i \in 0..31
        BY <1>1, <2>2
      <3>2. Bit(w.code, w.len - i) \in {0, 1}
        BY <1>1, <3>1, BitIs
      <3> QED
        BY <2>2, <3>2
    <2> QED
      BY <2>1, <2>2
  <1>3. CodeBits(w) \in [1..w.len -> {0, 1}]
    BY <1>2, Zenon DEF CodeBits
  <1>4. w.len \in Nat
    BY <1>1
  <1>5. CodeBits(w) \in Seq({0, 1}) /\ Len(CodeBits(w)) = w.len
    <2> DEFINE s == CodeBits(w)
    <2>1. s \in [1..w.len -> {0, 1}]
      BY <1>3
    <2> HIDE DEF s
    <2>2. s \in Seq({0, 1}) /\ Len(s) = w.len
      BY <1>4, <2>1
    <2> QED
      BY <2>2 DEF s
  <1>6. \A i \in 1..w.len :
          CodeBits(w)[i] = IF w.len - i > 24 THEN 0 ELSE Bit(w.code, w.len - i)
    BY Zenon DEF CodeBits
  <1> QED
    BY <1>5, <1>6

\* A number the first bits of another are.
LEMMA FirstBits ==
  ASSUME NEW l \in 1..16, NEW m \in 1..16, l <= m, NEW c \in Nat, NEW d \in Nat,
         c < 2^l, d < 2^m, \A j \in 0..(l - 1) : Bit(c, j) = Bit(d, (m - l) + j)
  PROVE  c = d \div 2^(m - l)
  <1>1. PICK e \in 0..16 : e = m - l /\ e + l = m
    OBVIOUS
  <1>2. PICK y \in Nat : y = d \div 2^e
    <2>1. e \in 0..32
      BY <1>1
    <2>2. 2^e \in Nat \ {0}
      BY <2>1, PowerDoubles
    <2> QED
      BY <2>2, Division
  <1>3. \A j \in 0..l : d \div 2^(e + j) = y \div 2^j
    <2> TAKE j \in 0..l
    <2>1. e \in 0..32 /\ j \in 0..32 /\ e + j <= 32
      BY <1>1
    <2> QED
      BY <1>2, <2>1, DividedTwice
  <1>4. y < 2^l
    <2>1. PICK p \in Nat \ {0} : p = 2^l
      <3>1. l \in 0..32
        OBVIOUS
      <3> QED
        BY <3>1, PowerDoubles
    <2>2. d \div 2^m = 0
      <3>1. m \in 0..32
        OBVIOUS
      <3> QED
        BY <3>1, BelowPower
    <2>3. y \div 2^l = 0
      BY <1>1, <1>3, <2>2
    <2>4. y = p * (y \div p) + (y % p) /\ y % p \in 0..(p - 1)
      BY <1>2, <2>1, Division
    <2> QED
      BY <2>1, <2>3, <2>4
  <1>5. \A j \in 0..(l - 1) : Bit(c, j) = Bit(y, j)
    <2> TAKE j \in 0..(l - 1)
    <2>1. j \in 0..l
      OBVIOUS
    <2>2. Bit(d, e + j) = Bit(y, j)
      BY <1>3, <2>1, Zenon DEF Bit
    <2> QED
      BY <1>1, <2>2
  <1>6. l \in 0..31
    OBVIOUS
  <1>7. c = y
    BY <1>4, <1>5, <1>6, SameNumber
  <1> QED
    BY <1>1, <1>2, <1>7

\* The sixteen bit numbers that begin with a codeword are Room of them from Lowest on.
Room == <<32768, 16384, 8192, 4096, 2048, 1024, 512, 256, 128, 64, 32, 16, 8, 4, 2, 1>>

Lowest(w) == w.code * Room[w.len]

Apart(v, w) == \/ Lowest(v) + Room[v.len] <= Lowest(w)
               \/ Lowest(w) + Room[w.len] <= Lowest(v)

\* How many codewords of sixteen bits begin with one of l bits.
LEMMA Rooms ==
  ASSUME NEW l \in 1..16, NEW m \in 1..16, l <= m
  PROVE  Room[m] \in Nat \ {0} /\ Room[l] = 2^(m - l) * Room[m]
  <1>1. \A k \in 1..16 : Room[k] = 2^(16 - k)
    <2> TAKE k \in 1..16
    <2>1. /\ Room[1] = 2^15 /\ Room[2] = 2^14 /\ Room[3] = 2^13 /\ Room[4] = 2^12
          /\ Room[5] = 2^11 /\ Room[6] = 2^10 /\ Room[7] = 2^9 /\ Room[8] = 2^8
          /\ Room[9] = 2^7 /\ Room[10] = 2^6 /\ Room[11] = 2^5 /\ Room[12] = 2^4
          /\ Room[13] = 2^3 /\ Room[14] = 2^2 /\ Room[15] = 2^1 /\ Room[16] = 2^0
      BY Powers DEF Room
    <2> DEFINE r(i) == Room[i]
               e(i) == 2^i
    <2>2. /\ r(1) = e(15) /\ r(2) = e(14) /\ r(3) = e(13) /\ r(4) = e(12)
          /\ r(5) = e(11) /\ r(6) = e(10) /\ r(7) = e(9) /\ r(8) = e(8)
          /\ r(9) = e(7) /\ r(10) = e(6) /\ r(11) = e(5) /\ r(12) = e(4)
          /\ r(13) = e(3) /\ r(14) = e(2) /\ r(15) = e(1) /\ r(16) = e(0)
      BY <2>1
    <2> HIDE DEF r, e
    <2>3. r(k) = e(16 - k)
      BY <2>2
    <2> QED
      BY <2>3 DEF r, e
  <1>2. m - l \in 0..32 /\ 16 - m \in 0..32 /\ (m - l) + (16 - m) = 16 - l /\ 16 - l <= 32
    OBVIOUS
  <1>3. 2^(16 - l) = 2^(m - l) * 2^(16 - m)
    BY <1>2, PowerOfSum
  <1>4. 2^(16 - m) \in Nat \ {0}
    BY <1>2, PowerDoubles
  <1> QED
    BY <1>1, <1>3, <1>4

\* The longer of two codewords that begin alike is among the numbers of the other.
LEMMA BeginAlike ==
  ASSUME NEW v \in TableWords, NEW w \in TableWords, v.len <= w.len,
         v.code = w.code \div 2^(w.len - v.len)
  PROVE  ~Apart(v, w) /\ ~Apart(w, v)
  <1>1. PICK l \in 1..16, m \in 1..16, c \in Nat, d \in Nat :
          l = v.len /\ m = w.len /\ c = v.code /\ d = w.code /\ l <= m
    BY DEF TableWords
  <1>2. PICK e \in Nat \ {0} : e = 2^(m - l)
    <2>1. m - l \in 0..32
      BY <1>1
    <2> QED
      BY <2>1, PowerDoubles
  <1>3. PICK r \in Nat \ {0} : r = Room[m] /\ Room[l] = e * r
    BY <1>1, <1>2, Rooms
  <1>4. c = d \div e
    BY <1>1, <1>2
  <1>5. PICK k \in 0..(e - 1) : d = e * c + k
    <2>1. d % e \in 0..(e - 1) /\ d = e * (d \div e) + (d % e)
      BY Division
    <2> QED
      BY <1>4, <2>1
  <1>6. c * (e * r) <= d * r
    <2>1. d * r = c * (e * r) + k * r
      BY <1>5
    <2>2. k * r >= 0
      BY <1>5
    <2>3. c * (e * r) \in Int /\ k * r \in Int
      OBVIOUS
    <2> QED
      BY <2>1, <2>2, <2>3
  <1>7. d * r + r <= c * (e * r) + e * r
    <2>1. d * r + r = c * (e * r) + (k + 1) * r
      BY <1>5
    <2>2. (k + 1) * r <= e * r
      <3>1. e * r = (k + 1) * r + (e - (k + 1)) * r
        BY <1>5
      <3>2. (e - (k + 1)) * r >= 0
        BY <1>5
      <3>3. (k + 1) * r \in Int /\ (e - (k + 1)) * r \in Int
        OBVIOUS
      <3> QED
        BY <3>1, <3>2, <3>3
    <2>3. c * (e * r) \in Int /\ (k + 1) * r \in Int /\ e * r \in Int
      OBVIOUS
    <2> QED
      BY <2>1, <2>2, <2>3
  <1>8. PICK x \in Int, y \in Int, z \in Int : x = c * (e * r) /\ y = d * r /\ z = e * r
    OBVIOUS
  <1>9. x <= y /\ y + r <= x + z
    BY <1>6, <1>7, <1>8
  <1>10. Lowest(v) = x /\ Lowest(w) = y /\ Room[v.len] = z /\ Room[w.len] = r
    BY <1>1, <1>3, <1>8 DEF Lowest
  <1> QED
    BY <1>9, <1>10 DEF Apart

\* A receiver does not take a codeword for one that is apart from it.
LEMMA PrefixFree ==
  ASSUME NEW v \in TableWords, NEW w \in TableWords, Apart(v, w)
  PROVE  ~Possible(w, CodeBits(v))
  <1> SUFFICES ASSUME Possible(w, CodeBits(v))
               PROVE  FALSE
    OBVIOUS
  <1>1. PICK l \in 1..16, m \in 1..16, c \in Nat, d \in Nat :
          l = v.len /\ m = w.len /\ c = v.code /\ d = w.code /\ c < 2^l /\ d < 2^m
    BY DEF TableWords
  <1>2. v \in Words /\ w \in Words
    BY DEF TableWords, Words
  <1>3. Len(CodeBits(v)) = l /\ \A i \in 1..l : CodeBits(v)[i] = Bit(c, l - i)
    <2>1. \A i \in 1..l : ~(l - i > 24)
      OBVIOUS
    <2> QED
      BY <1>1, <1>2, <2>1, CodeBitsAre
  <1>4. \A i \in 1..m : CodeBits(w)[i] = Bit(d, m - i)
    <2>1. \A i \in 1..m : ~(m - i > 24)
      OBVIOUS
    <2> QED
      BY <1>1, <1>2, <2>1, CodeBitsAre
  <1>5. \A i \in 1..m : i <= l => Bit(c, l - i) = Bit(d, m - i)
    BY <1>1, <1>3, <1>4 DEF Possible
  <1>6. CASE l <= m
    <2>1. \A j \in 0..(l - 1) : Bit(c, j) = Bit(d, (m - l) + j)
      <3> TAKE j \in 0..(l - 1)
      <3>1. l - j \in 1..m /\ l - j <= l /\ l - (l - j) = j /\ m - (l - j) = (m - l) + j
        BY <1>6
      <3> QED
        BY <1>5, <3>1
    <2>2. c = d \div 2^(m - l)
      BY <1>1, <1>6, <2>1, FirstBits
    <2> QED
      BY <1>1, <1>6, <2>2, BeginAlike
  <1>7. CASE m < l
    <2>1. \A j \in 0..(m - 1) : Bit(d, j) = Bit(c, (l - m) + j)
      <3> TAKE j \in 0..(m - 1)
      <3>1. m - j \in 1..m /\ m - j <= l /\ l - (m - j) = (l - m) + j /\ m - (m - j) = j
        BY <1>7
      <3> QED
        BY <1>5, <3>1
    <2>2. m <= l
      BY <1>7
    <2>3. d = c \div 2^(l - m)
      BY <1>1, <2>1, <2>2, FirstBits
    <2> QED
      BY <1>1, <2>2, <2>3, BeginAlike
  <1> QED
    BY <1>6, <1>7

\* What was written is possible.
LEMMA PossibleItself ==
  ASSUME NEW w
  PROVE  Possible(w, CodeBits(w))
  BY DEF Possible

-----------------------------------------------------------------------------
(* The tables: every entry is a codeword, and two entries are apart.       *)

\* The same of a length and a code, linear in what the tables hold.
EntryFits(l, c) == l \in 1..16 /\ c \in Nat /\ c * Room[l] < 65536

EntriesApart(l, c, m, d) == \/ c * Room[l] + Room[l] <= d * Room[m]
                            \/ d * Room[m] + Room[m] <= c * Room[l]

\* An entry of a table that fits is a codeword ...
LEMMA EntryIsWord ==
  ASSUME NEW l, NEW c, EntryFits(l, c)
  PROVE  Codeword(l, c) \in TableWords
  <1>1. l \in 1..16 /\ c \in Nat /\ c * Room[l] < 65536
    BY DEF EntryFits
  <1>2. PICK r \in Nat \ {0}, p \in Nat \ {0} : r = Room[l] /\ p = 2^l /\ p * r = 65536
    <2>1. l \in 0..32 /\ 16 - l \in 0..32 /\ l + (16 - l) = 16
      BY <1>1
    <2>2. 2^l \in Nat \ {0} /\ 2^(16 - l) \in Nat \ {0}
      BY <2>1, PowerDoubles
    <2>3. 65536 = 2^l * 2^(16 - l)
      <3>1. 2^16 = 65536
        BY Powers
      <3>2. 2^(l + (16 - l)) = 2^l * 2^(16 - l)
        <4>1. PICK m \in 0..32 : m = 16 - l /\ l + m <= 32
          BY <2>1
        <4>2. 2^(l + m) = 2^l * 2^m
          BY <2>1, <4>1, PowerOfSum
        <4> QED
          BY <4>1, <4>2
      <3> QED
        BY <2>1, <3>1, <3>2
    <2>4. Room[l] = 2^(16 - l)
      <3>1. Room[16] = 1 /\ 16 \in 1..16
        BY DEF Room
      <3> DEFINE one == Room[16]
      <3>2. Room[l] = 2^(16 - l) * one
        <4>1. l <= 16 /\ l \in 1..16
          BY <1>1
        <4>2. PICK m \in 1..16 : m = 16
          OBVIOUS
        <4>3. Room[l] = 2^(m - l) * Room[m]
          BY <4>1, <4>2, Rooms
        <4> QED
          BY <4>2, <4>3
      <3>3. one = 1
        BY <3>1
      <3> HIDE DEF one
      <3>4. \A x \in Nat : x * 1 = x
        OBVIOUS
      <3> QED
        BY <2>2, <3>2, <3>3, <3>4
    <2> QED
      BY <2>2, <2>3, <2>4
  <1>3. c < p
    <2>1. SUFFICES ASSUME c >= p PROVE FALSE
      BY <1>1
    <2>2. c * r = p * r + (c - p) * r
      BY <1>1
    <2>3. (c - p) * r >= 0
      BY <1>1, <2>1
    <2> QED
      BY <1>1, <1>2, <2>2, <2>3
  <1> QED
    BY <1>1, <1>2, <1>3 DEF Codeword, TableWords

\* ... and two entries that are apart are codewords that are.
LEMMA EntriesAreApart ==
  ASSUME NEW l, NEW c, NEW m, NEW d, EntriesApart(l, c, m, d)
  PROVE  Apart(Codeword(l, c), Codeword(m, d))
  BY DEF EntriesApart, Apart, Lowest, Codeword

\* The codewords of the first entries of a row.
RowIsCode(len, code, most) ==
  \A z \in 0..most :
    /\ EntryFits(len[z + 1], code[z + 1])
    /\ \A y \in 0..most :
         y # z => EntriesApart(len[z + 1], code[z + 1], len[y + 1], code[y + 1])

\* Those of the counts of trailing ones and coefficients.
TokensFit(len, code, most) ==
  \A o \in 0..3, n \in 0..most : o <= n => EntryFits(len[o + 1][n + 1], code[o + 1][n + 1])

TokensApart(len, code, most) ==
  \A o \in 0..3, n \in 0..most, p \in 0..3, k \in 0..most :
    o <= n /\ p <= k /\ ~(o = p /\ n = k) =>
      EntriesApart(len[o + 1][n + 1], code[o + 1][n + 1], len[p + 1][k + 1], code[p + 1][k + 1])

\* The three tables of coeff_token and that of chroma DC are prefix free ...
LEMMA TokenTables ==
  /\ \A t \in 1..3 : /\ TokensFit(s_non_cdc_len_table[t], s_non_cdc_code_table[t], 16)
                     /\ TokensApart(s_non_cdc_len_table[t], s_non_cdc_code_table[t], 16)
  /\ TokensFit(s_cdc_len_table, s_cdc_code_table, 4)
  /\ TokensApart(s_cdc_len_table, s_cdc_code_table, 4)
  <1>1. TokensFit(s_non_cdc_len_table[1], s_non_cdc_code_table[1], 16)
    BY SMTT(60) DEF TokensFit, EntryFits, Room, s_non_cdc_len_table, s_non_cdc_code_table
  <1>2. TokensApart(s_non_cdc_len_table[1], s_non_cdc_code_table[1], 16)
    BY SMTT(60) DEF TokensApart, EntriesApart, Room, s_non_cdc_len_table, s_non_cdc_code_table
  <1>3. TokensFit(s_non_cdc_len_table[2], s_non_cdc_code_table[2], 16)
    BY SMTT(60) DEF TokensFit, EntryFits, Room, s_non_cdc_len_table, s_non_cdc_code_table
  <1>4. TokensApart(s_non_cdc_len_table[2], s_non_cdc_code_table[2], 16)
    BY SMTT(60) DEF TokensApart, EntriesApart, Room, s_non_cdc_len_table, s_non_cdc_code_table
  <1>5. TokensFit(s_non_cdc_len_table[3], s_non_cdc_code_table[3], 16)
    BY SMTT(60) DEF TokensFit, EntryFits, Room, s_non_cdc_len_table, s_non_cdc_code_table
  <1>6. TokensApart(s_non_cdc_len_table[3], s_non_cdc_code_table[3], 16)
    BY SMTT(60) DEF TokensApart, EntriesApart, Room, s_non_cdc_len_table, s_non_cdc_code_table
  <1>7. TokensFit(s_cdc_len_table, s_cdc_code_table, 4)
    BY SMTT(60) DEF TokensFit, EntryFits, Room, s_cdc_len_table, s_cdc_code_table
  <1>8. TokensApart(s_cdc_len_table, s_cdc_code_table, 4)
    BY SMTT(60) DEF TokensApart, EntriesApart, Room, s_cdc_len_table, s_cdc_code_table
  <1> QED
    BY <1>1, <1>2, <1>3, <1>4, <1>5, <1>6, <1>7, <1>8

\* The code of six bits.
FixedCode(o, n) == IF n > 0 THEN (n - 1) * 4 + o ELSE 3

\* ... and so is the code of six bits.
LEMMA TokenFixed ==
  ASSUME NEW o \in 0..3, NEW n \in 0..16, o <= n
  PROVE  /\ EntryFits(6, FixedCode(o, n))
         /\ \A p \in 0..3, k \in 0..16 :
              p <= k /\ ~(o = p /\ n = k) => EntriesApart(6, FixedCode(o, n), 6, FixedCode(p, k))
  <1>1. Room[6] = 1024
    BY DEF Room
  <1>2. \A p \in 0..3, k \in 0..16 : p <= k => FixedCode(p, k) \in 0..63
    BY DEF FixedCode
  <1>3. \A p \in 0..3, k \in 0..16 :
          p <= k /\ ~(o = p /\ n = k) => FixedCode(o, n) < FixedCode(p, k) \/ FixedCode(p, k) < FixedCode(o, n)
    BY DEF FixedCode
  <1>4. \A x \in 0..63 : EntryFits(6, x)
    BY <1>1 DEF EntryFits
  <1>5. \A x \in 0..63, y \in 0..63 : x < y \/ y < x => EntriesApart(6, x, 6, y)
    BY <1>1 DEF EntriesApart
  <1> QED
    BY <1>2, <1>3, <1>4, <1>5

\* Every row of the tables of total_zeros is prefix free.
LEMMA ZerosTables ==
  /\ \A n \in 1..15 :
       RowIsCode(s_no_cdc_total_zeros_len_table[n], s_no_cdc_total_zeros_code_table[n], 16 - n)
  /\ \A n \in 1..3 :
       RowIsCode(s_cdc_total_zeros_len_table[n], s_cdc_total_zeros_code_table[n], 4 - n)
  <1>1. RowIsCode(s_no_cdc_total_zeros_len_table[1], s_no_cdc_total_zeros_code_table[1], 15)
    BY SMTT(30) DEF RowIsCode, EntryFits, EntriesApart, Room, s_no_cdc_total_zeros_len_table, s_no_cdc_total_zeros_code_table
  <1>2. RowIsCode(s_no_cdc_total_zeros_len_table[2], s_no_cdc_total_zeros_code_table[2], 14)
    BY SMTT(30) DEF RowIsCode, EntryFits, EntriesApart, Room, s_no_cdc_total_zeros_len_table, s_no_cdc_total_zeros_code_table
  <1>3. RowIsCode(s_no_cdc_total_zeros_len_table[3], s_no_cdc_total_zeros_code_table[3], 13)
    BY SMTT(30) DEF RowIsCode, EntryFits, EntriesApart, Room, s_no_cdc_total_zeros_len_table, s_no_cdc_total_zeros_code_table
  <1>4. RowIsCode(s_no_cdc_total_zeros_len_table[4], s_no_cdc_total_zeros_code_table[4], 12)
    BY SMTT(30) DEF RowIsCode, EntryFits, EntriesApart, Room, s_no_cdc_total_zeros_len_table, s_no_cdc_total_zeros_code_table
  <1>5. RowIsCode(s_no_cdc_total_zeros_len_table[5], s_no_cdc_total_zeros_code_table[5], 11)
    BY SMTT(30) DEF RowIsCode, EntryFits, EntriesApart, Room, s_no_cdc_total_zeros_len_table, s_no_cdc_total_zeros_code_table
  <1>6. RowIsCode(s_no_cdc_total_zeros_len_table[6], s_no_cdc_total_zeros_code_table[6], 10)
    BY SMTT(30) DEF RowIsCode, EntryFits, EntriesApart, Room, s_no_cdc_total_zeros_len_table, s_no_cdc_total_zeros_code_table
  <1>7. RowIsCode(s_no_cdc_total_zeros_len_table[7], s_no_cdc_total_zeros_code_table[7], 9)
    BY SMTT(30) DEF RowIsCode, EntryFits, EntriesApart, Room, s_no_cdc_total_zeros_len_table, s_no_cdc_total_zeros_code_table
  <1>8. RowIsCode(s_no_cdc_total_zeros_len_table[8], s_no_cdc_total_zeros_code_table[8], 8)
    BY SMTT(30) DEF RowIsCode, EntryFits, EntriesApart, Room, s_no_cdc_total_zeros_len_table, s_no_cdc_total_zeros_code_table
  <1>9. RowIsCode(s_no_cdc_total_zeros_len_table[9], s_no_cdc_total_zeros_code_table[9], 7)
    BY SMTT(30) DEF RowIsCode, EntryFits, EntriesApart, Room, s_no_cdc_total_zeros_len_table, s_no_cdc_total_zeros_code_table
  <1>10. RowIsCode(s_no_cdc_total_zeros_len_table[10], s_no_cdc_total_zeros_code_table[10], 6)
    BY SMTT(30) DEF RowIsCode, EntryFits, EntriesApart, Room, s_no_cdc_total_zeros_len_table, s_no_cdc_total_zeros_code_table
  <1>11. RowIsCode(s_no_cdc_total_zeros_len_table[11], s_no_cdc_total_zeros_code_table[11], 5)
    BY SMTT(30) DEF RowIsCode, EntryFits, EntriesApart, Room, s_no_cdc_total_zeros_len_table, s_no_cdc_total_zeros_code_table
  <1>12. RowIsCode(s_no_cdc_total_zeros_len_table[12], s_no_cdc_total_zeros_code_table[12], 4)
    BY SMTT(30) DEF RowIsCode, EntryFits, EntriesApart, Room, s_no_cdc_total_zeros_len_table, s_no_cdc_total_zeros_code_table
  <1>13. RowIsCode(s_no_cdc_total_zeros_len_table[13], s_no_cdc_total_zeros_code_table[13], 3)
    BY SMTT(30) DEF RowIsCode, EntryFits, EntriesApart, Room, s_no_cdc_total_zeros_len_table, s_no_cdc_total_zeros_code_table
  <1>14. RowIsCode(s_no_cdc_total_zeros_len_table[14], s_no_cdc_total_zeros_code_table[14], 2)
    BY SMTT(30) DEF RowIsCode, EntryFits, EntriesApart, Room, s_no_cdc_total_zeros_len_table, s_no_cdc_total_zeros_code_table
  <1>15. RowIsCode(s_no_cdc_total_zeros_len_table[15], s_no_cdc_total_zeros_code_table[15], 1)
    BY SMTT(30) DEF RowIsCode, EntryFits, EntriesApart, Room, s_no_cdc_total_zeros_len_table, s_no_cdc_total_zeros_code_table
  <1> DEFINE Holds(n) == RowIsCode(s_no_cdc_total_zeros_len_table[n], s_no_cdc_total_zeros_code_table[n], 16 - n)
  <1>16. /\ Holds(1) /\ Holds(2) /\ Holds(3) /\ Holds(4) /\ Holds(5) /\ Holds(6) /\ Holds(7) /\ Holds(8)
         /\ Holds(9) /\ Holds(10) /\ Holds(11) /\ Holds(12) /\ Holds(13) /\ Holds(14) /\ Holds(15)
    BY <1>1, <1>2, <1>3, <1>4, <1>5, <1>6, <1>7, <1>8, <1>9, <1>10, <1>11, <1>12, <1>13, <1>14, <1>15
  <1>17. \A n \in 1..15 : Holds(n)
    <2> HIDE DEF Holds
    <2> QED
      BY <1>16
  <1>18. \A n \in 1..3 : RowIsCode(s_cdc_total_zeros_len_table[n], s_cdc_total_zeros_code_table[n], 4 - n)
    BY SMTT(30) DEF RowIsCode, EntryFits, EntriesApart, Room, s_cdc_total_zeros_len_table, s_cdc_total_zeros_code_table
  <1> QED
    BY <1>17, <1>18

\* Every row of the table of run_before is prefix free.
LEMMA RunsTables ==
  /\ \A z \in 1..6 : RowIsCode(s_run_no_cdc_length_table[z], s_run_no_cdc_code_table[z], z)
  /\ RowIsCode(s_run_no_cdc_length_table[7], s_run_no_cdc_code_table[7], 14)
  <1>1. RowIsCode(s_run_no_cdc_length_table[1], s_run_no_cdc_code_table[1], 1)
    BY SMTT(30) DEF RowIsCode, EntryFits, EntriesApart, Room, s_run_no_cdc_length_table, s_run_no_cdc_code_table
  <1>2. RowIsCode(s_run_no_cdc_length_table[2], s_run_no_cdc_code_table[2], 2)
    BY SMTT(30) DEF RowIsCode, EntryFits, EntriesApart, Room, s_run_no_cdc_length_table, s_run_no_cdc_code_table
  <1>3. RowIsCode(s_run_no_cdc_length_table[3], s_run_no_cdc_code_table[3], 3)
    BY SMTT(30) DEF RowIsCode, EntryFits, EntriesApart, Room, s_run_no_cdc_length_table, s_run_no_cdc_code_table
  <1>4. RowIsCode(s_run_no_cdc_length_table[4], s_run_no_cdc_code_table[4], 4)
    BY SMTT(30) DEF RowIsCode, EntryFits, EntriesApart, Room, s_run_no_cdc_length_table, s_run_no_cdc_code_table
  <1>5. RowIsCode(s_run_no_cdc_length_table[5], s_run_no_cdc_code_table[5], 5)
    BY SMTT(30) DEF RowIsCode, EntryFits, EntriesApart, Room, s_run_no_cdc_length_table, s_run_no_cdc_code_table
  <1>6. RowIsCode(s_run_no_cdc_length_table[6], s_run_no_cdc_code_table[6], 6)
    BY SMTT(30) DEF RowIsCode, EntryFits, EntriesApart, Room, s_run_no_cdc_length_table, s_run_no_cdc_code_table
  <1>7. RowIsCode(s_run_no_cdc_length_table[7], s_run_no_cdc_code_table[7], 14)
    BY SMTT(30) DEF RowIsCode, EntryFits, EntriesApart, Room, s_run_no_cdc_length_table, s_run_no_cdc_code_table
  <1> DEFINE Holds(z) == RowIsCode(s_run_no_cdc_length_table[z], s_run_no_cdc_code_table[z], z)
  <1>8. Holds(1) /\ Holds(2) /\ Holds(3) /\ Holds(4) /\ Holds(5) /\ Holds(6)
    BY <1>1, <1>2, <1>3, <1>4, <1>5, <1>6
  <1>9. \A z \in 1..6 : Holds(z)
    <2> HIDE DEF Holds
    <2> QED
      BY <1>8
  <1> QED
    BY <1>7, <1>9

-----------------------------------------------------------------------------
(* What the receiver finds in the tables.                                  *)

\* How many coefficients a block has.
LEMMA Sizes ==
  ASSUME NEW d \in CavlcDataType
  PROVE  /\ GetMaxCoeffNum(d) \in {4, 15, 16}
         /\ d = "ChromaDC" => GetMaxCoeffNum(d) = 4
         /\ d # "ChromaDC" => GetMaxCoeffNum(d) # 4
  <1>1. d \in {"NormalLuma", "LumaDC"} => GetMaxCoeffNum(d) = 16
    BY DEF GetMaxCoeffNum
  <1>2. d \in {"LumaAC", "ChromaAC"} => GetMaxCoeffNum(d) = 15
    BY DEF GetMaxCoeffNum
  <1>3. d = "ChromaDC" => GetMaxCoeffNum(d) = 4
    BY DEF GetMaxCoeffNum
  <1> QED
    BY <1>1, <1>2, <1>3 DEF CavlcDataType

\* The codewords of coeff_token for a data type and a table ...
LEMMA TokenWords ==
  ASSUME NEW d \in CavlcDataType, NEW t \in Tables(d),
         NEW o \in 0..3, NEW n \in 0..GetMaxCoeffNum(d), o <= n
  PROVE  /\ CoeffToken(d, t, o, n) \in TableWords
         /\ \A p \in 0..3, k \in 0..GetMaxCoeffNum(d) :
              p <= k /\ ~(o = p /\ n = k) => Apart(CoeffToken(d, t, o, n), CoeffToken(d, t, p, k))
  <1>1. CASE d = "ChromaDC"
    <2> DEFINE len(p, k) == s_cdc_len_table[p + 1][k + 1]
               code(p, k) == s_cdc_code_table[p + 1][k + 1]
    <2>1. \A p, k : CoeffToken(d, t, p, k) = Codeword(len(p, k), code(p, k))
      BY <1>1 DEF CoeffToken, CdcCoeffToken
    <2>2. GetMaxCoeffNum(d) = 4
      BY <1>1, Sizes
    <2>3. EntryFits(len(o, n), code(o, n))
      BY <2>2, TokenTables, Zenon DEF TokensFit
    <2>4. ASSUME NEW p \in 0..3, NEW k \in 0..4, p <= k, ~(o = p /\ n = k)
          PROVE  EntriesApart(len(o, n), code(o, n), len(p, k), code(p, k))
      BY <2>2, <2>4, TokenTables, Zenon DEF TokensApart
    <2> HIDE DEF len, code
    <2> QED
      BY <2>1, <2>2, <2>3, <2>4, EntryIsWord, EntriesAreApart
  <1>2. CASE d # "ChromaDC" /\ t # 3
    <2> DEFINE len(p, k) == s_non_cdc_len_table[t + 1][p + 1][k + 1]
               code(p, k) == s_non_cdc_code_table[t + 1][p + 1][k + 1]
    <2>0. t \in 0..2 /\ t + 1 \in 1..3 /\ t < 3
      BY <1>2 DEF Tables
    <2>1. \A p, k : CoeffToken(d, t, p, k) = Codeword(len(p, k), code(p, k))
      BY <1>2, <2>0 DEF CoeffToken, NonCdcCoeffToken
    <2>2. \A k \in 0..GetMaxCoeffNum(d) : k \in 0..16
      BY Sizes
    <2>3. EntryFits(len(o, n), code(o, n))
      BY <2>0, <2>2, TokenTables, Zenon DEF TokensFit
    <2>4. ASSUME NEW p \in 0..3, NEW k \in 0..GetMaxCoeffNum(d), p <= k, ~(o = p /\ n = k)
          PROVE  EntriesApart(len(o, n), code(o, n), len(p, k), code(p, k))
      BY <2>0, <2>2, <2>4, TokenTables, Zenon DEF TokensApart
    <2> HIDE DEF len, code
    <2> QED
      BY <2>1, <2>3, <2>4, EntryIsWord, EntriesAreApart
  <1>3. CASE d # "ChromaDC" /\ t = 3
    <2>1. \A p, k : CoeffToken(d, t, p, k) = Codeword(6, FixedCode(p, k))
      BY <1>3 DEF CoeffToken, NonCdcCoeffToken, FixedCode
    <2>2. \A k \in 0..GetMaxCoeffNum(d) : k \in 0..16
      BY Sizes
    <2>3. EntryFits(6, FixedCode(o, n))
      BY <2>2, TokenFixed, Zenon
    <2>4. ASSUME NEW p \in 0..3, NEW k \in 0..GetMaxCoeffNum(d), p <= k, ~(o = p /\ n = k)
          PROVE  EntriesApart(6, FixedCode(o, n), 6, FixedCode(p, k))
      BY <2>2, <2>4, TokenFixed, Zenon
    <2> QED
      BY <2>1, <2>3, <2>4, EntryIsWord, EntriesAreApart
  <1> QED
    BY <1>1, <1>2, <1>3

\* ... those of total_zeros for a number of coefficients ...
LEMMA ZerosWords ==
  ASSUME NEW d \in CavlcDataType, NEW n \in 1..(GetMaxCoeffNum(d) - 1),
         NEW z \in 0..(GetMaxCoeffNum(d) - n)
  PROVE  /\ TotalZeros(d, n, z) \in TableWords
         /\ \A y \in 0..(GetMaxCoeffNum(d) - n) : y # z => Apart(TotalZeros(d, n, z), TotalZeros(d, n, y))
  <1>1. CASE d = "ChromaDC"
    <2> DEFINE len == s_cdc_total_zeros_len_table[n]
               code == s_cdc_total_zeros_code_table[n]
    <2>1. \A y : TotalZeros(d, n, y) = Codeword(len[y + 1], code[y + 1])
      BY <1>1 DEF TotalZeros, CdcTotalZeros
    <2>2. GetMaxCoeffNum(d) = 4 /\ n \in 1..3
      BY <1>1, Sizes
    <2>3. RowIsCode(len, code, 4 - n)
      BY <2>2, ZerosTables
    <2> HIDE DEF len, code
    <2>4. EntryFits(len[z + 1], code[z + 1])
      BY <2>2, <2>3 DEF RowIsCode
    <2>5. \A y \in 0..(4 - n) : y # z => EntriesApart(len[z + 1], code[z + 1], len[y + 1], code[y + 1])
      BY <2>2, <2>3 DEF RowIsCode
    <2> QED
      BY <2>1, <2>2, <2>4, <2>5, EntryIsWord, EntriesAreApart
  <1>2. CASE d # "ChromaDC"
    <2> DEFINE len == s_no_cdc_total_zeros_len_table[n]
               code == s_no_cdc_total_zeros_code_table[n]
    <2>1. \A y : TotalZeros(d, n, y) = Codeword(len[y + 1], code[y + 1])
      BY <1>2 DEF TotalZeros, NonCdcTotalZeros
    <2>2. n \in 1..15 /\ \A y \in 0..(GetMaxCoeffNum(d) - n) : y \in 0..(16 - n)
      BY Sizes
    <2>3. RowIsCode(len, code, 16 - n)
      BY <2>2, ZerosTables
    <2> HIDE DEF len, code
    <2>4. EntryFits(len[z + 1], code[z + 1])
      BY <2>2, <2>3 DEF RowIsCode
    <2>5. \A y \in 0..(GetMaxCoeffNum(d) - n) :
            y # z => EntriesApart(len[z + 1], code[z + 1], len[y + 1], code[y + 1])
      BY <2>2, <2>3 DEF RowIsCode
    <2> QED
      BY <2>1, <2>4, <2>5, EntryIsWord, EntriesAreApart
  <1> QED
    BY <1>1, <1>2

\* ... and those of run_before for a number of zeros.
LEMMA RunWords ==
  ASSUME NEW z \in 1..14, NEW r \in 0..z, NEW row, row = (IF z > 6 THEN 6 ELSE z - 1)
  PROVE  /\ RunBefore(row, r) \in TableWords
         /\ \A q \in 0..z : q # r => Apart(RunBefore(row, r), RunBefore(row, q))
  <1> DEFINE len == s_run_no_cdc_length_table[row + 1]
             code == s_run_no_cdc_code_table[row + 1]
  <1>1. \A q : RunBefore(row, q) = Codeword(len[q + 1], code[q + 1])
    BY DEF RunBefore
  <1>2. \E most \in Nat : z <= most /\ RowIsCode(len, code, most)
    <2>1. CASE z > 6
      <3>1. row + 1 = 7 /\ z <= 14
        BY <2>1
      <3> QED
        BY <3>1, RunsTables
    <2>2. CASE ~(z > 6)
      <3>1. row + 1 = z /\ z \in 1..6
        BY <2>2
      <3> QED
        BY <3>1, RunsTables
    <2> QED
      BY <2>1, <2>2
  <1> HIDE DEF len, code
  <1>3. PICK most \in Nat : z <= most /\ RowIsCode(len, code, most)
    BY <1>2
  <1>4. EntryFits(len[r + 1], code[r + 1])
    BY <1>3 DEF RowIsCode
  <1>5. \A q \in 0..z : q # r => EntriesApart(len[r + 1], code[r + 1], len[q + 1], code[q + 1])
    BY <1>3 DEF RowIsCode
  <1> QED
    BY <1>1, <1>4, <1>5, EntryIsWord, EntriesAreApart

\* The type of the input and of what it makes of the receiver's tables.
InputOK ==
  /\ m_data_type \in CavlcDataType
  /\ m_vlc_table_index \in Tables(m_data_type)

\* A codeword has as many bits as it says.
LEMMA WordLength ==
  ASSUME NEW w \in TableWords
  PROVE  w \in Words /\ Len(CodeBits(w)) = w.len
  <1>1. w \in Words
    BY DEF TableWords, Words
  <1> QED
    BY <1>1, CodeBitsAre

\* What the receiver knows when it has read a code.
AfterToken(r, w, o, n) ==
  [r EXCEPT !.pos = @ + w.len, !.ones = o, !.num = n, !.reads = IF n = 0 THEN "nothing" ELSE "signs"]

AfterZeros(r, w, z) ==
  [r EXCEPT !.pos = @ + w.len, !.zeros = z, !.index = r.num, !.reads = "runs"]

AfterRun(r, w, n) ==
  [r EXCEPT !.pos = @ + w.len, !.block = [@ EXCEPT ![r.index + r.zeros] = r.levels[r.index]],
            !.zeros = @ - n, !.index = @ - 1]

\* A receiver that expects coeff_token finds what was written.
LEMMA ReadsToken ==
  ASSUME InputOK, NEW r, NEW o \in 0..3, NEW n \in 0..MaxCoeffs, o <= n,
         NEW w, w = CoeffToken(m_data_type, m_vlc_table_index, o, n)
  PROVE  ReadCoeffToken(r, CodeBits(w)) = AfterToken(r, w, o, n)
  <1> DEFINE Counts == {c \in (0..3) \X (0..MaxCoeffs) : c[1] <= c[2]}
             Word(c) == CoeffToken(m_data_type, m_vlc_table_index, c[1], c[2])
             rest == CodeBits(w)
             found == {c \in Counts : Possible(Word(c), rest)}
             token == CHOOSE c \in Counts : found = {c}
             this == <<o, n>>
  <1>1. this \in Counts /\ Word(this) = w
    OBVIOUS
  <1>2. /\ w \in TableWords
        /\ \A p \in 0..3, k \in 0..MaxCoeffs :
             p <= k /\ ~(o = p /\ n = k) => Apart(w, CoeffToken(m_data_type, m_vlc_table_index, p, k))
    BY TokenWords DEF InputOK, MaxCoeffs
  <1>3. found = {this}
    <2>1. this \in found
      BY <1>1, PossibleItself
    <2>2. ASSUME NEW c \in Counts, c # this
          PROVE  c \notin found
      <3>1. PICK p \in 0..3, k \in 0..MaxCoeffs : c = <<p, k>> /\ p <= k
        OBVIOUS
      <3>2. ~(o = p /\ n = k)
        BY <2>2, <3>1
      <3>3. Apart(w, Word(c))
        BY <1>2, <3>1, <3>2
      <3>4. Word(c) \in TableWords
        BY <3>1, TokenWords DEF InputOK, MaxCoeffs
      <3>5. ~Possible(Word(c), rest)
        <4> HIDE DEF Word
        <4> QED
          BY <1>2, <3>3, <3>4, PrefixFree
      <3> QED
        BY <3>5
    <2> HIDE DEF Word, this, rest, Counts
    <2> QED
      BY <2>1, <2>2
  <1>4. token = this
    <2> HIDE DEF found, Counts, this
    <2> QED
      BY <1>1, <1>3
  <1>5. Word(this).len <= Len(rest)
    <2>1. Len(rest) = w.len /\ w.len \in 1..44
      BY <1>2, WordLength DEF Words
    <2> HIDE DEF this, rest, Word
    <2> QED
      BY <1>1, <2>1
  <1>6. \E c \in Counts : found = {c} /\ Word(c).len <= Len(rest)
    <2> HIDE DEF found, Counts, this, Word
    <2> QED
      BY <1>1, <1>3, <1>5
  <1>7. ReadCoeffToken(r, rest) =
          [r EXCEPT !.pos = @ + Word(token).len, !.ones = token[1], !.num = token[2],
                    !.reads = IF token[2] = 0 THEN "nothing" ELSE "signs"]
    BY <1>6, Zenon DEF ReadCoeffToken
  <1>8. Word(token) = w /\ token[1] = o /\ token[2] = n
    <2>1. this[1] = o /\ this[2] = n
      OBVIOUS
    <2> HIDE DEF token, Word, this
    <2> QED
      BY <1>1, <1>4, <2>1
  <1> HIDE DEF token, Word
  <1> QED
    BY <1>7, <1>8 DEF AfterToken

\* A receiver that expects total_zeros finds what was written.
LEMMA ReadsZeros ==
  ASSUME InputOK, NEW r, r.num \in 1..(MaxCoeffs - 1), NEW z \in 0..(MaxCoeffs - r.num),
         NEW w, w = TotalZeros(m_data_type, r.num, z)
  PROVE  ReadTotalZeros(r, CodeBits(w)) = AfterZeros(r, w, z)
  <1> DEFINE Counts == 0..(MaxCoeffs - r.num)
             Word(y) == TotalZeros(m_data_type, r.num, y)
             rest == CodeBits(w)
             found == {y \in Counts : Possible(Word(y), rest)}
             zeros == CHOOSE y \in Counts : found = {y}
  <1>0. MaxCoeffs \in {4, 15, 16}
    BY Sizes DEF InputOK, MaxCoeffs
  <1>1. z \in Counts /\ Word(z) = w
    OBVIOUS
  <1>2. /\ w \in TableWords
        /\ \A y \in Counts : Word(y) \in TableWords /\ (y # z => Apart(w, Word(y)))
    BY ZerosWords DEF InputOK, MaxCoeffs
  <1>3. found = {z}
    <2> HIDE DEF Word, Counts
    <2>1. z \in found
      BY <1>1, PossibleItself
    <2>2. ASSUME NEW y \in Counts, y # z
          PROVE  y \notin found
      <3>1. ~Possible(Word(y), rest)
        BY <1>2, <2>2, PrefixFree
      <3> QED
        BY <3>1
    <2> HIDE DEF rest
    <2> QED
      BY <2>1, <2>2
  <1>4. zeros = z
    <2> HIDE DEF found, Counts
    <2> QED
      BY <1>1, <1>3
  <1>5. w.len <= Len(rest)
    <2>1. Len(rest) = w.len /\ w.len \in 1..44
      BY <1>2, WordLength DEF Words
    <2> HIDE DEF rest
    <2> QED
      BY <2>1
  <1>6. \E y \in Counts : found = {y} /\ Word(y).len <= Len(rest)
    <2> HIDE DEF found, Counts, Word
    <2> QED
      BY <1>1, <1>3, <1>5
  <1>7. r.num # MaxCoeffs
    BY <1>0
  <1>8. ReadTotalZeros(r, rest) =
          [r EXCEPT !.pos = @ + Word(zeros).len, !.zeros = zeros, !.index = r.num, !.reads = "runs"]
    BY <1>6, <1>7, Zenon DEF ReadTotalZeros
  <1> HIDE DEF zeros, Word
  <1> QED
    BY <1>1, <1>4, <1>8 DEF AfterZeros

\* A receiver that expects run_before finds what was written.
LEMMA ReadsRun ==
  ASSUME NEW r, r.zeros \in 1..14, NEW n \in 0..r.zeros,
         NEW w, w = RunBefore(RunTableIndex(r.zeros), n)
  PROVE  ReadRun(r, CodeBits(w)) = AfterRun(r, w, n)
  <1> DEFINE Counts == 0..r.zeros
             row == IF r.zeros > 6 THEN 6 ELSE r.zeros - 1
             Word(y) == RunBefore(row, y)
             rest == CodeBits(w)
             found == {y \in Counts : Possible(Word(y), rest)}
             before == CHOOSE y \in Counts : found = {y}
  <1>0. RunTableIndex(r.zeros) = row
    BY DEF RunTableIndex, s_run_table_no_cdc_size
  <1>1. n \in Counts /\ Word(n) = w
    BY <1>0
  <1>2. /\ w \in TableWords
        /\ \A y \in Counts : Word(y) \in TableWords /\ (y # n => Apart(w, Word(y)))
    <2>1. PICK x : x = row /\ x = (IF r.zeros > 6 THEN 6 ELSE r.zeros - 1)
      OBVIOUS
    <2> HIDE DEF row
    <2> QED
      BY <1>1, <2>1, RunWords
  <1> HIDE DEF row
  <1>3. found = {n}
    <2> HIDE DEF Word, Counts
    <2>1. n \in found
      BY <1>1, PossibleItself
    <2>2. ASSUME NEW y \in Counts, y # n
          PROVE  y \notin found
      <3>1. ~Possible(Word(y), rest)
        BY <1>2, <2>2, PrefixFree
      <3> QED
        BY <3>1
    <2> HIDE DEF rest
    <2> QED
      BY <2>1, <2>2
  <1>4. before = n
    <2> HIDE DEF found, Counts
    <2> QED
      BY <1>1, <1>3
  <1>5. w.len <= Len(rest)
    <2>1. Len(rest) = w.len /\ w.len \in 1..44
      BY <1>2, WordLength DEF Words
    <2> HIDE DEF rest
    <2> QED
      BY <2>1
  <1>6. \E y \in Counts : found = {y} /\ Word(y).len <= Len(rest)
    <2> HIDE DEF found, Counts, Word
    <2> QED
      BY <1>1, <1>3, <1>5
  <1>7. ReadRun(r, rest) =
          [r EXCEPT !.pos = @ + Word(before).len,
                    !.block = [@ EXCEPT ![r.index + r.zeros] = r.levels[r.index]],
                    !.zeros = @ - before, !.index = @ - 1]
    BY <1>6, Zenon DEF ReadRun, row
  <1> HIDE DEF before, Word
  <1> QED
    BY <1>1, <1>4, <1>7 DEF AfterRun

-----------------------------------------------------------------------------
(* A level: a prefix of zeros, a one and a suffix.                         *)

\* A larger exponent makes a larger power.
LEMMA PowerGrows ==
  ASSUME NEW m \in 0..32, NEW j \in 0..32, m <= j
  PROVE  2^m <= 2^j
  <1>1. PICK k \in 0..32 : k = j - m /\ m + k = j
    OBVIOUS
  <1>2. PICK a \in Nat \ {0}, b \in Nat \ {0} : a = 2^m /\ b = 2^k
    BY PowerDoubles
  <1>3. 2^j = a * b
    <2>1. m + k <= 32
      BY <1>1
    <2>2. 2^(m + k) = 2^m * 2^k
      BY <2>1, PowerOfSum
    <2> QED
      BY <1>1, <1>2, <2>2
  <1>4. a * b >= a
    <2>1. a * b = a + a * (b - 1)
      OBVIOUS
    <2>2. a * (b - 1) >= 0
      BY <1>2
    <2>3. a * (b - 1) \in Int
      OBVIOUS
    <2> QED
      BY <2>1, <2>2, <2>3
  <1> QED
    BY <1>2, <1>3, <1>4

\* The bits of a number of m bits behind a one.
BehindOne(x, v, m) == v < 2^m /\ x = 2^m + v

BitsOfBoth(x, v, m) ==
  /\ x \in Nat
  /\ \A j \in 0..(m - 1) : Bit(x, j) = Bit(v, j)
  /\ Bit(x, m) = 1
  /\ \A j \in (m + 1)..31 : Bit(x, j) = 0

\* The bits of a number behind the one at its beginning.
LEMMA BitsBehindOne ==
  ASSUME NEW m \in 0..24, NEW v \in Nat, NEW x, BehindOne(x, v, m)
  PROVE  BitsOfBoth(x, v, m)
  <1>1. PICK p \in Nat \ {0} : p = 2^m
    <2>1. m \in 0..32
      OBVIOUS
    <2> QED
      BY <2>1, PowerDoubles
  <1>2. x = p + v /\ x \in Nat /\ v \in 0..(p - 1)
    BY <1>1 DEF BehindOne
  <1>3. Bit(x, m) = 1
    <2>1. x = p * 1 + v
      BY <1>2
    <2>2. x \div p = 1
      BY <1>2, <2>1, Quotient
    <2> QED
      BY <1>1, <2>2 DEF Bit
  <1>4. ASSUME NEW j \in (m + 1)..31
        PROVE  Bit(x, j) = 0
    <2>1. m \in 0..32 /\ m < 32 /\ m + 1 \in 0..32 /\ j \in 0..32 /\ m + 1 <= j
      OBVIOUS
    <2>2. 2^(m + 1) = 2 * p
      BY <1>1, <2>1, PowerDoubles
    <2>3. PICK q \in Nat : q = 2^j /\ 2 * p <= q
      BY <2>1, <2>2, PowerDoubles, PowerGrows
    <2>4. x < 2^j
      BY <1>2, <2>3
    <2>5. x \div 2^j = 0
      BY <1>2, <2>1, <2>4, BelowPower
    <2>6. 0 % 2 = 0
      OBVIOUS
    <2> QED
      BY <2>5, <2>6, Zenon DEF Bit
  <1>5. ASSUME NEW j \in 0..(m - 1)
        PROVE  Bit(x, j) = Bit(v, j)
    <2>1. PICK k \in 0..31 : j + (k + 1) = m /\ k + 1 \in 0..32 /\ k < 32 /\ k \in 0..32 /\ j \in 0..32
      <3>1. m - 1 - j \in 0..31 /\ j + ((m - 1 - j) + 1) = m /\ (m - 1 - j) + 1 \in 0..32
        OBVIOUS
      <3> QED
        BY <3>1
    <2>2. PICK a \in Nat \ {0}, b \in Nat \ {0} : a = 2^j /\ b = 2^k /\ 2^(k + 1) = 2 * b
      BY <2>1, PowerDoubles
    <2>3. p = a * (2 * b)
      <3>1. PICK n \in 0..32 : n = k + 1 /\ j + n = m /\ j + n <= 32
        BY <2>1
      <3>2. 2^(j + n) = 2^j * 2^n
        BY <2>1, <3>1, PowerOfSum
      <3> QED
        BY <1>1, <2>2, <3>1, <3>2
    <2>4. PICK q \in Nat, r \in 0..(a - 1) : q = v \div a /\ v = a * q + r
      BY Division
    <2>5. x = a * (2 * b + q) + r
      <3>1. a * (2 * b + q) = a * (2 * b) + a * q
        OBVIOUS
      <3>2. a * (2 * b) \in Int /\ a * q \in Int /\ a * (2 * b + q) \in Int
        OBVIOUS
      <3> QED
        BY <1>2, <2>3, <2>4, <3>1, <3>2
    <2>6. x \div a = 2 * b + q
      <3>1. PICK t \in Nat : t = 2 * b + q
        OBVIOUS
      <3>2. x = a * t + r
        BY <2>5, <3>1
      <3>3. x \div a = t
        BY <1>2, <3>2, Quotient
      <3> QED
        BY <3>1, <3>3
    <2>7. (2 * b + q) % 2 = q % 2
      OBVIOUS
    <2> QED
      BY <2>2, <2>4, <2>6, <2>7 DEF Bit
  <1> QED
    BY <1>2, <1>3, <1>4, <1>5 DEF BitsOfBoth

\* What a receiver makes of such a codeword.
HasParts(w, p, m, v) == v < 2^m /\ w = Codeword(p + 1 + m, 2^m + v)

PartsRead(s, p, m, v) ==
  /\ s \in Seq({0, 1})
  /\ Len(s) = p + 1 + m
  /\ \E k \in DOMAIN s : s[k] = 1
  /\ FirstOne(s) = p + 1
  /\ FixedLength(s, p + 2, m) = v

\* A receiver finds the prefix, the one and the suffix.
LEMMA LevelParts ==
  ASSUME NEW p \in 0..23, NEW m \in 0..20, NEW v \in Nat, NEW w, HasParts(w, p, m, v)
  PROVE  PartsRead(CodeBits(w), p, m, v)
  <1>0. v < 2^m /\ w = Codeword(p + 1 + m, 2^m + v)
    BY DEF HasParts
  <1>1. PICK x : x = 2^m + v
    OBVIOUS
  <1>2. /\ x \in Nat
        /\ \A j \in 0..(m - 1) : Bit(x, j) = Bit(v, j)
        /\ Bit(x, m) = 1
        /\ \A j \in (m + 1)..31 : Bit(x, j) = 0
    <2>1. m \in 0..24
      OBVIOUS
    <2>2. BehindOne(x, v, m)
      BY <1>0, <1>1 DEF BehindOne
    <2>3. BitsOfBoth(x, v, m)
      BY <2>1, <2>2, BitsBehindOne
    <2> QED
      BY <2>3 DEF BitsOfBoth
  <1>3. w \in Words /\ w.len = p + 1 + m /\ w.code = x
    BY <1>0, <1>1, <1>2 DEF Codeword, Words
  <1>4. PICK s : s = CodeBits(w)
    OBVIOUS
  <1>5. /\ s \in Seq({0, 1}) /\ Len(s) = p + 1 + m
        /\ \A i \in 1..(p + 1 + m) :
             s[i] = IF p + 1 + m - i > 24 THEN 0 ELSE Bit(x, p + 1 + m - i)
    <2>1. /\ s \in Seq({0, 1}) /\ Len(s) = w.len
          /\ \A i \in 1..w.len :
               s[i] = IF w.len - i > 24 THEN 0 ELSE Bit(w.code, w.len - i)
      BY <1>3, <1>4, CodeBitsAre, Zenon
    <2>2. PICK n : n = p + 1 + m
      OBVIOUS
    <2>3. w.len = n /\ w.code = x
      BY <1>3, <2>2
    <2>4. /\ s \in Seq({0, 1}) /\ Len(s) = n
          /\ \A i \in 1..n : s[i] = IF n - i > 24 THEN 0 ELSE Bit(x, n - i)
      BY <2>1, <2>3, Zenon
    <2> QED
      BY <2>2, <2>4
  <1>6. \A i \in 1..p : s[i] = 0
    <2> TAKE i \in 1..p
    <2>1. i \in 1..(p + 1 + m)
      OBVIOUS
    <2>2. CASE p + 1 + m - i > 24
      BY <1>5, <2>1, <2>2
    <2>3. CASE ~(p + 1 + m - i > 24)
      <3>1. p + 1 + m - i \in (m + 1)..31
        BY <2>3
      <3> QED
        BY <1>2, <1>5, <2>1, <2>3, <3>1
    <2> QED
      BY <2>2, <2>3
  <1>7. s[p + 1] = 1
    <2>1. p + 1 \in 1..(p + 1 + m) /\ p + 1 + m - (p + 1) = m /\ ~(m > 24)
      OBVIOUS
    <2> QED
      BY <1>2, <1>5, <2>1
  <1>8. \A i \in 1..m : s[p + 2 + i - 1] = Bit(v, m - i)
    <2> TAKE i \in 1..m
    <2>1. PICK k \in 1..(p + 1 + m) : k = p + 2 + i - 1
      OBVIOUS
    <2>2. p + 1 + m - k = m - i /\ ~(m - i > 24) /\ m - i \in 0..(m - 1)
      BY <2>1
    <2> QED
      BY <1>2, <1>5, <2>1, <2>2
  <1>9. FirstOne(s) = p + 1
    <2>1. DOMAIN s = 1..(p + 1 + m)
      BY <1>5
    <2>2. p + 1 \in DOMAIN s /\ s[p + 1] = 1 /\ \A j \in 1..((p + 1) - 1) : s[j] = 0
      BY <1>6, <1>7, <2>1
    <2>3. ASSUME NEW k \in DOMAIN s, s[k] = 1, \A j \in 1..(k - 1) : s[j] = 0
          PROVE  k = p + 1
      <3>1. ~(k <= p)
        BY <1>6, <2>1, <2>3
      <3>2. ~(p + 1 <= k - 1)
        BY <1>7, <2>1, <2>3
      <3> QED
        BY <2>1, <3>1, <3>2
    <2> QED
      BY <2>2, <2>3 DEF FirstOne
  <1>10. FixedLength(s, p + 2, m) = v
    <2>1. PICK b \in Nat \ {0} : b = 2^m
      <3>1. m \in 0..32
        OBVIOUS
      <3> QED
        BY <3>1, PowerDoubles
    <2>2. v \in 0..(2^m - 1)
      BY <1>0, <2>1
    <2>3. ASSUME NEW u \in 0..(2^m - 1), \A i \in 1..m : s[p + 2 + i - 1] = Bit(u, m - i)
          PROVE  u = v
      <3>1. u \in Nat /\ u < 2^m
        BY <2>1
      <3>2. \A j \in 0..(m - 1) : Bit(u, j) = Bit(v, j)
        <4> TAKE j \in 0..(m - 1)
        <4>1. m - j \in 1..m /\ m - (m - j) = j
          OBVIOUS
        <4> QED
          BY <1>8, <2>3, <4>1
      <3>3. m \in 0..31
        OBVIOUS
      <3> QED
        BY <1>0, <3>1, <3>2, <3>3, SameNumber
    <2> QED
      BY <1>8, <2>2, <2>3 DEF FixedLength
  <1>11. \E k \in DOMAIN s : s[k] = 1
    <2>1. p + 1 \in DOMAIN s
      BY <1>5
    <2> QED
      BY <1>7, <2>1
  <1> QED
    BY <1>4, <1>5, <1>9, <1>10, <1>11 DEF PartsRead

\* How often an escape is lengthened.
LEMMA PrefixNumIs ==
  ASSUME NEW x \in Nat, x < 2^20, NEW n, n = PrefixNum(x)
  PROVE  n \in 0..8 /\ x < 4096 * 2^n /\ (n > 0 => x >= 4096 * 2^(n - 1))
  <1> DEFINE T == {k \in 0..8 : x < 4096 * 2^k}
  <1>1. T \subseteq Nat /\ 8 \in T
    <2>1. 2^20 = 1048576 /\ 2^8 = 256
      BY Powers
    <2> QED
      BY <2>1
  <1>2. PICK k \in T : \A m \in T : k <= m
    <2> HIDE DEF T
    <2> QED
      BY <1>1, Least
  <1>3. k \in 0..8 /\ x < 4096 * 2^k
    OBVIOUS
  <1>4. k > 0 => x >= 4096 * 2^(k - 1)
    <2> SUFFICES ASSUME k > 0
                 PROVE  x >= 4096 * 2^(k - 1)
      OBVIOUS
    <2>1. k - 1 \in 0..8 /\ k - 1 \notin T
      <3> HIDE DEF T
      <3>1. k - 1 \in 0..8 /\ ~(k <= k - 1)
        BY <1>3
      <3> QED
        BY <1>2, <3>1
    <2>2. PICK q \in Nat : q = 2^(k - 1)
      <3> HIDE DEF T
      <3>1. k - 1 \in 0..32
        BY <1>3, <2>1
      <3>2. 2^(k - 1) \in Nat
        BY ONLY <3>1, PowerDoubles
      <3> QED
        BY <3>2
    <2>3. ~(x < 4096 * q)
      BY <2>1, <2>2
    <2> QED
      BY <2>2, <2>3
  <1> DEFINE Number(i) == x < 4096 * 2^i /\ (i > 0 => x >= 4096 * 2^(i - 1))
  <1>5. n = CHOOSE i \in 0..8 : Number(i)
    BY DEF PrefixNum
  <1>6. k \in 0..8 /\ Number(k)
    BY <1>3, <1>4
  <1>7. n \in 0..8 /\ Number(n)
    <2> HIDE DEF Number
    <2> QED
      BY <1>5, <1>6
  <1> QED
    BY <1>7

\* What a receiver makes of a prefix and a suffix: the size of the suffix and
\* the number coded.
SuffixSize(p, suffix) ==
  IF p = 14 /\ suffix = 0 THEN 4 ELSE IF p >= 15 THEN p - 3 ELSE suffix

NumberOf(p, v, suffix) ==
  (IF p >= 15 THEN 15 ELSE p) * 2^suffix + v
  + (IF p >= 15 /\ suffix = 0 THEN 15 ELSE 0) + (IF p >= 16 THEN 2^(p - 3) - 4096 ELSE 0)

\* The number of a level.
Number(level) == 2 * (Abs(level) - 1) + Sign(level)

\* A codeword from which a receiver gets the level.
LevelWord(w, level, suffix, p, m, v) ==
  /\ HasParts(w, p, m, v)
  /\ m = SuffixSize(p, suffix)
  /\ NumberOf(p, v, suffix) = Number(level)

SaysLevel(w, level, suffix) ==
  \E p \in 0..23, m \in 0..20, v \in Nat : LevelWord(w, level, suffix, p, m, v)

\* A level has a magnitude and a sign.
LEMMA SignIs ==
  ASSUME NEW level \in Int, level # 0
  PROVE  Abs(level) \in Nat \ {0} /\ Sign(level) \in {0, 1}
  BY DEF Abs, Sign

\* The short codes and those of a suffix of four bits.
LEMMA ShortLevel0 ==
  ASSUME NEW level \in Int, level # 0, Abs(level) < 16, NEW w,
         w = IF Abs(level) < 8 THEN Codeword(2 * Abs(level) + Sign(level) - 1, 1)
             ELSE Codeword(19, 16 + 2 * (Abs(level) - 8) + Sign(level))
  PROVE  SaysLevel(w, level, 0)
  <1>1. PICK a \in Nat \ {0}, s \in {0, 1} : a = Abs(level) /\ s = Sign(level)
    BY SignIs
  <1>2. 2^0 = 1 /\ 2^4 = 16
    BY Powers
  <1>3. CASE a < 8
    <2>1. PICK p \in 0..13 : p = 2 * a + s - 2
      BY <1>1, <1>3
    <2>2. w = Codeword(2 * a + s - 1, 1)
      BY <1>1, <1>3
    <2>3. 2 * a + s - 1 = p + 1 + 0 /\ 1 = 2^0 + 0
      BY <1>2, <2>1
    <2>4. SuffixSize(p, 0) = 0
      BY DEF SuffixSize
    <2>5. NumberOf(p, 0, 0) = p
      BY <1>2 DEF NumberOf
    <2>6. Number(level) = p
      BY <1>1, <2>1 DEF Number
    <2>7. LevelWord(w, level, 0, p, 0, 0)
      BY <1>2, <2>2, <2>3, <2>4, <2>5, <2>6 DEF LevelWord, HasParts
    <2> QED
      BY <2>7 DEF SaysLevel
  <1>4. CASE ~(a < 8)
    <2>1. PICK v \in 0..15 : v = 2 * (a - 8) + s
      BY <1>1, <1>4
    <2>2. w = Codeword(19, 16 + 2 * (a - 8) + s)
      BY <1>1, <1>4
    <2>3. 19 = 14 + 1 + 4 /\ 16 + 2 * (a - 8) + s = 2^4 + v /\ v < 2^4
      BY <1>2, <2>1
    <2>4. SuffixSize(14, 0) = 4
      BY DEF SuffixSize
    <2>5. NumberOf(14, v, 0) = 14 + v
      BY <1>2 DEF NumberOf
    <2>6. Number(level) = 14 + v
      BY <1>1, <2>1 DEF Number
    <2>7. LevelWord(w, level, 0, 14, 4, v)
      BY <2>2, <2>3, <2>4, <2>5, <2>6 DEF LevelWord, HasParts
    <2> QED
      BY <2>7 DEF SaysLevel
  <1> QED
    BY <1>3, <1>4

\* An escape of twelve bits, for the levels from a start on.
EscapesFrom(start, suffix) == start = IF suffix = 0 THEN 16 ELSE 15 * 2^(suffix - 1) + 1

ShortEscape(level, start) == Codeword(28, 4096 + 2 * (Abs(level) - start) + Sign(level))

\* The escape with a suffix of twelve bits.
LEMMA Escape12 ==
  ASSUME NEW level \in Int, level # 0, Abs(level) <= MaxLevel, NEW suffix \in 0..6,
         NEW start \in Nat, EscapesFrom(start, suffix), start <= Abs(level)
  PROVE  SaysLevel(ShortEscape(level, start), level, suffix)
  <1>1. PICK a \in Nat \ {0}, s \in {0, 1} : a = Abs(level) /\ s = Sign(level)
    BY SignIs
  <1>2. a <= 2063
    <2>1. 2^11 = 2048
      BY Powers
    <2> QED
      BY <1>1, <2>1 DEF MaxLevel
  <1>3. 2^12 = 4096
    BY Powers
  <1>4. PICK half \in Nat : 2^suffix = IF suffix = 0 THEN 1 ELSE 2 * half
    <2>1. CASE suffix = 0
      BY <2>1, Powers
    <2>2. CASE suffix # 0
      <3>1. suffix - 1 \in 0..32 /\ suffix - 1 < 32 /\ (suffix - 1) + 1 = suffix
        BY <2>2
      <3>2. 2^((suffix - 1) + 1) = 2 * 2^(suffix - 1) /\ 2^(suffix - 1) \in Nat
        BY <3>1, PowerDoubles
      <3> QED
        BY <2>2, <3>1, <3>2
    <2> QED
      BY <2>1, <2>2
  <1>5. 15 * 2^suffix + (IF suffix = 0 THEN 15 ELSE 0) = 2 * (start - 1)
    <2>1. CASE suffix = 0
      BY <1>4, <2>1 DEF EscapesFrom
    <2>2. CASE suffix # 0
      <3>1. suffix - 1 \in 0..32 /\ suffix - 1 < 32 /\ (suffix - 1) + 1 = suffix
        BY <2>2
      <3>2. PICK u \in Nat : u = 2^(suffix - 1) /\ 2^suffix = 2 * u
        BY <3>1, PowerDoubles
      <3>3. start = 15 * u + 1
        BY <2>2, <3>2 DEF EscapesFrom
      <3> QED
        BY <2>2, <3>2, <3>3
    <2> QED
      BY <2>1, <2>2
  <1>7. start >= 16
    <2>1. CASE suffix = 0
      BY <2>1 DEF EscapesFrom
    <2>2. CASE suffix # 0
      <3>1. suffix - 1 \in 0..32
        BY <2>2
      <3>2. PICK u \in Nat \ {0} : u = 2^(suffix - 1)
        BY <3>1, PowerDoubles
      <3> QED
        BY <2>2, <3>2 DEF EscapesFrom
    <2> QED
      BY <2>1, <2>2
  <1>8. PICK v \in 0..4095 : v = 2 * (a - start) + s
    <2>1. start <= a
      BY <1>1
    <2> QED
      BY <1>2, <1>7, <2>1
  <1>9. ShortEscape(level, start) = Codeword(28, 4096 + 2 * (a - start) + s)
    BY <1>1 DEF ShortEscape
  <1>10. 28 = 15 + 1 + 12 /\ 4096 + 2 * (a - start) + s = 2^12 + v /\ v < 2^12
    BY <1>3, <1>8
  <1>11. SuffixSize(15, suffix) = 12
    BY DEF SuffixSize
  <1>12. NumberOf(15, v, suffix) = 2 * (start - 1) + v
    <2>1. PICK t \in Int : t = 2^suffix
      BY <1>4
    <2> QED
      BY <1>5, <2>1 DEF NumberOf
  <1>13. Number(level) = 2 * (start - 1) + v
    BY <1>1, <1>8 DEF Number
  <1>14. LevelWord(ShortEscape(level, start), level, suffix, 15, 12, v)
    BY <1>9, <1>10, <1>11, <1>12, <1>13 DEF LevelWord, HasParts
  <1>15. 15 \in 0..23 /\ 12 \in 0..20 /\ v \in Nat
    OBVIOUS
  <1> QED
    BY <1>14, <1>15 DEF SaysLevel

\* An escape that is lengthened as the level needs.
EscapesLong(level) == Abs(level) >= 16 /\ Abs(level) < 2^20 - 2032

EscapeWord(level) ==
  Codeword(28 + 2 * PrefixNum(Abs(level) + 2032), 2 * (Abs(level) + 2032) + Sign(level))

\* The escape of WriteLevel0 whose suffix grows with the level.
LEMMA EscapeLong ==
  ASSUME NEW level \in Int, EscapesLong(level)
  PROVE  SaysLevel(EscapeWord(level), level, 0)
  <1>0. level # 0
    BY DEF Abs, EscapesLong
  <1>1. PICK a \in Nat \ {0}, s \in {0, 1} : a = Abs(level) /\ s = Sign(level)
    BY <1>0, SignIs
  <1>2. PICK x \in Nat : x = a + 2032
    OBVIOUS
  <1>3. x < 2^20
    <2>1. PICK t \in Int : t = 2^20
      BY Powers
    <2>2. a < t - 2032
      BY <1>1, <2>1 DEF EscapesLong
    <2> QED
      BY <1>2, <2>1, <2>2
  <1> DEFINE Escape(n) == n = PrefixNum(x) /\ x < 4096 * 2^n /\ (n > 0 => x >= 4096 * 2^(n - 1))
  <1>4. PICK n \in 0..8 : Escape(n)
    <2>1. PICK k : k = PrefixNum(x)
      OBVIOUS
    <2>2. k \in 0..8 /\ x < 4096 * 2^k /\ (k > 0 => x >= 4096 * 2^(k - 1))
      BY <1>3, <2>1, PrefixNumIs
    <2>3. Escape(k) /\ k \in 0..8
      BY <2>1, <2>2
    <2> HIDE DEF Escape
    <2> QED
      BY <2>3
  <1>5. PICK b \in Nat \ {0} : b = 2^n /\ 2^(12 + n) = 4096 * b
    <2>1. n \in 0..32 /\ 12 \in 0..32 /\ 12 + n <= 32
      OBVIOUS
    <2>2. PICK b \in Nat \ {0} : b = 2^n
      BY <2>1, PowerDoubles
    <2>3. PICK k \in 0..32 : k = 12 /\ k + n <= 32
      OBVIOUS
    <2>4. 2^(k + n) = 2^k * 2^n
      BY <2>1, <2>3, PowerOfSum
    <2>5. 2^12 = 4096
      BY Powers
    <2> QED
      BY <2>2, <2>3, <2>4, <2>5
  <1>6. 2 * x >= 4096 * b
    <2>1. CASE n = 0
      <3>1. b = 1
        BY <1>5, <2>1, Powers
      <3>2. a >= 16
        BY <1>1 DEF EscapesLong
      <3> QED
        BY <1>2, <3>1, <3>2
    <2>2. CASE n # 0
      <3>1. n - 1 \in 0..32 /\ n - 1 < 32 /\ (n - 1) + 1 = n
        BY <2>2
      <3>2. PICK h \in Nat : h = 2^(n - 1) /\ 2^((n - 1) + 1) = 2 * h
        <4>1. PICK k \in 0..32 : k = n - 1 /\ k < 32
          BY <3>1
        <4>2. 2^k \in Nat /\ 2^(k + 1) = 2 * 2^k
          BY <4>1, PowerDoubles
        <4> QED
          BY <4>1, <4>2
      <3>3. x >= 4096 * h /\ b = 2 * h
        BY <1>4, <1>5, <2>2, <3>1, <3>2
      <3> QED
        BY <3>3
    <2> QED
      BY <2>1, <2>2
  <1>7. PICK v \in Nat : v = 2 * x + s - 4096 * b /\ v < 4096 * b
    BY <1>4, <1>5, <1>6
  <1>8. EscapeWord(level) = Codeword(28 + 2 * n, 2 * x + s)
    BY <1>1, <1>2, <1>4 DEF EscapeWord
  <1>9. PICK p \in 0..23, m \in 0..20 : p = 15 + n /\ m = 12 + n
    OBVIOUS
  <1>10. 28 + 2 * n = p + 1 + m /\ 2 * x + s = 2^m + v /\ v < 2^m
    BY <1>5, <1>7, <1>9
  <1>11. SuffixSize(p, 0) = m
    BY <1>9 DEF SuffixSize
  <1>12. NumberOf(p, v, 0) = 30 + v + 4096 * b - 4096
    <2>1. 2^0 = 1
      BY Powers
    <2>2. p - 3 = m /\ 2^m = 4096 * b
      BY <1>5, <1>9
    <2>3. p >= 16 => NumberOf(p, v, 0) = 15 * 1 + v + 15 + (4096 * b - 4096)
      BY <2>1, <2>2 DEF NumberOf
    <2>4. ~(p >= 16) => NumberOf(p, v, 0) = 15 * 1 + v + 15 + 0
      BY <1>9, <2>1 DEF NumberOf
    <2>5. ~(p >= 16) => b = 1
      <3>1. ~(p >= 16) => n = 0
        BY <1>9
      <3>2. 2^0 = 1
        BY Powers
      <3> QED
        BY <1>5, <3>1, <3>2
    <2> QED
      BY <2>3, <2>4, <2>5
  <1>13. Number(level) = 30 + v + 4096 * b - 4096
    BY <1>1, <1>2, <1>7 DEF Number
  <1>14. LevelWord(EscapeWord(level), level, 0, p, m, v)
    BY <1>8, <1>10, <1>11, <1>12, <1>13 DEF LevelWord, HasParts
  <1> QED
    BY <1>14 DEF SaysLevel

\* The codes of the other suffix lengths.
LEMMA LevelNSays ==
  ASSUME NEW level \in Int, level # 0, Abs(level) <= MaxLevel, NEW suffix \in 1..6
  PROVE  SaysLevel(LevelN(level, suffix), level, suffix)
  <1>1. PICK a \in Nat \ {0}, s \in {0, 1} : a = Abs(level) /\ s = Sign(level)
    BY SignIs
  <1>2. PICK unit \in Nat \ {0} : unit = 2^(suffix - 1) /\ 2^suffix = 2 * unit
    <2>1. suffix - 1 \in 0..32 /\ suffix - 1 < 32 /\ (suffix - 1) + 1 = suffix
      OBVIOUS
    <2>2. 2^((suffix - 1) + 1) = 2 * 2^(suffix - 1) /\ 2^(suffix - 1) \in Nat \ {0}
      BY <2>1, PowerDoubles
    <2> QED
      BY <2>1, <2>2
  <1>3. PICK start \in Nat : start = 15 * unit + 1
    OBVIOUS
  <1> DEFINE Form(x, u, t, e) ==
               IF x < e
               THEN Codeword((x - 1) \div u + 1 + suffix, 2 * u + 2 * ((x - 1) % u) + t)
               ELSE Codeword(28, 4096 + 2 * (x - e) + t)
  <1>4. LevelN(level, suffix) = Form(a, unit, s, start)
    <2>1. LevelN(level, suffix) = Form(Abs(level), 2^(suffix - 1), Sign(level), 15 * 2^(suffix - 1) + 1)
      BY DEF LevelN
    <2> HIDE DEF Form
    <2> QED
      BY <1>1, <1>2, <1>3, <2>1
  <1>5. CASE a < start
    <2>1. PICK c \in Nat : c = a - 1 /\ c < 15 * unit
      BY <1>3, <1>5
    <2>2. PICK q \in Nat, r \in 0..(unit - 1) : q = c \div unit /\ r = c % unit /\ c = unit * q + r
      BY Division
    <2>3. q < 15
      <3> SUFFICES ASSUME q >= 15
                   PROVE  FALSE
        OBVIOUS
      <3>1. unit * q = unit * 15 + unit * (q - 15)
        OBVIOUS
      <3>2. unit * (q - 15) >= 0
        OBVIOUS
      <3>3. unit * q \in Int /\ unit * (q - 15) \in Int
        OBVIOUS
      <3> QED
        BY <2>1, <2>2, <3>1, <3>2, <3>3
    <2>4. PICK v \in Nat : v = 2 * r + s /\ v < 2 * unit
      OBVIOUS
    <2>5. LevelN(level, suffix) = Codeword(q + 1 + suffix, 2 * unit + 2 * r + s)
      <3>1. LevelN(level, suffix) =
              Codeword((a - 1) \div unit + 1 + suffix, 2 * unit + 2 * ((a - 1) % unit) + s)
        BY <1>4, <1>5
      <3>2. (a - 1) \div unit = q /\ (a - 1) % unit = r
        BY <2>1, <2>2
      <3> QED
        BY <3>1, <3>2
    <2>6. 2 * unit + 2 * r + s = 2^suffix + v /\ v < 2^suffix
      BY <1>2, <2>4
    <2>7. SuffixSize(q, suffix) = suffix
      BY <2>3 DEF SuffixSize
    <2>8. NumberOf(q, v, suffix) = q * (2 * unit) + v
      <3>1. PICK t \in Int : t = q * (2 * unit)
        OBVIOUS
      <3>2. NumberOf(q, v, suffix) = t + v + 0 + 0
        BY <1>2, <2>3, <3>1 DEF NumberOf
      <3> QED
        BY <3>1, <3>2
    <2>9. Number(level) = q * (2 * unit) + v
      <3>1. q * (2 * unit) = 2 * (unit * q)
        OBVIOUS
      <3>2. unit * q \in Int
        OBVIOUS
      <3> QED
        BY <1>1, <2>1, <2>2, <2>4, <3>1, <3>2 DEF Number
    <2>10. LevelWord(LevelN(level, suffix), level, suffix, q, suffix, v)
      BY <2>5, <2>6, <2>7, <2>8, <2>9 DEF LevelWord, HasParts
    <2>11. q \in 0..23 /\ suffix \in 0..20
      BY <2>3
    <2> QED
      BY <2>10, <2>11 DEF SaysLevel
  <1>6. CASE ~(a < start)
    <2>1. LevelN(level, suffix) = ShortEscape(level, start)
      BY <1>1, <1>4, <1>6 DEF ShortEscape
    <2>2. suffix \in 0..6 /\ start <= Abs(level)
      BY <1>1, <1>6
    <2>3. EscapesFrom(start, suffix)
      BY <1>2, <1>3 DEF EscapesFrom
    <2> QED
      BY <2>1, <2>2, <2>3, Escape12
  <1> QED
    BY <1>5, <1>6

\* Whatever the suffix length, the code the coder chooses says the level.
LEMMA LevelCodeSays ==
  ASSUME NEW level \in Int, level # 0, NEW suffix \in 0..6,
         Abs(level) <= MaxLevel \/ (m_data_type # "ChromaDC" /\ suffix = 0 /\ Abs(level) < 2^20 - 2032)
  PROVE  SaysLevel(LevelCode(level, suffix), level, suffix)
  <1>1. PICK a \in Nat \ {0}, s \in {0, 1} : a = Abs(level) /\ s = Sign(level)
    BY SignIs
  <1>2. CASE suffix > 0
    <2>1. 2^20 = 1048576 /\ 2^11 = 2048 /\ suffix \in 1..6
      BY <1>2, Powers
    <2>2. Abs(level) <= MaxLevel
      BY <1>2
    <2> QED
      BY <1>2, <2>1, <2>2, LevelNSays DEF LevelCode
  <1>3. CASE suffix = 0 /\ a < 16
    <2>1. LevelCode(level, suffix) =
            IF Abs(level) < 8 THEN Codeword(2 * Abs(level) + Sign(level) - 1, 1)
            ELSE Codeword(19, 16 + 2 * (Abs(level) - 8) + Sign(level))
      BY <1>1, <1>3 DEF LevelCode, CdcLevel0, NonCdcLevel0
    <2> QED
      BY <1>1, <1>3, <2>1, ShortLevel0
  <1>4. CASE suffix = 0 /\ ~(a < 16) /\ m_data_type = "ChromaDC"
    <2>1. LevelCode(level, suffix) = ShortEscape(level, 16)
      BY <1>1, <1>4 DEF LevelCode, CdcLevel0, ShortEscape
    <2>2. Abs(level) <= MaxLevel /\ 16 <= Abs(level)
      BY <1>1, <1>4
    <2>3. PICK start \in Nat : start = 16 /\ EscapesFrom(start, suffix)
      BY <1>4 DEF EscapesFrom
    <2> QED
      BY <2>1, <2>2, <2>3, Escape12
  <1>5. CASE suffix = 0 /\ ~(a < 16) /\ m_data_type # "ChromaDC"
    <2>1. LevelCode(level, suffix) = EscapeWord(level)
      BY <1>1, <1>5 DEF LevelCode, NonCdcLevel0, EscapeWord
    <2>2. EscapesLong(level)
      <3>1. 2^20 = 1048576 /\ 2^11 = 2048
        BY Powers
      <3>2. PICK t \in Int : t = 2^20 - 2032 /\ t = 1046544
        BY <3>1
      <3>3. MaxLevel = 2063
        BY <3>1 DEF MaxLevel
      <3>4. a < t
        BY <1>1, <3>2, <3>3
      <3> QED
        BY <1>1, <1>5, <3>2, <3>4 DEF EscapesLong
    <2> QED
      BY <1>5, <2>1, <2>2, EscapeLong
  <1> QED
    BY <1>2, <1>3, <1>4, <1>5

\* The level of a number.
LEMMA NumberSays ==
  ASSUME NEW level \in Int, level # 0, NEW code, code = Number(level)
  PROVE  level = IF code % 2 = 0 THEN (code + 2) \div 2 ELSE -((code + 1) \div 2)
  <1>1. CASE level > 0
    <2>1. code = 2 * (level - 1)
      BY <1>1 DEF Number, Abs, Sign
    <2> QED
      BY <1>1, <2>1
  <1>2. CASE level < 0
    <2>1. code = 2 * (-level - 1) + 1
      BY <1>2 DEF Number, Abs, Sign
    <2> QED
      BY <1>2, <2>1
  <1> QED
    BY <1>1, <1>2

\* How a receiver adapts the suffix length.
Grown(suffix, level) ==
  LET grown == IF suffix = 0 THEN 1 ELSE suffix
  IN  IF Abs(level) > 3 * 2^(grown - 1) /\ grown < 6 THEN grown + 1 ELSE grown

\* What the receiver adds to the first level of a block.
Offset(r) == IF r.index = r.num - r.ones /\ r.ones < 3 THEN 2 ELSE 0

AfterLevel(r, w, level) ==
  [r EXCEPT !.pos = @ + w.len, !.levels = [@ EXCEPT ![r.index] = level],
            !.suffix = Grown(r.suffix, level), !.index = @ - 1]

\* The coder codes a number for the level that the receiver finds behind it.
CodedFor(r, coded, level) == Number(coded) + Offset(r) = Number(level)

\* A receiver that expects a level finds the one it was coded for.
LEMMA ReadsLevel ==
  ASSUME NEW r, r.pos \in Int, r.suffix \in 0..6, NEW coded, NEW level \in Int, level # 0,
         NEW w, SaysLevel(w, coded, r.suffix), CodedFor(r, coded, level)
  PROVE  /\ w \in Words
         /\ ReadLevel(r, CodeBits(w)) = AfterLevel(r, w, level)
  <1>1. PICK p \in 0..23, m \in 0..20, v \in Nat : LevelWord(w, coded, r.suffix, p, m, v)
    BY DEF SaysLevel
  <1>2. /\ v < 2^m
        /\ w = Codeword(p + 1 + m, 2^m + v)
        /\ HasParts(w, p, m, v)
        /\ m = SuffixSize(p, r.suffix)
        /\ NumberOf(p, v, r.suffix) = Number(coded)
    BY <1>1 DEF LevelWord, HasParts
  <1>3. w \in Words /\ w.len = p + 1 + m
    <2>1. m \in 0..32
      OBVIOUS
    <2>2. PICK b \in Nat : b = 2^m
      BY <2>1, PowerDoubles
    <2>3. w = Codeword(p + 1 + m, b + v)
      BY <1>2, <2>2
    <2> QED
      BY <2>3 DEF Codeword, Words
  <1> DEFINE rest == CodeBits(w)
             prefix == FirstOne(rest) - 1
             size == IF prefix = 14 /\ r.suffix = 0 THEN 4
                     ELSE IF prefix >= 15 THEN prefix - 3 ELSE r.suffix
             code == (IF prefix >= 15 THEN 15 ELSE prefix) * 2^(r.suffix)
                     + FixedLength(rest, prefix + 2, size)
                     + (IF prefix >= 15 /\ r.suffix = 0 THEN 15 ELSE 0)
                     + (IF prefix >= 16 THEN 2^(prefix - 3) - 4096 ELSE 0)
                     + Offset(r)
             found == IF code % 2 = 0 THEN (code + 2) \div 2 ELSE -((code + 1) \div 2)
  <1>4. /\ Len(rest) = p + 1 + m
        /\ \E k \in DOMAIN rest : rest[k] = 1
        /\ FirstOne(rest) = p + 1
        /\ FixedLength(rest, p + 2, m) = v
    <2>1. HasParts(w, p, m, v)
      BY <1>2
    <2>2. PartsRead(rest, p, m, v)
      BY <2>1, LevelParts
    <2> HIDE DEF rest
    <2> QED
      BY <2>2 DEF PartsRead
  <1>5. prefix = p
    <2> HIDE DEF rest
    <2> QED
      BY <1>4
  <1>6. size = m
    <2> HIDE DEF prefix
    <2> QED
      BY <1>2, <1>5 DEF SuffixSize
  <1>7. code = NumberOf(p, v, r.suffix) + Offset(r)
    <2> HIDE DEF prefix, size, rest
    <2>1. FixedLength(rest, prefix + 2, size) = v
      BY <1>4, <1>5, <1>6
    <2> QED
      BY <1>5, <2>1 DEF NumberOf
  <1>8. code = Number(level)
    <2> HIDE DEF code
    <2> QED
      BY <1>2, <1>7 DEF CodedFor
  <1>9. found = level
    <2> HIDE DEF code
    <2> QED
      BY <1>8, NumberSays
  <1>10. ReadLevel(r, rest) =
           IF (\E k \in DOMAIN rest : rest[k] = 1) /\ prefix + 1 + size <= Len(rest)
           THEN [r EXCEPT !.pos = @ + prefix + 1 + size,
                          !.levels = [@ EXCEPT ![r.index] = found],
                          !.suffix = Grown(r.suffix, found),
                          !.index = @ - 1]
           ELSE Failed(r)
    <2> HIDE DEF rest
    <2> QED
      BY Zenon DEF ReadLevel, Grown, Offset
  <1> HIDE DEF found, code, size, prefix, rest
  <1>11. prefix + 1 + size <= Len(rest)
    BY <1>4, <1>5, <1>6
  <1>12. ReadLevel(r, rest) =
           [r EXCEPT !.pos = @ + p + 1 + m,
                     !.levels = [@ EXCEPT ![r.index] = level],
                     !.suffix = Grown(r.suffix, level),
                     !.index = @ - 1]
    BY <1>4, <1>5, <1>6, <1>9, <1>10, <1>11, Zenon
  <1>13. r.pos + p + 1 + m = r.pos + w.len
    BY <1>3
  <1> QED
    BY <1>3, <1>12, <1>13, Zenon DEF rest, AfterLevel

-----------------------------------------------------------------------------
(* The levels of a block.                                                  *)

\* GetTrailingOnes counts all the ones at the end, up to three.
LEMMA OnesAre ==
  ASSUME NEW levels \in Seq(Int), NEW ones, ones = GetTrailingOnes(levels)
  PROVE  /\ ones \in 0..3 /\ ones <= Len(levels)
         /\ \A k \in (Len(levels) - ones + 1)..Len(levels) : levels[k] \in {1, -1}
         /\ ones < 3 /\ ones < Len(levels) => levels[Len(levels) - ones] \notin {1, -1}
  <1> DEFINE OnlyThese(n) == EndInOnes(levels, n) /\ (n < 3 => ~EndInOnes(levels, n + 1))
  <1>1. \E n \in 0..3 : OnlyThese(n)
    <2>1. EndInOnes(levels, 0)
      BY DEF EndInOnes
    <2>2. 0 + 1 = 1 /\ 1 + 1 = 2 /\ 2 + 1 = 3 /\ ~(3 < 3)
      OBVIOUS
    <2>3. OnlyThese(0) \/ EndInOnes(levels, 1)
      BY <2>1, <2>2
    <2>4. EndInOnes(levels, 1) => OnlyThese(1) \/ EndInOnes(levels, 2)
      BY <2>2
    <2>5. EndInOnes(levels, 2) => OnlyThese(2) \/ EndInOnes(levels, 3)
      BY <2>2
    <2>6. EndInOnes(levels, 3) => OnlyThese(3)
      BY <2>2
    <2>7. 0 \in 0..3 /\ 1 \in 0..3 /\ 2 \in 0..3 /\ 3 \in 0..3
      OBVIOUS
    <2> HIDE DEF OnlyThese
    <2> QED
      BY <2>3, <2>4, <2>5, <2>6, <2>7
  <1>2. ones = CHOOSE n \in 0..3 : OnlyThese(n)
    BY DEF GetTrailingOnes
  <1>3. ones \in 0..3 /\ OnlyThese(ones)
    <2> HIDE DEF OnlyThese
    <2> QED
      BY <1>1, <1>2
  <1>4. /\ ones <= Len(levels)
        /\ \A k \in (Len(levels) - ones + 1)..Len(levels) : levels[k] \in {1, -1}
    BY <1>3 DEF EndInOnes
  <1>5. ASSUME ones < 3, ones < Len(levels), levels[Len(levels) - ones] \in {1, -1}
        PROVE  FALSE
    <2>1. Len(levels) \in Nat
      OBVIOUS
    <2>2. ones + 1 <= Len(levels)
      BY <1>3, <1>5, <2>1
    <2>3. \A k \in (Len(levels) - (ones + 1) + 1)..Len(levels) : levels[k] \in {1, -1}
      <3> TAKE k \in (Len(levels) - (ones + 1) + 1)..Len(levels)
      <3>1. k = Len(levels) - ones \/ k \in (Len(levels) - ones + 1)..Len(levels)
        BY <1>3, <2>1
      <3> QED
        BY <1>4, <1>5, <3>1
    <2>4. EndInOnes(levels, ones + 1)
      BY <2>2, <2>3 DEF EndInOnes
    <2> QED
      BY <1>3, <1>5, <2>4
  <1> QED
    BY <1>3, <1>4, <1>5

\* A level coded less one.
LEMMA ModifiedSays ==
  ASSUME NEW level \in Int, level \notin {0, 1, -1}
  PROVE  /\ ModifiedLevel(level) \in Int /\ ModifiedLevel(level) # 0
         /\ Abs(ModifiedLevel(level)) <= Abs(level)
         /\ Number(ModifiedLevel(level)) + 2 = Number(level)
  BY DEF ModifiedLevel, Number, Abs, Sign

\* The coder and the receiver adapt the suffix length alike.
LEMMA SuffixesAgree ==
  ASSUME NEW suffix \in 0..6, NEW level \in Int, level # 0, NEW first \in BOOLEAN,
         first => suffix \in {0, 1}, ~first => suffix # 0 /\ Abs(level) <= 32768
  PROVE  /\ NextSuffixLength(suffix, level, first) = Grown(suffix, level)
         /\ Grown(suffix, level) \in 1..6
  <1>1. PICK a \in Nat \ {0} : a = Abs(level)
    BY SignIs
  <1>2. s_suffix_length_inc_table[suffix + 1] =
          IF suffix = 0 THEN 0 ELSE IF suffix = 6 THEN 32768 ELSE 3 * 2^(suffix - 1)
    <2>0. CASE suffix = 0
      BY <2>0 DEF s_suffix_length_inc_table
    <2>1. CASE suffix = 1
      <3>1. 1 - 1 = 0 /\ 2^0 = 1
        BY Powers
      <3>2. s_suffix_length_inc_table[1 + 1] = 3
        BY DEF s_suffix_length_inc_table
      <3> QED
        BY <2>1, <3>1, <3>2
    <2>2. CASE suffix = 2
      <3>1. 2 - 1 = 1 /\ 2^1 = 2
        BY Powers
      <3>2. s_suffix_length_inc_table[2 + 1] = 6
        BY DEF s_suffix_length_inc_table
      <3> QED
        BY <2>2, <3>1, <3>2
    <2>3. CASE suffix = 3
      <3>1. 3 - 1 = 2 /\ 2^2 = 4
        BY Powers
      <3>2. s_suffix_length_inc_table[3 + 1] = 12
        BY DEF s_suffix_length_inc_table
      <3> QED
        BY <2>3, <3>1, <3>2
    <2>4. CASE suffix = 4
      <3>1. 4 - 1 = 3 /\ 2^3 = 8
        BY Powers
      <3>2. s_suffix_length_inc_table[4 + 1] = 24
        BY DEF s_suffix_length_inc_table
      <3> QED
        BY <2>4, <3>1, <3>2
    <2>5. CASE suffix = 5
      <3>1. 5 - 1 = 4 /\ 2^4 = 16
        BY Powers
      <3>2. s_suffix_length_inc_table[5 + 1] = 48
        BY DEF s_suffix_length_inc_table
      <3> QED
        BY <2>5, <3>1, <3>2
    <2>6. CASE suffix = 6
      BY <2>6 DEF s_suffix_length_inc_table
    <2> QED
      BY <2>0, <2>1, <2>2, <2>3, <2>4, <2>5, <2>6
  <1>3. CASE suffix = 0
    <2>1. 2^(1 - 1) = 1
      BY Powers
    <2>2. Grown(suffix, level) = IF a > 3 THEN 2 ELSE 1
      BY <1>1, <1>3, <2>1 DEF Grown
    <2>3. NextSuffixLength(suffix, level, first) = IF a > 3 THEN 2 ELSE 1
      BY <1>1, <1>2, <1>3 DEF NextSuffixLength
    <2> QED
      BY <2>2, <2>3
  <1>4. CASE suffix = 6
    <2>1. Grown(suffix, level) = 6
      BY <1>4 DEF Grown
    <2>2. NextSuffixLength(suffix, level, first) = 6
      BY <1>1, <1>2, <1>4 DEF NextSuffixLength
    <2> QED
      BY <2>1, <2>2
  <1>5. CASE suffix \in 1..5
    <2>1. PICK t \in Nat : t = 3 * 2^(suffix - 1) /\ (suffix = 1 => t = 3)
      <3>1. PICK n \in 0..32 : n = suffix - 1
        BY <1>5
      <3>2. PICK q \in Nat : q = 2^n
        BY ONLY n \in 0..32, PowerDoubles
      <3>3. suffix = 1 => q = 1
        <4>1. 2^0 = 1
          BY Powers
        <4>2. suffix = 1 => n = 0
          BY <3>1
        <4> QED
          BY <3>2, <4>1, <4>2
      <3> QED
        BY <3>1, <3>2, <3>3
    <2>2. s_suffix_length_inc_table[suffix + 1] = t
      BY <1>2, <1>5, <2>1
    <2>3. Grown(suffix, level) = IF a > t THEN suffix + 1 ELSE suffix
      BY <1>1, <1>5, <2>1 DEF Grown
    <2>4. NextSuffixLength(suffix, level, first) = IF a > t THEN suffix + 1 ELSE suffix
      <3>1. CASE first
        BY <1>1, <1>5, <2>1, <2>2, <3>1 DEF NextSuffixLength
      <3>2. CASE ~first
        BY <1>1, <2>2, <3>2 DEF NextSuffixLength
      <3> QED
        BY <3>1, <3>2
    <2> QED
      BY <1>5, <2>3, <2>4
  <1> QED
    BY <1>3, <1>4, <1>5

-----------------------------------------------------------------------------
(* The invariant.                                                          *)

LevelFits(b, k) == \/ Abs(b[k]) <= MaxLevel
                   \/ m_data_type # "ChromaDC" /\ LongEscape(b, k)

InputInv ==
  /\ InputOK
  /\ block \in [1..MaxCoeffs -> Int]
  /\ \A k \in 1..MaxCoeffs : LevelFits(block, k)

\* The place before the k-th level and that of the last.
PlaceBefore(k) == IF k = 1 THEN 0 ELSE places[k - 1]

Highest == IF Len(m_levels) = 0 THEN 0 ELSE places[Len(m_levels)]

\* The k-th level is that of its place, and its run that from the place before.
LevelFrom(k) ==
  /\ places[k] \in k..scanned
  /\ m_levels[k] = block[places[k]]
  /\ m_levels[k] # 0
  /\ m_runs[k] = places[k] - PlaceBefore(k) - 1

\* What the pre-coder has found in the coefficients it has passed: each that is
\* not zero has a place, in order.
PlacesInv ==
  /\ scanned \in 0..MaxCoeffs
  /\ m_levels \in Seq(Int) /\ m_runs \in Seq(Nat) /\ places \in Seq(Nat)
  /\ Len(m_runs) = Len(m_levels) /\ Len(places) = Len(m_levels)
  /\ \A k \in 1..Len(m_levels) : LevelFrom(k)
  /\ \A j \in 1..Len(m_levels), k \in 1..Len(m_levels) : j <= k => places[j] - j <= places[k] - k
  /\ \A p \in 1..scanned : block[p] # 0 => \E k \in 1..Len(m_levels) : places[k] = p
  /\ Highest \in Len(m_levels)..scanned
  /\ run = scanned - Highest
  /\ m_total_zeros = Highest - Len(m_levels)

Coefficients == [1..MaxCoeffs -> Int]

AllZeros == [k \in 1..MaxCoeffs |-> 0]

Receivers ==
  [reads : {"coeff_token", "signs", "levels", "runs", "nothing", "failed"},
   pos : Nat, ones : 0..3, num : Nat, index : Nat, suffix : 0..6, zeros : Nat,
   levels : Coefficients, block : Coefficients]

\* The receiver has heard all that was written.
HeardAll ==
  /\ coded_bits \in Seq({0, 1})
  /\ receiver \in Receivers
  /\ receiver.pos = Len(coded_bits) + 1

KnowsCounts == receiver.num = m_coeff_num /\ receiver.ones = m_trailing_ones

SignsInv ==
  method = "WriteTrailingSigns" =>
    /\ receiver.reads = "signs"
    /\ KnowsCounts
    /\ m_coeff_num > 0
    /\ receiver.block = AllZeros

LevelsInv ==
  method = "WriteLevels" =>
    /\ receiver.reads = "levels"
    /\ KnowsCounts
    /\ m_coeff_num > 0
    /\ receiver.block = AllZeros
    /\ receiver.index = index /\ index \in 0..(m_coeff_num - m_trailing_ones)
    /\ receiver.suffix = suffix_length
    /\ index = m_coeff_num - m_trailing_ones =>
         suffix_length \in {0, 1} /\ (m_coeff_num <= 10 => suffix_length = 0)
    /\ index # m_coeff_num - m_trailing_ones => suffix_length # 0
    /\ \A k \in (index + 1)..m_coeff_num : receiver.levels[k] = m_levels[k]

RunsInv ==
  method = "WriteRuns" =>
    /\ receiver.reads = "runs"
    /\ receiver.index = index /\ index \in 1..m_coeff_num
    /\ receiver.zeros = left_zeros /\ left_zeros = places[index] - index
    /\ \A k \in 1..m_coeff_num : receiver.levels[k] = m_levels[k]
    /\ \A p \in 1..MaxCoeffs : receiver.block[p] = IF p > places[index] THEN block[p] ELSE 0

MethodInv ==
  /\ method \in {"PreCode", "WriteTrailingSigns", "WriteLevels", "WriteRuns", "done"}
  /\ method = "PreCode" => receiver.reads = "coeff_token" /\ receiver.block = AllZeros
  /\ method # "PreCode" => scanned = MaxCoeffs

CoderInv ==
  /\ InputInv /\ PlacesInv /\ HeardAll
  /\ MethodInv /\ SignsInv /\ LevelsInv /\ RunsInv
  /\ ReceiverRecoversBlock

-----------------------------------------------------------------------------
(* The pre-coder keeps it.                                                 *)

\* The invariant holds before the pre-coder runs.
LEMMA CoderInvInit == CoderInit => CoderInv
  <1> SUFFICES ASSUME CoderInit
               PROVE  CoderInv
    OBVIOUS
  <1>1. InputInv
    <2>1. PICK i \in Inputs : m_data_type = i.type /\ m_vlc_table_index = i.table /\ block = i.block
      BY DEF CoderInit
    <2>2. /\ i.type \in CavlcDataType
          /\ i.table \in Tables(i.type)
          /\ i.block \in [1..GetMaxCoeffNum(i.type) -> Int]
          /\ \A k \in DOMAIN i.block : \/ Abs(i.block[k]) <= MaxLevel
                                       \/ i.type # "ChromaDC" /\ LongEscape(i.block, k)
      BY <2>1, InputsAssumption
    <2>3. block \in [1..MaxCoeffs -> Int] /\ DOMAIN block = 1..MaxCoeffs
      BY <2>1, <2>2 DEF MaxCoeffs
    <2> QED
      BY <2>1, <2>2, <2>3, Zenon DEF InputInv, InputOK, LevelFits
  <1>2. MaxCoeffs \in {4, 15, 16}
    BY <1>1, Sizes DEF InputInv, InputOK, MaxCoeffs
  <1>3. PlacesInv
    BY <1>2 DEF CoderInit, PlacesInv, Highest
  <1>4. receiver = [reads |-> "coeff_token", pos |-> 1, ones |-> 0, num |-> 0, index |-> 0,
                    suffix |-> 0, zeros |-> 0, levels |-> AllZeros, block |-> AllZeros]
    BY DEF CoderInit, AllZeros
  <1>5. AllZeros \in Coefficients
    BY DEF AllZeros, Coefficients
  <1>6. HeardAll
    <2>1. coded_bits = <<>>
      BY DEF CoderInit
    <2>2. receiver \in Receivers
      BY <1>4, <1>5 DEF Receivers
    <2> QED
      BY <1>4, <2>1, <2>2 DEF HeardAll
  <1>7. method = "PreCode"
    BY DEF CoderInit
  <1> QED
    BY <1>1, <1>3, <1>4, <1>6, <1>7
       DEF CoderInv, MethodInv, SignsInv, LevelsInv, RunsInv, ReceiverRecoversBlock

\* While the pre-coder runs only what it finds changes.
LEMMA PreCodeKeeps ==
  ASSUME CoderInv, method = "PreCode", PlacesInv',
         UNCHANGED <<input, method, index, suffix_length, left_zeros, coded_bits, receiver>>
  PROVE  CoderInv'
  <1>1. UNCHANGED <<m_data_type, m_vlc_table_index, block, method, coded_bits, receiver>>
    BY DEF input
  <1>2. InputInv'
    BY <1>1 DEF CoderInv, InputInv, InputOK, LevelFits, MaxCoeffs
  <1>3. HeardAll'
    BY <1>1 DEF CoderInv, HeardAll, Receivers, Coefficients, MaxCoeffs
  <1>4. MethodInv'
    BY <1>1 DEF CoderInv, MethodInv, AllZeros, MaxCoeffs
  <1> QED
    BY <1>1, <1>2, <1>3, <1>4 DEF CoderInv, SignsInv, LevelsInv, RunsInv, ReceiverRecoversBlock

\* A zero keeps the places of the levels.
LEMMA PassZeroKeeps ==
  ASSUME CoderInv, PassZero
  PROVE  CoderInv'
  <1>1. /\ method = "PreCode" /\ scanned < MaxCoeffs /\ block[scanned + 1] = 0
        /\ scanned' = scanned + 1 /\ run' = run + 1
        /\ UNCHANGED <<m_data_type, block, m_levels, m_runs, m_total_zeros, places>>
        /\ UNCHANGED <<input, method, index, suffix_length, left_zeros, coded_bits, receiver>>
    BY DEF PassZero, input
  <1>2. MaxCoeffs' = MaxCoeffs /\ MaxCoeffs \in {4, 15, 16}
    BY <1>1, Sizes DEF CoderInv, InputInv, InputOK, MaxCoeffs
  <1>3. PlacesInv
    BY DEF CoderInv
  <1>4. scanned \in 0..MaxCoeffs /\ scanned' \in 0..MaxCoeffs
    BY <1>1, <1>2, <1>3 DEF PlacesInv
  <1>5. Highest' = Highest /\ Highest \in Len(m_levels)..scanned' /\ run' = scanned' - Highest
    <2>1. Highest' = Highest
      BY <1>1 DEF Highest
    <2>2. Highest \in Len(m_levels)..scanned /\ run = scanned - Highest /\ Len(m_levels) \in Nat
      BY <1>3 DEF PlacesInv
    <2> QED
      BY <1>1, <1>4, <2>1, <2>2
  <1>6. \A k \in 1..Len(m_levels) : LevelFrom(k)'
    <2> TAKE k \in 1..Len(m_levels)
    <2>1. LevelFrom(k)
      BY <1>3 DEF PlacesInv
    <2> QED
      BY <1>1, <1>4, <2>1 DEF LevelFrom, PlaceBefore
  <1>7. \A p \in 1..scanned' : block[p] # 0 => \E k \in 1..Len(m_levels) : places[k] = p
    <2> TAKE p \in 1..scanned'
    <2>1. p \in 1..scanned \/ p = scanned + 1
      BY <1>1, <1>4
    <2> QED
      BY <1>1, <1>3, <2>1 DEF PlacesInv
  <1>8. PlacesInv'
    BY <1>1, <1>2, <1>3, <1>4, <1>5, <1>6, <1>7 DEF PlacesInv
  <1> QED
    BY <1>1, <1>8, PreCodeKeeps

\* One more element at the end of a sequence.
LEMMA Appended ==
  ASSUME NEW S, NEW s \in Seq(S), NEW x \in S
  PROVE  /\ Append(s, x) \in Seq(S) /\ Len(Append(s, x)) = Len(s) + 1
         /\ \A k \in 1..Len(s) : Append(s, x)[k] = s[k]
         /\ Append(s, x)[Len(s) + 1] = x
  OBVIOUS

\* A level gets the next place, behind the zeros of its run.
LEMMA TakeLevelKeeps ==
  ASSUME CoderInv, TakeLevel
  PROVE  CoderInv'
  <1> DEFINE n == Len(m_levels)
  <1>1. /\ method = "PreCode" /\ scanned < MaxCoeffs /\ block[scanned + 1] # 0
        /\ scanned' = scanned + 1 /\ run' = 0
        /\ m_levels' = Append(m_levels, block[scanned + 1])
        /\ m_runs' = Append(m_runs, run)
        /\ places' = Append(places, scanned + 1)
        /\ m_total_zeros' = m_total_zeros + run
        /\ UNCHANGED <<m_data_type, block>>
        /\ UNCHANGED <<input, method, index, suffix_length, left_zeros, coded_bits, receiver>>
    BY DEF TakeLevel, input
  <1>2. MaxCoeffs' = MaxCoeffs /\ MaxCoeffs \in {4, 15, 16} /\ block \in [1..MaxCoeffs -> Int]
    BY <1>1, Sizes DEF CoderInv, InputInv, InputOK, MaxCoeffs
  <1>3. PlacesInv
    BY DEF CoderInv
  <1>4. scanned \in 0..MaxCoeffs /\ scanned' \in 0..MaxCoeffs /\ scanned + 1 \in 1..MaxCoeffs
    BY <1>1, <1>2, <1>3 DEF PlacesInv
  <1>5. /\ m_levels \in Seq(Int) /\ m_runs \in Seq(Nat) /\ places \in Seq(Nat)
        /\ n \in Nat /\ Len(m_runs) = n /\ Len(places) = n
        /\ Highest \in n..scanned /\ run = scanned - Highest /\ m_total_zeros = Highest - n
    BY <1>3 DEF PlacesInv
  <1>6. run \in Nat /\ block[scanned + 1] \in Int /\ scanned + 1 \in Nat
    BY <1>2, <1>4, <1>5
  <1>7. /\ m_levels' \in Seq(Int) /\ Len(m_levels') = n + 1
        /\ \A k \in 1..n : m_levels'[k] = m_levels[k]
        /\ m_levels'[n + 1] = block[scanned + 1]
    <2>1. PICK x \in Int : x = block[scanned + 1]
      BY <1>6
    <2>2. m_levels' = Append(m_levels, x) /\ m_levels \in Seq(Int)
      BY <1>1, <1>5, <2>1
    <2> QED
      BY <2>1, <2>2, Appended
  <1>8. /\ m_runs' \in Seq(Nat) /\ Len(m_runs') = n + 1
        /\ \A k \in 1..n : m_runs'[k] = m_runs[k]
        /\ m_runs'[n + 1] = run
    <2>1. m_runs' = Append(m_runs, run) /\ m_runs \in Seq(Nat) /\ Len(m_runs) = n
      BY <1>1, <1>5
    <2> HIDE DEF n
    <2> QED
      BY <1>6, <2>1, Appended
  <1>9. /\ places' \in Seq(Nat) /\ Len(places') = n + 1
        /\ \A k \in 1..n : places'[k] = places[k]
        /\ places'[n + 1] = scanned + 1
    <2>1. places' = Append(places, scanned + 1) /\ places \in Seq(Nat) /\ Len(places) = n
      BY <1>1, <1>5
    <2> HIDE DEF n
    <2> QED
      BY <1>6, <2>1, Appended
  <1> HIDE DEF n
  <1>10. Highest = (IF n = 0 THEN 0 ELSE places[n]) /\ Highest' = scanned + 1
    <2>1. Highest' = IF Len(m_levels') = 0 THEN 0 ELSE places'[Len(m_levels')]
      BY DEF Highest
    <2>2. n + 1 # 0
      BY <1>5
    <2> QED
      BY <1>7, <1>8, <1>9, <2>1, <2>2 DEF Highest, n
  <1>11. \A k \in 1..(n + 1) : LevelFrom(k)'
    <2> TAKE k \in 1..(n + 1)
    <2>0. LevelFrom(k)' = (/\ places'[k] \in k..scanned'
                           /\ m_levels'[k] = block[places'[k]]
                           /\ m_levels'[k] # 0
                           /\ m_runs'[k] = places'[k] - (IF k = 1 THEN 0 ELSE places'[k - 1]) - 1)
      BY <1>1 DEF LevelFrom, PlaceBefore
    <2>1. CASE k \in 1..n
      <3>1. LevelFrom(k)
        BY <1>3, <2>1 DEF PlacesInv, n
      <3>2. k # 1 => k - 1 \in 1..n
        BY <1>5, <2>1
      <3>3. /\ places[k] \in k..scanned /\ m_levels[k] = block[places[k]] /\ m_levels[k] # 0
            /\ m_runs[k] = places[k] - (IF k = 1 THEN 0 ELSE places[k - 1]) - 1
        BY <3>1 DEF LevelFrom, PlaceBefore
      <3>4. places[k] \in k..scanned'
        BY <1>1, <1>4, <3>3
      <3> QED
        BY <1>7, <1>8, <1>9, <2>0, <2>1, <3>2, <3>3, <3>4
    <2>2. CASE k = n + 1
      <3>1. k = 1 => n = 0
        BY <1>5, <2>2
      <3>2. k # 1 => k - 1 \in 1..n /\ k - 1 = n /\ n # 0
        BY <1>5, <2>2
      <3>3. (IF k = 1 THEN 0 ELSE places'[k - 1]) = Highest
        BY <1>7, <1>8, <1>9, <1>10, <3>1, <3>2
      <3>4. run = (scanned + 1) - Highest - 1 /\ scanned + 1 \in k..scanned'
        BY <1>1, <1>4, <1>5, <2>2
      <3> QED
        BY <1>7, <1>8, <1>9, <1>1, <2>0, <2>2, <3>3, <3>4
    <2> QED
      BY <1>5, <2>1, <2>2
  <1>12. \A j \in 1..(n + 1), k \in 1..(n + 1) : j <= k => places'[j] - j <= places'[k] - k
    <2> TAKE j \in 1..(n + 1), k \in 1..(n + 1)
    <2> SUFFICES ASSUME j <= k PROVE places'[j] - j <= places'[k] - k
      OBVIOUS
    <2>0. \A i \in 1..n : places[i] \in Nat
      BY <1>5
    <2>1. CASE k \in 1..n
      <3>1. j \in 1..n
        BY <1>5, <2>1
      <3>2. places[j] - j <= places[k] - k
        BY <1>3, <2>1, <3>1 DEF PlacesInv, n
      <3> QED
        BY <1>7, <1>8, <1>9, <2>1, <3>1, <3>2
    <2>2. CASE j \in 1..n /\ k = n + 1
      <3>1. n \in 1..n /\ j <= n /\ n # 0
        BY <1>5, <2>2
      <3>2. places[j] - j <= places[n] - n
        BY <1>3, <2>2, <3>1 DEF PlacesInv, n
      <3>3. places[n] <= scanned
        BY <1>5, <1>10, <3>1
      <3>4. places'[j] = places[j] /\ places'[k] = scanned + 1
        BY <1>7, <1>8, <1>9, <2>2
      <3>5. PICK x \in Int, y \in Int : x = places[j] /\ y = places[n]
        BY <2>0, <2>2, <3>1
      <3>6. x - j <= (scanned + 1) - k
        BY <1>4, <1>5, <2>2, <3>2, <3>3, <3>5
      <3> QED
        BY <3>4, <3>5, <3>6
    <2>3. CASE j = n + 1 /\ k = n + 1
      BY <1>7, <1>8, <1>9, <1>4, <2>3
    <2> QED
      BY <1>5, <2>1, <2>2, <2>3
  <1>13. \A p \in 1..scanned' : block[p] # 0 => \E k \in 1..(n + 1) : places'[k] = p
    <2> TAKE p \in 1..scanned'
    <2> SUFFICES ASSUME block[p] # 0 PROVE \E k \in 1..(n + 1) : places'[k] = p
      OBVIOUS
    <2>1. CASE p \in 1..scanned
      <3>1. PICK k \in 1..n : places[k] = p
        BY <1>3, <2>1 DEF PlacesInv, n
      <3>2. k \in 1..(n + 1)
        BY <1>5
      <3>3. places'[k] = p
        BY <1>7, <1>8, <1>9, <3>1
      <3> QED
        BY <3>2, <3>3
    <2>2. CASE p = scanned + 1
      <3>1. n + 1 \in 1..(n + 1)
        BY <1>5
      <3> QED
        BY <1>7, <1>8, <1>9, <2>2, <3>1
    <2>3. p \in 1..scanned \/ p = scanned + 1
      BY <1>1, <1>4
    <2> QED
      BY <2>1, <2>2, <2>3
  <1>14. /\ Highest' \in (n + 1)..scanned' /\ run' = scanned' - Highest'
         /\ m_total_zeros' = Highest' - (n + 1)
    <2>1. PICK h \in Int : h = Highest /\ h \in n..scanned
      BY <1>4, <1>5
    <2>2. m_total_zeros' = (h - n) + (scanned - h) /\ run' = 0 /\ scanned' = scanned + 1
      BY <1>1, <1>5, <2>1
    <2>3. scanned + 1 \in (n + 1)..(scanned + 1) /\ (h - n) + (scanned - h) = (scanned + 1) - (n + 1)
          /\ (scanned + 1) - (scanned + 1) = 0
      BY <1>4, <1>5, <2>1
    <2> QED
      BY <1>10, <2>2, <2>3
  <1>15. PlacesInv'
    <2>1. Len(m_levels)' = n + 1 /\ Len(m_runs)' = n + 1 /\ Len(places)' = n + 1
      BY <1>7, <1>8, <1>9
    <2>2. MaxCoeffs' = MaxCoeffs /\ block' = block
      BY <1>1, <1>2
    <2> QED
      BY <1>7, <1>8, <1>9, <1>4, <1>11, <1>12, <1>13, <1>14, <2>1, <2>2 DEF PlacesInv
  <1> QED
    BY <1>1, <1>15, PreCodeKeeps

-----------------------------------------------------------------------------
(* What the receiver hears.                                                *)

\* What was written last is all that is not read yet.
LEMMA Unread ==
  ASSUME NEW s \in Seq({0, 1}), NEW t \in Seq({0, 1})
  PROVE  /\ s \o t \in Seq({0, 1})
         /\ Len(s \o t) = Len(s) + Len(t)
         /\ SubSeq(s \o t, Len(s) + 1, Len(s \o t)) = t
  <1>1. s \o t \in Seq({0, 1}) /\ Len(s \o t) = Len(s) + Len(t)
    OBVIOUS
  <1> DEFINE u == SubSeq(s \o t, Len(s) + 1, Len(s \o t))
  <1>2. Len(s) \in Nat /\ Len(t) \in Nat
    OBVIOUS
  <1>3. u \in Seq({0, 1}) /\ Len(u) = Len(t)
    BY <1>1, <1>2
  <1>4. ASSUME NEW i \in 1..Len(t)
        PROVE  u[i] = t[i]
    <2>1. u[i] = (s \o t)[Len(s) + 1 + i - 1]
      BY <1>1, <1>2
    <2>2. Len(s) + 1 + i - 1 = Len(s) + i
      BY <1>2
    <2>3. (s \o t)[Len(s) + i] = t[i]
      BY <1>2
    <2> QED
      BY <2>1, <2>2, <2>3
  <1> HIDE DEF u
  <1>5. u = t
    BY <1>3, <1>4, SeqEqual
  <1> QED
    BY <1>1, <1>5 DEF u

\* The methods of DoCode leave the block and what the pre-coder found alone.
LEMMA Precoded ==
  ASSUME CoderInv, UNCHANGED <<input, precoded>>
  PROVE  /\ InputInv' /\ PlacesInv'
         /\ MaxCoeffs' = MaxCoeffs /\ Coefficients' = Coefficients /\ AllZeros' = AllZeros
         /\ Receivers' = Receivers
         /\ m_coeff_num' = m_coeff_num /\ m_trailing_ones' = m_trailing_ones
  <1>1. UNCHANGED <<m_data_type, m_vlc_table_index, block, scanned, run, m_levels, m_runs,
                    m_total_zeros, places>>
    BY DEF input, precoded
  <1>2. InputInv'
    BY <1>1 DEF CoderInv, InputInv, InputOK, LevelFits, MaxCoeffs
  <1>3. MaxCoeffs' = MaxCoeffs
    BY <1>1 DEF MaxCoeffs
  <1>4. Coefficients' = Coefficients /\ AllZeros' = AllZeros /\ Receivers' = Receivers
    BY <1>3 DEF Coefficients, AllZeros, Receivers
  <1>5. Highest' = Highest
    BY <1>1 DEF Highest
  <1>6. \A k : LevelFrom(k)' = LevelFrom(k)
    BY <1>1 DEF LevelFrom, PlaceBefore
  <1>7. PlacesInv'
    BY <1>1, <1>3, <1>5, <1>6 DEF CoderInv, PlacesInv
  <1>8. m_coeff_num' = m_coeff_num /\ m_trailing_ones' = m_trailing_ones
    BY <1>1 DEF m_coeff_num, m_trailing_ones
  <1> QED
    BY <1>2, <1>3, <1>4, <1>7, <1>8

\* A method that writes some bits lets the receiver hear them.
LEMMA Heard ==
  ASSUME HeardAll, Hear, NEW bits \in Seq({0, 1}), coded_bits' = coded_bits \o bits
  PROVE  /\ coded_bits' \in Seq({0, 1})
         /\ Len(coded_bits') = Len(coded_bits) + Len(bits)
         /\ receiver' = ReadNext(receiver, bits)
  <1>1. coded_bits \in Seq({0, 1}) /\ receiver.pos = Len(coded_bits) + 1
    BY DEF HeardAll
  <1>2. PICK s \in Seq({0, 1}) : s = coded_bits
    BY <1>1
  <1>3. s \o bits \in Seq({0, 1}) /\ Len(s \o bits) = Len(s) + Len(bits)
        /\ SubSeq(s \o bits, Len(s) + 1, Len(s \o bits)) = bits
    BY Unread
  <1>4. receiver' = ReadNext(receiver, SubSeq(coded_bits', receiver.pos, Len(coded_bits')))
    BY DEF Hear
  <1> QED
    BY <1>1, <1>2, <1>3, <1>4, Zenon

-----------------------------------------------------------------------------
(* The methods of DoCode keep it.                                          *)

\* The counts are what they should be.
LEMMA Counts ==
  ASSUME CoderInv
  PROVE  /\ m_coeff_num \in Nat /\ m_coeff_num <= MaxCoeffs
         /\ m_trailing_ones \in 0..3 /\ m_trailing_ones <= m_coeff_num
         /\ MaxCoeffs \in {4, 15, 16}
         /\ \A k \in 1..m_coeff_num : m_levels[k] \in Int /\ m_levels[k] # 0
         /\ \A k \in (m_coeff_num - m_trailing_ones + 1)..m_coeff_num : m_levels[k] \in {1, -1}
         /\ m_trailing_ones < 3 /\ m_trailing_ones < m_coeff_num =>
              m_levels[m_coeff_num - m_trailing_ones] \notin {1, -1}
  <1>1. m_levels \in Seq(Int) /\ m_coeff_num = Len(m_levels) /\ Len(m_levels) \in Nat
    BY DEF CoderInv, PlacesInv, m_coeff_num
  <1>2. PICK ones : ones = m_trailing_ones
    OBVIOUS
  <1>3. /\ ones \in 0..3 /\ ones <= Len(m_levels)
        /\ \A k \in (Len(m_levels) - ones + 1)..Len(m_levels) : m_levels[k] \in {1, -1}
        /\ ones < 3 /\ ones < Len(m_levels) => m_levels[Len(m_levels) - ones] \notin {1, -1}
    BY <1>1, <1>2, OnesAre DEF m_trailing_ones
  <1>4. MaxCoeffs \in {4, 15, 16}
    BY Sizes DEF CoderInv, InputInv, InputOK, MaxCoeffs
  <1>5. Len(m_levels) <= MaxCoeffs
    <2>1. Highest \in Len(m_levels)..scanned /\ scanned \in 0..MaxCoeffs
      BY DEF CoderInv, PlacesInv
    <2> QED
      BY <1>1, <1>4, <2>1
  <1>6. \A k \in 1..Len(m_levels) : m_levels[k] \in Int /\ m_levels[k] # 0
    <2>1. \A k \in 1..Len(m_levels) : LevelFrom(k)
      BY DEF CoderInv, PlacesInv
    <2> QED
      BY <1>1, <2>1 DEF LevelFrom
  <1> QED
    BY <1>1, <1>2, <1>3, <1>4, <1>5, <1>6

\* Without a level the block is all zeros.
LEMMA EmptyBlock ==
  ASSUME CoderInv, m_coeff_num = 0, scanned = MaxCoeffs
  PROVE  block = AllZeros
  <1>1. Len(m_levels) = 0
    BY DEF m_coeff_num
  <1>2. \A p \in 1..MaxCoeffs : block[p] = 0
    BY <1>1 DEF CoderInv, PlacesInv
  <1>3. block \in [1..MaxCoeffs -> Int]
    BY DEF CoderInv, InputInv
  <1> QED
    BY <1>2, <1>3 DEF AllZeros

\* It then stands behind what was written.
LEMMA StandsBehind ==
  ASSUME HeardAll, NEW l \in Nat, Len(coded_bits') = Len(coded_bits) + l,
         receiver'.pos = receiver.pos + l
  PROVE  receiver'.pos = Len(coded_bits') + 1 /\ receiver.pos + l \in Nat
  <1>1. Len(coded_bits) \in Nat /\ receiver.pos = Len(coded_bits) + 1
    BY DEF HeardAll
  <1> QED
    BY <1>1

\* The receiver learns the counts, which is all there is of an empty block.
LEMMA CoeffTokenKeeps ==
  ASSUME CoderInv, WriteCoeffNumAndTrailingOnes
  PROVE  CoderInv'
  <1> DEFINE word == CoeffToken(m_data_type, m_vlc_table_index, m_trailing_ones, m_coeff_num)
  <1>1. /\ method = "PreCode" /\ scanned = MaxCoeffs
        /\ coded_bits' = coded_bits \o CodeBits(word)
        /\ method' = IF m_coeff_num = 0 THEN "done" ELSE "WriteTrailingSigns"
        /\ Hear
        /\ UNCHANGED <<input, precoded>>
        /\ UNCHANGED <<block, scanned>>
    BY DEF WriteCoeffNumAndTrailingOnes, Write, input, precoded
  <1>2. /\ InputInv' /\ PlacesInv'
        /\ MaxCoeffs' = MaxCoeffs /\ Coefficients' = Coefficients /\ AllZeros' = AllZeros
        /\ Receivers' = Receivers
        /\ m_coeff_num' = m_coeff_num /\ m_trailing_ones' = m_trailing_ones
    BY <1>1, Precoded
  <1>3. PICK o, n : o = m_trailing_ones /\ n = m_coeff_num
    OBVIOUS
  <1>4. o \in 0..3 /\ n \in Nat /\ n \in 0..MaxCoeffs /\ o <= n
    BY <1>3, Counts
  <1>5. InputOK /\ HeardAll /\ receiver.reads = "coeff_token" /\ receiver.block = AllZeros
    BY <1>1 DEF CoderInv, InputInv, MethodInv
  <1>6. PICK w : w = CoeffToken(m_data_type, m_vlc_table_index, o, n) /\ w = word
    BY <1>3
  <1>7. w \in TableWords
    BY <1>4, <1>5, <1>6, TokenWords DEF InputOK, MaxCoeffs
  <1>8. w.len \in Nat /\ Len(CodeBits(w)) = w.len /\ CodeBits(w) \in Seq({0, 1})
    <2>1. w \in Words
      BY <1>7, WordLength
    <2> QED
      BY <1>7, <2>1, WordLength, CodeBitsAre DEF Words
  <1> HIDE DEF word
  <1>9. /\ coded_bits' \in Seq({0, 1})
        /\ Len(coded_bits') = Len(coded_bits) + w.len
        /\ receiver' = ReadNext(receiver, CodeBits(w))
    BY <1>1, <1>5, <1>6, <1>8, Heard
  <1>10. receiver' = ReadCoeffToken(receiver, CodeBits(w))
    BY <1>5, <1>9, Zenon DEF ReadNext
  <1>11. receiver' = [receiver EXCEPT !.pos = @ + w.len, !.ones = o, !.num = n,
                                      !.reads = IF n = 0 THEN "nothing" ELSE "signs"]
    <2>1. InputOK
      BY <1>5
    <2>2. ReadCoeffToken(receiver, CodeBits(w)) =
            AfterToken(receiver, w, o, n)
      BY <1>4, <1>6, <2>1, ReadsToken
    <2> QED
      BY <1>10, <2>2, Zenon DEF AfterToken
  <1>12. receiver \in Receivers /\ receiver.pos = Len(coded_bits) + 1 /\ coded_bits \in Seq({0, 1})
    BY <1>5 DEF HeardAll
  <1>13. /\ receiver'.pos = receiver.pos + w.len /\ receiver'.ones = o /\ receiver'.num = n
         /\ receiver'.reads = (IF n = 0 THEN "nothing" ELSE "signs")
         /\ receiver'.block = receiver.block
    BY <1>11, <1>12 DEF Receivers
  <1>14. receiver' \in Receivers
    <2>1. receiver.pos + w.len \in Nat /\ n \in Nat /\ o \in 0..3
      BY <1>4, <1>8, <1>12 DEF Receivers
    <2>2. PICK reads \in {"nothing", "signs"} : reads = IF n = 0 THEN "nothing" ELSE "signs"
      OBVIOUS
    <2>3. receiver' = [receiver EXCEPT !.pos = @ + w.len, !.ones = o, !.num = n, !.reads = reads]
      BY <1>11, <2>2, Zenon
    <2> QED
      BY <1>12, <2>1, <2>3 DEF Receivers
  <1>15. HeardAll'
    <2>1. receiver'.pos = Len(coded_bits') + 1
      BY <1>5, <1>8, <1>9, <1>13, StandsBehind
    <2> QED
      BY <1>2, <1>9, <1>14, <2>1 DEF HeardAll
  <1>16. CASE n = 0
    <2>1. method' = "done" /\ receiver'.reads = "nothing"
      BY <1>1, <1>3, <1>13, <1>16
    <2>2. receiver'.block = block'
      BY <1>1, <1>3, <1>5, <1>13, <1>16, EmptyBlock
    <2>3. receiver'.pos = Len(coded_bits') + 1
      BY <1>15 DEF HeardAll
    <2> QED
      BY <1>1, <1>2, <1>15, <2>1, <2>2, <2>3
         DEF CoderInv, MethodInv, SignsInv, LevelsInv, RunsInv, ReceiverRecoversBlock
  <1>17. CASE n # 0
    <2>1. method' = "WriteTrailingSigns" /\ receiver'.reads = "signs"
      BY <1>1, <1>3, <1>13, <1>17
    <2>2. SignsInv'
      BY <1>2, <1>3, <1>4, <1>5, <1>13, <1>17, <2>1 DEF SignsInv, KnowsCounts
    <2> QED
      BY <1>1, <1>2, <1>15, <2>1, <2>2
         DEF CoderInv, MethodInv, LevelsInv, RunsInv, ReceiverRecoversBlock
  <1> QED
    BY <1>16, <1>17

\* The receiver learns the ones the block ends in.
LEMMA TrailingSignsKeeps ==
  ASSUME CoderInv, WriteTrailingSigns
  PROVE  CoderInv'
  <1>1. /\ method = "WriteTrailingSigns" /\ method' = "WriteLevels"
        /\ coded_bits' = coded_bits \o [k \in 1..m_trailing_ones |-> Sign(m_levels[m_coeff_num + 1 - k])]
        /\ index' = m_coeff_num - m_trailing_ones
        /\ suffix_length' = StartSuffixLength(m_coeff_num, m_trailing_ones)
        /\ Hear
        /\ UNCHANGED <<input, precoded>>
        /\ UNCHANGED <<scanned, m_levels>>
    BY DEF WriteTrailingSigns, input, precoded
  <1>2. /\ InputInv' /\ PlacesInv'
        /\ MaxCoeffs' = MaxCoeffs /\ Coefficients' = Coefficients /\ AllZeros' = AllZeros
        /\ Receivers' = Receivers
        /\ m_coeff_num' = m_coeff_num /\ m_trailing_ones' = m_trailing_ones
    BY <1>1, Precoded
  <1>3. PICK o, n : o = m_trailing_ones /\ n = m_coeff_num
    OBVIOUS
  <1>4. /\ o \in 0..3 /\ n \in Nat /\ o <= n /\ n <= MaxCoeffs /\ MaxCoeffs \in {4, 15, 16}
        /\ \A k \in 1..n : m_levels[k] \in Int /\ m_levels[k] # 0
        /\ \A k \in (n - o + 1)..n : m_levels[k] \in {1, -1}
    BY <1>3, Counts
  <1>5. /\ HeardAll /\ receiver.reads = "signs" /\ receiver.block = AllZeros
        /\ receiver.num = n /\ receiver.ones = o /\ n > 0 /\ scanned = MaxCoeffs
    BY <1>1, <1>3 DEF CoderInv, SignsInv, KnowsCounts, MethodInv
  <1>6. PICK bits : bits = [k \in 1..o |-> Sign(m_levels[n + 1 - k])]
    OBVIOUS
  <1>7. bits \in Seq({0, 1}) /\ Len(bits) = o /\ \A k \in 1..o : bits[k] = Sign(m_levels[n + 1 - k])
    <2>1. \A k \in 1..o : Sign(m_levels[n + 1 - k]) \in {0, 1}
      BY DEF Sign
    <2>2. bits \in [1..o -> {0, 1}]
      BY <1>6, <2>1
    <2>3. o \in Nat
      BY <1>4
    <2> QED
      BY <1>6, <2>2, <2>3
  <1>8. /\ coded_bits' \in Seq({0, 1})
        /\ Len(coded_bits') = Len(coded_bits) + o
        /\ receiver' = ReadNext(receiver, bits)
    <2>1. coded_bits' = coded_bits \o bits
      BY <1>1, <1>3, <1>6
    <2> QED
      BY <1>1, <1>5, <1>7, <2>1, Heard
  <1>9. receiver' = ReadSigns(receiver, bits)
    BY <1>5, <1>8, Zenon DEF ReadNext
  <1>10. receiver \in Receivers
    BY <1>5 DEF HeardAll
  <1> DEFINE levels == [k \in 1..MaxCoeffs |-> IF n - o < k /\ k <= n THEN 1 - 2 * bits[n + 1 - k]
                                               ELSE receiver.levels[k]]
             suffix == IF n > 10 /\ o < 3 THEN 1 ELSE 0
  <1>11. receiver' = [receiver EXCEPT !.pos = @ + o, !.levels = levels, !.index = n - o,
                                      !.suffix = suffix, !.reads = "levels"]
    <2>1. DOMAIN receiver.levels = 1..MaxCoeffs
      BY <1>10 DEF Receivers, Coefficients
    <2>2. receiver.ones <= Len(bits)
      BY <1>4, <1>5, <1>7
    <2>3. receiver.levels = receiver.levels /\ receiver.num = n /\ receiver.ones = o
      BY <1>5
    <2>4. ReadSigns(receiver, bits) =
            [receiver EXCEPT !.pos = @ + receiver.ones,
                 !.levels = [k \in DOMAIN @ |-> IF receiver.num - receiver.ones < k /\ k <= receiver.num
                                                THEN 1 - 2 * bits[receiver.num + 1 - k] ELSE @[k]],
                 !.index = receiver.num - receiver.ones,
                 !.suffix = IF receiver.num > 10 /\ receiver.ones < 3 THEN 1 ELSE 0,
                 !.reads = "levels"]
      BY <2>2, Zenon DEF ReadSigns
    <2> QED
      BY <1>9, <1>10, <2>1, <2>3, <2>4 DEF Receivers
  <1>12. levels \in Coefficients
    <2>1. ASSUME NEW k \in 1..MaxCoeffs
          PROVE  levels[k] \in Int
      <3>1. CASE n - o < k /\ k <= n
        <4>1. n + 1 - k \in 1..o
          BY <1>4, <3>1
        <4>2. bits[n + 1 - k] \in {0, 1}
          BY <1>7, <4>1
        <4> QED
          BY <3>1, <4>2
      <3>2. CASE ~(n - o < k /\ k <= n)
        BY <1>10, <3>2 DEF Receivers, Coefficients
      <3> QED
        BY <3>1, <3>2
    <2> QED
      BY <2>1 DEF Coefficients
  <1>13. \A k \in (n - o + 1)..n : levels[k] = m_levels[k]
    <2> TAKE k \in (n - o + 1)..n
    <2>1. k \in 1..MaxCoeffs /\ n - o < k /\ k <= n
      BY <1>4
    <2>2. PICK i \in 1..o : i = n + 1 - k /\ n + 1 - i = k
      BY <1>4, <2>1
    <2>3. levels[k] = 1 - 2 * bits[i]
      BY <2>1, <2>2
    <2>4. bits[i] = Sign(m_levels[k])
      BY <1>7, <2>2
    <2> HIDE DEF levels
    <2>5. m_levels[k] \in {1, -1}
      BY <1>4
    <2> QED
      BY <2>3, <2>4, <2>5 DEF Sign
  <1>14. suffix = StartSuffixLength(n, o)
    BY DEF StartSuffixLength
  <1>15. suffix \in {0, 1} /\ (n <= 10 => suffix = 0)
    BY <1>4
  <1> HIDE DEF levels, suffix
  <1>16. /\ receiver'.pos = receiver.pos + o /\ receiver'.levels = levels /\ receiver'.index = n - o
         /\ receiver'.suffix = suffix /\ receiver'.reads = "levels"
         /\ receiver'.block = receiver.block /\ receiver'.num = n /\ receiver'.ones = o
    BY <1>5, <1>10, <1>11 DEF Receivers
  <1>17. HeardAll'
    <2>1. o \in Nat
      BY <1>4
    <2>2. receiver'.pos = Len(coded_bits') + 1 /\ receiver.pos + o \in Nat
      BY <1>5, <1>8, <1>16, <2>1, StandsBehind
    <2>3. n - o \in Nat /\ suffix \in 0..6
      BY <1>4, <1>15
    <2>4. receiver' \in Receivers
      BY <1>10, <1>11, <1>12, <2>2, <2>3 DEF Receivers
    <2> QED
      BY <1>2, <1>8, <2>2, <2>4 DEF HeardAll
  <1>18. LevelsInv'
    <2>1. index' = n - o /\ suffix_length' = suffix
      BY <1>1, <1>3, <1>14
    <2>2. n - o \in 0..(n - o)
      BY <1>4
    <2>3. \A k \in (index' + 1)..n : receiver'.levels[k] = m_levels[k]
      BY <1>13, <1>16, <2>1
    <2>4. m_coeff_num' = n /\ m_trailing_ones' = o
      BY <1>2, <1>3
    <2> QED
      BY <1>1, <1>2, <1>5, <1>15, <1>16, <2>1, <2>2, <2>3, <2>4 DEF LevelsInv, KnowsCounts
  <1>19. MethodInv'
    BY <1>1, <1>2, <1>5 DEF MethodInv
  <1> QED
    BY <1>1, <1>2, <1>17, <1>18, <1>19 DEF CoderInv, SignsInv, RunsInv, ReceiverRecoversBlock

\* What is known of the places when the pre-coder is done.
LEMMA PlacesAre ==
  ASSUME CoderInv, scanned = MaxCoeffs, NEW n, n = m_coeff_num
  PROVE  /\ n \in Nat
         /\ \A k \in 1..n : /\ places[k] \in Int /\ places[k] >= k /\ places[k] <= MaxCoeffs
                            /\ places[k] - k <= MaxCoeffs - n
                            /\ m_levels[k] = block[places[k]]
         /\ \A k \in 2..n : m_runs[k] = places[k] - places[k - 1] - 1
         /\ \A j \in 1..n, k \in 1..n : j <= k => places[j] - j <= places[k] - k
         /\ \A p \in 1..MaxCoeffs : block[p] # 0 => \E k \in 1..n : places[k] = p
         /\ n > 0 => m_total_zeros = places[n] - n
  <1>1. /\ n = Len(m_levels) /\ n \in Nat /\ MaxCoeffs \in {4, 15, 16} /\ n <= MaxCoeffs
    BY Counts DEF m_coeff_num
  <1>2. /\ \A k \in 1..n : LevelFrom(k)
        /\ \A j \in 1..n, k \in 1..n : j <= k => places[j] - j <= places[k] - k
        /\ \A p \in 1..MaxCoeffs : block[p] # 0 => \E k \in 1..n : places[k] = p
        /\ m_total_zeros = Highest - n /\ Highest \in n..MaxCoeffs
        /\ Highest = IF n = 0 THEN 0 ELSE places[n]
    BY <1>1 DEF CoderInv, PlacesInv, Highest
  <1>3. ASSUME NEW k \in 1..n
        PROVE  /\ places[k] \in Int /\ places[k] >= k /\ places[k] <= MaxCoeffs
               /\ m_levels[k] = block[places[k]]
               /\ m_runs[k] = places[k] - (IF k = 1 THEN 0 ELSE places[k - 1]) - 1
    <2>1. LevelFrom(k)
      BY <1>2
    <2>2. k \in Int
      OBVIOUS
    <2> QED
      BY <1>1, <2>1, <2>2 DEF LevelFrom, PlaceBefore
  <1>4. ASSUME NEW k \in 1..n
        PROVE  places[k] - k <= MaxCoeffs - n
    <2>1. n \in 1..n /\ k <= n /\ n # 0
      BY <1>1
    <2>2. places[k] - k <= places[n] - n
      BY <1>2, <2>1
    <2>3. places[n] <= MaxCoeffs /\ places[n] \in Int /\ places[k] \in Int
      BY <1>3, <2>1
    <2> QED
      BY <1>1, <2>2, <2>3
  <1>5. ASSUME NEW k \in 2..n
        PROVE  m_runs[k] = places[k] - places[k - 1] - 1
    <2>1. k \in 1..n /\ k # 1
      BY <1>1
    <2> QED
      BY <1>3, <2>1
  <1>6. n > 0 => m_total_zeros = places[n] - n
    BY <1>1, <1>2
  <1> QED
    BY <1>1, <1>2, <1>3, <1>4, <1>5, <1>6

\* Where no level is, there is a zero.
LEMMA ZerosBetween ==
  ASSUME CoderInv, scanned = MaxCoeffs, NEW p \in 1..MaxCoeffs, NEW n, n = m_coeff_num
  PROVE  /\ n > 0 /\ p > places[n] => block[p] = 0
         /\ n > 0 /\ p < places[1] => block[p] = 0
         /\ \A i \in 2..n : places[i - 1] < p /\ p < places[i] => block[p] = 0
  <1>1. /\ n \in Nat
        /\ \A k \in 1..n : places[k] \in Int
        /\ \A j \in 1..n, k \in 1..n : j <= k => places[j] - j <= places[k] - k
        /\ block[p] # 0 => \E k \in 1..n : places[k] = p
    BY PlacesAre
  <1>2. ASSUME NEW j \in 1..n, NEW k \in 1..n, j <= k
        PROVE  places[j] <= places[k]
    <2>1. places[j] - j <= places[k] - k /\ places[j] \in Int /\ places[k] \in Int
      BY <1>1, <1>2
    <2> QED
      BY <1>1, <1>2, <2>1
  <1> SUFFICES ASSUME block[p] # 0
               PROVE  /\ ~(n > 0 /\ p > places[n])
                      /\ ~(n > 0 /\ p < places[1])
                      /\ \A i \in 2..n : ~(places[i - 1] < p /\ p < places[i])
    OBVIOUS
  <1>3. PICK k \in 1..n : places[k] = p
    BY <1>1
  <1>4. n \in 1..n /\ 1 \in 1..n /\ 1 <= k /\ k <= n
    BY <1>1
  <1>5. p <= places[n] /\ places[1] <= p /\ places[1] \in Int /\ places[n] \in Int
    BY <1>1, <1>2, <1>3, <1>4
  <1>6. ASSUME NEW i \in 2..n
        PROVE  ~(places[i - 1] < p /\ p < places[i])
    <2>1. PICK j \in 1..n : j = i - 1 /\ (k <= j \/ i <= k) /\ i \in 1..n
      BY <1>1
    <2>2. places[j] \in Int /\ places[i] \in Int
      BY <1>1, <2>1
    <2>3. CASE k <= j
      <3>1. p <= places[j]
        BY <1>2, <1>3, <2>3
      <3> QED
        BY <2>1, <2>2, <3>1
    <2>4. CASE i <= k
      <3>1. places[i] <= p
        BY <1>2, <1>3, <2>1, <2>4
      <3> QED
        BY <2>1, <2>2, <3>1
    <2> QED
      BY <2>1, <2>3, <2>4
  <1> QED
    BY <1>5, <1>6

\* The receiver learns where the highest level is.
LEMMA TotalZerosKeeps ==
  ASSUME CoderInv, WriteTotalZeros
  PROVE  CoderInv'
  <1>1. /\ method = "WriteLevels" /\ index = 0 /\ method' = "WriteRuns"
        /\ IF m_coeff_num = MaxCoeffs
           THEN coded_bits' = coded_bits
           ELSE coded_bits' = coded_bits \o CodeBits(TotalZeros(m_data_type, m_coeff_num, m_total_zeros))
        /\ left_zeros' = m_total_zeros /\ index' = m_coeff_num
        /\ Hear
        /\ UNCHANGED <<input, precoded>>
        /\ UNCHANGED <<scanned, m_levels, places, block>>
    BY DEF WriteTotalZeros, Write, input, precoded
  <1>2. /\ InputInv' /\ PlacesInv'
        /\ MaxCoeffs' = MaxCoeffs /\ Coefficients' = Coefficients /\ AllZeros' = AllZeros
        /\ Receivers' = Receivers
        /\ m_coeff_num' = m_coeff_num /\ m_trailing_ones' = m_trailing_ones
    BY <1>1, Precoded
  <1>3. PICK n, z : n = m_coeff_num /\ z = m_total_zeros
    OBVIOUS
  <1>4. /\ InputOK /\ HeardAll /\ receiver.reads = "levels" /\ receiver.block = AllZeros
        /\ receiver.num = n /\ receiver.index = 0 /\ n > 0 /\ scanned = MaxCoeffs
        /\ \A k \in 1..n : receiver.levels[k] = m_levels[k]
    BY <1>1, <1>3 DEF CoderInv, InputInv, LevelsInv, KnowsCounts, MethodInv
  <1>5. /\ n \in Nat /\ n <= MaxCoeffs /\ MaxCoeffs \in {4, 15, 16}
        /\ places[n] \in Int /\ places[n] >= n /\ places[n] <= MaxCoeffs /\ z = places[n] - n
    <2>1. n \in Nat /\ n <= MaxCoeffs /\ MaxCoeffs \in {4, 15, 16}
      BY <1>3, Counts
    <2>2. n \in 1..n
      BY <1>4, <2>1
    <2>3. places[n] \in Int /\ places[n] >= n /\ places[n] <= MaxCoeffs /\ z = places[n] - n
      BY <1>3, <1>4, <2>2, PlacesAre
    <2> QED
      BY <2>1, <2>3
  <1>6. z \in 0..(MaxCoeffs - n) /\ z \in Nat
    BY <1>5
  <1>7. \E l \in Nat : /\ coded_bits' \in Seq({0, 1})
                       /\ Len(coded_bits') = Len(coded_bits) + l
                       /\ receiver' = [receiver EXCEPT !.pos = @ + l, !.zeros = z, !.index = n, !.reads = "runs"]
    <2>1. CASE n = MaxCoeffs
      <3>1. <<>> \in Seq({0, 1}) /\ Len(<<>>) = 0
        OBVIOUS
      <3>2. coded_bits' = coded_bits \o <<>>
        BY <1>1, <1>3, <1>4, <2>1 DEF HeardAll
      <3>3. /\ coded_bits' \in Seq({0, 1})
            /\ Len(coded_bits') = Len(coded_bits) + 0
            /\ receiver' = ReadNext(receiver, <<>>)
        BY <1>1, <1>4, <3>1, <3>2, Heard
      <3>4. receiver.index = 0 /\ ~(receiver.index > 0)
        BY <1>4
      <3>5. receiver' = ReadTotalZeros(receiver, <<>>)
        BY <1>4, <3>3, <3>4, Zenon DEF ReadNext
      <3>6. receiver' = [receiver EXCEPT !.zeros = 0, !.index = n, !.reads = "runs"]
        BY <1>4, <2>1, <3>5, Zenon DEF ReadTotalZeros
      <3>7. z = 0
        BY <1>5, <1>6, <2>1
      <3>8. receiver \in Receivers
        BY <1>4 DEF HeardAll
      <3>9. receiver.pos + 0 = receiver.pos
        BY <3>8 DEF Receivers
      <3>10. receiver' = [receiver EXCEPT !.pos = @ + 0, !.zeros = z, !.index = n, !.reads = "runs"]
        <4>1. receiver = [receiver EXCEPT !.pos = receiver.pos + 0]
          BY <3>8, <3>9 DEF Receivers
        <4>2. [receiver EXCEPT !.zeros = z, !.index = n, !.reads = "runs"]
                = [receiver EXCEPT !.pos = receiver.pos + 0, !.zeros = z, !.index = n, !.reads = "runs"]
          BY <4>1, Zenon
        <4> QED
          BY <3>6, <3>7, <4>2, Zenon
      <3> QED
        BY <3>3, <3>10
    <2>2. CASE n # MaxCoeffs
      <3>1. PICK w : w = TotalZeros(m_data_type, n, z)
        OBVIOUS
      <3>2. n \in 1..(MaxCoeffs - 1)
        BY <1>4, <1>5, <2>2
      <3>3. w \in TableWords
        BY <1>4, <1>6, <3>1, <3>2, ZerosWords DEF InputOK, MaxCoeffs
      <3>4. w.len \in Nat /\ Len(CodeBits(w)) = w.len /\ CodeBits(w) \in Seq({0, 1})
        <4>1. w \in Words
          BY <3>3, WordLength
        <4> QED
          BY <3>3, <4>1, WordLength, CodeBitsAre DEF Words
      <3>5. coded_bits' = coded_bits \o CodeBits(w)
        BY <1>1, <1>3, <2>2, <3>1
      <3>6. /\ coded_bits' \in Seq({0, 1})
            /\ Len(coded_bits') = Len(coded_bits) + w.len
            /\ receiver' = ReadNext(receiver, CodeBits(w))
        BY <1>1, <1>4, <3>4, <3>5, Heard
      <3>7. receiver.index = 0 /\ ~(receiver.index > 0)
        BY <1>4
      <3>8. receiver' = ReadTotalZeros(receiver, CodeBits(w))
        BY <1>4, <3>6, <3>7, Zenon DEF ReadNext
      <3>9. ReadTotalZeros(receiver, CodeBits(w)) = AfterZeros(receiver, w, z)
        BY <1>4, <1>6, <3>1, <3>2, ReadsZeros
      <3>10. receiver' = [receiver EXCEPT !.pos = @ + w.len, !.zeros = z, !.index = n, !.reads = "runs"]
        BY <1>4, <3>8, <3>9, Zenon DEF AfterZeros
      <3> QED
        BY <3>4, <3>6, <3>10
    <2> QED
      BY <2>1, <2>2
  <1>8. PICK l \in Nat : /\ coded_bits' \in Seq({0, 1})
                         /\ Len(coded_bits') = Len(coded_bits) + l
                         /\ receiver' = [receiver EXCEPT !.pos = @ + l, !.zeros = z, !.index = n, !.reads = "runs"]
    BY <1>7
  <1>9. receiver \in Receivers
    BY <1>4 DEF HeardAll
  <1>10. /\ receiver'.pos = receiver.pos + l /\ receiver'.zeros = z /\ receiver'.index = n
         /\ receiver'.reads = "runs" /\ receiver'.levels = receiver.levels
         /\ receiver'.block = receiver.block
    BY <1>8, <1>9 DEF Receivers
  <1>11. HeardAll'
    <2>1. receiver'.pos = Len(coded_bits') + 1 /\ receiver.pos + l \in Nat
      BY <1>4, <1>8, <1>10, StandsBehind
    <2>2. receiver' \in Receivers
      BY <1>5, <1>6, <1>8, <1>9, <2>1 DEF Receivers
    <2> QED
      BY <1>2, <1>8, <2>1, <2>2 DEF HeardAll
  <1>12. RunsInv'
    <2>1. index' = n /\ left_zeros' = z /\ n \in 1..n /\ places'[n] = places[n] /\ m_levels' = m_levels
      BY <1>1, <1>3, <1>4, <1>5
    <2>2. \A p \in 1..MaxCoeffs : receiver'.block[p] = IF p > places[n] THEN block[p] ELSE 0
      <3> TAKE p \in 1..MaxCoeffs
      <3>1. receiver'.block[p] = 0
        BY <1>4, <1>10 DEF AllZeros
      <3>2. p > places[n] => block[p] = 0
        BY <1>3, <1>4, ZerosBetween
      <3> QED
        BY <3>1, <3>2
    <2>3. m_coeff_num' = n
      BY <1>2, <1>3
    <2>4. \A k \in 1..n : receiver'.levels[k] = m_levels[k]
      BY <1>4, <1>10
    <2> QED
      BY <1>1, <1>2, <1>5, <1>10, <2>1, <2>2, <2>3, <2>4 DEF RunsInv
  <1>13. MethodInv'
    BY <1>1, <1>2, <1>4 DEF MethodInv
  <1> QED
    BY <1>1, <1>2, <1>11, <1>12, <1>13 DEF CoderInv, SignsInv, LevelsInv, ReceiverRecoversBlock

\* The receiver learns where the next level is.
LEMMA RunKeeps ==
  ASSUME CoderInv, WriteRun
  PROVE  CoderInv'
  <1>1. /\ method = "WriteRuns" /\ method' = "WriteRuns" /\ MoreRuns
        /\ coded_bits' = coded_bits \o CodeBits(RunBefore(RunTableIndex(left_zeros), m_runs[index]))
        /\ left_zeros' = ZerosAfter(left_zeros, m_runs[index]) /\ index' = index - 1
        /\ Hear
        /\ UNCHANGED <<input, precoded>>
        /\ UNCHANGED <<scanned, m_levels, places, block>>
    BY DEF WriteRun, Write, input, precoded
  <1>2. /\ InputInv' /\ PlacesInv'
        /\ MaxCoeffs' = MaxCoeffs /\ Coefficients' = Coefficients /\ AllZeros' = AllZeros
        /\ Receivers' = Receivers
        /\ m_coeff_num' = m_coeff_num /\ m_trailing_ones' = m_trailing_ones
    BY <1>1, Precoded
  <1>3. PICK n, i, z, before : n = m_coeff_num /\ i = index /\ z = left_zeros /\ before = m_runs[index]
    OBVIOUS
  <1>4. /\ HeardAll /\ receiver.reads = "runs" /\ receiver.index = i /\ receiver.zeros = z
        /\ scanned = MaxCoeffs /\ i \in 1..n /\ z = places[i] - i /\ i > 1 /\ z # 0
        /\ \A k \in 1..n : receiver.levels[k] = m_levels[k]
        /\ \A p \in 1..MaxCoeffs : receiver.block[p] = IF p > places[i] THEN block[p] ELSE 0
    BY <1>1, <1>3 DEF CoderInv, RunsInv, MethodInv, MoreRuns
  <1>5. n \in Nat /\ n <= MaxCoeffs /\ MaxCoeffs \in {4, 15, 16}
    BY <1>3, Counts
  <1>6. PICK j \in 1..n : j = i - 1 /\ i = j + 1 /\ j <= i
    BY <1>4, <1>5
  <1>7. /\ places[i] \in Int /\ places[i] >= i /\ places[i] <= MaxCoeffs
        /\ places[i] - i <= MaxCoeffs - n /\ m_levels[i] = block[places[i]]
        /\ places[j] \in Int /\ places[j] >= j
        /\ places[j] - j <= places[i] - i
    BY <1>3, <1>4, <1>6, PlacesAre
  <1>8. before = places[i] - places[j] - 1
    <2>1. i \in 2..n
      BY <1>4, <1>5
    <2>2. m_runs[i] = places[i] - places[i - 1] - 1
      BY <1>3, <1>4, <2>1, PlacesAre
    <2> QED
      BY <1>3, <1>6, <2>2
  <1>9. z \in 1..14 /\ before \in 0..z /\ z - before = places[j] - j /\ i + z = places[i]
        /\ z - before \in Nat /\ places[j] < places[i]
    <2>1. PICK a \in Int, b \in Int : a = places[i] /\ b = places[j]
      BY <1>7
    <2>2. /\ a >= i /\ a <= MaxCoeffs /\ a - i <= MaxCoeffs - n /\ b >= j /\ b - j <= a - i
          /\ before = a - b - 1 /\ z = a - i /\ z # 0
      BY <1>4, <1>7, <1>8, <2>1
    <2>3. i > 1 /\ i <= n /\ i \in Int
      BY <1>4, <1>5
    <2>4. z \in 1..14
      BY <1>5, <2>2, <2>3
    <2>5. before \in 0..z /\ z - before = b - j /\ i + z = a /\ z - before \in Nat /\ b < a
      BY <1>6, <2>2, <2>3
    <2> QED
      BY <2>1, <2>4, <2>5
  <1>10. PICK w : w = RunBefore(RunTableIndex(z), before)
    OBVIOUS
  <1>11. w \in TableWords
    <2>1. PICK row : row = RunTableIndex(z) /\ row = (IF z > 6 THEN 6 ELSE z - 1)
      BY <1>9 DEF RunTableIndex, s_run_table_no_cdc_size
    <2> QED
      BY <1>9, <1>10, <2>1, RunWords
  <1>12. w.len \in Nat /\ Len(CodeBits(w)) = w.len /\ CodeBits(w) \in Seq({0, 1})
    <2>1. w \in Words
      BY <1>11, WordLength
    <2> QED
      BY <1>11, <2>1, WordLength, CodeBitsAre DEF Words
  <1>13. /\ coded_bits' \in Seq({0, 1})
         /\ Len(coded_bits') = Len(coded_bits) + w.len
         /\ receiver' = ReadNext(receiver, CodeBits(w))
    <2>1. coded_bits' = coded_bits \o CodeBits(w)
      BY <1>1, <1>3, <1>10
    <2> QED
      BY <1>1, <1>4, <1>12, <2>1, Heard
  <1>14. receiver' = ReadRun(receiver, CodeBits(w))
    BY <1>4, <1>13, Zenon DEF ReadNext
  <1>15. ReadRun(receiver, CodeBits(w)) = AfterRun(receiver, w, before)
    BY <1>4, <1>9, <1>10, ReadsRun
  <1>16. receiver \in Receivers
    BY <1>4 DEF HeardAll
  <1>17. receiver' = [receiver EXCEPT !.pos = @ + w.len,
                                      !.block = [@ EXCEPT ![places[i]] = block[places[i]]],
                                      !.zeros = places[j] - j, !.index = j]
    <2>1. receiver.index + receiver.zeros = places[i] /\ receiver.levels[receiver.index] = block[places[i]]
          /\ receiver.zeros - before = places[j] - j /\ receiver.index - 1 = j
      BY <1>4, <1>6, <1>7, <1>9
    <2> QED
      BY <1>14, <1>15, <1>16, <2>1 DEF AfterRun, Receivers
  <1> DEFINE found == [receiver.block EXCEPT ![places[i]] = block[places[i]]]
  <1>18. places[i] \in 1..MaxCoeffs /\ receiver.block \in [1..MaxCoeffs -> Int] /\ block \in [1..MaxCoeffs -> Int]
    <2>1. places[i] \in 1..MaxCoeffs
      <3>1. i \in Int /\ i >= 1
        BY <1>4, <1>5
      <3> QED
        BY <1>5, <1>7, <3>1
    <2>2. receiver.block \in [1..MaxCoeffs -> Int]
      BY <1>16 DEF Receivers, Coefficients
    <2>3. block \in [1..MaxCoeffs -> Int]
      BY DEF CoderInv, InputInv
    <2> QED
      BY <2>1, <2>2, <2>3
  <1>19. found \in Coefficients
    BY <1>18 DEF Coefficients
  <1>20. \A p \in 1..MaxCoeffs : found[p] = IF p > places[j] THEN block[p] ELSE 0
    <2> TAKE p \in 1..MaxCoeffs
    <2>0. found[p] = IF p = places[i] THEN block[p] ELSE receiver.block[p]
      BY <1>18
    <2> HIDE DEF found
    <2>1. i \in 2..n
      BY <1>4, <1>5
    <2>2. places[i - 1] < p /\ p < places[i] => block[p] = 0
      BY <1>3, <1>4, <2>1, ZerosBetween
    <2>3. receiver.block[p] = IF p > places[i] THEN block[p] ELSE 0
      BY <1>4
    <2>4. places[i - 1] = places[j]
      BY <1>6
    <2> QED
      BY <1>7, <1>9, <2>0, <2>2, <2>3, <2>4
  <1>21. receiver' = [receiver EXCEPT !.pos = @ + w.len, !.block = found,
                                      !.zeros = places[j] - j, !.index = j]
    BY <1>17
  <1> HIDE DEF found
  <1>22. /\ receiver'.pos = receiver.pos + w.len /\ receiver'.block = found
         /\ receiver'.zeros = places[j] - j /\ receiver'.index = j
         /\ receiver'.reads = "runs" /\ receiver'.levels = receiver.levels
    BY <1>4, <1>16, <1>21 DEF Receivers
  <1>23. HeardAll'
    <2>1. receiver'.pos = Len(coded_bits') + 1 /\ receiver.pos + w.len \in Nat
      BY <1>4, <1>12, <1>13, <1>22, StandsBehind
    <2>2. places[j] - j \in Nat /\ j \in Nat
      BY <1>9
    <2>3. receiver' \in Receivers
      BY <1>16, <1>19, <1>21, <2>1, <2>2 DEF Receivers
    <2> QED
      BY <1>2, <1>13, <2>1, <2>3 DEF HeardAll
  <1>24. RunsInv'
    <2>1. index' = j /\ places'[j] = places[j] /\ m_levels' = m_levels /\ m_coeff_num' = n
      BY <1>1, <1>2, <1>3, <1>6
    <2>2. left_zeros' = places[j] - j
      BY <1>1, <1>3, <1>9 DEF ZerosAfter
    <2>3. \A p \in 1..MaxCoeffs : receiver'.block[p] = IF p > places[j] THEN block[p] ELSE 0
      BY <1>20, <1>22
    <2>4. \A k \in 1..n : receiver'.levels[k] = m_levels[k]
      BY <1>4, <1>22
    <2> QED
      BY <1>1, <1>2, <1>22, <2>1, <2>2, <2>3, <2>4 DEF RunsInv
  <1>25. MethodInv'
    BY <1>1, <1>2, <1>4 DEF MethodInv
  <1> QED
    BY <1>1, <1>2, <1>23, <1>24, <1>25 DEF CoderInv, SignsInv, LevelsInv, ReceiverRecoversBlock

\* What the receiver assumes of the lowest levels is true.
LEMMA EndKeeps ==
  ASSUME CoderInv, EndRuns
  PROVE  CoderInv'
  <1>1. /\ method = "WriteRuns" /\ method' = "done" /\ ~MoreRuns
        /\ coded_bits' = coded_bits
        /\ Hear
        /\ UNCHANGED <<input, precoded>>
        /\ UNCHANGED <<scanned, block>>
    BY DEF EndRuns, input, precoded
  <1>2. /\ InputInv' /\ PlacesInv'
        /\ MaxCoeffs' = MaxCoeffs /\ Coefficients' = Coefficients /\ AllZeros' = AllZeros
        /\ Receivers' = Receivers
    BY <1>1, Precoded
  <1>3. PICK n, i, z : n = m_coeff_num /\ i = index /\ z = left_zeros
    OBVIOUS
  <1>4. /\ HeardAll /\ receiver.reads = "runs" /\ receiver.index = i /\ receiver.zeros = z
        /\ scanned = MaxCoeffs /\ i \in 1..n /\ z = places[i] - i /\ ~(z # 0 /\ i > 1)
        /\ \A k \in 1..n : receiver.levels[k] = m_levels[k]
        /\ \A p \in 1..MaxCoeffs : receiver.block[p] = IF p > places[i] THEN block[p] ELSE 0
    BY <1>1, <1>3 DEF CoderInv, RunsInv, MethodInv, MoreRuns
  <1>5. n \in Nat /\ n <= MaxCoeffs /\ MaxCoeffs \in {4, 15, 16}
    BY <1>3, Counts
  <1>6. /\ \A k \in 1..n : /\ places[k] \in Int /\ places[k] >= k /\ places[k] <= MaxCoeffs
                           /\ m_levels[k] = block[places[k]]
        /\ \A j \in 1..n, k \in 1..n : j <= k => places[j] - j <= places[k] - k
    BY <1>3, <1>4, PlacesAre
  <1>7. receiver \in Receivers
    BY <1>4 DEF HeardAll
  <1>8. coded_bits' \in Seq({0, 1}) /\ coded_bits' = coded_bits /\ receiver' = ReadNext(receiver, <<>>)
    <2>1. <<>> \in Seq({0, 1})
      OBVIOUS
    <2>2. coded_bits' = coded_bits \o <<>>
      BY <1>1, <1>4 DEF HeardAll
    <2> QED
      BY <1>1, <1>4, <2>1, <2>2, Heard
  <1>9. receiver' = PlaceRest(receiver)
    BY <1>4, <1>8, Zenon DEF ReadNext
  <1> DEFINE found == [p \in 1..MaxCoeffs |-> IF z < p /\ p <= z + i THEN receiver.levels[p - z]
                                              ELSE receiver.block[p]]
  <1>10. receiver' = [receiver EXCEPT !.block = found, !.reads = "nothing"]
    <2>1. DOMAIN receiver.block = 1..MaxCoeffs
      BY <1>7 DEF Receivers, Coefficients
    <2> QED
      BY <1>4, <1>7, <1>9, <2>1 DEF PlaceRest, Receivers
  <1>11. block \in [1..MaxCoeffs -> Int] /\ z \in Nat /\ places[i] = z + i
    BY <1>4, <1>6 DEF CoderInv, InputInv
  <1>12. ASSUME NEW p \in 1..MaxCoeffs
         PROVE  found[p] = block[p]
    <2>0. /\ found[p] = IF z < p /\ p <= z + i THEN receiver.levels[p - z] ELSE receiver.block[p]
          /\ i \in Nat /\ i > 0 /\ i <= n /\ z \in Nat /\ p \in Nat /\ n > 0
      BY <1>4, <1>5, <1>11
    <2> HIDE DEF found
    <2>1. CASE p > z + i
      <3>1. found[p] = receiver.block[p]
        BY <2>0, <2>1
      <3> QED
        BY <1>4, <1>11, <2>1, <3>1
    <2>2. CASE z < p /\ p <= z + i
      <3>1. PICK k \in 1..n : k = p - z /\ k <= i /\ p = k + z
        BY <1>5, <2>0, <2>2
      <3>2. places[k] = p
        <4>1. CASE z = 0
          <5>1. places[k] - k <= places[i] - i /\ places[k] \in Int /\ places[k] >= k
            BY <1>4, <1>6, <3>1
          <5>2. places[i] - i = 0 /\ p = k
            BY <1>11, <2>0, <3>1, <4>1
          <5>3. PICK a \in Int : a = places[k] /\ a - k <= 0 /\ a >= k
            BY <5>1, <5>2
          <5> QED
            BY <5>2, <5>3
        <4>2. CASE i = 1
          BY <1>11, <3>1, <4>2
        <4> QED
          BY <1>4, <4>1, <4>2
      <3>3. found[p] = receiver.levels[k]
        BY <2>0, <2>2, <3>1
      <3> QED
        BY <1>4, <1>6, <3>2, <3>3
    <2>3. CASE p <= z
      <3>1. i = 1 /\ p < places[1]
        <4>1. i = 1
          BY <1>4, <2>0, <2>3
        <4> QED
          BY <1>11, <2>0, <2>3, <4>1
      <3>2. block[p] = 0
        BY <1>3, <1>4, <2>0, <3>1, ZerosBetween
      <3>3. found[p] = receiver.block[p]
        BY <2>0, <2>3
      <3>4. receiver.block[p] = 0
        BY <1>4, <1>11, <3>1, <2>3
      <3> QED
        BY <3>2, <3>3, <3>4
    <2> QED
      BY <2>0, <2>1, <2>2, <2>3
  <1>13. found = block
    BY <1>11, <1>12
  <1> HIDE DEF found
  <1>14. /\ receiver' \in Receivers /\ receiver'.pos = receiver.pos
         /\ receiver'.block = block /\ receiver'.reads = "nothing"
    BY <1>7, <1>10, <1>11, <1>13 DEF Receivers, Coefficients
  <1>15. HeardAll'
    BY <1>2, <1>4, <1>8, <1>14 DEF HeardAll
  <1>16. MethodInv'
    BY <1>1, <1>2, <1>4 DEF MethodInv
  <1>17. ReceiverRecoversBlock'
    <2>1. receiver'.pos = Len(coded_bits') + 1
      BY <1>15 DEF HeardAll
    <2> QED
      BY <1>1, <1>14, <2>1 DEF ReceiverRecoversBlock
  <1> QED
    BY <1>1, <1>2, <1>15, <1>16, <1>17 DEF CoderInv, SignsInv, LevelsInv, RunsInv

\* Only the highest of at most ten levels can be longer than the escape of
\* WriteLevelN.
LEMMA LongIsHighest ==
  ASSUME CoderInv, scanned = MaxCoeffs, NEW n, n = m_coeff_num, NEW i \in 1..n
  PROVE  \/ Abs(m_levels[i]) <= MaxLevel
         \/ m_data_type # "ChromaDC" /\ i = n /\ n <= 10 /\ Abs(m_levels[i]) < 2^20 - 2032
  <1>1. /\ n \in Nat /\ n <= MaxCoeffs /\ MaxCoeffs \in {4, 15, 16}
        /\ \A k \in 1..n : m_levels[k] \in Int /\ m_levels[k] # 0
    BY Counts
  <1>2. /\ \A k \in 1..n : /\ places[k] \in Int /\ places[k] >= k /\ places[k] <= MaxCoeffs
                           /\ m_levels[k] = block[places[k]]
        /\ \A j \in 1..n, k \in 1..n : j <= k => places[j] - j <= places[k] - k
    BY PlacesAre
  <1>3. \A k \in 1..n : places[k] \in 1..MaxCoeffs
    <2> TAKE k \in 1..n
    <2>1. places[k] \in Int /\ places[k] >= k /\ places[k] <= MaxCoeffs /\ k \in Int /\ k >= 1
      BY <1>1, <1>2
    <2> QED
      BY <1>1, <2>1
  <1>4. LevelFits(block, places[i]) /\ block \in [1..MaxCoeffs -> Int]
    BY <1>3 DEF CoderInv, InputInv
  <1>5. ASSUME LongEscape(block, places[i])
        PROVE  i = n /\ n <= 10
    <2>1. PICK h \in Int, l \in Int, x \in Int : h = places[n] /\ l = places[1] /\ x = places[i]
      BY <1>1, <1>2
    <2>2. n \in 1..n /\ 1 \in 1..n /\ 1 <= n /\ i <= n /\ i \in Int /\ 1 <= i
      BY <1>1
    <2>3. l - 1 <= h - n /\ x - i <= h - n
      BY <1>2, <2>1, <2>2
    <2>4. ASSUME NEW k \in 1..n
          PROVE  ~(places[k] > x) /\ ~(places[k] <= x - 10)
      <3>1. places[k] \in DOMAIN block
        BY <1>3, <1>4
      <3>2. block[places[k]] # 0
        BY <1>1, <1>2
      <3> QED
        BY <1>5, <2>1, <3>1, <3>2 DEF LongEscape
    <2>5. ~(h > x) /\ ~(l <= x - 10)
      BY <2>1, <2>2, <2>4
    <2> QED
      BY <1>1, <2>2, <2>3, <2>5
  <1>6. m_levels[i] = block[places[i]] /\ m_levels[i] \in Int
    BY <1>1, <1>2
  <1>7. ASSUME LongEscape(block, places[i])
        PROVE  Abs(m_levels[i]) < 2^20 - 2032
    <2>1. 2^14 = 16384 /\ 2^20 = 1048576
      BY Powers
    <2>2. PICK a \in Int : a = Abs(m_levels[i])
      BY <1>6 DEF Abs
    <2>3. a < 2^14 - 2032
      BY <1>6, <1>7, <2>2 DEF LongEscape
    <2>4. a < 16384 - 2032
      BY <2>1, <2>3
    <2>5. PICK t \in Int : t = 2^20 - 2032 /\ t = 1046544
      BY <2>1
    <2> QED
      BY <2>2, <2>4, <2>5
  <1> QED
    BY <1>4, <1>5, <1>6, <1>7 DEF LevelFits

\* The receiver learns a level and adapts the suffix length.
LEMMA LevelKeeps ==
  ASSUME CoderInv, WriteLevel
  PROVE  CoderInv'
  <1>1. PICK n, o, i, level, suffix :
          /\ n = m_coeff_num /\ o = m_trailing_ones /\ i = index
          /\ level = m_levels[index] /\ suffix = suffix_length
    OBVIOUS
  <1>2. PICK first \in BOOLEAN : first = (i = n - o)
    OBVIOUS
  <1>3. PICK modified : modified = IF first /\ level_two_or_higher THEN ModifiedLevel(level) ELSE level
    OBVIOUS
  <1>4. /\ method = "WriteLevels" /\ i > 0
        /\ coded_bits' = coded_bits \o CodeBits(LevelCode(modified, suffix))
        /\ suffix_length' = NextSuffixLength(suffix, level, first) /\ index' = i - 1
        /\ Hear
        /\ UNCHANGED <<input, precoded, method>>
    BY <1>1, <1>2, <1>3 DEF WriteLevel, Write
  <1>5. UNCHANGED <<scanned, m_levels>>
    BY <1>4 DEF precoded
  <1>6. /\ InputInv' /\ PlacesInv'
        /\ MaxCoeffs' = MaxCoeffs /\ Coefficients' = Coefficients /\ AllZeros' = AllZeros
        /\ Receivers' = Receivers
        /\ m_coeff_num' = n /\ m_trailing_ones' = o
    BY <1>1, <1>4, Precoded
  <1>7. /\ HeardAll /\ receiver.reads = "levels" /\ receiver.block = AllZeros
        /\ receiver.num = n /\ receiver.ones = o /\ receiver.index = i /\ receiver.suffix = suffix
        /\ n > 0 /\ scanned = MaxCoeffs /\ i \in 0..(n - o)
        /\ i = n - o => suffix \in {0, 1} /\ (n <= 10 => suffix = 0)
        /\ i # n - o => suffix # 0
        /\ \A k \in (i + 1)..n : receiver.levels[k] = m_levels[k]
    BY <1>1, <1>4 DEF CoderInv, LevelsInv, KnowsCounts, MethodInv
  <1>8. /\ o \in 0..3 /\ n \in Nat /\ o <= n /\ n <= MaxCoeffs /\ MaxCoeffs \in {4, 15, 16}
        /\ \A k \in 1..n : m_levels[k] \in Int /\ m_levels[k] # 0
        /\ o < 3 /\ o < n => m_levels[n - o] \notin {1, -1}
    BY <1>1, Counts
  <1>9. i \in 1..n /\ i \in Nat /\ i <= n - o /\ o < n
    BY <1>4, <1>7, <1>8
  <1>10. level \in Int /\ level # 0 /\ level = m_levels[i]
    BY <1>1, <1>8, <1>9
  <1>11. receiver \in Receivers
    BY <1>7 DEF HeardAll
  <1>12. suffix \in 0..6 /\ receiver.pos \in Int
    BY <1>7, <1>11 DEF Receivers
  <1>13. first => (level_two_or_higher <=> o < 3)
    BY <1>1, <1>8, <1>9 DEF level_two_or_higher
  <1>14. first /\ o < 3 => level \notin {0, 1, -1}
    BY <1>2, <1>8, <1>9, <1>10
  <1>15. \/ Abs(level) <= MaxLevel
         \/ m_data_type # "ChromaDC" /\ suffix = 0 /\ first /\ Abs(level) < 2^20 - 2032
    <2>1. \/ Abs(level) <= MaxLevel
          \/ m_data_type # "ChromaDC" /\ i = n /\ n <= 10 /\ Abs(level) < 2^20 - 2032
      BY <1>1, <1>7, <1>9, <1>10, LongIsHighest
    <2>2. i = n /\ n <= 10 => first /\ suffix = 0
      <3> SUFFICES ASSUME i = n, n <= 10
                   PROVE  first /\ suffix = 0
        OBVIOUS
      <3>1. i = n - o
        BY <1>8, <1>9
      <3> QED
        BY <1>2, <1>7, <3>1
    <2> QED
      BY <2>1, <2>2
  <1>16. /\ modified \in Int /\ modified # 0
         /\ Abs(modified) <= Abs(level)
         /\ CodedFor(receiver, modified, level)
    <2>1. CASE first /\ o < 3
      <3>1. modified = ModifiedLevel(level)
        BY <1>3, <1>13, <2>1
      <3>2. Offset(receiver) = 2
        BY <1>2, <1>7, <2>1 DEF Offset
      <3>3. level \notin {0, 1, -1}
        BY <1>14, <2>1
      <3> QED
        BY <1>10, <3>1, <3>2, <3>3, ModifiedSays DEF CodedFor
    <2>2. CASE ~(first /\ o < 3)
      <3>1. modified = level
        BY <1>3, <1>13, <2>2
      <3>2. Offset(receiver) = 0
        BY <1>2, <1>7, <2>2 DEF Offset
      <3>3. Number(level) + 0 = Number(level)
        BY <1>10 DEF Number, Abs, Sign
      <3>4. Abs(level) <= Abs(level)
        BY <1>10 DEF Abs
      <3> QED
        BY <1>10, <3>1, <3>2, <3>3, <3>4 DEF CodedFor
    <2> QED
      BY <2>1, <2>2
  <1>17. PICK w : w = LevelCode(modified, suffix)
    OBVIOUS
  <1>18. SaysLevel(w, modified, suffix)
    <2>1. PICK a \in Int, b \in Int : a = Abs(level) /\ b = Abs(modified) /\ b <= a
      BY <1>10, <1>16, SignIs
    <2>2. PICK m \in Int, l \in Int : m = MaxLevel /\ l = 2^20 - 2032
      BY Powers DEF MaxLevel
    <2>3. \/ b <= m
          \/ m_data_type # "ChromaDC" /\ suffix = 0 /\ b < l
      BY <1>15, <2>1, <2>2
    <2>4. \/ Abs(modified) <= MaxLevel
          \/ m_data_type # "ChromaDC" /\ suffix = 0 /\ Abs(modified) < 2^20 - 2032
      BY <2>1, <2>2, <2>3
    <2> QED
      BY <1>12, <1>16, <1>17, <2>4, LevelCodeSays
  <1>19. w \in Words /\ ReadLevel(receiver, CodeBits(w)) = AfterLevel(receiver, w, level)
    <2>1. SaysLevel(w, modified, receiver.suffix) /\ receiver.suffix \in 0..6
      BY <1>7, <1>12, <1>18
    <2> QED
      BY <1>10, <1>12, <1>16, <2>1, ReadsLevel
  <1>20. w.len \in Nat /\ Len(CodeBits(w)) = w.len /\ CodeBits(w) \in Seq({0, 1})
    BY <1>19, CodeBitsAre DEF Words
  <1>21. /\ coded_bits' \in Seq({0, 1})
         /\ Len(coded_bits') = Len(coded_bits) + w.len
         /\ receiver' = ReadNext(receiver, CodeBits(w))
    BY <1>4, <1>7, <1>17, <1>20, Heard
  <1>22. receiver' = ReadLevel(receiver, CodeBits(w))
    <2>1. receiver.index > 0 /\ ~(receiver.index = 0)
      BY <1>4, <1>7, <1>9
    <2> QED
      BY <1>7, <1>21, <2>1, Zenon DEF ReadNext
  <1>23. PICK grown : grown = Grown(suffix, level)
    OBVIOUS
  <1>24. NextSuffixLength(suffix, level, first) = grown /\ grown \in 1..6
    <2>1. first => suffix \in {0, 1}
      BY <1>2, <1>7
    <2>2. ~first => suffix # 0 /\ Abs(level) <= 32768
      <3>1. PICK a \in Int : a = Abs(level)
        BY <1>10, SignIs
      <3>2. MaxLevel = 2063
        BY Powers DEF MaxLevel
      <3>3. ~first => a <= 32768
        BY <1>15, <3>1, <3>2
      <3> QED
        <4>1. ~first => suffix # 0
          BY <1>2, <1>7
        <4>2. ~first => Abs(level) <= 32768
          BY <3>1, <3>3
        <4> QED
          BY <4>1, <4>2
    <2> QED
      BY <1>10, <1>12, <1>23, <2>1, <2>2, SuffixesAgree
  <1> DEFINE levels == [receiver.levels EXCEPT ![i] = level]
  <1>25. receiver' = [receiver EXCEPT !.pos = @ + w.len, !.levels = levels,
                                      !.suffix = grown, !.index = i - 1]
    BY <1>7, <1>11, <1>19, <1>22, <1>23 DEF AfterLevel, Receivers
  <1>26. levels \in Coefficients /\ levels[i] = level /\ \A k \in (i + 1)..n : levels[k] = receiver.levels[k]
    <2>1. receiver.levels \in [1..MaxCoeffs -> Int]
      BY <1>11 DEF Receivers, Coefficients
    <2>2. i \in 1..MaxCoeffs /\ \A k \in (i + 1)..n : k \in 1..MaxCoeffs /\ k # i
      BY <1>8, <1>9
    <2> QED
      BY <1>10, <2>1, <2>2 DEF Coefficients
  <1> HIDE DEF levels
  <1>27. /\ receiver'.pos = receiver.pos + w.len /\ receiver'.levels = levels
         /\ receiver'.suffix = grown /\ receiver'.index = i - 1
         /\ receiver'.reads = "levels" /\ receiver'.num = n /\ receiver'.ones = o
         /\ receiver'.block = AllZeros
    BY <1>7, <1>11, <1>25 DEF Receivers
  <1>28. HeardAll'
    <2>1. receiver'.pos = Len(coded_bits') + 1 /\ receiver.pos + w.len \in Nat
      BY <1>7, <1>20, <1>21, <1>27, StandsBehind
    <2>2. i - 1 \in Nat /\ grown \in 0..6
      BY <1>9, <1>24
    <2>3. receiver' \in Receivers
      BY <1>11, <1>25, <1>26, <2>1, <2>2 DEF Receivers
    <2> QED
      BY <1>6, <1>21, <2>1, <2>3 DEF HeardAll
  <1>29. LevelsInv'
    <2>1. PICK j \in Int : j = i - 1 /\ j \in 0..(n - o) /\ j # n - o
      BY <1>8, <1>9
    <2>2. \A k \in (j + 1)..n : levels[k] = m_levels[k]
      <3> TAKE k \in (j + 1)..n
      <3>1. k = i \/ k \in (i + 1)..n
        BY <1>8, <1>9, <2>1
      <3> QED
        BY <1>7, <1>10, <1>26, <3>1
    <2>3. index' = j /\ suffix_length' = grown /\ grown # 0 /\ receiver'.index = j /\ m_levels' = m_levels
      BY <1>4, <1>5, <1>24, <1>27, <2>1
    <2> QED
      BY <1>6, <1>7, <1>27, <2>1, <2>2, <2>3 DEF LevelsInv, KnowsCounts
  <1>30. MethodInv'
    BY <1>4, <1>5, <1>6, <1>7 DEF MethodInv
  <1> QED
    BY <1>4, <1>6, <1>28, <1>29, <1>30 DEF CoderInv, SignsInv, RunsInv, ReceiverRecoversBlock

-----------------------------------------------------------------------------
(* The theorems.                                                           *)

\* Every step keeps the invariant.
LEMMA CoderStep == CoderInv /\ [CoderNext]_coderVars => CoderInv'
  <1> SUFFICES ASSUME CoderInv, [CoderNext]_coderVars
               PROVE  CoderInv'
    OBVIOUS
  <1>1. CASE PassZero
    BY <1>1, PassZeroKeeps
  <1>2. CASE TakeLevel
    BY <1>2, TakeLevelKeeps
  <1>3. CASE WriteCoeffNumAndTrailingOnes
    BY <1>3, CoeffTokenKeeps
  <1>4. CASE WriteTrailingSigns
    BY <1>4, TrailingSignsKeeps
  <1>5. CASE WriteLevel
    BY <1>5, LevelKeeps
  <1>6. CASE WriteTotalZeros
    BY <1>6, TotalZerosKeeps
  <1>7. CASE WriteRun
    BY <1>7, RunKeeps
  <1>8. CASE EndRuns
    BY <1>8, EndKeeps
  <1>9. CASE UNCHANGED coderVars
    <2>1. UNCHANGED <<input, precoded>> /\ UNCHANGED <<method, index, suffix_length, left_zeros,
                                                        coded_bits, receiver>>
      BY <1>9 DEF coderVars
    <2>2. UNCHANGED <<scanned, m_levels, places, block>>
      BY <2>1 DEF input, precoded
    <2>3. /\ InputInv' /\ PlacesInv'
          /\ MaxCoeffs' = MaxCoeffs /\ Coefficients' = Coefficients /\ AllZeros' = AllZeros
          /\ Receivers' = Receivers
          /\ m_coeff_num' = m_coeff_num /\ m_trailing_ones' = m_trailing_ones
      BY <2>1, Precoded
    <2>4. HeardAll'
      BY <2>1, <2>3 DEF CoderInv, HeardAll
    <2>5. MethodInv'
      BY <2>1, <2>2, <2>3 DEF CoderInv, MethodInv
    <2>6. SignsInv'
      BY <2>1, <2>3 DEF CoderInv, SignsInv, KnowsCounts
    <2>7. LevelsInv'
      BY <2>1, <2>2, <2>3 DEF CoderInv, LevelsInv, KnowsCounts
    <2>8. RunsInv'
      BY <2>1, <2>2, <2>3 DEF CoderInv, RunsInv
    <2>9. ReceiverRecoversBlock'
      BY <2>1, <2>2 DEF CoderInv, ReceiverRecoversBlock
    <2> QED
      BY <2>3, <2>4, <2>5, <2>6, <2>7, <2>8, <2>9 DEF CoderInv
  <1> QED
    BY <1>1, <1>2, <1>3, <1>4, <1>5, <1>6, <1>7, <1>8, <1>9 DEF CoderNext

\* After every method of DoCode the receiver has read all that was written, and
\* the counts, the levels and the suffix length it has found so far are those
\* the coder has: it always expects the code that the coder writes next.
THEOREM CoderInvariant == CoderSpec => []CoderInv
  <1>1. CoderInit => CoderInv
    BY CoderInvInit
  <1>2. CoderInv /\ [CoderNext]_coderVars => CoderInv'
    BY CoderStep
  <1> QED
    BY <1>1, <1>2, PTL DEF CoderSpec

\* When DoCode is done a receiver that parses its bits as the standard says has
\* found the block that was coded, and no bit is left over, for every block of
\* coefficients the coders' escapes are wide enough for, every data type and
\* every table the neighbours can select.
THEOREM RecoversBlock == CoderSpec => []ReceiverRecoversBlock
  <1>1. CoderInv => ReceiverRecoversBlock
    BY DEF CoderInv
  <1> QED
    BY <1>1, CoderInvariant, PTL

=============================================================================
