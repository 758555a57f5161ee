--------------------------- MODULE ParameterSets ---------------------------
(***************************************************************************)
(* The sequence and picture parameter sets and the slice header: the       *)
(* values the encoder gives their fields and the syntax elements it writes *)
(* for them, in order (ParameterSetContainer, SPSData, PPSData,            *)
(* SliceHeader).                                                           *)
(***************************************************************************)
EXTENDS Integers, Sequences

\* CeilLog2 with its default delta of -1: the bits of value - 1, a uint32_t.
CeilLog2(value) == IF value <= 1 THEN 0 ELSE CHOOSE n \in 1..32 : 2^(n - 1) < value /\ value <= 2^n

\* max(CeilLog2(value) - 4, 0), as the decoder reads it back with the 4 added.
FieldBits(value) == IF CeilLog2(value) > 4 THEN CeilLog2(value) ELSE 4

\* Syntax elements: u(n), ue(v) and se(v).
U(n, value) == [kind |-> "u", n |-> n, value |-> value]
UE(value)   == [kind |-> "ue", n |-> 0, value |-> value]
SE(value)   == [kind |-> "se", n |-> 0, value |-> value]

Flags(values) == [i \in DOMAIN values |-> U(1, values[i])]

\* ConstructSPS; the other fields keep the defaults of SPSData.
ConstructSPS(config) ==
  [profile_idc |-> config.profile_idc,
   level_idc |-> config.level_idc,
   max_num_ref_frames |-> config.ref_frame_num,
   pic_width_in_mbs_minus1 |-> (config.width \div 16) - 1,
   pic_height_in_map_units_minus1 |-> (config.height \div 16) - 1,
   log2_max_frame_num |-> FieldBits(1 + config.frames_to_encode),
   log2_max_pic_order_cnt_lsb |-> FieldBits(1 + 2 * config.frames_to_encode)]

\* SPSData::Convert2BytesData.  Order count type 0, no gaps, whole frames,
\* direct_8x8_inference, no cropping and no VUI.
SPSElements(sps) ==
  <<U(8, sps.profile_idc)>>
    \o Flags(<<0, 0, 0, 0, 0, 0>>)
    \o <<U(2, 0), U(8, sps.level_idc), UE(0),
         UE(sps.log2_max_frame_num - 4), UE(0), UE(sps.log2_max_pic_order_cnt_lsb - 4),
         UE(sps.max_num_ref_frames), U(1, 0),
         UE(sps.pic_width_in_mbs_minus1), UE(sps.pic_height_in_map_units_minus1)>>
    \o Flags(<<1, 1, 0, 0>>)

\* ConstructPPS and PPSData::Convert2BytesData.  CAVLC, one slice group, no
\* weighting, qp 26, deblocking control present.
PPSElements(sps) ==
  <<UE(0), UE(0)>>
    \o Flags(<<0, 0>>)
    \o <<UE(0), UE(sps.max_num_ref_frames - 1), UE(sps.max_num_ref_frames - 1),
         U(1, 0), U(2, 0), SE(0), SE(0), SE(0)>>
    \o Flags(<<1, 0, 0>>)

\* The values of SliceType.
SliceTypeValue(slice_type) == IF slice_type = "P" THEN 5 ELSE 7

\* Slice::Construct and SliceHeader::Construct.
ConstructHeader(sps, tick, slice_type, qp, ref_frame_num) ==
  [idr_pic_flag |-> tick = 0 /\ slice_type = "I",
   slice_type |-> SliceTypeValue(slice_type),
   frame_num |-> tick,
   pic_order_cnt_lsb |-> (2 * tick) % 2^sps.log2_max_pic_order_cnt_lsb,
   slice_qp_delta |-> qp - 26,
   active_list0_ref_num |-> ref_frame_num]

\* Faulty variant of HeaderElements: the marking flags of an IDR picture are
\* written for the others too.
HeaderElementsOneMarking(sps, header) ==
  <<UE(0), UE(header.slice_type), UE(0), U(sps.log2_max_frame_num, header.frame_num)>>
    \o (IF header.idr_pic_flag THEN <<UE(0)>> ELSE <<>>)
    \o <<U(sps.log2_max_pic_order_cnt_lsb, header.pic_order_cnt_lsb)>>
    \o (IF header.slice_type = 5
        THEN <<U(1, 1), UE(header.active_list0_ref_num - 1), U(1, 0)>> ELSE <<>>)
    \o Flags(<<0, 0>>)
    \o <<SE(header.slice_qp_delta), UE(0), SE(0), SE(0)>>

\* SliceHeader::Convert2BytesData.  Deblocking is never disabled, its offsets
\* are zero and the reference list is not reordered.
HeaderElements(sps, header) ==
  <<UE(0), UE(header.slice_type), UE(0), U(sps.log2_max_frame_num, header.frame_num)>>
    \o (IF header.idr_pic_flag THEN <<UE(0)>> ELSE <<>>)
    \o <<U(sps.log2_max_pic_order_cnt_lsb, header.pic_order_cnt_lsb)>>
    \o (IF header.slice_type = 5
        THEN <<U(1, 1), UE(header.active_list0_ref_num - 1), U(1, 0)>> ELSE <<>>)
    \o (IF header.idr_pic_flag THEN Flags(<<0, 0>>) ELSE Flags(<<0>>))
    \o <<SE(header.slice_qp_delta), UE(0), SE(0), SE(0)>>
=============================================================================
