---------------------------- MODULE ByteStream ----------------------------
(***************************************************************************)
(* The bytes the encoder writes, from field values to the output file: a   *)
(* parameter set or slice is serialised element by element into a bit      *)
(* buffer (BitWriter, ParameterSets), closed, and pushed byte by byte      *)
(* through the escaping into the stream (NalStream).  A receiver splits    *)
(* the stream, unescapes a unit and parses it with the standard's syntax.  *)
(*                                                                         *)
(* What the macroblocks of a slice write is any of the element sequences   *)
(* Payloads allows.  The first slice of a behaviour is any picture of a    *)
(* sequence: nothing the writer keeps outlives a unit.                     *)
(***************************************************************************)
EXTENDS NalStream, ParameterSets

CONSTANTS
  Configs,   \* the configurations: the fields ConstructSPS reads, and qp
  Ticks,     \* numbers of the first picture
  Payloads   \* per slice, the element sequences its macroblocks may write

\* A structure holds any bytes; Nalu::Serial builds these four headers.
ASSUME OutputAssumption == Byte = 0..255 /\ {103, 104, 101, 65} \subseteq Header

\* What ue(v) is given: the fields are natural numbers of an int, and so is the
\* successor, which is what UE_V codes.
CodeNum == {v \in Nat : v < 2147483647}

\* Pictures of whole macroblocks, predicted from at least one reference.
ASSUME ConfigsAssumption ==
  \A c \in Configs :
    /\ \A size \in {c.width, c.height} : size \in CodeNum /\ size >= 16 /\ size % 16 = 0
    /\ c.frames_to_encode \in Nat /\ 2 * c.frames_to_encode \in CodeNum
    /\ c.ref_frame_num \in CodeNum \ {0}
    /\ c.qp \in 0..51
    /\ {c.profile_idc, c.level_idc} \subseteq 0..255

VARIABLES
  config,
  tick,          \* the picture coded first
  structure,     \* 1 the SPS, 2 the PPS, 3 and up the slices
  to_write,      \* elements of the structure's header not written yet
  data_written,  \* the macroblocks of the slice have been coded
  m_data, m_bits_count, written, closed,  \* BitWriter's
  units,         \* ghost: the elements of each finished unit
  unit_bytes,    \* the receiver: the RBSP of the unit it reads, <<>> before
  fields         \* the receiver: the value of every field it has read, and the
                 \* bit after the last header

Bits == INSTANCE BitWriter

bitVars == <<m_data, m_bits_count, written, closed>>

writerVars == <<vars, bitVars, config, tick, structure, to_write, data_written, units>>

receiverVars == <<unit_bytes, fields>>

\* The syntax elements CodingUtil writes; of a u(n) it keeps the n low bits.
Element ==
  [kind : {"u"}, n : 1..32, value : Nat]
    \cup [kind : {"ue"}, n : {0}, value : CodeNum]
    \cup [kind : {"se"}, n : {0}, value : {v \in Int : Bits!SECodeNum(v) \in CodeNum}]

\* The macroblocks write syntax elements, and the numbers of pictures are int32_t.
ASSUME PayloadsAssumption ==
  /\ Payloads \in Seq(SUBSET Seq(Element))
  /\ \A t \in Ticks : t \in Nat /\ t + Len(Payloads) \in CodeNum

-----------------------------------------------------------------------------
(* The structures in the order Encoder::Encode serialises them.            *)

sps == ConstructSPS(config)

SliceTick(k) == tick + k - 3

SliceType(k) == IF SliceTick(k) = 0 THEN "I" ELSE "P"

\* The loop ends at frames_to_encode; a request for none never ends it.
Coded(k) == config.frames_to_encode = 0 \/ SliceTick(k) < config.frames_to_encode

\* Dpb::GetRefFrameNum: every picture coded so far.
RefFrameNum(k) == SliceTick(k)

\* The elements structure k begins with.
Elements(k) ==
  CASE k = 1 -> SPSElements(sps)
    [] k = 2 -> PPSElements(sps)
    [] OTHER -> HeaderElements(sps, ConstructHeader(sps, SliceTick(k), SliceType(k), config.qp,
                                                    RefFrameNum(k)))

\* A zero bit, two bits of NaluPriority and five of NaluType.
NalHeader(k) ==
  CASE k = 1 -> 3 * 32 + 7
    [] k = 2 -> 3 * 32 + 8
    [] OTHER -> IF SliceTick(k) = 0 THEN 3 * 32 + 5 ELSE 2 * 32 + 1

StreamInit ==
  /\ Init
  /\ config \in Configs
  /\ tick \in Ticks
  /\ Coded(3)
  /\ structure = 1
  /\ to_write = Elements(1)
  /\ data_written = FALSE
  /\ Bits!Init
  /\ units = <<>>
  /\ unit_bytes = <<>>
  /\ fields = <<>>

\* One syntax element.
WriteElement ==
  /\ to_write # <<>>
  /\ Bits!Write(Head(to_write))
  /\ to_write' = Tail(to_write)
  /\ UNCHANGED <<vars, config, tick, structure, data_written, units, receiverVars>>

\* Macroblock::Encode appends to the buffer that holds the slice header.
EncodeMacroblocks ==
  /\ structure > 2 /\ to_write = <<>> /\ ~data_written
  /\ \E payload \in Payloads[structure - 2] : to_write' = payload
  /\ data_written' = TRUE
  /\ UNCHANGED <<vars, bitVars, config, tick, structure, units, receiverVars>>

\* Nalu::SetData: the trailing bits.
CloseStructure ==
  /\ to_write = <<>>
  /\ structure > 2 => data_written
  /\ Bits!SODB2RBSP
  /\ UNCHANGED <<vars, config, tick, structure, to_write, data_written, units, receiverVars>>

\* Nalu::Serial.
BeginNal ==
  /\ closed /\ Len(units) < structure
  /\ BeginUnit(NalHeader(structure))
  /\ UNCHANGED <<bitVars, config, tick, structure, to_write, data_written, units, receiverVars>>

\* The next byte of the RBSP.
index == Len(rbsp[Len(rbsp)]) + 1

EscapeNext ==
  /\ phase = "escaping"
  /\ index < Len(m_data)
  /\ EscapeByte(m_data[index])
  /\ UNCHANGED <<bitVars, config, tick, structure, to_write, data_written, units, receiverVars>>

EscapeLast ==
  /\ phase = "escaping"
  /\ index = Len(m_data)
  /\ EscapeLastByte(m_data[index])
  /\ units' = Append(units, written)
  /\ UNCHANGED <<bitVars, config, tick, structure, to_write, data_written, receiverVars>>

\* The next structure starts with a buffer of its own.
NextStructure ==
  /\ Len(units) = structure /\ "end" \in DOMAIN fields
  /\ structure < 2 + Len(Payloads) /\ Coded(structure + 1)
  /\ Bits!Reset
  /\ structure' = structure + 1
  /\ to_write' = Elements(structure + 1)
  /\ data_written' = FALSE
  /\ unit_bytes' = <<>>
  /\ fields' = Restrict(fields, DOMAIN fields \ {"end"})
  /\ UNCHANGED <<vars, config, tick, units>>

-----------------------------------------------------------------------------
(* A receiver.  It knows the syntax tables of the standard, here for the   *)
(* profiles without scaling matrices, and nothing of the encoder.          *)

F(name, kind, n) == [name |-> name, kind |-> kind, n |-> n]

SPSSyntax ==
  <<F("profile_idc", "u", 8), F("constraint_flags", "u", 8), F("level_idc", "u", 8),
    F("seq_parameter_set_id", "ue", 0), F("log2_max_frame_num_minus4", "ue", 0),
    F("pic_order_cnt_type", "ue", 0), F("log2_max_pic_order_cnt_lsb_minus4", "ue", 0),
    F("max_num_ref_frames", "ue", 0), F("gaps_in_frame_num_value_allowed_flag", "u", 1),
    F("pic_width_in_mbs_minus1", "ue", 0), F("pic_height_in_map_units_minus1", "ue", 0),
    F("frame_mbs_only_flag", "u", 1), F("mb_adaptive_frame_field_flag", "u", 1),
    F("direct_8x8_inference_flag", "u", 1), F("frame_cropping_flag", "u", 1),
    F("vui_parameters_present_flag", "u", 1)>>

PPSSyntax ==
  <<F("pic_parameter_set_id", "ue", 0), F("seq_parameter_set_id", "ue", 0),
    F("entropy_coding_mode_flag", "u", 1),
    F("bottom_field_pic_order_in_frame_present_flag", "u", 1),
    F("num_slice_groups_minus1", "ue", 0),
    F("num_ref_idx_l0_default_active_minus1", "ue", 0),
    F("num_ref_idx_l1_default_active_minus1", "ue", 0),
    F("weighted_pred_flag", "u", 1), F("weighted_bipred_idc", "u", 2),
    F("pic_init_qp_minus26", "se", 0), F("pic_init_qs_minus26", "se", 0),
    F("chroma_qp_index_offset", "se", 0),
    F("deblocking_filter_control_present_flag", "u", 1),
    F("constrained_intra_pred_flag", "u", 1), F("redundant_pic_cnt_present_flag", "u", 1)>>

SliceSyntax ==
  <<F("first_mb_in_slice", "ue", 0), F("slice_type", "ue", 0), F("pic_parameter_set_id", "ue", 0),
    F("frame_num", "u", 0), F("idr_pic_id", "ue", 0),
    F("pic_order_cnt_lsb", "u", 0),
    F("delta_pic_order_cnt_bottom", "se", 0), F("redundant_pic_cnt", "ue", 0),
    F("num_ref_idx_active_override_flag", "u", 1), F("num_ref_idx_l0_active_minus1", "ue", 0),
    F("ref_pic_list_modification_flag_l0", "u", 1),
    F("no_output_of_prior_pics_flag", "u", 1), F("long_term_reference_flag", "u", 1),
    F("adaptive_ref_pic_marking_mode_flag", "u", 1), F("slice_qp_delta", "se", 0),
    F("disable_deblocking_filter_idc", "ue", 0),
    F("slice_alpha_c0_offset_div2", "se", 0), F("slice_beta_offset_div2", "se", 0)>>

\* Whether a field is there, from the fields read so far: f maps their names to
\* their values, with the NAL header's and the active parameter sets'.
Present(name, f) ==
  CASE name = "log2_max_pic_order_cnt_lsb_minus4" -> f["pic_order_cnt_type"] = 0
    [] name = "mb_adaptive_frame_field_flag" -> f["frame_mbs_only_flag"] = 0
    [] name = "idr_pic_id" -> f["nal_unit_type"] = 5
    [] name = "pic_order_cnt_lsb" -> f["pic_order_cnt_type"] = 0
    [] name = "delta_pic_order_cnt_bottom" -> f["bottom_field_pic_order_in_frame_present_flag"] = 1
    [] name = "redundant_pic_cnt" -> f["redundant_pic_cnt_present_flag"] = 1
    [] name \in {"num_ref_idx_active_override_flag", "ref_pic_list_modification_flag_l0"} ->
         f["slice_type"] % 5 = 0
    [] name = "num_ref_idx_l0_active_minus1" ->
         f["slice_type"] % 5 = 0 /\ f["num_ref_idx_active_override_flag"] = 1
    [] name \in {"no_output_of_prior_pics_flag", "long_term_reference_flag"} ->
         f["nal_ref_idc"] # 0 /\ f["nal_unit_type"] = 5
    [] name = "adaptive_ref_pic_marking_mode_flag" ->
         f["nal_ref_idc"] # 0 /\ f["nal_unit_type"] # 5
    [] name = "disable_deblocking_filter_idc" -> f["deblocking_filter_control_present_flag"] = 1
    [] name \in {"slice_alpha_c0_offset_div2", "slice_beta_offset_div2"} ->
         /\ f["deblocking_filter_control_present_flag"] = 1
         /\ f["disable_deblocking_filter_idc"] # 1
    [] OTHER -> TRUE

Width(field, f) ==
  CASE field.name = "frame_num" -> f["log2_max_frame_num_minus4"] + 4
    [] field.name = "pic_order_cnt_lsb" -> f["log2_max_pic_order_cnt_lsb_minus4"] + 4
    [] OTHER -> field.n

\* The values of g, and of f what g says nothing of.
Overridden(f, g) == [x \in DOMAIN f \cup DOMAIN g |-> IF x \in DOMAIN g THEN g[x] ELSE f[x]]

\* A field that is there is read at the bit "end", which moves behind it.
ReadField(bytes, f, field) ==
  IF Present(field.name, f)
  THEN LET r == Bits!Read(bytes, field.kind, Width(field, f), f["end"])
       IN  Overridden(f, [x \in {field.name, "end"} |-> IF x = "end" THEN r[2] ELSE r[1]])
  ELSE f

\* The fields known before the unit, the fields it adds or replaces, and as
\* "end" the first bit after them.
Parse(syntax, bytes, known) ==
  LET parsed[k \in 0..Len(syntax)] ==
        IF k = 0 THEN Overridden(known, [end |-> 1]) ELSE ReadField(bytes, parsed[k - 1], syntax[k])
  IN  parsed[Len(syntax)]

\* A receiver takes a unit once its last byte is there: the next start code, or
\* the end of the file, tells it so.
ReceiveUnit ==
  /\ Len(units) = structure /\ unit_bytes = <<>>
  /\ unit_bytes' = Unescape(Payload(structure))
  /\ UNCHANGED <<writerVars, fields>>

\* The header byte of the unit follows the start code's four bytes.
NalFields ==
  LET header == m_handle[starts[structure] + 4]
  IN  [nal_ref_idc |-> (header \div 32) % 4, nal_unit_type |-> header % 32]

Syntax(nal_unit_type) ==
  CASE nal_unit_type = 7 -> SPSSyntax
    [] nal_unit_type = 8 -> PPSSyntax
    [] nal_unit_type \in {1, 5} -> SliceSyntax

ParseUnit ==
  /\ unit_bytes # <<>> /\ "end" \notin DOMAIN fields
  /\ fields' = Parse(Syntax(NalFields["nal_unit_type"]), unit_bytes, Overridden(fields, NalFields))
  /\ UNCHANGED <<writerVars, unit_bytes>>

StreamNext ==
  \/ WriteElement
  \/ EncodeMacroblocks
  \/ CloseStructure
  \/ BeginNal
  \/ EscapeNext
  \/ EscapeLast
  \/ NextStructure
  \/ ReceiveUnit
  \/ ParseUnit

StreamSpec == StreamInit /\ [][StreamNext]_<<writerVars, receiverVars>>

-----------------------------------------------------------------------------
(* Properties.                                                             *)

\* Whatever elements were written and whatever bits they fell on, a receiver
\* that unescapes the unit reads every value back, and where the last one ends
\* it finds the stop bit and then less than a byte of zeros
\* (CodingUtil::U_V, UE_V, SE_V, SODB2EBSP over BytesData::PushBit).
ReceiverRecoversElements ==
  unit_bytes # <<>> =>
    LET read == Bits!Replay(unit_bytes, units[structure])
    IN  /\ read[1]
        /\ 8 * Len(unit_bytes) - read[2] \in 0..7
        /\ Bits!BitAt(unit_bytes, read[2]) = 1
        /\ \A i \in (read[2] + 1)..(8 * Len(unit_bytes)) : Bits!BitAt(unit_bytes, i) = 0

\* What each kind of unit tells a receiver.
SPSUnderstood ==
  /\ fields["nal_unit_type"] = 7
  /\ fields["profile_idc"] = config.profile_idc /\ fields["level_idc"] = config.level_idc
  /\ 16 * (fields["pic_width_in_mbs_minus1"] + 1) = config.width
  /\ 16 * (fields["pic_height_in_map_units_minus1"] + 1) = config.height
  /\ fields["max_num_ref_frames"] = config.ref_frame_num
  /\ fields["vui_parameters_present_flag"] = 0

PPSUnderstood ==
  /\ fields["nal_unit_type"] = 8
  /\ fields["entropy_coding_mode_flag"] = 0

SliceUnderstood(now) ==
  /\ fields["nal_unit_type"] = IF now = 0 THEN 5 ELSE 1
  /\ fields["first_mb_in_slice"] = 0
  /\ fields["slice_type"] % 5 = IF now = 0 THEN 2 ELSE 0
  /\ fields["frame_num"] = now % 2^(fields["log2_max_frame_num_minus4"] + 4)
  /\ fields["pic_order_cnt_lsb"] = (2 * now) % 2^(fields["log2_max_pic_order_cnt_lsb_minus4"] + 4)
  /\ now > 0 => fields["num_ref_idx_l0_active_minus1"] + 1 = RefFrameNum(structure)
  /\ 26 + fields["pic_init_qp_minus26"] + fields["slice_qp_delta"] = config.qp

\* A receiver that parses a unit by the standard's syntax, each field present or
\* absent as the fields before it say, learns what the encoder meant: the
\* picture's size, its number, type and references, the qp every macroblock is
\* coded with, and the bit where the macroblocks begin (the Convert2BytesData of
\* SPSData, PPSData and SliceHeader).
ReceiverParsesHeaders ==
  "end" \in DOMAIN fields =>
    /\ fields["end"] = Bits!Replay(unit_bytes, Elements(structure))[2]
    /\ CASE structure = 1 -> SPSUnderstood
         [] structure = 2 -> PPSUnderstood
         [] OTHER -> SliceUnderstood(SliceTick(structure))

\* Nalu's stream is a NalStream whatever is serialised: in particular no
\* structure's last byte is zero, which is what keeps the zeros of the next
\* start code apart from the unit before it.
ImplementsNalStream == Spec
=============================================================================
