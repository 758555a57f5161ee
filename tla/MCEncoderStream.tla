-------------------------- MODULE MCEncoderStream --------------------------
(* Small configurations of the encoder and its receiver for TLC. *)
EXTENDS EncoderStream

\* A single macroblock, so that a run can be long enough for the four bit
\* frame_num and order count to wrap: no limit, and limits around the wrap.
LongConfigs ==
  [frames_to_encode : {0, 7, 8, 15, 16}, start_frame : {0}, ref_frame_num : 1..3,
   width_in_mb : {1}, height_in_mb : {1}]

\* Every picture shape of up to two by three macroblocks, a start at each of the
\* first input pictures.
ShortConfigs ==
  [frames_to_encode : 1..3, start_frame : 0..2, ref_frame_num : 1..2,
   width_in_mb : 1..2, height_in_mb : 1..3]

StreamConfigs == LongConfigs \cup ShortConfigs
=============================================================================
