---------------------------- MODULE CavlcTables ----------------------------
(***************************************************************************)
(* The code tables of the residual coder (cavlc_constant_values.h): for    *)
(* every table a length and a code per entry, indexed as the code does but *)
(* from one.                                                               *)
(***************************************************************************)
EXTENDS Integers, Sequences

s_non_cdc_len_table ==
  <<<<<<1, 6, 8, 9, 10, 11, 13, 13, 13, 14, 14, 15, 15, 16, 16, 16, 16>>,
      <<0, 2, 6, 8, 9, 10, 11, 13, 13, 14, 14, 15, 15, 15, 16, 16, 16>>,
      <<0, 0, 3, 7, 8, 9, 10, 11, 13, 13, 14, 14, 15, 15, 16, 16, 16>>,
      <<0, 0, 0, 5, 6, 7, 8, 9, 10, 11, 13, 14, 14, 15, 15, 16, 16>>>>,
    <<<<2, 6, 6, 7, 8, 8, 9, 11, 11, 12, 12, 12, 13, 13, 13, 14, 14>>,
      <<0, 2, 5, 6, 6, 7, 8, 9, 11, 11, 12, 12, 13, 13, 14, 14, 14>>,
      <<0, 0, 3, 6, 6, 7, 8, 9, 11, 11, 12, 12, 13, 13, 13, 14, 14>>,
      <<0, 0, 0, 4, 4, 5, 6, 6, 7, 9, 11, 11, 12, 13, 13, 13, 14>>>>,
    <<<<4, 6, 6, 6, 7, 7, 7, 7, 8, 8, 9, 9, 9, 10, 10, 10, 10>>,
      <<0, 4, 5, 5, 5, 5, 6, 6, 7, 8, 8, 9, 9, 9, 10, 10, 10>>,
      <<0, 0, 4, 5, 5, 5, 6, 6, 7, 7, 8, 8, 9, 9, 10, 10, 10>>,
      <<0, 0, 0, 4, 4, 4, 4, 4, 5, 6, 7, 8, 8, 9, 10, 10, 10>>>>>>

s_non_cdc_code_table ==
  <<<<<<1, 5, 7, 7, 7, 7, 15, 11, 8, 15, 11, 15, 11, 15, 11, 7, 4>>,
      <<0, 1, 4, 6, 6, 6, 6, 14, 10, 14, 10, 14, 10, 1, 14, 10, 6>>,
      <<0, 0, 1, 5, 5, 5, 5, 5, 13, 9, 13, 9, 13, 9, 13, 9, 5>>,
      <<0, 0, 0, 3, 3, 4, 4, 4, 4, 4, 12, 12, 8, 12, 8, 12, 8>>>>,
    <<<<3, 11, 7, 7, 7, 4, 7, 15, 11, 15, 11, 8, 15, 11, 7, 9, 7>>,
      <<0, 2, 7, 10, 6, 6, 6, 6, 14, 10, 14, 10, 14, 10, 11, 8, 6>>,
      <<0, 0, 3, 9, 5, 5, 5, 5, 13, 9, 13, 9, 13, 9, 6, 10, 5>>,
      <<0, 0, 0, 5, 4, 6, 8, 4, 4, 4, 12, 8, 12, 12, 8, 1, 4>>>>,
    <<<<15, 15, 11, 8, 15, 11, 9, 8, 15, 11, 15, 11, 8, 13, 9, 5, 1>>,
      <<0, 14, 15, 12, 10, 8, 14, 10, 14, 14, 10, 14, 10, 7, 12, 8, 4>>,
      <<0, 0, 13, 14, 11, 9, 13, 9, 13, 10, 13, 9, 13, 9, 11, 7, 3>>,
      <<0, 0, 0, 12, 11, 10, 9, 8, 13, 12, 12, 12, 8, 12, 10, 6, 2>>>>>>

s_cdc_len_table ==
  <<<<2, 6, 6, 6, 6>>,
    <<0, 1, 6, 7, 8>>,
    <<0, 0, 3, 7, 8>>,
    <<0, 0, 0, 6, 7>>>>

s_cdc_code_table ==
  <<<<1, 7, 4, 3, 2>>,
    <<0, 1, 6, 3, 3>>,
    <<0, 0, 1, 2, 2>>,
    <<0, 0, 0, 5, 0>>>>

s_no_cdc_total_zeros_len_table ==
  <<<<1, 3, 3, 4, 4, 5, 5, 6, 6, 7, 7, 8, 8, 9, 9, 9>>,
    <<3, 3, 3, 3, 3, 4, 4, 4, 4, 5, 5, 6, 6, 6, 6>>,
    <<4, 3, 3, 3, 4, 4, 3, 3, 4, 5, 5, 6, 5, 6>>,
    <<5, 3, 4, 4, 3, 3, 3, 4, 3, 4, 5, 5, 5>>,
    <<4, 4, 4, 3, 3, 3, 3, 3, 4, 5, 4, 5>>,
    <<6, 5, 3, 3, 3, 3, 3, 3, 4, 3, 6>>,
    <<6, 5, 3, 3, 3, 2, 3, 4, 3, 6>>,
    <<6, 4, 5, 3, 2, 2, 3, 3, 6>>,
    <<6, 6, 4, 2, 2, 3, 2, 5>>,
    <<5, 5, 3, 2, 2, 2, 4>>,
    <<4, 4, 3, 3, 1, 3>>,
    <<4, 4, 2, 1, 3>>,
    <<3, 3, 1, 2>>,
    <<2, 2, 1>>,
    <<1, 1>>>>

s_no_cdc_total_zeros_code_table ==
  <<<<1, 3, 2, 3, 2, 3, 2, 3, 2, 3, 2, 3, 2, 3, 2, 1>>,
    <<7, 6, 5, 4, 3, 5, 4, 3, 2, 3, 2, 3, 2, 1, 0>>,
    <<5, 7, 6, 5, 4, 3, 4, 3, 2, 3, 2, 1, 1, 0>>,
    <<3, 7, 5, 4, 6, 5, 4, 3, 3, 2, 2, 1, 0>>,
    <<5, 4, 3, 7, 6, 5, 4, 3, 2, 1, 1, 0>>,
    <<1, 1, 7, 6, 5, 4, 3, 2, 1, 1, 0>>,
    <<1, 1, 5, 4, 3, 3, 2, 1, 1, 0>>,
    <<1, 1, 1, 3, 3, 2, 2, 1, 0>>,
    <<1, 0, 1, 3, 2, 1, 1, 1>>,
    <<1, 0, 1, 3, 2, 1, 1>>,
    <<0, 1, 1, 2, 1, 3>>,
    <<0, 1, 1, 1, 1>>,
    <<0, 1, 1, 1>>,
    <<0, 1, 1>>,
    <<0, 1>>>>

s_cdc_total_zeros_len_table ==
  <<<<1, 2, 3, 3>>,
    <<1, 2, 2, 0>>,
    <<1, 1, 0, 0>>>>

s_cdc_total_zeros_code_table ==
  <<<<1, 1, 1, 0>>,
    <<1, 1, 0, 0>>,
    <<1, 0, 0, 0>>>>

s_run_no_cdc_length_table ==
  <<<<1, 1>>,
    <<1, 2, 2>>,
    <<2, 2, 2, 2>>,
    <<2, 2, 2, 3, 3>>,
    <<2, 2, 3, 3, 3, 3>>,
    <<2, 3, 3, 3, 3, 3, 3>>,
    <<3, 3, 3, 3, 3, 3, 3, 4, 5, 6, 7, 8, 9, 10, 11>>>>

s_run_no_cdc_code_table ==
  <<<<1, 0>>,
    <<1, 1, 0>>,
    <<3, 2, 1, 0>>,
    <<3, 2, 1, 1, 0>>,
    <<3, 2, 3, 2, 1, 0>>,
    <<3, 0, 1, 3, 2, 5, 4>>,
    <<7, 6, 5, 4, 3, 2, 1, 1, 1, 1, 1, 1, 1, 1, 1>>>>

s_run_table_no_cdc_size == 7

\* Above which |level| the suffix grows, per suffix length.
s_suffix_length_inc_table == <<0, 3, 6, 12, 24, 48, 32768>>

-----------------------------------------------------------------------------
(* A codeword is the pair of its length and its low bits.                  *)

Codeword(len, code) == [len |-> len, code |-> code]

\* coeff_token of the 4x4 blocks: three tables and, for many coefficients
\* around the block, a fixed length code.
NonCdcCoeffToken(table, trailing_ones, coeff_num) ==
  IF table < 3
  THEN Codeword(s_non_cdc_len_table[table + 1][trailing_ones + 1][coeff_num + 1],
                s_non_cdc_code_table[table + 1][trailing_ones + 1][coeff_num + 1])
  ELSE Codeword(6, IF coeff_num > 0 THEN (coeff_num - 1) * 4 + trailing_ones ELSE 3)

CdcCoeffToken(trailing_ones, coeff_num) ==
  Codeword(s_cdc_len_table[trailing_ones + 1][coeff_num + 1],
           s_cdc_code_table[trailing_ones + 1][coeff_num + 1])

NonCdcTotalZeros(coeff_num, total_zeros) ==
  Codeword(s_no_cdc_total_zeros_len_table[coeff_num][total_zeros + 1],
           s_no_cdc_total_zeros_code_table[coeff_num][total_zeros + 1])

CdcTotalZeros(coeff_num, total_zeros) ==
  Codeword(s_cdc_total_zeros_len_table[coeff_num][total_zeros + 1],
           s_cdc_total_zeros_code_table[coeff_num][total_zeros + 1])

RunBefore(table_index, run) ==
  Codeword(s_run_no_cdc_length_table[table_index + 1][run + 1],
           s_run_no_cdc_code_table[table_index + 1][run + 1])
=============================================================================
