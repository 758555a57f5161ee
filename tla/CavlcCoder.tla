----------------------------- MODULE CavlcCoder -----------------------------
(***************************************************************************)
(* Entropy coding of one block of quantised coefficients: the pre-coder    *)
(* that turns the block, in zig-zag order, into levels and runs, and       *)
(* CavlcNonCdcCoder / CavlcCdcCoder::DoCode, which write them as bits.     *)
(* The two coders differ in their tables and in WriteLevel0 only.          *)
(*                                                                         *)
(* One action is one iteration of the pre-coder's loop, one of the methods *)
(* DoCode calls, or one iteration of its loop.  The table the neighbouring *)
(* blocks select (ObtainVlcTableIndex) is an input here.                   *)
(*                                                                         *)
(* A receiver that parses the bits as the standard prescribes, and knows   *)
(* only the table and the size of the block, listens: whenever a method    *)
(* has written it reads what it expects next from where it stands.  It     *)
(* fails for good if it does not find that in full, or finds what more     *)
(* bits could still turn into something else.                              *)
(***************************************************************************)
EXTENDS CavlcTables

CONSTANTS
  Inputs  \* bound: what is coded, records of a data type, a table and a block
          \* of coefficients in zig-zag order

\* CavlcUtil::GetMaxCoeffNum; Cb and Cr are coded alike.
GetMaxCoeffNum(data_type) ==
  CASE data_type \in {"NormalLuma", "LumaDC"} -> 16
    [] data_type \in {"LumaAC", "ChromaAC"}   -> 15
    [] data_type = "ChromaDC"                 -> 4

CavlcDataType == {"NormalLuma", "LumaDC", "LumaAC", "ChromaAC", "ChromaDC"}

\* Three tables and a fixed length code; chroma DC has one table of its own.
Tables(data_type) == IF data_type = "ChromaDC" THEN {0} ELSE 0..3

Abs(level) == IF level < 0 THEN -level ELSE level

\* The escape of a level has eleven bits beside the sign.  Only WriteLevel0 of
\* the luma and AC coder can lengthen it, for a level it codes first and without
\* a suffix length: the highest of at most ten.  U_V's mask has 32 bits, which
\* the codes of levels from 2^14 - 2032 on would exceed.
MaxLevel == 15 + 2^11

LongEscape(b, k) ==
  Abs(b[k]) < 2^14 - 2032 /\ \A j \in DOMAIN b : j > k \/ j <= k - 10 => b[j] = 0

ASSUME InputsAssumption ==
  \A i \in Inputs :
    /\ i.type \in CavlcDataType
    /\ i.table \in Tables(i.type)
    /\ i.block \in [1..GetMaxCoeffNum(i.type) -> Int]
    /\ \A k \in DOMAIN i.block : \/ Abs(i.block[k]) <= MaxLevel
                                 \/ i.type # "ChromaDC" /\ LongEscape(i.block, k)

VARIABLES
  method,          \* what runs next: the pre-coder or a method of DoCode
  m_data_type,     \* what is coded
  m_vlc_table_index,
  block,           \* the coefficients, lowest frequency first
  scanned,         \* those the pre-coder has passed
  run,             \* the zeros it has passed since the last level
  m_levels,        \* the coefficients that are not zero
  m_runs,          \* and the zeros before each of them
  m_total_zeros,   \* the sum of the runs
  index,           \* the coefficient the loops stand at, from m_coeff_num to 0
  suffix_length,   \* of WriteLevels
  left_zeros,      \* of WriteRuns
  coded_bits,      \* m_bytes_data: the bits written
  places,          \* ghost: where in the block the levels are
  receiver         \* the receiver: what it reads next, its position in the bits
                   \* and what it has found

input == <<m_data_type, m_vlc_table_index, block>>

precoded == <<scanned, run, m_levels, m_runs, m_total_zeros, places>>

coderVars == <<input, precoded, method, index, suffix_length, left_zeros, coded_bits, receiver>>

-----------------------------------------------------------------------------
(* What LevelAndRuns says of itself.                                       *)

m_coeff_num == Len(m_levels)

\* The last n levels are ones.
EndInOnes(levels, n) ==
  n <= Len(levels) /\ \A k \in (Len(levels) - n + 1)..Len(levels) : levels[k] \in {1, -1}

GetTrailingOnes(levels) ==
  CHOOSE n \in 0..3 : EndInOnes(levels, n) /\ (n < 3 => ~EndInOnes(levels, n + 1))

m_trailing_ones == GetTrailingOnes(m_levels)

-----------------------------------------------------------------------------
(* The codes of a level.                                                   *)

Sign(level) == IF level < 0 THEN 1 ELSE 0

\* How often the escape has to be lengthened.
PrefixNum(level_abs1) == CHOOSE n \in 0..8 : level_abs1 < 4096 * 2^n /\ (n > 0 => level_abs1 >= 4096 * 2^(n - 1))

\* WriteLevel0 of the luma and AC coder: the escape grows with the level.
NonCdcLevel0(level) ==
  LET a == Abs(level)
  IN  IF a < 8 THEN Codeword(2 * a + Sign(level) - 1, 1)
      ELSE IF a < 16 THEN Codeword(19, 16 + 2 * (a - 8) + Sign(level))
      ELSE Codeword(28 + 2 * PrefixNum(a + 2032), 2 * (a + 2032) + Sign(level))

\* WriteLevel0 of the chroma DC coder: the escape has twelve bits.
CdcLevel0(level) ==
  LET a == Abs(level)
  IN  IF a < 8 THEN Codeword(2 * a + Sign(level) - 1, 1)
      ELSE IF a < 16 THEN Codeword(19, 16 + 2 * (a - 8) + Sign(level))
      ELSE Codeword(28, 4096 + 2 * (a - 16) + Sign(level))

\* Faulty variant of LevelN.
LevelNEarlyEscape(level, suffix) ==
  LET a == Abs(level)
      unit == 2^(suffix - 1)
      escape == 15 * unit
  IN  IF a < escape
      THEN Codeword((a - 1) \div unit + 1 + suffix,
                    2 * unit + 2 * ((a - 1) % unit) + Sign(level))
      ELSE Codeword(28, 4096 + 2 * (a - escape) + Sign(level))

\* WriteLevelN, the same in both coders.
LevelN(level, suffix) ==
  LET a == Abs(level)
      unit == 2^(suffix - 1)
      escape == 15 * unit + 1
  IN  IF a < escape
      THEN Codeword((a - 1) \div unit + 1 + suffix,
                    2 * unit + 2 * ((a - 1) % unit) + Sign(level))
      ELSE Codeword(28, 4096 + 2 * (a - escape) + Sign(level))

LevelCode(level, suffix) ==
  IF suffix > 0 THEN LevelN(level, suffix)
  ELSE IF m_data_type = "ChromaDC" THEN CdcLevel0(level) ELSE NonCdcLevel0(level)

\* Without three trailing ones the first level coded after them cannot be one
\* of them, so its magnitude is coded less one.
level_two_or_higher == ~(m_coeff_num > 3 /\ m_trailing_ones = 3)

ModifiedLevel(level) == IF level > 0 THEN level - 1 ELSE level + 1

StartSuffixLength(coeff_num, trailing_ones) ==
  IF coeff_num > 10 /\ trailing_ones < 3 THEN 1 ELSE 0

NextSuffixLength(suffix, level, first) ==
  IF first /\ Abs(level) > 3 THEN 2
  ELSE IF Abs(level) > s_suffix_length_inc_table[suffix + 1] THEN suffix + 1
  ELSE suffix

-----------------------------------------------------------------------------
(* The bits of a codeword.                                                 *)

Bit(code, n) == (code \div 2^n) % 2

\* CodingUtil::U_V pushes the low bits of a word, the highest first.  No code
\* has more than 24 bits, whatever its length.
CodeBits(word) ==
  [i \in 1..word.len |-> IF word.len - i > 24 THEN 0 ELSE Bit(word.code, word.len - i)]

CoeffToken(data_type, table, trailing_ones, coeff_num) ==
  IF data_type = "ChromaDC" THEN CdcCoeffToken(trailing_ones, coeff_num)
  ELSE NonCdcCoeffToken(table, trailing_ones, coeff_num)

TotalZeros(data_type, coeff_num, total_zeros) ==
  IF data_type = "ChromaDC" THEN CdcTotalZeros(coeff_num, total_zeros)
  ELSE NonCdcTotalZeros(coeff_num, total_zeros)

-----------------------------------------------------------------------------
(* The receiver: residual_block_cavlc of the standard.  What it reads is   *)
(* at the beginning of the bits it has not read yet, rest.                 *)

Failed(r) == [r EXCEPT !.reads = "failed"]

\* The codeword begins with these bits, or they with it.
Possible(word, rest) ==
  \A i \in 1..word.len : i <= Len(rest) => CodeBits(word)[i] = rest[i]

MaxCoeffs == GetMaxCoeffNum(m_data_type)

\* The counts of trailing ones and of coefficients.
ReadCoeffToken(r, rest) ==
  LET Counts == {c \in (0..3) \X (0..MaxCoeffs) : c[1] <= c[2]}
      Word(c) == CoeffToken(m_data_type, m_vlc_table_index, c[1], c[2])
      found == {c \in Counts : Possible(Word(c), rest)}
      token == CHOOSE c \in Counts : found = {c}
  IN  IF \E c \in Counts : found = {c} /\ Word(c).len <= Len(rest)
      THEN [r EXCEPT !.pos = @ + Word(token).len, !.ones = token[1], !.num = token[2],
                     !.reads = IF token[2] = 0 THEN "nothing" ELSE "signs"]
      ELSE Failed(r)

\* The signs of the trailing ones, from the highest frequency down.
ReadSigns(r, rest) ==
  IF r.ones <= Len(rest)
  THEN [r EXCEPT !.pos = @ + r.ones,
                 !.levels = [k \in DOMAIN @ |-> IF r.num - r.ones < k /\ k <= r.num
                                                THEN 1 - 2 * rest[r.num + 1 - k] ELSE @[k]],
                 !.index = r.num - r.ones,
                 !.suffix = IF r.num > 10 /\ r.ones < 3 THEN 1 ELSE 0,
                 !.reads = "levels"]
  ELSE Failed(r)

FirstOne(rest) == CHOOSE k \in DOMAIN rest : rest[k] = 1 /\ \A j \in 1..(k - 1) : rest[j] = 0

\* The number that n bits say.
FixedLength(rest, from, n) ==
  CHOOSE v \in 0..(2^n - 1) : \A i \in 1..n : rest[from + i - 1] = Bit(v, n - i)

\* 9.2.2.1, a level: a prefix of zeros and a suffix, and the adaptation of the
\* suffix length.
ReadLevel(r, rest) ==
  LET prefix == FirstOne(rest) - 1
      size == IF prefix = 14 /\ r.suffix = 0 THEN 4
              ELSE IF prefix >= 15 THEN prefix - 3 ELSE r.suffix
      code == (IF prefix >= 15 THEN 15 ELSE prefix) * 2^(r.suffix)
              + FixedLength(rest, prefix + 2, size)
              + (IF prefix >= 15 /\ r.suffix = 0 THEN 15 ELSE 0)
              + (IF prefix >= 16 THEN 2^(prefix - 3) - 4096 ELSE 0)
              + (IF r.index = r.num - r.ones /\ r.ones < 3 THEN 2 ELSE 0)
      level == IF code % 2 = 0 THEN (code + 2) \div 2 ELSE -((code + 1) \div 2)
      grown == IF r.suffix = 0 THEN 1 ELSE r.suffix
  IN  IF (\E k \in DOMAIN rest : rest[k] = 1) /\ prefix + 1 + size <= Len(rest)
      THEN [r EXCEPT !.pos = @ + prefix + 1 + size,
                     !.levels = [@ EXCEPT ![r.index] = level],
                     !.suffix = IF Abs(level) > 3 * 2^(grown - 1) /\ grown < 6
                                THEN grown + 1 ELSE grown,
                     !.index = @ - 1]
      ELSE Failed(r)

\* 9.2.3: how many zeros there are below the highest coefficient ...
ReadTotalZeros(r, rest) ==
  LET Counts == 0..(MaxCoeffs - r.num)
      Word(z) == TotalZeros(m_data_type, r.num, z)
      found == {z \in Counts : Possible(Word(z), rest)}
      zeros == CHOOSE z \in Counts : found = {z}
  IN  IF r.num = MaxCoeffs
      THEN [r EXCEPT !.zeros = 0, !.index = r.num, !.reads = "runs"]
      ELSE IF \E z \in Counts : found = {z} /\ Word(z).len <= Len(rest)
      THEN [r EXCEPT !.pos = @ + Word(zeros).len, !.zeros = zeros, !.index = r.num, !.reads = "runs"]
      ELSE Failed(r)

\* ... and the run before a coefficient, which tells where the next one is.
ReadRun(r, rest) ==
  LET Counts == 0..r.zeros
      Word(n) == RunBefore(IF r.zeros > 6 THEN 6 ELSE r.zeros - 1, n)
      found == {n \in Counts : Possible(Word(n), rest)}
      before == CHOOSE n \in Counts : found = {n}
  IN  IF \E n \in Counts : found = {n} /\ Word(n).len <= Len(rest)
      THEN [r EXCEPT !.pos = @ + Word(before).len,
                     !.block = [@ EXCEPT ![r.index + r.zeros] = r.levels[r.index]],
                     !.zeros = @ - before, !.index = @ - 1]
      ELSE Failed(r)

\* Behind the zeros that are left the other coefficients have none between them.
PlaceRest(r) ==
  [r EXCEPT !.block = [p \in DOMAIN @ |-> IF r.zeros < p /\ p <= r.zeros + r.index
                                          THEN r.levels[p - r.zeros] ELSE @[p]],
            !.reads = "nothing"]

ReadNext(r, rest) ==
  CASE r.reads = "coeff_token"                 -> ReadCoeffToken(r, rest)
    [] r.reads = "signs"                       -> ReadSigns(r, rest)
    [] r.reads = "levels" /\ r.index > 0       -> ReadLevel(r, rest)
    [] r.reads = "levels" /\ r.index = 0       -> ReadTotalZeros(r, rest)
    [] r.reads = "runs" /\ r.zeros # 0 /\ r.index > 1    -> ReadRun(r, rest)
    [] r.reads = "runs" /\ ~(r.zeros # 0 /\ r.index > 1) -> PlaceRest(r)
    [] r.reads \in {"nothing", "failed"}       -> r

Hear == receiver' = ReadNext(receiver, SubSeq(coded_bits', receiver.pos, Len(coded_bits')))

-----------------------------------------------------------------------------
(* The pre-coder and the methods of DoCode.                                *)

CoderInit ==
  /\ method = "PreCode"
  /\ \E i \in Inputs : /\ m_data_type = i.type
                       /\ m_vlc_table_index = i.table
                       /\ block = i.block
  /\ scanned = 0
  /\ run = 0
  /\ m_levels = <<>>
  /\ m_runs = <<>>
  /\ m_total_zeros = 0
  /\ places = <<>>
  /\ index = 0
  /\ suffix_length = 0
  /\ left_zeros = 0
  /\ coded_bits = <<>>
  /\ receiver = [reads |-> "coeff_token", pos |-> 1, ones |-> 0, num |-> 0, index |-> 0,
                 suffix |-> 0, zeros |-> 0, levels |-> [k \in 1..MaxCoeffs |-> 0],
                 block |-> [k \in 1..MaxCoeffs |-> 0]]

\* An iteration of the pre-coder's loop, for a zero ...
PassZero ==
  /\ method = "PreCode"
  /\ scanned < MaxCoeffs
  /\ block[scanned + 1] = 0
  /\ scanned' = scanned + 1
  /\ run' = run + 1
  /\ UNCHANGED <<input, m_levels, m_runs, m_total_zeros, places, method, index, suffix_length,
                 left_zeros, coded_bits, receiver>>

\* ... and for a level.
TakeLevel ==
  /\ method = "PreCode"
  /\ scanned < MaxCoeffs
  /\ block[scanned + 1] # 0
  /\ scanned' = scanned + 1
  /\ m_levels' = Append(m_levels, block[scanned + 1])
  /\ m_runs' = Append(m_runs, run)
  /\ m_total_zeros' = m_total_zeros + run
  /\ places' = Append(places, scanned + 1)
  /\ run' = 0
  /\ UNCHANGED <<input, method, index, suffix_length, left_zeros, coded_bits, receiver>>

Write(word) == coded_bits' = coded_bits \o CodeBits(word)

\* DoCode stops here when there are no coefficients.
WriteCoeffNumAndTrailingOnes ==
  /\ method = "PreCode"
  /\ scanned = MaxCoeffs
  /\ Write(CoeffToken(m_data_type, m_vlc_table_index, m_trailing_ones, m_coeff_num))
  /\ method' = IF m_coeff_num = 0 THEN "done" ELSE "WriteTrailingSigns"
  /\ index' = m_coeff_num
  /\ Hear
  /\ UNCHANGED <<input, precoded, suffix_length, left_zeros>>

WriteTrailingSigns ==
  /\ method = "WriteTrailingSigns"
  /\ coded_bits' =
       coded_bits \o [k \in 1..m_trailing_ones |-> Sign(m_levels[m_coeff_num + 1 - k])]
  /\ index' = m_coeff_num - m_trailing_ones
  /\ suffix_length' = StartSuffixLength(m_coeff_num, m_trailing_ones)
  /\ method' = "WriteLevels"
  /\ Hear
  /\ UNCHANGED <<input, precoded, left_zeros>>

\* One iteration of the loop of WriteLevels.
WriteLevel ==
  LET first == index = m_coeff_num - m_trailing_ones
      level == m_levels[index]
      modified_level ==
        IF first /\ level_two_or_higher THEN ModifiedLevel(level) ELSE level
  IN  /\ method = "WriteLevels"
      /\ index > 0
      /\ Write(LevelCode(modified_level, suffix_length))
      /\ suffix_length' = NextSuffixLength(suffix_length, level, first)
      /\ index' = index - 1
      /\ Hear
      /\ UNCHANGED <<input, precoded, method, left_zeros>>

\* A full block has no zeros to count.
WriteTotalZeros ==
  /\ method = "WriteLevels"
  /\ index = 0
  /\ IF m_coeff_num = MaxCoeffs
     THEN UNCHANGED coded_bits
     ELSE Write(TotalZeros(m_data_type, m_coeff_num, m_total_zeros))
  /\ left_zeros' = m_total_zeros
  /\ index' = m_coeff_num
  /\ method' = "WriteRuns"
  /\ Hear
  /\ UNCHANGED <<input, precoded, suffix_length>>

RunTableIndex(zeros) == IF zeros < s_run_table_no_cdc_size THEN zeros - 1 ELSE s_run_table_no_cdc_size - 1

ZerosAfter(zeros, before) == zeros - before

\* The lowest coefficient takes whatever zeros are left, so its run is not
\* written, nor is any when no zeros are left.
MoreRuns == left_zeros # 0 /\ index > 1

\* One iteration of the loop of WriteRuns.
WriteRun ==
  /\ method = "WriteRuns"
  /\ MoreRuns
  /\ Write(RunBefore(RunTableIndex(left_zeros), m_runs[index]))
  /\ left_zeros' = ZerosAfter(left_zeros, m_runs[index])
  /\ index' = index - 1
  /\ Hear
  /\ UNCHANGED <<input, precoded, method, suffix_length>>

EndRuns ==
  /\ method = "WriteRuns"
  /\ ~MoreRuns
  /\ method' = "done"
  /\ UNCHANGED coded_bits
  /\ Hear
  /\ UNCHANGED <<input, precoded, index, suffix_length, left_zeros>>

CoderNext == \/ PassZero
             \/ TakeLevel
             \/ WriteCoeffNumAndTrailingOnes
             \/ WriteTrailingSigns
             \/ WriteLevel
             \/ WriteTotalZeros
             \/ WriteRun
             \/ EndRuns

CoderSpec == CoderInit /\ [][CoderNext]_coderVars

-----------------------------------------------------------------------------
(* Properties.                                                             *)

\* A receiver that follows the standard reads exactly the block that was coded
\* and stops exactly where the coder stopped: the codewords of every table are
\* prefix free, the writer's choice of table, escape and suffix length follows
\* from what the receiver has read before, and nothing that is left out (the
\* last run, the zeros of a full block) is missed.
ReceiverRecoversBlock ==
  method = "done" => /\ receiver.reads = "nothing"
                     /\ receiver.pos = Len(coded_bits) + 1
                     /\ receiver.block = block
=============================================================================
