----------------------------- MODULE NalStream -----------------------------
(***************************************************************************)
(* The byte stream the encoder writes: one NAL unit per parameter set and  *)
(* slice, each a start code, a header byte and the RBSP escaped byte by    *)
(* byte (Nalu::SetData, Nalu::Serial, CodingUtil::SODB2EBSP, RBSP2EBSP).   *)
(*                                                                         *)
(* One iteration of the escaping loop is one action.  Nalu::Serial writes  *)
(* the start code after the escaping is finished; nothing else is written  *)
(* in between, so the order start code, header, escaped bytes of the file  *)
(* is the order of the actions here.                                       *)
(***************************************************************************)
EXTENDS Integers, SequencesExt

CONSTANTS
  Byte,      \* the byte values an RBSP is made of
  Header,    \* the NAL header bytes the encoder writes
  MaxBytes   \* bound: RBSP bytes written over all NAL units

ASSUME ByteAssumption == Byte \subseteq 0..255

\* Nalu::Serial builds the header from a zero bit, a priority HIGH or HIGHEST
\* and one of four unit types: never a byte below 4.
ASSUME HeaderAssumption == Header \subseteq 4..127

ASSUME MaxBytesAssumption == MaxBytes \in Nat

VARIABLES
  m_handle,    \* the bytes pushed to the output stream
  phase,       \* "escaping" from the header of a unit to its last byte
  zero_count,  \* the local of RBSP2EBSP
  starts,      \* ghost: where the start code of each unit begins
  rbsp         \* ghost: per unit, the RBSP bytes handed to SetData

vars == <<m_handle, phase, zero_count, starts, rbsp>>

\* What Nalu::Serial writes before the EBSP: three zero bytes and a one, then
\* the header.
UnitPrefix(header) == <<0, 0, 0, 1, header>>

\* Faulty variant of NeedsEscape: a two is not escaped, nor a three.
NeedsEscapeBelowTwo(count, value) == count = 2 /\ value < 2

\* if (zero_count == 2 && !(value & 0xFC))
NeedsEscape(count, value) == count = 2 /\ value < 4

\* The bytes one iteration pushes.
Escaped(count, value) == IF NeedsEscape(count, value) THEN <<3, value>> ELSE <<value>>

\* Faulty variant of CountAfter.
CountAfterEscapeIgnored(count, value) ==
  IF value # 0 \/ NeedsEscape(count, value) THEN 0 ELSE count + 1

\* zero_count after the iteration: an inserted byte restarts the count.
CountAfter(count, value) ==
  IF value # 0 THEN 0 ELSE IF NeedsEscape(count, value) THEN 1 ELSE count + 1

RbspBytes ==
  FoldLeft(LAMBDA sum, unit : sum + Len(unit), 0, rbsp)

Init ==
  /\ m_handle = <<>>
  /\ phase = "between"
  /\ zero_count = 0
  /\ starts = <<>>
  /\ rbsp = <<>>

\* The start code and the header byte of the next unit; RBSP2EBSP starts with
\* zero_count = 0.
BeginUnit(header) ==
  /\ phase = "between"
  /\ RbspBytes < MaxBytes
  /\ starts' = Append(starts, Len(m_handle) + 1)
  /\ m_handle' = m_handle \o UnitPrefix(header)
  /\ rbsp' = Append(rbsp, <<>>)
  /\ zero_count' = 0
  /\ phase' = "escaping"

PushValue(value) ==
  /\ m_handle' = m_handle \o Escaped(zero_count, value)
  /\ zero_count' = CountAfter(zero_count, value)
  /\ rbsp' = [rbsp EXCEPT ![Len(rbsp)] = Append(@, value)]
  /\ UNCHANGED starts

\* An iteration of the loop that is not the last one.
EscapeByte(value) ==
  /\ phase = "escaping"
  /\ RbspBytes + 1 < MaxBytes
  /\ PushValue(value)
  /\ UNCHANGED phase

\* The last iteration.
EscapeLastByte(value) ==
  /\ phase = "escaping"
  /\ PushValue(value)
  /\ phase' = "between"

\* The last byte of an RBSP holds the stop bit, so it is not zero: what
\* ByteStream shows of the structures the encoder writes.
Next ==
  \/ \E header \in Header : BeginUnit(header)
  \/ \E value \in Byte : EscapeByte(value)
  \/ \E value \in Byte \ {0} : EscapeLastByte(value)

Spec == Init /\ [][Next]_vars

-----------------------------------------------------------------------------
(* A receiver of the byte stream.                                          *)

Triple(i, a, b, c) == m_handle[i] = a /\ m_handle[i + 1] = b /\ m_handle[i + 2] = c

\* What a receiver scans for: the one that ends a start code.
FoundStarts ==
  {i \in 1..(Len(m_handle) - 2) : Triple(i, 0, 0, 1)}

UnitStarts == {starts[k] : k \in 1..Len(starts)}

\* The bytes after the header of unit k.
Payload(k) ==
  SubSeq(m_handle, starts[k] + 5,
         IF k < Len(starts) THEN starts[k + 1] - 1 ELSE Len(m_handle))

\* The receiver drops a 3 that follows two zeros.
Take(acc, b) ==
  IF acc.zeros >= 2 /\ b = 3 THEN [out |-> acc.out, zeros |-> 0]
  ELSE [out |-> Append(acc.out, b), zeros |-> IF b = 0 THEN acc.zeros + 1 ELSE 0]

Taken(bytes) ==
  LET taken[k \in 0..Len(bytes)] == IF k = 0 THEN [out |-> <<>>, zeros |-> 0] ELSE Take(taken[k - 1], bytes[k])
  IN  taken[Len(bytes)]

Unescape(bytes) == Taken(bytes).out

-----------------------------------------------------------------------------
(* Properties.                                                             *)

\* zero_count never passes two: the escape test is an equality, so a count
\* that jumped over it would switch the escaping off for good.
TypeOK ==
  /\ m_handle \in Seq(0..255)
  /\ phase \in {"between", "escaping"}
  /\ zero_count \in 0..2
  /\ starts \in Seq(Nat \ {0})
  /\ rbsp \in Seq(Seq(Byte))

\* A receiver that looks for 0 0 1 finds the start of every unit and nothing
\* else, whatever the RBSP bytes and wherever two units meet.
StartCodesDelimitUnits == FoundStarts = {s + 1 : s \in UnitStarts}

\* Inside a unit no three bytes are 0 0 0, 0 0 1 or 0 0 2, the patterns RBSP2EBSP
\* exists to break.
NoEmulation ==
  \A i \in 1..(Len(m_handle) - 2) :
    m_handle[i] = 0 /\ m_handle[i + 1] = 0 /\ m_handle[i + 2] < 3
      => i \in UnitStarts \/ i - 1 \in UnitStarts
=============================================================================
