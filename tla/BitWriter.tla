----------------------------- MODULE BitWriter -----------------------------
(***************************************************************************)
(* The bit buffer every syntax structure of the encoder is written into    *)
(* (class BytesData) together with the syntax element writers of           *)
(* CodingUtil: u(1), u(v), ue(v), se(v) and the RBSP trailing bits.        *)
(*                                                                         *)
(* One action is one call made by a serialiser; ByteStream says which      *)
(* calls the parameter sets and the slices make.  "written" is a ghost:    *)
(* the elements asked for, which a reader of the bytes must find again.    *)
(***************************************************************************)
EXTENDS Integers, Sequences

VARIABLES
  m_data,        \* the bytes so far, a sequence over 0..255
  m_bits_count,  \* how many bits of them are meaningful
  written,       \* ghost: records [kind, n, value, len] in call order
  closed         \* TRUE once SODB2RBSP has run

vars == <<m_data, m_bits_count, written, closed>>

-----------------------------------------------------------------------------
(* Numbers.                                                                *)

\* The n low bits of v, most significant first: the loop of U_V.
BitString(n, v) == [i \in 1..n |-> (v \div 2^(n - i)) % 2]

\* GetBinaryLength of a uint32_t: 0 for 0, else the position of the leading one.
GetBinaryLength(v) ==
  IF v = 0 THEN 0 ELSE CHOOSE n \in 1..32 : 2^(n - 1) <= v /\ v < 2^n

\* The bits UE_V pushes: the prefix of zeros, then value + 1.
UEBits(v) ==
  LET len == GetBinaryLength(v + 1)
  IN  [i \in 1..(len - 1) |-> 0] \o BitString(len, v + 1)

\* Faulty variant of SECodeNum.
SECodeNumSwapped(v) == IF v < 0 THEN -2 * v - 1 ELSE 2 * v

\* The codeNum SE_V hands to UE_V.
SECodeNum(v) == IF v <= 0 THEN -2 * v ELSE 2 * v - 1

SEBits(v) == UEBits(SECodeNum(v))

-----------------------------------------------------------------------------
(* The buffer.  A call pushes bit after bit; PushBit opens a zero byte on   *)
(* a byte boundary and ors the bit into its place.                         *)

\* Faulty variant of PushBit.
PushBitNoOffset(buf, bit) ==
  LET data == IF buf.bits % 8 = 0 THEN Append(buf.data, 0) ELSE buf.data
  IN  [data |-> [data EXCEPT ![Len(data)] = @ + bit * 2^(6 - (buf.bits % 7))],
       bits |-> buf.bits + 1]

PushBit(buf, bit) ==
  LET data == IF buf.bits % 8 = 0 THEN Append(buf.data, 0) ELSE buf.data
  IN  [data |-> [data EXCEPT ![Len(data)] = @ + bit * 2^(7 - (buf.bits % 8))],
       bits |-> buf.bits + 1]

PushBits(buf, bits) ==
  LET pushed[k \in 0..Len(bits)] == IF k = 0 THEN buf ELSE PushBit(pushed[k - 1], bits[k])
  IN  pushed[Len(bits)]

\* Faulty variant of TrailingBits.
TrailingBitsOnlyIfUnaligned(buf) ==
  IF buf.bits % 8 = 0 THEN <<>>
  ELSE <<1>> \o [i \in 1..(7 - (buf.bits % 8)) |-> 0]

\* SODB2RBSP: the stop bit, then FillLastByte(0).
TrailingBits(buf) ==
  LET used == (buf.bits + 1) % 8
  IN  <<1>> \o [i \in 1..(IF used = 0 THEN 0 ELSE 8 - used) |-> 0]

Buffer == [data |-> m_data, bits |-> m_bits_count]

SetBuffer(buf) == m_data' = buf.data /\ m_bits_count' = buf.bits

Init ==
  /\ m_data = <<>>
  /\ m_bits_count = 0
  /\ written = <<>>
  /\ closed = FALSE

\* What every writer does: push the bits of one element.
WriteElement(kind, n, value, bits) ==
  /\ ~closed
  /\ SetBuffer(PushBits(Buffer, bits))
  /\ written' = Append(written, [kind |-> kind, n |-> n, value |-> value])
  /\ UNCHANGED closed

\* U_V keeps the n low bits.
U_V(n, value) == WriteElement("u", n, value % 2^n, BitString(n, value))

UE_V(value) == WriteElement("ue", 0, value, UEBits(value))

SE_V(value) == WriteElement("se", 0, value, SEBits(value))

\* One call; u(1) is u(v) of one bit.
Write(e) ==
  \/ e.kind = "u" /\ U_V(e.n, e.value)
  \/ e.kind = "ue" /\ UE_V(e.value)
  \/ e.kind = "se" /\ SE_V(e.value)

\* The stop bit and the bits up to the byte boundary; no structure is empty.
SODB2RBSP ==
  /\ ~closed
  /\ written # <<>>
  /\ SetBuffer(PushBits(Buffer, TrailingBits(Buffer)))
  /\ closed' = TRUE
  /\ UNCHANGED written

\* A fresh buffer for the next structure.
Reset ==
  /\ closed
  /\ m_data' = <<>>
  /\ m_bits_count' = 0
  /\ written' = <<>>
  /\ closed' = FALSE

-----------------------------------------------------------------------------
(* A reader of bytes, written from the coding's definition and not from    *)
(* the writer: it is what a decoder does.                                  *)

BitAt(bytes, i) == (bytes[(i - 1) \div 8 + 1] \div 2^(7 - ((i - 1) % 8))) % 2

Number(bytes, first, n) ==
  LET value[k \in 0..n] == IF k = 0 THEN 0 ELSE 2 * value[k - 1] + BitAt(bytes, first + k - 1)
  IN  value[n]

\* <<value, first bit after it>> of the Exp-Golomb code that starts at i.
ReadUE(bytes, i) ==
  LET zeros == CHOOSE k \in 0..(8 * Len(bytes) - i) :
                 BitAt(bytes, i + k) = 1 /\ \A j \in 0..(k - 1) : BitAt(bytes, i + j) = 0
  IN  <<Number(bytes, i + zeros, zeros + 1) - 1, i + 2 * zeros + 1>>

ReadSE(bytes, i) ==
  LET code == ReadUE(bytes, i)
  IN  <<IF code[1] % 2 = 1 THEN (code[1] + 1) \div 2 ELSE -(code[1] \div 2),
        code[2]>>

Read(bytes, kind, n, i) ==
  CASE kind = "u"  -> <<Number(bytes, i, n), i + n>>
    [] kind = "ue" -> ReadUE(bytes, i)
    [] kind = "se" -> ReadSE(bytes, i)

\* One more element: <<still all equal, first bit after it>>.
Compare(bytes, acc, e) ==
  LET r == Read(bytes, e.kind, e.n, acc[2]) IN <<acc[1] /\ r[1] = e.value, r[2]>>

\* <<all elements read back equal, first unread bit>>.
Replay(bytes, elements) ==
  LET replayed[k \in 0..Len(elements)] ==
        IF k = 0 THEN <<TRUE, 1>> ELSE Compare(bytes, replayed[k - 1], elements[k])
  IN  replayed[Len(elements)]

-----------------------------------------------------------------------------
\* The bytes hold exactly the bits counted, and nothing was or-ed behind
\* them: a stray bit there would corrupt the next element pushed.
TypeOK ==
  /\ m_data \in Seq(0..255)
  /\ m_bits_count \in Nat
  /\ closed \in BOOLEAN
  /\ Len(m_data) = (m_bits_count + 7) \div 8
  /\ \A i \in (m_bits_count + 1)..(8 * Len(m_data)) : BitAt(m_data, i) = 0
=============================================================================
