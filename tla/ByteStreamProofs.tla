-------------------------- MODULE ByteStreamProofs --------------------------
(***************************************************************************)
(* Proofs about the stream of NAL units (NalStream), the bit buffer        *)
(* (BitWriter) and their composition (ByteStream), for any configuration   *)
(* and any elements the macroblocks write.                                 *)
(*                                                                         *)
(* What the recursive functions of the model compute is shown by induction *)
(* over the number of elements, bits or bytes (Induction, Recursion).  The *)
(* buffer holds the codes of the elements one behind the other (LaidOut);  *)
(* the unit sent holds the buffer's bytes (StreamInv) and unescaping gives *)
(* them back (LastRecovered).  A receiver that parses it knows what the    *)
(* encoder meant (ParseInv).                                               *)
(***************************************************************************)
EXTENDS ByteStream, SequenceTheorems, WellFoundedInduction, TLAPS

-----------------------------------------------------------------------------
(* Induction.                                                              *)

\* A set of natural numbers has a least one.
LEMMA Least ==
  ASSUME NEW T, T \subseteq Nat, T # {}
  PROVE  \E n \in T : \A m \in T : n <= m
  <1> DEFINE R == {ss \in Nat \X Nat : ss[1] < ss[2]}
  <1>1. IsWellFoundedOn(R, Nat)
    BY NatLessThanWellFounded DEF OpToRel
  <1> HIDE DEF R
  <1>2. PICK n \in T : \A m \in T : ~ (<<m, n>> \in R)
    BY <1>1, WFMin
  <1>3. ASSUME NEW m \in T
        PROVE  n <= m
    <2>1. m \in Nat /\ n \in Nat /\ <<m, n>> \notin R
      BY <1>2
    <2>2. m < n => <<m, n>> \in R
      BY <2>1 DEF R
    <2> QED
      BY <2>1, <2>2
  <1> QED
    BY <1>3

\* Induction, for the set of the numbers a fact holds of.
LEMMA Induction ==
  ASSUME NEW S, 0 \in S, \A n \in Nat : n \in S => n + 1 \in S
  PROVE  \A n \in Nat : n \in S
  <1> DEFINE T == Nat \ S
  <1>1. SUFFICES ASSUME T # {} PROVE FALSE
    OBVIOUS
  <1>2. PICK n \in T : \A m \in T : n <= m
    <2>1. T \subseteq Nat
      OBVIOUS
    <2> HIDE DEF T
    <2> QED
      BY <1>1, <2>1, Least
  <1>3. n \in Nat /\ n # 0 /\ n - 1 \in Nat
    OBVIOUS
  <1>4. n - 1 \notin T
    BY <1>2, <1>3
  <1>5. (n - 1) + 1 \in S
    BY <1>3, <1>4
  <1> QED
    BY <1>3, <1>5

\* A step keeps to a set; a function on 0..n that takes it from a first value.
Keeps(step, V, n) == \A k \in 1..n, x \in V : step[<<x, k>>] \in V

Computes(f, step, base, n) == f[0] = base /\ \A k \in 1..n : f[k] = step[<<f[k - 1], k>>]

\* A function given by its first value and a step exists.
LEMMA Recursion ==
  ASSUME NEW n \in Nat, NEW V, NEW base \in V, NEW step,
         Keeps(step, V, n)
  PROVE  \E f \in [0..n -> V] : Computes(f, step, base, n)
  <1> DEFINE Runs(f, m) == f \in [0..m -> V] /\ f[0] = base /\ \A k \in 1..m : f[k] = step[<<f[k - 1], k>>]
             S == {m \in Nat : m <= n => \E f : Runs(f, m)}
  <1>1. 0 \in S
    <2>1. Runs([k \in 0..0 |-> base], 0)
      OBVIOUS
    <2> QED
      BY <2>1
  <1>2. ASSUME NEW m \in Nat, m \in S
        PROVE  m + 1 \in S
    <2> SUFFICES ASSUME m + 1 <= n
                 PROVE  \E f : Runs(f, m + 1)
      OBVIOUS
    <2>1. PICK f : Runs(f, m)
      BY <1>2
    <2> DEFINE next == step[<<f[m], m + 1>>]
               g == [k \in 0..(m + 1) |-> IF k <= m THEN f[k] ELSE next]
    <2>2. f[m] \in V /\ next \in V
      BY <2>1 DEF Keeps
    <2>3. g \in [0..(m + 1) -> V] /\ g[0] = base
      <3>1. \A k \in 0..m : f[k] \in V
        BY <2>1
      <3> HIDE DEF next
      <3> QED
        BY <2>1, <2>2, <3>1
    <2>4. ASSUME NEW k \in 1..(m + 1)
          PROVE  g[k] = step[<<g[k - 1], k>>]
      <3>1. k - 1 \in 0..m /\ g[k - 1] = f[k - 1]
        OBVIOUS
      <3>2. CASE k <= m
        <4>1. g[k] = f[k] /\ k \in 1..m
          BY <3>2
        <4> HIDE DEF g
        <4> QED
          BY <2>1, <3>1, <4>1
      <3>3. CASE k = m + 1
        <4>1. g[k] = next /\ k - 1 = m
          BY <3>3
        <4> HIDE DEF g
        <4> QED
          BY <3>1, <3>3, <4>1
      <3> QED
        BY <3>2, <3>3
    <2> HIDE DEF g
    <2> QED
      BY <2>3, <2>4
  <1> HIDE DEF S
  <1>3. n \in S
    BY <1>1, <1>2, Induction
  <1> QED
    BY <1>3 DEF S, Computes

-----------------------------------------------------------------------------
(* Numbers and their bits.                                                 *)

LEMMA Powers ==
  /\ 2^0 = 1 /\ 2^1 = 2 /\ 2^2 = 4 /\ 2^3 = 8 /\ 2^4 = 16 /\ 2^5 = 32 /\ 2^6 = 64 /\ 2^7 = 128
  /\ 2^8 = 256 /\ 2^9 = 512 /\ 2^10 = 1024 /\ 2^11 = 2048 /\ 2^12 = 4096 /\ 2^13 = 8192
  /\ 2^14 = 16384 /\ 2^15 = 32768 /\ 2^16 = 65536 /\ 2^17 = 131072 /\ 2^18 = 262144
  /\ 2^19 = 524288 /\ 2^20 = 1048576 /\ 2^21 = 2097152 /\ 2^22 = 4194304 /\ 2^23 = 8388608
  /\ 2^24 = 16777216 /\ 2^25 = 33554432 /\ 2^26 = 67108864 /\ 2^27 = 134217728
  /\ 2^28 = 268435456 /\ 2^29 = 536870912 /\ 2^30 = 1073741824 /\ 2^31 = 2147483648
  /\ 2^32 = 4294967296
  BY SMT

\* A power doubles from one exponent to the next, up to the width of a uint32_t.
LEMMA PowerDoubles ==
  ASSUME NEW n \in 0..32
  PROVE  /\ 2^n \in Nat \ {0}
         /\ n < 32 => 2^(n + 1) = 2 * 2^n
  <1> DEFINE e(k) == 2^k
  <1>1. /\ e(0) = 1 /\ e(1) = 2 /\ e(2) = 4 /\ e(3) = 8 /\ e(4) = 16 /\ e(5) = 32 /\ e(6) = 64
        /\ e(7) = 128 /\ e(8) = 256 /\ e(9) = 512 /\ e(10) = 1024 /\ e(11) = 2048 /\ e(12) = 4096
        /\ e(13) = 8192 /\ e(14) = 16384 /\ e(15) = 32768 /\ e(16) = 65536 /\ e(17) = 131072
        /\ e(18) = 262144 /\ e(19) = 524288 /\ e(20) = 1048576 /\ e(21) = 2097152
        /\ e(22) = 4194304 /\ e(23) = 8388608 /\ e(24) = 16777216 /\ e(25) = 33554432
        /\ e(26) = 67108864 /\ e(27) = 134217728 /\ e(28) = 268435456 /\ e(29) = 536870912
        /\ e(30) = 1073741824 /\ e(31) = 2147483648 /\ e(32) = 4294967296
    BY Powers, SMT
  <1> HIDE DEF e
  <1>2. e(n) \in Nat \ {0} /\ (n < 32 => e(n + 1) = 2 * e(n))
    BY <1>1, SMTT(30)
  <1> QED
    BY <1>2 DEF e

LEMMA Quotient ==
  ASSUME NEW p \in Nat \ {0}, NEW q \in Nat, NEW r \in 0..(p - 1), NEW v \in Nat, v = p * q + r
  PROVE  v \div p = q /\ v % p = r
  BY SMT

LEMMA Division ==
  ASSUME NEW v \in Nat, NEW p \in Nat \ {0}
  PROVE  /\ v \div p \in Nat /\ v % p \in 0..(p - 1)
         /\ v = p * (v \div p) + (v % p)
  <1> DEFINE q == v \div p
  <1>1. q \in Int /\ v % p \in 0..(p - 1)
    BY SMT
  <1>2. v < p * q + p
    BY SMT
  <1>3. v = p * (v \div p) + (v % p)
    BY Z3
  <1> HIDE DEF q
  <1>4. ~(q < 0)
    BY <1>1, <1>2, SMT
  <1> QED
    BY <1>1, <1>3, <1>4 DEF q

\* Dividing twice.
LEMMA Halved ==
  ASSUME NEW v \in Nat, NEW p \in Nat \ {0}
  PROVE  v \div (2 * p) = (v \div p) \div 2
  <1> DEFINE q == v \div p
             r == v % p
             a == q \div 2
             b == q % 2
  <1>1. q \in Nat /\ r \in 0..(p - 1) /\ v = p * q + r
    BY Division
  <1>2. a \in Nat /\ b \in {0, 1} /\ q = 2 * a + b
    BY <1>1
  <1> HIDE DEF q, r, a, b
  <1>3. /\ p * q = (2 * p) * a + p * b
        /\ p * b \in {0, p}
    <2>1. CASE b = 0
      BY <1>2, <2>1, SMT
    <2>2. CASE b = 1
      BY <1>2, <2>2, SMT
    <2> QED
      BY <1>2, <2>1, <2>2
  <1> DEFINE twice == 2 * p
             rest == p * b + r
  <1>4. twice \in Nat \ {0} /\ rest \in 0..(twice - 1)
    BY <1>1, <1>3
  <1>5. v = twice * a + rest
    <2>1. v = twice * a + p * b + r
      BY <1>1, <1>3, SMT
    <2>2. twice * a \in Int /\ p * b \in Int
      BY <1>2, <1>3, SMT
    <2> QED
      BY <1>1, <2>1, <2>2, SMT
  <1>6. v \div twice = a
    <2> HIDE DEF twice, rest
    <2> QED
      BY <1>2, <1>4, <1>5, Quotient
  <1> QED
    BY <1>6 DEF a, q

\* The last bit of a remainder.
LEMMA Remainder ==
  ASSUME NEW x \in Nat, NEW m \in Nat \ {0}
  PROVE  x % (2 * m) = 2 * ((x \div 2) % m) + (x % 2)
  <1> DEFINE y == x \div 2
             b == x % 2
             q == y \div m
             r == y % m
  <1>1. y \in Nat /\ b \in {0, 1} /\ x = 2 * y + b
    BY SMT
  <1>2. q \in Nat /\ r \in 0..(m - 1) /\ y = m * q + r
    BY <1>1, Division
  <1> HIDE DEF y, b, q, r
  <1> DEFINE twice == 2 * m
             rest == 2 * r + b
  <1>3. twice \in Nat \ {0} /\ rest \in 0..(twice - 1)
    BY <1>1, <1>2
  <1>4. x = twice * q + rest
    BY <1>1, <1>2, SMT
  <1>5. x % twice = rest
    <2> HIDE DEF twice, rest
    <2> QED
      BY <1>2, <1>3, <1>4, Quotient
  <1>6. rest = 2 * (y % m) + b
    BY DEF r
  <1> QED
    BY <1>5, <1>6, Zenon DEF y, b

\* The bits of a number.
LEMMA BitsOfNumber ==
  ASSUME NEW n \in 0..32, NEW v \in Nat
  PROVE  /\ Bits!BitString(n, v) \in Seq({0, 1})
         /\ Len(Bits!BitString(n, v)) = n
         /\ \A i \in 1..n : Bits!BitString(n, v)[i] = (v \div 2^(n - i)) % 2
  <1>1. ASSUME NEW i \in 1..n
        PROVE  (v \div 2^(n - i)) % 2 \in {0, 1}
    <2>1. 2^(n - i) \in Nat \ {0}
      <3>1. n - i \in 0..32
        BY SMT
      <3> QED
        BY ONLY <3>1, PowerDoubles
    <2>2. v \div 2^(n - i) \in Nat
      BY <2>1, Division
    <2> QED
      BY <2>2
  <1>2. Bits!BitString(n, v) \in [1..n -> {0, 1}]
    BY <1>1 DEF Bits!BitString
  <1> QED
    BY <1>2 DEF Bits!BitString

\* The equation of the bits read so far.
Reads(value, bytes, first, n) ==
  value = [k \in 0..n |-> IF k = 0 THEN 0 ELSE 2 * value[k - 1] + Bits!BitAt(bytes, first + k - 1)]

\* A reader that finds the n low bits of a number has the number, as far as n
\* bits hold it.
LEMMA NumberRead ==
  ASSUME NEW n \in 0..32, NEW v \in Nat, NEW bytes, NEW first \in Nat,
         \A i \in 1..n : Bits!BitAt(bytes, first + i - 1) = (v \div 2^(n - i)) % 2
  PROVE  Bits!Number(bytes, first, n) = v % 2^n
  <1> DEFINE high(k) == v \div 2^(n - k)
             given == [k \in 0..n |-> high(k) % 2^k]
             value == CHOOSE value : Reads(value, bytes, first, n)
             S == {k \in Nat : k <= n => value[k] = given[k]}
  <1>1. Bits!Number(bytes, first, n) = value[n]
    BY DEF Bits!Number, Reads
  <1>2. ASSUME NEW k \in 1..n
        PROVE  given[k] = 2 * given[k - 1] + Bits!BitAt(bytes, first + k - 1)
    <2>1. /\ 2^(n - k) \in Nat \ {0} /\ 2^(n - (k - 1)) = 2 * 2^(n - k)
          /\ 2^(k - 1) \in Nat \ {0} /\ 2^k = 2 * 2^(k - 1)
      <3>1. n - k \in 0..32 /\ n - k < 32 /\ n - (k - 1) = (n - k) + 1
            /\ k - 1 \in 0..32 /\ k - 1 < 32 /\ (k - 1) + 1 = k
        OBVIOUS
      <3> QED
        BY <3>1, PowerDoubles
    <2>2. high(k) \in Nat /\ high(k - 1) = high(k) \div 2
      BY <2>1, Division, Halved
    <2>3. high(k) % 2^k = 2 * ((high(k) \div 2) % 2^(k - 1)) + (high(k) % 2)
      BY <2>1, <2>2, Remainder
    <2>4. given[k] = high(k) % 2^k /\ given[k - 1] = high(k - 1) % 2^(k - 1)
      OBVIOUS
    <2>5. Bits!BitAt(bytes, first + k - 1) = high(k) % 2
      OBVIOUS
    <2> HIDE DEF high, given
    <2> QED
      BY <2>2, <2>3, <2>4, <2>5
  <1>3. given[0] = 0
    <2>1. high(0) \in Nat
      <3>1. n - 0 \in 0..32
        OBVIOUS
      <3>2. 2^(n - 0) \in Nat \ {0}
        BY <3>1, PowerDoubles
      <3> QED
        BY <3>2, Division
    <2>2. given[0] = high(0) % 1
      OBVIOUS
    <2> HIDE DEF high, given
    <2> QED
      BY <2>1, <2>2
  <1>4. Reads(given, bytes, first, n)
    <2>1. given = [k \in 0..n |-> given[k]]
      OBVIOUS
    <2> HIDE DEF given
    <2>2. \A k \in 0..n : given[k] = IF k = 0 THEN 0 ELSE 2 * given[k - 1] + Bits!BitAt(bytes, first + k - 1)
      BY <1>2, <1>3
    <2> QED
      BY <2>1, <2>2, Zenon DEF Reads
  <1>5. Reads(value, bytes, first, n)
    <2> HIDE DEF given
    <2> QED
      BY <1>4
  <1>6. value[0] = 0 /\ \A k \in 1..n : value[k] = 2 * value[k - 1] + Bits!BitAt(bytes, first + k - 1)
    <2> HIDE DEF value
    <2> QED
      BY <1>5 DEF Reads
  <1>7. n \in S
    <2> HIDE DEF value, given
    <2>1. 0 \in S
      BY <1>3, <1>6
    <2>2. ASSUME NEW k \in Nat, k \in S
          PROVE  k + 1 \in S
      <3> SUFFICES ASSUME k + 1 <= n
                   PROVE  value[k + 1] = given[k + 1]
        OBVIOUS
      <3>1. value[k] = given[k] /\ k + 1 \in 1..n /\ (k + 1) - 1 = k
        BY <2>2
      <3> QED
        BY <1>2, <1>6, <3>1
    <2> HIDE DEF S
    <2> QED
      BY <2>1, <2>2, Induction
  <1>8. value[n] = v % 2^n
    <2>1. value[n] = given[n]
      BY <1>7
    <2>2. given[n] = (v \div 2^0) % 2^n
      OBVIOUS
    <2>3. v \div 2^0 = v
      BY Powers
    <2> HIDE DEF value, given
    <2> QED
      BY <2>1, <2>2, <2>3
  <1> QED
    BY <1>1, <1>8

-----------------------------------------------------------------------------
(* The bit buffer.                                                         *)

\* Bit j of a byte, from the most significant.
BitOf(x, j) == (x \div 2^(7 - j)) % 2

\* The bytes hold exactly the bits counted, and zeros behind them.
Sound(buf) ==
  /\ buf = [data |-> buf.data, bits |-> buf.bits]
  /\ buf.data \in Seq(0..255)
  /\ buf.bits \in Nat
  /\ Len(buf.data) = (buf.bits + 7) \div 8
  /\ \A i \in (buf.bits + 1)..(8 * Len(buf.data)) : Bits!BitAt(buf.data, i) = 0

\* The bits of a byte.
LEMMA ByteBits ==
  ASSUME NEW x \in Nat
  PROVE  /\ BitOf(x, 0) = (x \div 128) % 2 /\ BitOf(x, 1) = (x \div 64) % 2
         /\ BitOf(x, 2) = (x \div 32) % 2 /\ BitOf(x, 3) = (x \div 16) % 2
         /\ BitOf(x, 4) = (x \div 8) % 2 /\ BitOf(x, 5) = (x \div 4) % 2
         /\ BitOf(x, 6) = (x \div 2) % 2 /\ BitOf(x, 7) = x % 2
  <1>1. /\ 2^(7 - 0) = 128 /\ 2^(7 - 1) = 64 /\ 2^(7 - 2) = 32 /\ 2^(7 - 3) = 16
        /\ 2^(7 - 4) = 8 /\ 2^(7 - 5) = 4 /\ 2^(7 - 6) = 2 /\ 2^(7 - 7) = 1
    BY SMT
  <1>2. x \div 1 = x
    OBVIOUS
  <1>3. BitOf(x, 0) = (x \div 128) % 2
    BY <1>1, Zenon DEF BitOf
  <1>4. BitOf(x, 1) = (x \div 64) % 2
    BY <1>1, Zenon DEF BitOf
  <1>5. BitOf(x, 2) = (x \div 32) % 2
    BY <1>1, Zenon DEF BitOf
  <1>6. BitOf(x, 3) = (x \div 16) % 2
    BY <1>1, Zenon DEF BitOf
  <1>7. BitOf(x, 4) = (x \div 8) % 2
    BY <1>1, Zenon DEF BitOf
  <1>8. BitOf(x, 5) = (x \div 4) % 2
    BY <1>1, Zenon DEF BitOf
  <1>9. BitOf(x, 6) = (x \div 2) % 2
    BY <1>1, Zenon DEF BitOf
  <1>10. BitOf(x, 7) = (x \div 1) % 2
    BY <1>1, Zenon DEF BitOf
  <1> QED
    BY <1>2, <1>3, <1>4, <1>5, <1>6, <1>7, <1>8, <1>9, <1>10

\* The values of a byte, by a name: the provers would count to the last.
Octet == 0..255

\* The bits of a byte from the m-th on are zero.
ClearFrom(x, m) == \A j \in m..7 : BitOf(x, j) = 0

\* Byte y is x with its m-th bit set to the one given.
OnlySets(y, x, m, bit) ==
  BitOf(y, m) = bit /\ \A j \in 0..7 : j # m => BitOf(y, j) = BitOf(x, j)

\* One bit ored into a byte whose bits from there on are zero.
LEMMA BitSet ==
  ASSUME NEW x \in Octet, NEW m \in 0..7, NEW bit \in {0, 1}, NEW y, y = x + bit * 2^(7 - m),
         ClearFrom(x, m)
  PROVE  y \in Octet /\ OnlySets(y, x, m, bit)
  <1> USE DEF Octet
  <1>0. /\ BitOf(x, 0) = (x \div 128) % 2 /\ BitOf(x, 1) = (x \div 64) % 2
        /\ BitOf(x, 2) = (x \div 32) % 2 /\ BitOf(x, 3) = (x \div 16) % 2
        /\ BitOf(x, 4) = (x \div 8) % 2 /\ BitOf(x, 5) = (x \div 4) % 2
        /\ BitOf(x, 6) = (x \div 2) % 2 /\ BitOf(x, 7) = x % 2
    <2>1. x \in Nat
      OBVIOUS
    <2> QED
      BY <2>1, ByteBits
  <1>1. y \in 0..255 /\ BitOf(y, m) = bit /\ \A j \in {0, 1, 2, 3, 4, 5, 6, 7} : j # m => BitOf(y, j) = BitOf(x, j)
    <2>1. CASE m = 0
      <3>1. y = x + bit * 128
        <4>1. 2^(7 - 0) = 128
          BY SMT
        <4> QED
          BY <2>1, <4>1, Zenon
      <3>2. /\ (x \div 128) % 2 = 0 /\ (x \div 64) % 2 = 0 /\ (x \div 32) % 2 = 0
            /\ (x \div 16) % 2 = 0 /\ (x \div 8) % 2 = 0 /\ (x \div 4) % 2 = 0
            /\ (x \div 2) % 2 = 0 /\ (x \div 1) % 2 = 0
        BY <1>0, <2>1 DEF ClearFrom
      <3>3. y \in 0..255 /\ (y \div 128) % 2 = bit
        BY ONLY x \in 0..255, bit \in {0, 1}, <3>1, <3>2, SMT
      <3>4. /\ (y \div 64) % 2 = (x \div 64) % 2 /\ (y \div 32) % 2 = (x \div 32) % 2
            /\ (y \div 16) % 2 = (x \div 16) % 2 /\ (y \div 8) % 2 = (x \div 8) % 2
            /\ (y \div 4) % 2 = (x \div 4) % 2 /\ (y \div 2) % 2 = (x \div 2) % 2
            /\ (y \div 1) % 2 = (x \div 1) % 2
        BY ONLY x \in 0..255, bit \in {0, 1}, <3>1, <3>2, SMT
      <3>5. /\ BitOf(y, 0) = (y \div 128) % 2 /\ BitOf(y, 1) = (y \div 64) % 2
            /\ BitOf(y, 2) = (y \div 32) % 2 /\ BitOf(y, 3) = (y \div 16) % 2
            /\ BitOf(y, 4) = (y \div 8) % 2 /\ BitOf(y, 5) = (y \div 4) % 2
            /\ BitOf(y, 6) = (y \div 2) % 2 /\ BitOf(y, 7) = y % 2
        <4>1. y \in Nat
          BY <3>3
        <4> QED
          BY <4>1, ByteBits
      <3> QED
        BY <1>0, <2>1, <3>3, <3>4, <3>5
    <2>2. CASE m = 1
      <3>1. y = x + bit * 64
        <4>1. 2^(7 - 1) = 64
          BY SMT
        <4> QED
          BY <2>2, <4>1, Zenon
      <3>2. /\ (x \div 64) % 2 = 0 /\ (x \div 32) % 2 = 0 /\ (x \div 16) % 2 = 0
            /\ (x \div 8) % 2 = 0 /\ (x \div 4) % 2 = 0 /\ (x \div 2) % 2 = 0
            /\ (x \div 1) % 2 = 0
        BY <1>0, <2>2 DEF ClearFrom
      <3>3. y \in 0..255 /\ (y \div 64) % 2 = bit
        BY ONLY x \in 0..255, bit \in {0, 1}, <3>1, <3>2, SMT
      <3>4. /\ (y \div 128) % 2 = (x \div 128) % 2 /\ (y \div 32) % 2 = (x \div 32) % 2
            /\ (y \div 16) % 2 = (x \div 16) % 2 /\ (y \div 8) % 2 = (x \div 8) % 2
            /\ (y \div 4) % 2 = (x \div 4) % 2 /\ (y \div 2) % 2 = (x \div 2) % 2
            /\ (y \div 1) % 2 = (x \div 1) % 2
        BY ONLY x \in 0..255, bit \in {0, 1}, <3>1, <3>2, SMT
      <3>5. /\ BitOf(y, 0) = (y \div 128) % 2 /\ BitOf(y, 1) = (y \div 64) % 2
            /\ BitOf(y, 2) = (y \div 32) % 2 /\ BitOf(y, 3) = (y \div 16) % 2
            /\ BitOf(y, 4) = (y \div 8) % 2 /\ BitOf(y, 5) = (y \div 4) % 2
            /\ BitOf(y, 6) = (y \div 2) % 2 /\ BitOf(y, 7) = y % 2
        <4>1. y \in Nat
          BY <3>3
        <4> QED
          BY <4>1, ByteBits
      <3> QED
        BY <1>0, <2>2, <3>3, <3>4, <3>5
    <2>3. CASE m = 2
      <3>1. y = x + bit * 32
        <4>1. 2^(7 - 2) = 32
          BY SMT
        <4> QED
          BY <2>3, <4>1, Zenon
      <3>2. /\ (x \div 32) % 2 = 0 /\ (x \div 16) % 2 = 0 /\ (x \div 8) % 2 = 0
            /\ (x \div 4) % 2 = 0 /\ (x \div 2) % 2 = 0 /\ (x \div 1) % 2 = 0
        BY <1>0, <2>3 DEF ClearFrom
      <3>3. y \in 0..255 /\ (y \div 32) % 2 = bit
        BY ONLY x \in 0..255, bit \in {0, 1}, <3>1, <3>2, SMT
      <3>4. /\ (y \div 128) % 2 = (x \div 128) % 2 /\ (y \div 64) % 2 = (x \div 64) % 2
            /\ (y \div 16) % 2 = (x \div 16) % 2 /\ (y \div 8) % 2 = (x \div 8) % 2
            /\ (y \div 4) % 2 = (x \div 4) % 2 /\ (y \div 2) % 2 = (x \div 2) % 2
            /\ (y \div 1) % 2 = (x \div 1) % 2
        BY ONLY x \in 0..255, bit \in {0, 1}, <3>1, <3>2, SMT
      <3>5. /\ BitOf(y, 0) = (y \div 128) % 2 /\ BitOf(y, 1) = (y \div 64) % 2
            /\ BitOf(y, 2) = (y \div 32) % 2 /\ BitOf(y, 3) = (y \div 16) % 2
            /\ BitOf(y, 4) = (y \div 8) % 2 /\ BitOf(y, 5) = (y \div 4) % 2
            /\ BitOf(y, 6) = (y \div 2) % 2 /\ BitOf(y, 7) = y % 2
        <4>1. y \in Nat
          BY <3>3
        <4> QED
          BY <4>1, ByteBits
      <3> QED
        BY <1>0, <2>3, <3>3, <3>4, <3>5
    <2>4. CASE m = 3
      <3>1. y = x + bit * 16
        <4>1. 2^(7 - 3) = 16
          BY SMT
        <4> QED
          BY <2>4, <4>1, Zenon
      <3>2. /\ (x \div 16) % 2 = 0 /\ (x \div 8) % 2 = 0 /\ (x \div 4) % 2 = 0
            /\ (x \div 2) % 2 = 0 /\ (x \div 1) % 2 = 0
        BY <1>0, <2>4 DEF ClearFrom
      <3>3. y \in 0..255 /\ (y \div 16) % 2 = bit
        BY ONLY x \in 0..255, bit \in {0, 1}, <3>1, <3>2, SMT
      <3>4. /\ (y \div 128) % 2 = (x \div 128) % 2 /\ (y \div 64) % 2 = (x \div 64) % 2
            /\ (y \div 32) % 2 = (x \div 32) % 2 /\ (y \div 8) % 2 = (x \div 8) % 2
            /\ (y \div 4) % 2 = (x \div 4) % 2 /\ (y \div 2) % 2 = (x \div 2) % 2
            /\ (y \div 1) % 2 = (x \div 1) % 2
        BY ONLY x \in 0..255, bit \in {0, 1}, <3>1, <3>2, SMT
      <3>5. /\ BitOf(y, 0) = (y \div 128) % 2 /\ BitOf(y, 1) = (y \div 64) % 2
            /\ BitOf(y, 2) = (y \div 32) % 2 /\ BitOf(y, 3) = (y \div 16) % 2
            /\ BitOf(y, 4) = (y \div 8) % 2 /\ BitOf(y, 5) = (y \div 4) % 2
            /\ BitOf(y, 6) = (y \div 2) % 2 /\ BitOf(y, 7) = y % 2
        <4>1. y \in Nat
          BY <3>3
        <4> QED
          BY <4>1, ByteBits
      <3> QED
        BY <1>0, <2>4, <3>3, <3>4, <3>5
    <2>5. CASE m = 4
      <3>1. y = x + bit * 8
        <4>1. 2^(7 - 4) = 8
          BY SMT
        <4> QED
          BY <2>5, <4>1, Zenon
      <3>2. (x \div 8) % 2 = 0 /\ (x \div 4) % 2 = 0 /\ (x \div 2) % 2 = 0 /\ (x \div 1) % 2 = 0
        BY <1>0, <2>5 DEF ClearFrom
      <3>3. y \in 0..255 /\ (y \div 8) % 2 = bit
        BY ONLY x \in 0..255, bit \in {0, 1}, <3>1, <3>2, SMT
      <3>4. /\ (y \div 128) % 2 = (x \div 128) % 2 /\ (y \div 64) % 2 = (x \div 64) % 2
            /\ (y \div 32) % 2 = (x \div 32) % 2 /\ (y \div 16) % 2 = (x \div 16) % 2
            /\ (y \div 4) % 2 = (x \div 4) % 2 /\ (y \div 2) % 2 = (x \div 2) % 2
            /\ (y \div 1) % 2 = (x \div 1) % 2
        BY ONLY x \in 0..255, bit \in {0, 1}, <3>1, <3>2, SMT
      <3>5. /\ BitOf(y, 0) = (y \div 128) % 2 /\ BitOf(y, 1) = (y \div 64) % 2
            /\ BitOf(y, 2) = (y \div 32) % 2 /\ BitOf(y, 3) = (y \div 16) % 2
            /\ BitOf(y, 4) = (y \div 8) % 2 /\ BitOf(y, 5) = (y \div 4) % 2
            /\ BitOf(y, 6) = (y \div 2) % 2 /\ BitOf(y, 7) = y % 2
        <4>1. y \in Nat
          BY <3>3
        <4> QED
          BY <4>1, ByteBits
      <3> QED
        BY <1>0, <2>5, <3>3, <3>4, <3>5
    <2>6. CASE m = 5
      <3>1. y = x + bit * 4
        <4>1. 2^(7 - 5) = 4
          BY SMT
        <4> QED
          BY <2>6, <4>1, Zenon
      <3>2. (x \div 4) % 2 = 0 /\ (x \div 2) % 2 = 0 /\ (x \div 1) % 2 = 0
        BY <1>0, <2>6 DEF ClearFrom
      <3>3. y \in 0..255 /\ (y \div 4) % 2 = bit
        BY ONLY x \in 0..255, bit \in {0, 1}, <3>1, <3>2, SMT
      <3>4. /\ (y \div 128) % 2 = (x \div 128) % 2 /\ (y \div 64) % 2 = (x \div 64) % 2
            /\ (y \div 32) % 2 = (x \div 32) % 2 /\ (y \div 16) % 2 = (x \div 16) % 2
            /\ (y \div 8) % 2 = (x \div 8) % 2 /\ (y \div 2) % 2 = (x \div 2) % 2
            /\ (y \div 1) % 2 = (x \div 1) % 2
        BY ONLY x \in 0..255, bit \in {0, 1}, <3>1, <3>2, SMT
      <3>5. /\ BitOf(y, 0) = (y \div 128) % 2 /\ BitOf(y, 1) = (y \div 64) % 2
            /\ BitOf(y, 2) = (y \div 32) % 2 /\ BitOf(y, 3) = (y \div 16) % 2
            /\ BitOf(y, 4) = (y \div 8) % 2 /\ BitOf(y, 5) = (y \div 4) % 2
            /\ BitOf(y, 6) = (y \div 2) % 2 /\ BitOf(y, 7) = y % 2
        <4>1. y \in Nat
          BY <3>3
        <4> QED
          BY <4>1, ByteBits
      <3> QED
        BY <1>0, <2>6, <3>3, <3>4, <3>5
    <2>7. CASE m = 6
      <3>1. y = x + bit * 2
        <4>1. 2^(7 - 6) = 2
          BY SMT
        <4> QED
          BY <2>7, <4>1, Zenon
      <3>2. (x \div 2) % 2 = 0 /\ (x \div 1) % 2 = 0
        BY <1>0, <2>7 DEF ClearFrom
      <3>3. y \in 0..255 /\ (y \div 2) % 2 = bit
        BY ONLY x \in 0..255, bit \in {0, 1}, <3>1, <3>2, SMT
      <3>4. /\ (y \div 128) % 2 = (x \div 128) % 2 /\ (y \div 64) % 2 = (x \div 64) % 2
            /\ (y \div 32) % 2 = (x \div 32) % 2 /\ (y \div 16) % 2 = (x \div 16) % 2
            /\ (y \div 8) % 2 = (x \div 8) % 2 /\ (y \div 4) % 2 = (x \div 4) % 2
            /\ (y \div 1) % 2 = (x \div 1) % 2
        BY ONLY x \in 0..255, bit \in {0, 1}, <3>1, <3>2, SMT
      <3>5. /\ BitOf(y, 0) = (y \div 128) % 2 /\ BitOf(y, 1) = (y \div 64) % 2
            /\ BitOf(y, 2) = (y \div 32) % 2 /\ BitOf(y, 3) = (y \div 16) % 2
            /\ BitOf(y, 4) = (y \div 8) % 2 /\ BitOf(y, 5) = (y \div 4) % 2
            /\ BitOf(y, 6) = (y \div 2) % 2 /\ BitOf(y, 7) = y % 2
        <4>1. y \in Nat
          BY <3>3
        <4> QED
          BY <4>1, ByteBits
      <3> QED
        BY <1>0, <2>7, <3>3, <3>4, <3>5
    <2>8. CASE m = 7
      <3>1. y = x + bit * 1
        <4>1. 2^(7 - 7) = 1
          BY SMT
        <4> QED
          BY <2>8, <4>1, Zenon
      <3>2. (x \div 1) % 2 = 0
        BY <1>0, <2>8 DEF ClearFrom
      <3>3. y \in 0..255 /\ (y \div 1) % 2 = bit
        BY ONLY x \in 0..255, bit \in {0, 1}, <3>1, <3>2, SMT
      <3>4. /\ (y \div 128) % 2 = (x \div 128) % 2 /\ (y \div 64) % 2 = (x \div 64) % 2
            /\ (y \div 32) % 2 = (x \div 32) % 2 /\ (y \div 16) % 2 = (x \div 16) % 2
            /\ (y \div 8) % 2 = (x \div 8) % 2 /\ (y \div 4) % 2 = (x \div 4) % 2
            /\ (y \div 2) % 2 = (x \div 2) % 2
        <4>1. x % 2 = 0 /\ y = x + bit
          BY ONLY x \in 0..255, bit \in {0, 1}, <3>1, <3>2, SMT
        <4>2. y \div 2 = x \div 2
          BY ONLY x \in 0..255, bit \in {0, 1}, <4>1, SMT
        <4>3. y \div 4 = x \div 4
          BY ONLY x \in 0..255, <3>3, <4>2, SMT
        <4>4. y \div 8 = x \div 8
          BY ONLY x \in 0..255, <3>3, <4>3, SMT
        <4>5. y \div 16 = x \div 16
          BY ONLY x \in 0..255, <3>3, <4>4, SMT
        <4>6. y \div 32 = x \div 32
          BY ONLY x \in 0..255, <3>3, <4>5, SMT
        <4>7. y \div 64 = x \div 64
          BY ONLY x \in 0..255, <3>3, <4>6, SMT
        <4>8. y \div 128 = x \div 128
          BY ONLY x \in 0..255, <3>3, <4>7, SMT
        <4> QED
          BY <4>2, <4>3, <4>4, <4>5, <4>6, <4>7, <4>8, Zenon
      <3>5. /\ BitOf(y, 0) = (y \div 128) % 2 /\ BitOf(y, 1) = (y \div 64) % 2
            /\ BitOf(y, 2) = (y \div 32) % 2 /\ BitOf(y, 3) = (y \div 16) % 2
            /\ BitOf(y, 4) = (y \div 8) % 2 /\ BitOf(y, 5) = (y \div 4) % 2
            /\ BitOf(y, 6) = (y \div 2) % 2 /\ BitOf(y, 7) = y % 2
        <4>1. y \in Nat
          BY <3>3
        <4> QED
          BY <4>1, ByteBits
      <3> QED
        BY <1>0, <2>8, <3>3, <3>4, <3>5
    <2> QED
      BY <2>1, <2>2, <2>3, <2>4, <2>5, <2>6, <2>7, <2>8
  <1> QED
    BY <1>1 DEF OnlySets

\* Where a bit is.
LEMMA BitIndex ==
  ASSUME NEW i \in Nat \ {0}
  PROVE  /\ (i - 1) \div 8 \in Nat /\ (i - 1) % 8 \in 0..7
         /\ i = 8 * ((i - 1) \div 8) + ((i - 1) % 8) + 1
         /\ \A bytes : Bits!BitAt(bytes, i) = BitOf(bytes[(i - 1) \div 8 + 1], (i - 1) % 8)
  <1>1. \A bytes : Bits!BitAt(bytes, i) = BitOf(bytes[(i - 1) \div 8 + 1], (i - 1) % 8)
    BY Zenon DEF Bits!BitAt, BitOf
  <1> QED
    BY <1>1

\* No bit of a zero byte is set.
LEMMA ZeroBits == \A j \in 0..7 : BitOf(0, j) = 0
  <1> SUFFICES ASSUME NEW j \in 0..7 PROVE (0 \div 2^(7 - j)) % 2 = 0
    BY DEF BitOf
  <1> DEFINE p == 2^(7 - j)
  <1>1. p \in Nat \ {0}
    <2>1. 7 - j \in 0..32
      OBVIOUS
    <2> QED
      BY <2>1, PowerDoubles
  <1> HIDE DEF p
  <1>2. 0 \div p = 0
    BY <1>1, SMT
  <1>3. (0 \div p) % 2 = 0
    BY <1>2
  <1> QED
    BY <1>3 DEF p

\* The byte the next bit goes to.
LEMMA Opened ==
  ASSUME NEW buf, Sound(buf), NEW data,
         buf.bits % 8 = 0 => data = Append(buf.data, 0),
         buf.bits % 8 # 0 => data = buf.data
  PROVE  /\ data \in Seq(Octet)
         /\ Len(data) = buf.bits \div 8 + 1
         /\ \A i \in 1..buf.bits : Bits!BitAt(data, i) = Bits!BitAt(buf.data, i)
         /\ \A i \in (buf.bits + 1)..(8 * Len(data)) : Bits!BitAt(data, i) = 0
  <1> USE DEF Octet
  <1> DEFINE n == buf.bits
             old == buf.data
  <1>1. /\ old \in Seq(0..255) /\ n \in Nat /\ Len(old) = (n + 7) \div 8
        /\ \A i \in (n + 1)..(8 * Len(old)) : Bits!BitAt(old, i) = 0
    BY DEF Sound
  <1>2. (n % 8 = 0 => data = Append(old, 0)) /\ (n % 8 # 0 => data = old)
    OBVIOUS
  <1> HIDE DEF n, old
  <1>3. CASE n % 8 = 0
    <2>1. /\ data = Append(old, 0) /\ data \in Seq(0..255) /\ Len(data) = Len(old) + 1
          /\ \A q \in 1..Len(old) : data[q] = old[q]
          /\ data[Len(old) + 1] = 0
      <3>1. data = Append(old, 0)
        BY <1>2, <1>3
      <3>2. 0 \in 0..255
        OBVIOUS
      <3>3. /\ Append(old, 0) \in Seq(0..255) /\ Len(Append(old, 0)) = Len(old) + 1
            /\ \A q \in 1..Len(old) : Append(old, 0)[q] = old[q]
            /\ Append(old, 0)[Len(old) + 1] = 0
        <4>1. old \in Seq(0..255)
          BY <1>1
        <4> QED
          BY ONLY <4>1, <3>2, AppendProperties
      <3> QED
        BY <3>1, <3>3, Zenon
    <2>2. Len(old) = n \div 8 /\ n = 8 * Len(old)
      BY <1>1, <1>3
    <2>3. ASSUME NEW i \in 1..n
          PROVE  Bits!BitAt(data, i) = Bits!BitAt(old, i)
      <3>1. (i - 1) \div 8 + 1 \in 1..Len(old)
        BY <1>1, <2>2
      <3>2. data[(i - 1) \div 8 + 1] = old[(i - 1) \div 8 + 1]
        BY <2>1, <3>1
      <3> QED
        BY <3>2, Zenon DEF Bits!BitAt
    <2>4. ASSUME NEW i \in (n + 1)..(8 * Len(data))
          PROVE  Bits!BitAt(data, i) = 0
      <3>1. (i - 1) \div 8 + 1 = Len(old) + 1 /\ (i - 1) % 8 \in 0..7 /\ i \in Nat \ {0}
        BY <1>1, <2>1, <2>2
      <3>2. Bits!BitAt(data, i) = BitOf(0, (i - 1) % 8)
        <4>1. Bits!BitAt(data, i) = BitOf(data[(i - 1) \div 8 + 1], (i - 1) % 8)
          BY <3>1, BitIndex, Zenon
        <4> QED
          BY <2>1, <3>1, <4>1
      <3> QED
        BY <3>1, <3>2, ZeroBits
    <2> QED
      BY <1>1, <2>1, <2>2, <2>3, <2>4 DEF n, old
  <1>4. CASE n % 8 # 0
    <2>1. data = old
      BY <1>2, <1>4
    <2>2. (n + 7) \div 8 = n \div 8 + 1
      BY <1>1, <1>4
    <2> QED
      BY <1>1, <2>1, <2>2 DEF n, old
  <1> QED
    BY <1>3, <1>4

\* PushBit adds its bit behind those already there and disturbs none.
LEMMA PushOne ==
  ASSUME NEW buf, Sound(buf), NEW bit \in {0, 1}, NEW next, next = Bits!PushBit(buf, bit)
  PROVE  /\ Sound(next)
         /\ next.bits = buf.bits + 1
         /\ \A i \in 1..buf.bits : Bits!BitAt(next.data, i) = Bits!BitAt(buf.data, i)
         /\ Bits!BitAt(next.data, buf.bits + 1) = bit
  <1> DEFINE n == buf.bits
             data == IF n % 8 = 0 THEN Append(buf.data, 0) ELSE buf.data
             m == n % 8
             top == Len(data)
             x == data[top]
             y == x + bit * 2^(7 - m)
             new == [data EXCEPT ![top] = y]
  <1>1. next = [data |-> new, bits |-> n + 1]
    BY Zenon DEF Bits!PushBit
  <1>2. /\ data \in Seq(0..255) /\ top = n \div 8 + 1
        /\ \A i \in 1..n : Bits!BitAt(data, i) = Bits!BitAt(buf.data, i)
        /\ \A i \in (n + 1)..(8 * top) : Bits!BitAt(data, i) = 0
    <2>1. (buf.bits % 8 = 0 => data = Append(buf.data, 0)) /\ (buf.bits % 8 # 0 => data = buf.data)
      OBVIOUS
    <2> HIDE DEF data
    <2>2. /\ data \in Seq(Octet) /\ Len(data) = buf.bits \div 8 + 1
          /\ \A i \in 1..buf.bits : Bits!BitAt(data, i) = Bits!BitAt(buf.data, i)
          /\ \A i \in (buf.bits + 1)..(8 * Len(data)) : Bits!BitAt(data, i) = 0
      BY <2>1, Opened, Zenon
    <2> QED
      BY <2>2, Zenon DEF Octet
  <1>3. n \in Nat
    BY DEF Sound
  <1> HIDE DEF n, data
  <1>4. m \in 0..7 /\ n = 8 * (top - 1) + m /\ top \in 1..Len(data)
    BY <1>2, <1>3
  <1>5. x \in 0..255
    <2>1. data \in Seq(0..255) /\ top \in 1..Len(data)
      BY <1>2, <1>4
    <2> QED
      BY ONLY <2>1, ElementOfSeq, Zenon
  <1>6. ClearFrom(x, m)
    <2> SUFFICES ASSUME NEW j \in m..7 PROVE BitOf(x, j) = 0
      BY Zenon DEF ClearFrom
    <2> DEFINE i == 8 * (top - 1) + j + 1
    <2>1. i \in (n + 1)..(8 * top) /\ i \in Nat \ {0} /\ (i - 1) \div 8 + 1 = top /\ (i - 1) % 8 = j
      <3> HIDE DEF top, m
      <3> QED
        BY <1>3, <1>4
    <2> HIDE DEF i, top, m
    <2>2. Bits!BitAt(data, i) = BitOf(data[top], j)
      BY <2>1, BitIndex
    <2> QED
      BY <1>2, <2>1, <2>2
  <1>7. y \in 0..255 /\ OnlySets(y, x, m, bit)
    <2>1. y = x + bit * 2^(7 - m)
      OBVIOUS
    <2>2. m \in 0..7
      BY <1>4
    <2>3. x \in Octet
      BY <1>5 DEF Octet
    <2> HIDE DEF x, m, y
    <2>4. y \in Octet /\ OnlySets(y, x, m, bit)
      BY <1>6, <2>1, <2>2, <2>3, BitSet, Zenon
    <2> QED
      BY <2>4 DEF Octet
  <1>8. /\ new \in Seq(0..255) /\ Len(new) = Len(data) /\ new[top] = y
        /\ \A q \in 1..Len(data) : q # top => new[q] = data[q]
    <2> HIDE DEF y, top
    <2>1. data \in Seq(0..255) /\ top \in 1..Len(data) /\ y \in 0..255
      BY <1>2, <1>4, <1>7
    <2> QED
      BY <2>1, ExceptSeq
  <1> HIDE DEF new, y, x, m, top
  <1>9. ASSUME NEW i \in 1..(8 * top), i # n + 1
        PROVE  Bits!BitAt(new, i) = Bits!BitAt(data, i)
    <2> DEFINE q == (i - 1) \div 8
               j == (i - 1) % 8
    <2>1. /\ q \in Nat /\ j \in 0..7 /\ i = 8 * q + j + 1
          /\ Bits!BitAt(new, i) = BitOf(new[q + 1], j)
          /\ Bits!BitAt(data, i) = BitOf(data[q + 1], j)
      BY <1>4, BitIndex
    <2> HIDE DEF q, j
    <2>2. q + 1 \in 1..top
      BY <1>4, <2>1
    <2>3. CASE q + 1 = top
      <3>1. j # m
        BY <1>3, <1>4, <1>9, <2>1, <2>3
      <3>2. new[q + 1] = y /\ data[q + 1] = x
        BY <1>8, <2>3 DEF x
      <3> QED
        BY <1>7, <2>1, <3>1, <3>2 DEF OnlySets
    <2>4. CASE q + 1 # top
      <3>1. new[q + 1] = data[q + 1]
        BY <1>8, <2>2, <2>4 DEF top
      <3> QED
        BY <2>1, <3>1
    <2> QED
      BY <2>3, <2>4
  <1>10. Bits!BitAt(new, n + 1) = bit
    <2>1. n + 1 \in Nat \ {0} /\ ((n + 1) - 1) \div 8 + 1 = top /\ ((n + 1) - 1) % 8 = m
      BY <1>3, <1>4
    <2>2. Bits!BitAt(new, n + 1) = BitOf(new[top], m)
      BY <2>1, BitIndex
    <2> QED
      BY <1>7, <1>8, <2>2 DEF OnlySets
  <1>11. Len(new) = top /\ top = ((n + 1) + 7) \div 8
    BY <1>3, <1>4, <1>8 DEF top
  <1>12. \A i \in 1..n : Bits!BitAt(new, i) = Bits!BitAt(buf.data, i)
    <2> SUFFICES ASSUME NEW i \in 1..n PROVE Bits!BitAt(new, i) = Bits!BitAt(buf.data, i)
      OBVIOUS
    <2>1. i \in 1..(8 * top) /\ i # n + 1
      BY <1>3, <1>4
    <2> QED
      BY <1>2, <1>9, <2>1
  <1>13. \A i \in (n + 2)..(8 * top) : Bits!BitAt(new, i) = 0
    <2> SUFFICES ASSUME NEW i \in (n + 2)..(8 * top) PROVE Bits!BitAt(new, i) = 0
      OBVIOUS
    <2>1. i \in 1..(8 * top) /\ i # n + 1 /\ i \in (n + 1)..(8 * top)
      BY <1>3, <1>4
    <2> QED
      BY <1>2, <1>9, <2>1
  <1>14. next.data = new /\ next.bits = n + 1 /\ next = [data |-> next.data, bits |-> next.bits]
    BY <1>1
  <1>15. Sound(next)
    <2>1. (n + 1) + 1 = n + 2 /\ n + 1 \in Nat
      BY <1>3
    <2> QED
      BY <1>8, <1>11, <1>13, <1>14, <2>1 DEF Sound
  <1> QED
    BY <1>10, <1>12, <1>14, <1>15 DEF n

\* A buffer with the first n of some bits behind those of another.
Extends(next, buf, bits, n) ==
  /\ Sound(next)
  /\ next.bits = buf.bits + n
  /\ \A i \in 1..buf.bits : Bits!BitAt(next.data, i) = Bits!BitAt(buf.data, i)
  /\ \A i \in 1..n : Bits!BitAt(next.data, buf.bits + i) = bits[i]

\* The equation of PushBits.
Pushes(pushed, buf, bits) ==
  pushed = [k \in 0..Len(bits) |-> IF k = 0 THEN buf ELSE Bits!PushBit(pushed[k - 1], bits[k])]

LEMMA ExtendsOne ==
  ASSUME NEW buf, Sound(buf), NEW bits \in Seq({0, 1}), NEW k \in 0..Len(bits), k < Len(bits),
         NEW last, Extends(last, buf, bits, k), NEW next, next = Bits!PushBit(last, bits[k + 1])
  PROVE  Extends(next, buf, bits, k + 1)
  <1>1. bits[k + 1] \in {0, 1}
    OBVIOUS
  <1>2. Sound(last) /\ last.bits = buf.bits + k
    BY DEF Extends
  <1>3. /\ Sound(next)
        /\ next.bits = last.bits + 1
        /\ \A i \in 1..last.bits : Bits!BitAt(next.data, i) = Bits!BitAt(last.data, i)
        /\ Bits!BitAt(next.data, last.bits + 1) = bits[k + 1]
    BY <1>1, <1>2, PushOne, Zenon
  <1> DEFINE a == buf.bits
             b == last.bits
  <1>4. a \in Nat /\ k \in Nat /\ b = a + k
    BY <1>2 DEF Sound
  <1>5. \A i \in 1..buf.bits : Bits!BitAt(next.data, i) = Bits!BitAt(buf.data, i)
    BY <1>2, <1>3, <1>4 DEF Extends
  <1>6. \A i \in 1..(k + 1) : Bits!BitAt(next.data, buf.bits + i) = bits[i]
    <2> SUFFICES ASSUME NEW i \in 1..(k + 1) PROVE Bits!BitAt(next.data, buf.bits + i) = bits[i]
      OBVIOUS
    <2>1. CASE i = k + 1
      <3>1. buf.bits + i = last.bits + 1
        <4> HIDE DEF a, b
        <4>1. a + i = b + 1
          BY <1>4, <2>1
        <4> QED
          BY <4>1 DEF a, b
      <3> QED
        BY <1>3, <2>1, <3>1
    <2>2. CASE i # k + 1
      <3>1. i \in 1..k /\ buf.bits + i \in 1..last.bits
        <4> HIDE DEF a, b
        <4>1. i \in 1..k /\ a + i \in 1..b
          BY <1>4, <2>2
        <4> QED
          BY <4>1 DEF a, b
      <3> QED
        BY <1>3, <3>1 DEF Extends
    <2> QED
      BY <2>1, <2>2
  <1>7. next.bits = buf.bits + (k + 1)
    <2>1. next.bits = b + 1
      BY <1>3
    <2> HIDE DEF a, b
    <2>2. b + 1 = a + (k + 1)
      BY <1>4
    <2> QED
      BY <2>1, <2>2 DEF a
  <1> QED
    BY <1>3, <1>5, <1>6, <1>7, Zenon DEF Extends

\* PushBits adds its bits in order and disturbs none of those already there.
LEMMA PushAll ==
  ASSUME NEW buf, Sound(buf), NEW bits \in Seq({0, 1})
  PROVE  Extends(Bits!PushBits(buf, bits), buf, bits, Len(bits))
  <1> DEFINE n == Len(bits)
             V == {b \in [data : Seq(0..255), bits : Nat] : Sound(b)}
             step == [xk \in V \X (1..n) |-> Bits!PushBit(xk[1], bits[xk[2]])]
             g == CHOOSE pushed : Pushes(pushed, buf, bits)
  <1>0. n \in Nat
    OBVIOUS
  <1>1. \A b : Sound(b) <=> b \in V
    BY Zenon DEF Sound
  <1>2. \A k \in 1..n, x \in V : step[<<x, k>>] = Bits!PushBit(x, bits[k])
    OBVIOUS
  <1> HIDE DEF V, step
  <1>3. Keeps(step, V, n)
    <2> SUFFICES ASSUME NEW k \in 1..n, NEW x \in V PROVE Sound(Bits!PushBit(x, bits[k]))
      BY <1>1, <1>2, Zenon DEF Keeps
    <2>1. bits[k] \in {0, 1}
      OBVIOUS
    <2> QED
      BY <1>1, <2>1, PushOne, Zenon
  <1>4. PICK f \in [0..n -> V] : Computes(f, step, buf, n)
    <2>1. buf \in V
      BY <1>1
    <2> HIDE DEF n
    <2> QED
      BY <1>0, <1>3, <2>1, Recursion, Zenon
  <1>5. Pushes(f, buf, bits)
    <2>1. \A k \in 0..n : f[k] = IF k = 0 THEN buf ELSE Bits!PushBit(f[k - 1], bits[k])
      <3> SUFFICES ASSUME NEW k \in 1..n PROVE f[k] = Bits!PushBit(f[k - 1], bits[k])
        BY <1>0, <1>4 DEF Computes
      <3>1. k - 1 \in 0..n
        BY <1>0
      <3> QED
        BY <1>2, <1>4, <3>1 DEF Computes
    <2>2. f = [k \in 0..n |-> f[k]]
      BY <1>4
    <2> QED
      BY <2>1, <2>2, Zenon DEF Pushes
  <1>6. Pushes(g, buf, bits)
    BY <1>5, Zenon
  <1> HIDE DEF g
  <1>7. g[0] = buf /\ \A k \in 1..n : g[k] = Bits!PushBit(g[k - 1], bits[k])
    BY <1>6 DEF Pushes
  <1> DEFINE S == {k \in Nat : k <= n => Extends(g[k], buf, bits, k)}
  <1>8. 0 \in S
    BY <1>7 DEF Extends, Sound
  <1>9. ASSUME NEW k \in Nat, k \in S
        PROVE  k + 1 \in S
    <2> SUFFICES ASSUME k + 1 <= n PROVE Extends(g[k + 1], buf, bits, k + 1)
      OBVIOUS
    <2>1. k \in 0..Len(bits) /\ k < Len(bits) /\ k + 1 \in 1..n /\ (k + 1) - 1 = k
      OBVIOUS
    <2>2. Extends(g[k], buf, bits, k)
      BY <1>9, <2>1
    <2>3. g[k + 1] = Bits!PushBit(g[k], bits[k + 1])
      BY <1>7, <2>1
    <2> QED
      BY <2>1, <2>2, <2>3, ExtendsOne
  <1>10. n \in S
    <2> HIDE DEF S
    <2> QED
      BY <1>0, <1>8, <1>9, Induction
  <1>11. Bits!PushBits(buf, bits) = g[n]
    BY Zenon DEF Bits!PushBits, Pushes, g
  <1> QED
    BY <1>10, <1>11

-----------------------------------------------------------------------------
(* The codes and their reader.                                             *)

\* What ue(v) codes a number as.
Coded32 == {v \in Nat : v # 0 /\ v < 2147483648}

LEMMA CodeNums ==
  /\ \A v \in CodeNum : v \in Nat /\ v + 1 \in Coded32
  /\ \A v \in Coded32 : v \in Nat /\ v # 0 /\ v < 2^31
  <1>1. ASSUME NEW v, v \in CodeNum
        PROVE  v \in Nat /\ v + 1 \in Coded32
    BY <1>1, SMT DEF CodeNum, Coded32
  <1>2. ASSUME NEW v, v \in Coded32
        PROVE  v \in Nat /\ v # 0 /\ v < 2147483648
    BY <1>2, SMT DEF Coded32
  <1>3. 2^31 = 2147483648
    BY SMT
  <1> QED
    BY <1>1, <1>2, <1>3, SMT

LEMMA BinaryLength ==
  ASSUME NEW v \in Coded32
  PROVE  /\ Bits!GetBinaryLength(v) \in 1..31
         /\ 2^(Bits!GetBinaryLength(v) - 1) <= v /\ v < 2^Bits!GetBinaryLength(v)
  <1> DEFINE T == {n \in 0..31 : v < 2^n}
             Fits(n) == 2^(n - 1) <= v /\ v < 2^n
             len == CHOOSE n \in 1..32 : Fits(n)
  <1>1. PICK n \in T : \A m \in T : n <= m
    <2>1. 31 \in T
      BY CodeNums
    <2>2. T \subseteq Nat
      OBVIOUS
    <2> HIDE DEF T
    <2> QED
      BY <2>1, <2>2, Least
  <1>2. n \in 1..31 /\ Fits(n)
    <2>1. n \in 0..31 /\ v < 2^n
      OBVIOUS
    <2>2. n # 0
      <3> SUFFICES ASSUME n = 0 PROVE FALSE
        OBVIOUS
      <3>1. v < 2^0
        BY <2>1, Zenon
      <3>2. 2^0 = 1
        BY SMT
      <3> QED
        BY <3>1, <3>2, CodeNums
    <2>3. n - 1 \in 0..31 /\ n - 1 \notin T
      BY <1>1, <2>1, <2>2
    <2>4. 2^(n - 1) \in Nat \ {0}
      <3>1. n - 1 \in 0..32
        BY <2>1, <2>2
      <3> QED
        BY <3>1, PowerDoubles
    <2>5. ~(v < 2^(n - 1))
      BY <2>3
    <2> QED
      BY <2>1, <2>2, <2>4, <2>5, CodeNums
  <1>3. len \in 1..32 /\ Fits(len)
    <2> HIDE DEF Fits
    <2>1. n \in 1..32
      BY <1>2
    <2> QED
      BY <1>2, <2>1, Zenon
  <1>4. len # 32
    <2> SUFFICES ASSUME len = 32 PROVE FALSE
      OBVIOUS
    <2>1. 2^31 <= v
      <3>1. 2^(32 - 1) <= v /\ 32 - 1 = 31
        <4> HIDE DEF len
        <4> QED
          BY <1>3
      <3> QED
        BY <3>1, Zenon
    <2>2. v < 2^31 /\ v \in Nat
      BY CodeNums
    <2> DEFINE p == 2^31
    <2>3. p \in Int
      BY SMT
    <2>4. p <= v /\ v < p
      BY <2>1, <2>2, Zenon
    <2> HIDE DEF p
    <2> QED
      BY <2>2, <2>3, <2>4
  <1>5. Bits!GetBinaryLength(v) = len
    <2>1. v # 0
      BY CodeNums
    <2> QED
      BY <2>1, Zenon DEF Bits!GetBinaryLength
  <1> HIDE DEF len
  <1>6. len \in 1..31
    BY <1>3, <1>4
  <1> QED
    BY <1>3, <1>5, <1>6

\* The bits of a code are in the bytes from the i-th bit on.
HoldsAt(bytes, i, bits) ==
  /\ bytes \in Seq(0..255)
  /\ i \in Nat \ {0}
  /\ i + Len(bits) - 1 <= 8 * Len(bytes)
  /\ \A k \in 1..Len(bits) : Bits!BitAt(bytes, i + k - 1) = bits[k]

\* The leading one of a number.
LEMMA LeadingOne ==
  ASSUME NEW v \in Coded32, NEW len, len = Bits!GetBinaryLength(v)
  PROVE  (v \div 2^(len - 1)) % 2 = 1 /\ v % 2^len = v
  <1>1. len \in 1..31 /\ 2^(len - 1) <= v /\ v < 2^len
    BY BinaryLength
  <1> DEFINE p == 2^(len - 1)
  <1>2. p \in Nat \ {0} /\ 2^len = 2 * p
    <2>1. len - 1 \in 0..32 /\ len - 1 < 32 /\ (len - 1) + 1 = len
      BY <1>1
    <2> QED
      BY <2>1, PowerDoubles
  <1>3. p <= v /\ v < 2 * p /\ v \in Nat
    BY <1>1, <1>2, CodeNums
  <1>4. v \div p = 1
    <2> HIDE DEF p
    <2>1. v - p \in 0..(p - 1) /\ v = p * 1 + (v - p)
      BY <1>2, <1>3
    <2> QED
      BY <1>2, <2>1, Quotient
  <1>5. v % (2 * p) = v
    <2> HIDE DEF p
    <2> DEFINE q == 2 * p
    <2>1. q \in Nat \ {0} /\ v \in 0..(q - 1) /\ v = q * 0 + v
      BY <1>2, <1>3
    <2> HIDE DEF q
    <2>2. v % q = v
      BY <2>1, Quotient
    <2> QED
      BY <2>2 DEF q
  <1>6. 1 % 2 = 1
    OBVIOUS
  <1> QED
    BY <1>2, <1>4, <1>5, <1>6

\* The code ue(v): a zero for every bit of v + 1 but one, then those bits.
LEMMA UECode ==
  ASSUME NEW v \in CodeNum, NEW len, len = Bits!GetBinaryLength(v + 1)
  PROVE  /\ len \in 1..31
         /\ Bits!UEBits(v) \in Seq({0, 1}) /\ Len(Bits!UEBits(v)) = 2 * len - 1
         /\ \A i \in 1..(len - 1) : Bits!UEBits(v)[i] = 0
         /\ \A i \in 1..len : Bits!UEBits(v)[len - 1 + i] = ((v + 1) \div 2^(len - i)) % 2
  <1> DEFINE prefix == [i \in 1..(len - 1) |-> 0]
             bits == Bits!BitString(len, v + 1)
  <1>1. len \in 1..31 /\ len \in 0..32 /\ v + 1 \in Nat
    <2>1. v + 1 \in Coded32
      BY CodeNums
    <2>2. len \in 1..31
      BY <2>1, BinaryLength
    <2> QED
      BY <2>1, <2>2, CodeNums
  <1>2. prefix \in Seq({0, 1}) /\ Len(prefix) = len - 1 /\ \A i \in 1..(len - 1) : prefix[i] = 0
    <2>1. len - 1 \in Nat /\ prefix \in [1..(len - 1) -> {0, 1}]
      BY <1>1
    <2>2. prefix \in Seq({0, 1}) /\ Len(prefix) = len - 1
      <3> HIDE DEF prefix
      <3> QED
        BY <2>1
    <2> QED
      BY <2>2
  <1>3. /\ bits \in Seq({0, 1}) /\ Len(bits) = len
        /\ \A i \in 1..len : bits[i] = ((v + 1) \div 2^(len - i)) % 2
    BY <1>1, BitsOfNumber
  <1>4. Bits!UEBits(v) = prefix \o bits
    BY Zenon DEF Bits!UEBits
  <1> HIDE DEF prefix, bits
  <1>5. /\ prefix \o bits \in Seq({0, 1}) /\ Len(prefix \o bits) = Len(prefix) + Len(bits)
        /\ \A i \in 1..(Len(prefix) + Len(bits)) :
             (prefix \o bits)[i] = IF i <= Len(prefix) THEN prefix[i] ELSE bits[i - Len(prefix)]
    BY <1>2, <1>3, ConcatProperties
  <1>6. \A i \in 1..(len - 1) : (prefix \o bits)[i] = 0
    BY <1>1, <1>2, <1>3, <1>5
  <1>7. \A i \in 1..len : (prefix \o bits)[len - 1 + i] = bits[i]
    <2> SUFFICES ASSUME NEW i \in 1..len PROVE (prefix \o bits)[len - 1 + i] = bits[i]
      OBVIOUS
    <2> DEFINE j == len - 1 + i
    <2>1. j \in 1..(Len(prefix) + Len(bits)) /\ ~(j <= Len(prefix)) /\ j - Len(prefix) = i
      <3>1. /\ Len(prefix) = len - 1 /\ Len(bits) = len /\ len \in Int /\ i \in Int /\ 1 <= i
            /\ i <= len /\ 1 <= len
        BY <1>1, <1>2, <1>3
      <3> QED
        BY ONLY <3>1
    <2> HIDE DEF j
    <2>2. (prefix \o bits)[j] = bits[i]
      BY <1>5, <2>1
    <2> QED
      BY <2>2 DEF j
  <1>8. Len(prefix \o bits) = 2 * len - 1
    BY <1>1, <1>2, <1>3, <1>5
  <1>9. \A i \in 1..len : (prefix \o bits)[len - 1 + i] = ((v + 1) \div 2^(len - i)) % 2
    BY <1>3, <1>7
  <1> QED
    BY <1>1, <1>4, <1>5, <1>6, <1>8, <1>9, Zenon

\* Where it is held a reader finds v and the bit behind it.
LEMMA UERead ==
  ASSUME NEW v \in CodeNum, NEW bytes, NEW i, HoldsAt(bytes, i, Bits!UEBits(v))
  PROVE  Bits!ReadUE(bytes, i) = <<v, i + Len(Bits!UEBits(v))>>
  <1> DEFINE len == Bits!GetBinaryLength(v + 1)
             bits == Bits!UEBits(v)
             Leads(k) == Bits!BitAt(bytes, i + k) = 1 /\ \A j \in 0..(k - 1) : Bits!BitAt(bytes, i + j) = 0
             zeros == CHOOSE k \in 0..(8 * Len(bytes) - i) : Leads(k)
  <1>1. /\ len \in 1..31
        /\ bits \in Seq({0, 1}) /\ Len(bits) = 2 * len - 1
        /\ \A j \in 1..(len - 1) : bits[j] = 0
        /\ \A j \in 1..len : bits[len - 1 + j] = ((v + 1) \div 2^(len - j)) % 2
    BY UECode
  <1>2. /\ bytes \in Seq(0..255) /\ i \in Nat \ {0} /\ i + Len(bits) - 1 <= 8 * Len(bytes)
        /\ \A k \in 1..Len(bits) : Bits!BitAt(bytes, i + k - 1) = bits[k]
    BY Zenon DEF HoldsAt
  <1>3. v + 1 \in Coded32
    BY CodeNums
  <1>4. ((v + 1) \div 2^(len - 1)) % 2 = 1 /\ (v + 1) % 2^len = v + 1
    BY <1>3, LeadingOne
  <1> HIDE DEF len, bits
  <1>5. \A j \in 0..(len - 2) : Bits!BitAt(bytes, i + j) = 0
    <2> SUFFICES ASSUME NEW j \in 0..(len - 2) PROVE Bits!BitAt(bytes, i + j) = 0
      OBVIOUS
    <2>1. j + 1 \in 1..(len - 1) /\ j + 1 \in 1..Len(bits) /\ i + (j + 1) - 1 = i + j
      BY <1>1, <1>2
    <2>2. Bits!BitAt(bytes, i + (j + 1) - 1) = bits[j + 1]
      BY <1>2, <2>1
    <2> QED
      BY <1>1, <2>1, <2>2
  <1>6. \A j \in 1..len : Bits!BitAt(bytes, (i + (len - 1)) + j - 1) = ((v + 1) \div 2^(len - j)) % 2
    <2> SUFFICES ASSUME NEW j \in 1..len
                 PROVE  Bits!BitAt(bytes, (i + (len - 1)) + j - 1) = ((v + 1) \div 2^(len - j)) % 2
      OBVIOUS
    <2>1. len - 1 + j \in 1..Len(bits) /\ i + (len - 1 + j) - 1 = (i + (len - 1)) + j - 1
      BY <1>1, <1>2
    <2>2. Bits!BitAt(bytes, i + (len - 1 + j) - 1) = bits[len - 1 + j]
      BY <1>2, <2>1
    <2> QED
      BY <1>1, <2>1, <2>2
  <1>7. Leads(len - 1)
    <2>1. 1 \in 1..len /\ (i + (len - 1)) + 1 - 1 = i + (len - 1) /\ (len - 1) - 1 = len - 2
      BY <1>1, <1>2
    <2>2. Bits!BitAt(bytes, (i + (len - 1)) + 1 - 1) = ((v + 1) \div 2^(len - 1)) % 2
      BY <1>6, <2>1
    <2> QED
      BY <1>4, <1>5, <2>1, <2>2
  <1>8. zeros = len - 1
    <2>1. len - 1 \in 0..(8 * Len(bytes) - i)
      BY <1>1, <1>2
    <2>2. zeros \in 0..(8 * Len(bytes) - i) /\ Leads(zeros)
      <3> HIDE DEF Leads
      <3> QED
        BY <1>7, <2>1, Zenon
    <2> HIDE DEF zeros
    <2>3. ~(zeros < len - 1)
      <3> SUFFICES ASSUME zeros < len - 1 PROVE FALSE
        OBVIOUS
      <3>1. zeros \in 0..(len - 2)
        BY <1>1, <2>2
      <3> QED
        BY <1>5, <2>2, <3>1
    <2>4. ~(len - 1 < zeros)
      <3> SUFFICES ASSUME len - 1 < zeros PROVE FALSE
        OBVIOUS
      <3>1. len - 1 \in 0..(zeros - 1)
        BY <1>1, <2>2
      <3> QED
        BY <1>7, <2>2, <3>1
    <2> QED
      BY <1>1, <2>2, <2>3, <2>4
  <1>9. Bits!Number(bytes, i + (len - 1), len) = v + 1
    <2>1. len \in 0..32 /\ v + 1 \in Nat /\ i + (len - 1) \in Nat
      BY <1>1, <1>2, <1>3, CodeNums
    <2>2. Bits!Number(bytes, i + (len - 1), len) = (v + 1) % 2^len
      BY <1>6, <2>1, NumberRead
    <2> QED
      BY <1>4, <2>2
  <1>10. Bits!ReadUE(bytes, i) = <<Bits!Number(bytes, i + zeros, zeros + 1) - 1, i + 2 * zeros + 1>>
    BY Zenon DEF Bits!ReadUE
  <1> HIDE DEF zeros
  <1>11. zeros + 1 = len /\ (v + 1) - 1 = v /\ i + 2 * zeros + 1 = i + Len(bits)
    BY <1>1, <1>2, <1>8, CodeNums
  <1>12. Bits!ReadUE(bytes, i) = <<v, i + Len(bits)>>
    BY <1>8, <1>9, <1>10, <1>11
  <1> QED
    BY <1>12 DEF bits

\* A reader turns the codeNum of se(v) back into v.
LEMMA SignRead ==
  ASSUME NEW v \in Int, Bits!SECodeNum(v) \in Nat
  PROVE  IF Bits!SECodeNum(v) % 2 = 1
         THEN (Bits!SECodeNum(v) + 1) \div 2 = v
         ELSE -(Bits!SECodeNum(v) \div 2) = v
  <1>1. CASE v <= 0
    <2>1. Bits!SECodeNum(v) = -2 * v
      BY <1>1 DEF Bits!SECodeNum
    <2>2. (-2 * v) % 2 = 0 /\ (-2 * v) \div 2 = -v
      BY <1>1
    <2> QED
      BY <2>1, <2>2
  <1>2. CASE ~(v <= 0)
    <2>1. Bits!SECodeNum(v) = 2 * v - 1
      BY <1>2 DEF Bits!SECodeNum
    <2>2. (2 * v - 1) % 2 = 1 /\ ((2 * v - 1) + 1) \div 2 = v
      BY <1>2
    <2> QED
      BY <2>1, <2>2
  <1> QED
    BY <1>1, <1>2

\* The bits an element is written as, and the value a reader should find.
Code(e) ==
  CASE e.kind = "u"  -> Bits!BitString(e.n, e.value)
    [] e.kind = "ue" -> Bits!UEBits(e.value)
    [] e.kind = "se" -> Bits!SEBits(e.value)

Kept(e) == IF e.kind = "u" THEN e.value % 2^e.n ELSE e.value

LEMMA CodeIsBits ==
  ASSUME NEW e \in Element
  PROVE  Code(e) \in Seq({0, 1})
  <1>1. CASE e.kind = "u"
    <2>1. e.n \in 0..32 /\ e.value \in Nat
      BY <1>1 DEF Element
    <2> QED
      BY <1>1, <2>1, BitsOfNumber DEF Code
  <1>2. CASE e.kind = "ue"
    <2>1. e.value \in CodeNum
      BY <1>2 DEF Element
    <2> QED
      BY <1>2, <2>1, UECode DEF Code
  <1>3. CASE e.kind = "se"
    <2>1. Bits!SECodeNum(e.value) \in CodeNum
      BY <1>3 DEF Element
    <2> QED
      BY <1>3, <2>1, UECode DEF Code, Bits!SEBits
  <1> QED
    BY <1>1, <1>2, <1>3 DEF Element

\* Where an element's code is held a reader finds its value and what follows it.
LEMMA ElementRead ==
  ASSUME NEW e \in Element, NEW bytes, NEW i, HoldsAt(bytes, i, Code(e))
  PROVE  Bits!Read(bytes, e.kind, e.n, i) = <<Kept(e), i + Len(Code(e))>>
  <1>1. CASE e.kind = "u"
    <2> DEFINE n == e.n
               v == e.value
               bits == Bits!BitString(n, v)
    <2>1. n \in 0..32 /\ v \in Nat
      BY <1>1 DEF Element
    <2>2. bits \in Seq({0, 1}) /\ Len(bits) = n /\ \A k \in 1..n : bits[k] = (v \div 2^(n - k)) % 2
      BY <2>1, BitsOfNumber
    <2>3. Code(e) = bits /\ Kept(e) = v % 2^n
      BY <1>1 DEF Code, Kept
    <2>4. HoldsAt(bytes, i, bits)
      BY <2>3
    <2>5. Bits!Read(bytes, "u", n, i) = <<Bits!Number(bytes, i, n), i + n>>
      BY Zenon DEF Bits!Read
    <2> HIDE DEF n, v, bits
    <2>6. i \in Nat /\ \A k \in 1..n : Bits!BitAt(bytes, i + k - 1) = (v \div 2^(n - k)) % 2
      BY <2>2, <2>4 DEF HoldsAt
    <2>7. Bits!Number(bytes, i, n) = v % 2^n
      BY <2>1, <2>6, NumberRead
    <2>8. Bits!Read(bytes, "u", n, i) = <<Kept(e), i + Len(Code(e))>>
      BY <2>2, <2>3, <2>5, <2>7
    <2> QED
      BY <1>1, <2>8 DEF n
  <1>2. CASE e.kind = "ue"
    <2>1. e.value \in CodeNum
      BY <1>2 DEF Element
    <2>2. Code(e) = Bits!UEBits(e.value) /\ Kept(e) = e.value
      BY <1>2 DEF Code, Kept
    <2>3. Bits!ReadUE(bytes, i) = <<Kept(e), i + Len(Code(e))>>
      BY <2>1, <2>2, UERead
    <2> QED
      BY <1>2, <2>3 DEF Bits!Read
  <1>3. CASE e.kind = "se"
    <2> DEFINE v == e.value
               code == Bits!SECodeNum(v)
               r == Bits!ReadUE(bytes, i)
               s == IF code % 2 = 1 THEN (code + 1) \div 2 ELSE -(code \div 2)
    <2>1. v \in Int /\ code \in CodeNum /\ code \in Nat
      BY <1>3 DEF Element, CodeNum
    <2>2. Code(e) = Bits!UEBits(code) /\ Kept(e) = v
      BY <1>3 DEF Code, Kept, Bits!SEBits
    <2>3. s = v
      BY <2>1, SignRead
    <2>4. Bits!Read(bytes, "se", e.n, i) = Bits!ReadSE(bytes, i)
      BY DEF Bits!Read
    <2>5. Bits!ReadSE(bytes, i)
            = <<IF r[1] % 2 = 1 THEN (r[1] + 1) \div 2 ELSE -(r[1] \div 2), r[2]>>
      BY Zenon DEF Bits!ReadSE
    <2> HIDE DEF code
    <2>6. r = <<code, i + Len(Code(e))>>
      BY <2>1, <2>2, UERead
    <2>7. r[1] = code /\ r[2] = i + Len(Code(e))
      BY <2>6
    <2>8. Bits!ReadSE(bytes, i) = <<s, i + Len(Code(e))>>
      <3> HIDE DEF r
      <3> QED
        BY <2>5, <2>7
    <2> QED
      BY <1>3, <2>2, <2>3, <2>4, <2>8
  <1> QED
    BY <1>1, <1>2, <1>3 DEF Element

\* What BitWriter notes of an element.
Noted(e) == [kind |-> e.kind, n |-> e.n, value |-> Kept(e)]

\* Element k of a buffer, whose code ends with bit ends[k].
Placed(data, e, first, last) == last = first + Len(Code(e)) /\ HoldsAt(data, first + 1, Code(e))

\* The elements are the ones noted, one code behind the other from bit to bit.
LaidOutAs(data, bits, elements, items, ends) ==
  /\ items \in Seq(Element)
  /\ ends \in [0..Len(items) -> 0..bits]
  /\ ends[0] = 0 /\ ends[Len(items)] = bits
  /\ elements = [k \in 1..Len(items) |-> Noted(items[k])]
  /\ \A k \in 1..Len(items) : Placed(data, items[k], ends[k - 1], ends[k])

LaidOut(data, bits, elements) ==
  bits \in Nat /\ \E items, ends : LaidOutAs(data, bits, elements, items, ends)

\* Bytes that keep the first bits of others.
Continues(next, data, bits) ==
  /\ next \in Seq(0..255)
  /\ bits <= 8 * Len(next)
  /\ \A i \in 1..bits : Bits!BitAt(next, i) = Bits!BitAt(data, i)

LEMMA PlacedStays ==
  ASSUME NEW data, NEW next, NEW bits \in Nat, Continues(next, data, bits), NEW e \in Element,
         NEW first \in 0..bits, NEW last \in 0..bits, Placed(data, e, first, last)
  PROVE  Placed(next, e, first, last)
  <1> DEFINE code == Code(e)
  <1>1. Len(code) \in Nat
    BY CodeIsBits
  <1> HIDE DEF code
  <1>2. /\ last = first + Len(code)
        /\ \A k \in 1..Len(code) : Bits!BitAt(data, (first + 1) + k - 1) = code[k]
    BY DEF Placed, HoldsAt, code
  <1>3. next \in Seq(0..255) /\ Len(next) \in Nat /\ bits <= 8 * Len(next)
    BY DEF Continues
  <1>4. first + 1 \in Nat \ {0} /\ (first + 1) + Len(code) - 1 <= 8 * Len(next)
    BY <1>1, <1>2, <1>3
  <1>5. ASSUME NEW k \in 1..Len(code)
        PROVE  Bits!BitAt(next, (first + 1) + k - 1) = code[k]
    <2> DEFINE i == (first + 1) + k - 1
    <2>1. i \in 1..bits
      BY <1>1, <1>2
    <2> HIDE DEF i
    <2>2. Bits!BitAt(next, i) = Bits!BitAt(data, i)
      BY <2>1 DEF Continues
    <2> QED
      BY <1>2, <2>2 DEF i
  <1> QED
    BY <1>2, <1>3, <1>4, <1>5, Zenon DEF Placed, HoldsAt, code

LEMMA LaidOutStays ==
  ASSUME NEW data, NEW bits, NEW elements, LaidOut(data, bits, elements),
         NEW next, Continues(next, data, bits)
  PROVE  LaidOut(next, bits, elements)
  <1>1. bits \in Nat
    BY DEF LaidOut
  <1>2. PICK items, ends : LaidOutAs(data, bits, elements, items, ends)
    BY DEF LaidOut
  <1>3. \A k \in 1..Len(items) : Placed(next, items[k], ends[k - 1], ends[k])
    <2> SUFFICES ASSUME NEW k \in 1..Len(items) PROVE Placed(next, items[k], ends[k - 1], ends[k])
      OBVIOUS
    <2>1. items[k] \in Element /\ ends[k - 1] \in 0..bits /\ ends[k] \in 0..bits
      <3>1. items \in Seq(Element) /\ ends \in [0..Len(items) -> 0..bits]
        BY <1>2 DEF LaidOutAs
      <3>2. k - 1 \in 0..Len(items) /\ k \in 0..Len(items)
        BY <3>1
      <3> QED
        BY <3>1, <3>2
    <2>2. Placed(data, items[k], ends[k - 1], ends[k])
      BY <1>2 DEF LaidOutAs
    <2> QED
      BY <1>1, <2>1, <2>2, PlacedStays, Zenon
  <1>4. LaidOutAs(next, bits, elements, items, ends)
    BY <1>2, <1>3, Zenon DEF LaidOutAs
  <1> QED
    BY <1>1, <1>4, Zenon DEF LaidOut

\* One more element behind those there.
LEMMA LaidOutOne ==
  ASSUME NEW data, NEW bits, NEW elements, LaidOut(data, bits, elements), NEW e \in Element,
         HoldsAt(data, bits + 1, Code(e))
  PROVE  LaidOut(data, bits + Len(Code(e)), Append(elements, Noted(e)))
  <1>1. bits \in Nat
    BY DEF LaidOut
  <1>2. PICK items, ends : LaidOutAs(data, bits, elements, items, ends)
    BY DEF LaidOut
  <1> DEFINE n == Len(items)
             size == Len(Code(e))
             more == Append(items, e)
             after == [k \in 0..(n + 1) |-> IF k <= n THEN ends[k] ELSE bits + size]
  <1>3. /\ items \in Seq(Element) /\ n \in Nat
        /\ ends \in [0..n -> 0..bits] /\ ends[0] = 0 /\ ends[n] = bits
        /\ elements = [k \in 1..n |-> Noted(items[k])]
        /\ \A k \in 1..n : Placed(data, items[k], ends[k - 1], ends[k])
    BY <1>2 DEF LaidOutAs
  <1>4. size \in Nat
    BY CodeIsBits
  <1>5. /\ more \in Seq(Element) /\ Len(more) = n + 1
        /\ \A k \in 1..n : more[k] = items[k]
        /\ more[n + 1] = e
    BY <1>3, AppendProperties
  <1> HIDE DEF size, n, more
  <1>6. /\ after \in [0..(n + 1) -> 0..(bits + size)]
        /\ after[0] = 0 /\ after[n + 1] = bits + size
        /\ \A k \in 0..n : after[k] = ends[k]
    <2>1. ASSUME NEW k \in 0..(n + 1)
          PROVE  (IF k <= n THEN ends[k] ELSE bits + size) \in 0..(bits + size)
      <3>1. CASE k <= n
        <4>1. ends[k] \in 0..bits
          BY <1>3, <3>1
        <4> QED
          BY <1>1, <1>4, <3>1, <4>1
      <3>2. CASE ~(k <= n)
        BY <1>1, <1>4, <3>2
      <3> QED
        BY <3>1, <3>2
    <2> QED
      BY <1>3, <2>1
  <1> HIDE DEF after
  <1>7. \A k \in 1..(n + 1) : Placed(data, more[k], after[k - 1], after[k])
    <2> SUFFICES ASSUME NEW k \in 1..(n + 1) PROVE Placed(data, more[k], after[k - 1], after[k])
      OBVIOUS
    <2>1. CASE k <= n
      <3>1. k \in 1..n /\ after[k - 1] = ends[k - 1] /\ after[k] = ends[k] /\ more[k] = items[k]
        BY <1>3, <1>5, <1>6, <2>1
      <3> QED
        BY <1>3, <3>1
    <2>2. CASE ~(k <= n)
      <3>1. k = n + 1 /\ k - 1 = n
        BY <1>3, <2>2
      <3>2. after[k - 1] = bits /\ after[k] = bits + size /\ more[k] = e
        BY <1>3, <1>5, <1>6, <3>1
      <3>3. Placed(data, e, bits, bits + size)
        BY Zenon DEF Placed, size
      <3> QED
        BY <3>2, <3>3
    <2> QED
      BY <2>1, <2>2
  <1>8. Append(elements, Noted(e)) = [k \in 1..(n + 1) |-> Noted(more[k])]
    <2> DEFINE was == [k \in 1..n |-> Noted(items[k])]
               is == [k \in 1..(n + 1) |-> Noted(more[k])]
               Notes == {Noted(x) : x \in Element}
    <2>1. \A x \in Element : Noted(x) \in Notes
      OBVIOUS
    <2>2. was \in [1..n -> Notes] /\ is \in [1..(n + 1) -> Notes]
      <3> HIDE DEF Notes
      <3> QED
        BY <1>3, <1>5, <2>1
    <2>3. /\ was \in Seq(Notes) /\ Len(was) = n /\ is \in Seq(Notes) /\ Len(is) = n + 1
          /\ Noted(e) \in Notes
      <3> HIDE DEF was, is, Notes
      <3> QED
        BY <1>3, <2>1, <2>2
    <2>4. (\A k \in 1..n : is[k] = was[k]) /\ is[n + 1] = Noted(e)
      BY <1>3, <1>5
    <2> DEFINE app == Append(was, Noted(e))
    <2> HIDE DEF was, is, Notes
    <2>5. /\ app \in Seq(Notes) /\ Len(app) = n + 1
          /\ (\A k \in 1..n : app[k] = was[k]) /\ app[n + 1] = Noted(e)
      BY <2>3, AppendProperties
    <2> HIDE DEF app
    <2>6. \A k \in 1..(n + 1) : app[k] = is[k]
      BY <1>3, <2>4, <2>5
    <2>7. app = is
      BY <2>3, <2>5, <2>6, SeqEqual
    <2>8. elements = was
      BY <1>3 DEF was
    <2> QED
      BY <2>7, <2>8 DEF app, is
  <1>9. LaidOutAs(data, bits + size, Append(elements, Noted(e)), more, after)
    BY <1>5, <1>6, <1>7, <1>8, Zenon DEF LaidOutAs
  <1>10. bits + size \in Nat
    BY <1>1, <1>4
  <1> QED
    BY <1>9, <1>10, Zenon DEF LaidOut, size

\* The equation of Replay.
Replays(replayed, bytes, elements) ==
  replayed = [k \in 0..Len(elements) |->
                IF k = 0 THEN <<TRUE, 1>> ELSE Bits!Compare(bytes, replayed[k - 1], elements[k])]

\* A receiver that replays the elements finds each and the first bit behind them.
LEMMA Replayed ==
  ASSUME NEW data, NEW bits, NEW elements, LaidOut(data, bits, elements)
  PROVE  Bits!Replay(data, elements) = <<TRUE, bits + 1>>
  <1>1. PICK items, ends : LaidOutAs(data, bits, elements, items, ends)
    BY DEF LaidOut
  <1> DEFINE n == Len(items)
             given == [k \in 0..n |-> <<TRUE, ends[k] + 1>>]
             g == CHOOSE replayed : Replays(replayed, data, elements)
  <1>2. /\ items \in Seq(Element) /\ n \in Nat /\ bits \in Nat
        /\ ends \in [0..n -> 0..bits] /\ ends[0] = 0 /\ ends[n] = bits
        /\ elements = [k \in 1..n |-> Noted(items[k])]
        /\ \A k \in 1..n : Placed(data, items[k], ends[k - 1], ends[k])
    BY <1>1 DEF LaidOutAs, LaidOut
  <1>3. Len(elements) = n /\ \A k \in 1..n : elements[k] = Noted(items[k])
    BY <1>2
  <1>4. ASSUME NEW k \in 1..n
        PROVE  Bits!Compare(data, given[k - 1], elements[k]) = given[k]
    <2> DEFINE e == items[k]
               first == ends[k - 1]
               last == ends[k]
    <2>1. e \in Element /\ first \in Nat /\ last \in Nat
      <3>1. k - 1 \in 0..n /\ k \in 0..n
        BY <1>2
      <3>2. e \in Element
        BY <1>2, ElementOfSeq, Zenon
      <3>3. first \in 0..bits /\ last \in 0..bits
        BY <1>2, <3>1, Zenon
      <3> QED
        BY <1>2, <3>2, <3>3
    <2>2. given[k - 1] = <<TRUE, first + 1>> /\ given[k] = <<TRUE, last + 1>>
      <3>1. k - 1 \in 0..n /\ k \in 0..n
        BY <1>2
      <3> HIDE DEF n
      <3> QED
        BY <3>1
    <2>3. elements[k] = Noted(e) /\ Placed(data, e, first, last)
      BY <1>2, <1>3
    <2> HIDE DEF e, first, last, given
    <2>4. Len(Code(e)) \in Nat
      BY <2>1, CodeIsBits
    <2>5. Bits!Read(data, e.kind, e.n, first + 1) = <<Kept(e), (first + 1) + Len(Code(e))>>
      BY <2>1, <2>3, ElementRead, Zenon DEF Placed
    <2>6. (first + 1) + Len(Code(e)) = last + 1
      BY <2>1, <2>3, <2>4 DEF Placed
    <2> DEFINE r == Bits!Read(data, e.kind, e.n, first + 1)
               acc == <<TRUE, first + 1>>
               note == Noted(e)
    <2>7. note.kind = e.kind /\ note.n = e.n /\ note.value = Kept(e)
      BY DEF Noted
    <2>8. acc[1] = TRUE /\ acc[2] = first + 1
      OBVIOUS
    <2>9. r[1] = Kept(e) /\ r[2] = last + 1
      BY <2>5, <2>6
    <2>10. Bits!Compare(data, acc, note)
             = LET q == Bits!Read(data, note.kind, note.n, acc[2])
               IN  <<acc[1] /\ q[1] = note.value, q[2]>>
      BY Zenon DEF Bits!Compare
    <2> HIDE DEF note, acc
    <2>11. Bits!Compare(data, acc, note) = <<TRUE /\ Kept(e) = Kept(e), last + 1>>
      BY <2>7, <2>8, <2>9, <2>10, Zenon
    <2>12. (TRUE /\ Kept(e) = Kept(e)) = TRUE
      OBVIOUS
    <2> QED
      BY <2>2, <2>3, <2>11, <2>12, Zenon DEF note, acc
  <1>5. given[0] = <<TRUE, 1>> /\ given[n] = <<TRUE, bits + 1>>
    <2>1. 0 \in 0..n /\ n \in 0..n /\ 0 + 1 = 1
      BY <1>2
    <2> HIDE DEF n
    <2> QED
      BY <1>2, <2>1
  <1>6. Replays(given, data, elements)
    <2>1. given = [k \in 0..n |-> given[k]]
      OBVIOUS
    <2> HIDE DEF given, n
    <2>2. \A k \in 0..n : given[k] = IF k = 0 THEN <<TRUE, 1>> ELSE Bits!Compare(data, given[k - 1], elements[k])
      <3> SUFFICES ASSUME NEW k \in 0..n, k # 0 PROVE given[k] = Bits!Compare(data, given[k - 1], elements[k])
        BY <1>5
      <3>1. k \in 1..n
        BY <1>2
      <3> QED
        BY <1>4, <3>1
    <2> QED
      BY <1>3, <2>1, <2>2, Zenon DEF Replays
  <1>7. Replays(g, data, elements)
    <2> HIDE DEF given
    <2> QED
      BY <1>6, Zenon
  <1>8. g[0] = <<TRUE, 1>> /\ \A k \in 1..n : g[k] = Bits!Compare(data, g[k - 1], elements[k])
    <2> HIDE DEF g, n
    <2>1. g = [k \in 0..n |-> IF k = 0 THEN <<TRUE, 1>> ELSE Bits!Compare(data, g[k - 1], elements[k])]
      BY <1>3, <1>7, Zenon DEF Replays
    <2>2. 0 \in 0..n /\ \A k \in 1..n : k \in 0..n /\ k # 0
      BY <1>2
    <2> QED
      BY <2>1, <2>2, Zenon
  <1> DEFINE S == {k \in Nat : k <= n => g[k] = given[k]}
  <1>9. n \in S
    <2> HIDE DEF g, given, n
    <2>1. 0 \in S
      BY <1>5, <1>8
    <2>2. ASSUME NEW k \in Nat, k \in S
          PROVE  k + 1 \in S
      <3> SUFFICES ASSUME k + 1 <= n PROVE g[k + 1] = given[k + 1]
        OBVIOUS
      <3>1. k + 1 \in 1..n /\ (k + 1) - 1 = k /\ k <= n
        BY <1>2
      <3>2. g[k] = given[k]
        BY <2>2, <3>1
      <3> QED
        BY <1>4, <1>8, <3>1, <3>2
    <2> HIDE DEF S
    <2> QED
      BY <1>2, <2>1, <2>2, Induction
  <1>10. Bits!Replay(data, elements) = g[Len(elements)]
    BY Zenon DEF Bits!Replay, Replays
  <1> QED
    <2>1. g[n] = given[n]
      <3> HIDE DEF g, given
      <3> QED
        BY <1>9
    <2> HIDE DEF g, given, n
    <2> QED
      BY <1>3, <1>5, <1>10, <2>1

-----------------------------------------------------------------------------
(* What the parameter sets and the headers write are syntax elements.      *)

LEMMA SyntaxElements ==
  /\ \A n \in 1..32, v \in Nat : U(n, v) \in Element
  /\ \A v \in CodeNum : UE(v) \in Element
  /\ \A v \in -26..25 : SE(v) \in Element
  /\ \A n \in 0..100 : n \in CodeNum
  <1>1. \A n \in 1..32, v \in Nat : U(n, v) \in Element
    BY DEF U, Element
  <1>2. \A v \in CodeNum : UE(v) \in Element
    BY DEF UE, Element
  <1>3. \A n \in 0..100 : n \in CodeNum
    BY SMT DEF CodeNum
  <1>4. ASSUME NEW v \in -26..25
        PROVE  SE(v) \in Element
    <2>1. Bits!SECodeNum(v) \in 0..100
      BY DEF Bits!SECodeNum
    <2>2. Bits!SECodeNum(v) \in CodeNum /\ v \in Int
      BY <1>3, <2>1
    <2> QED
      BY <2>2 DEF SE, Element
  <1> QED
    BY <1>1, <1>2, <1>3, <1>4

LEMMA FlagElements ==
  ASSUME NEW values \in Seq({0, 1})
  PROVE  Flags(values) \in Seq(Element)
  <1> DEFINE n == Len(values)
  <1>1. n \in Nat /\ DOMAIN values = 1..n
    OBVIOUS
  <1>2. \A i \in 1..n : U(1, values[i]) \in Element
    <2> SUFFICES ASSUME NEW i \in 1..n PROVE U(1, values[i]) \in Element
      OBVIOUS
    <2>1. values[i] \in Nat /\ 1 \in 1..32
      OBVIOUS
    <2> QED
      BY <2>1, SyntaxElements
  <1>3. Flags(values) \in [1..n -> Element]
    BY <1>1, <1>2 DEF Flags
  <1> QED
    BY <1>1, <1>3

LEMMA FieldWidth ==
  ASSUME NEW value \in Coded32
  PROVE  FieldBits(value) \in 4..32
  <1>1. value \in Nat /\ value < 2^31
    BY CodeNums
  <1>2. CeilLog2(value) \in 0..32
    <2>1. CASE value <= 1
      BY <2>1 DEF CeilLog2
    <2>2. CASE ~(value <= 1)
      <3> DEFINE T == {n \in 0..31 : value <= 2^n}
                 Fits(n) == 2^(n - 1) < value /\ value <= 2^n
                 width == CHOOSE n \in 1..32 : Fits(n)
      <3>1. PICK n \in T : \A m \in T : n <= m
        <4>1. 31 \in T
          <5> DEFINE p == 2^31
          <5>1. p \in Nat /\ value < p
            <6>1. 31 \in 0..32
              OBVIOUS
            <6> QED
              BY <1>1, <6>1, PowerDoubles, Zenon
          <5> HIDE DEF p
          <5>2. value <= p
            BY <1>1, <5>1
          <5> QED
            BY <5>2 DEF p
        <4>2. T \subseteq Nat
          OBVIOUS
        <4> HIDE DEF T
        <4> QED
          BY <4>1, <4>2, Least
      <3>2. n \in 1..32 /\ Fits(n)
        <4>1. n \in 0..31 /\ value <= 2^n
          OBVIOUS
        <4>2. n # 0
          <5> SUFFICES ASSUME n = 0 PROVE FALSE
            OBVIOUS
          <5>1. value <= 2^0
            BY <4>1, Zenon
          <5>2. 2^0 = 1
            BY SMT
          <5> QED
            BY <1>1, <2>2, <5>1, <5>2
        <4>3. n - 1 \in 0..31 /\ n - 1 \notin T
          BY <3>1, <4>1, <4>2
        <4>4. 2^(n - 1) \in Nat \ {0}
          <5>1. n - 1 \in 0..32
            BY <4>3
          <5> QED
            BY <5>1, PowerDoubles
        <4>5. ~(value <= 2^(n - 1))
          BY <4>3
        <4> QED
          BY <1>1, <4>1, <4>2, <4>4, <4>5
      <3>3. width \in 1..32
        <4> HIDE DEF Fits
        <4> QED
          BY <3>2, Zenon
      <3>4. CeilLog2(value) = width
        BY <2>2, Zenon DEF CeilLog2
      <3> HIDE DEF width
      <3> QED
        BY <3>3, <3>4
    <2> QED
      BY <2>1, <2>2
  <1> QED
    BY <1>2 DEF FieldBits

\* The parameter set of a configuration.
LEMMA SPSValues ==
  ASSUME NEW c \in Configs, NEW s, s = ConstructSPS(c)
  PROVE  /\ s.profile_idc \in Nat /\ s.level_idc \in Nat
         /\ s.max_num_ref_frames \in CodeNum /\ s.max_num_ref_frames - 1 \in CodeNum
         /\ s.pic_width_in_mbs_minus1 \in CodeNum /\ s.pic_height_in_map_units_minus1 \in CodeNum
         /\ s.log2_max_frame_num \in 4..32 /\ s.log2_max_pic_order_cnt_lsb \in 4..32
  <1>1. /\ c.width \in CodeNum /\ c.width >= 16 /\ c.height \in CodeNum /\ c.height >= 16
        /\ c.frames_to_encode \in Nat /\ 2 * c.frames_to_encode \in CodeNum
        /\ c.ref_frame_num \in CodeNum \ {0}
        /\ c.profile_idc \in 0..255 /\ c.level_idc \in 0..255
    BY ConfigsAssumption
  <1>2. s = [profile_idc |-> c.profile_idc, level_idc |-> c.level_idc,
             max_num_ref_frames |-> c.ref_frame_num,
             pic_width_in_mbs_minus1 |-> (c.width \div 16) - 1,
             pic_height_in_map_units_minus1 |-> (c.height \div 16) - 1,
             log2_max_frame_num |-> FieldBits(1 + c.frames_to_encode),
             log2_max_pic_order_cnt_lsb |-> FieldBits(1 + 2 * c.frames_to_encode)]
    BY Zenon DEF ConstructSPS
  <1>3. \A v \in CodeNum : v >= 16 => (v \div 16) - 1 \in CodeNum
    BY SMT DEF CodeNum
  <1>4. \A v \in CodeNum \ {0} : v - 1 \in CodeNum
    BY SMT DEF CodeNum
  <1>5. \A f \in Nat : 2 * f \in CodeNum => 1 + f \in Coded32 /\ 1 + 2 * f \in Coded32
    BY SMT DEF CodeNum, Coded32
  <1>6. /\ FieldBits(1 + c.frames_to_encode) \in 4..32
        /\ FieldBits(1 + 2 * c.frames_to_encode) \in 4..32
    BY <1>1, <1>5, FieldWidth
  <1> QED
    BY <1>1, <1>2, <1>3, <1>4, <1>6

LEMMA Joined ==
  ASSUME NEW s \in Seq(Element), NEW t \in Seq(Element)
  PROVE  s \o t \in Seq(Element)
  BY ConcatProperties

LEMMA StructureElements ==
  ASSUME config \in Configs, tick \in Ticks, NEW k \in 1..(2 + Len(Payloads))
  PROVE  Elements(k) \in Seq(Element)
  <1>0. Len(Payloads) \in Nat /\ tick \in Nat /\ tick + Len(Payloads) \in CodeNum
    BY PayloadsAssumption
  <1>1. /\ sps.profile_idc \in Nat /\ sps.level_idc \in Nat
        /\ sps.max_num_ref_frames \in CodeNum /\ sps.max_num_ref_frames - 1 \in CodeNum
        /\ sps.pic_width_in_mbs_minus1 \in CodeNum /\ sps.pic_height_in_map_units_minus1 \in CodeNum
        /\ sps.log2_max_frame_num \in 4..32 /\ sps.log2_max_pic_order_cnt_lsb \in 4..32
    BY SPSValues DEF sps
  <1>2. /\ \A v \in CodeNum : UE(v) \in Element
        /\ \A n \in 1..32, v \in Nat : U(n, v) \in Element
        /\ UE(0) \in Element /\ SE(0) \in Element
        /\ U(1, 0) \in Element /\ U(1, 1) \in Element /\ U(2, 0) \in Element
    BY SyntaxElements
  <1>3. CASE k = 1
    <2>1. /\ U(8, sps.profile_idc) \in Element /\ U(8, sps.level_idc) \in Element
          /\ UE(sps.log2_max_frame_num - 4) \in Element
          /\ UE(sps.log2_max_pic_order_cnt_lsb - 4) \in Element
          /\ UE(sps.max_num_ref_frames) \in Element
          /\ UE(sps.pic_width_in_mbs_minus1) \in Element
          /\ UE(sps.pic_height_in_map_units_minus1) \in Element
      <3>1. sps.log2_max_frame_num - 4 \in CodeNum /\ sps.log2_max_pic_order_cnt_lsb - 4 \in CodeNum
        <4>1. sps.log2_max_frame_num - 4 \in 0..100 /\ sps.log2_max_pic_order_cnt_lsb - 4 \in 0..100
          BY <1>1
        <4> QED
          BY <4>1, SyntaxElements, Zenon
      <3>2. 8 \in 1..32
        OBVIOUS
      <3> QED
        BY <1>1, <1>2, <3>1, <3>2, Zenon
    <2> DEFINE a == <<U(8, sps.profile_idc)>>
               b == Flags(<<0, 0, 0, 0, 0, 0>>)
               c == <<U(2, 0), U(8, sps.level_idc), UE(0),
                      UE(sps.log2_max_frame_num - 4), UE(0), UE(sps.log2_max_pic_order_cnt_lsb - 4),
                      UE(sps.max_num_ref_frames), U(1, 0),
                      UE(sps.pic_width_in_mbs_minus1), UE(sps.pic_height_in_map_units_minus1)>>
               d == Flags(<<1, 1, 0, 0>>)
    <2>2. a \in Seq(Element) /\ c \in Seq(Element)
      BY <1>2, <2>1
    <2>3. b \in Seq(Element) /\ d \in Seq(Element)
      <3>1. <<0, 0, 0, 0, 0, 0>> \in Seq({0, 1}) /\ <<1, 1, 0, 0>> \in Seq({0, 1})
        OBVIOUS
      <3> QED
        BY <3>1, FlagElements
    <2>4. Elements(k) = a \o b \o c \o d
      <3>1. Elements(k) = SPSElements(sps)
        BY <1>3 DEF Elements
      <3> QED
        BY <3>1, Zenon DEF SPSElements
    <2> HIDE DEF a, b, c, d
    <2>5. a \o b \o c \o d \in Seq(Element)
      BY <2>2, <2>3, Joined
    <2> QED
      BY <2>4, <2>5
  <1>4. CASE k = 2
    <2> DEFINE a == <<UE(0), UE(0)>>
               b == Flags(<<0, 0>>)
               c == <<UE(0), UE(sps.max_num_ref_frames - 1), UE(sps.max_num_ref_frames - 1),
                      U(1, 0), U(2, 0), SE(0), SE(0), SE(0)>>
               d == Flags(<<1, 0, 0>>)
    <2>1. UE(sps.max_num_ref_frames - 1) \in Element
      BY <1>1, <1>2
    <2>2. a \in Seq(Element) /\ c \in Seq(Element)
      BY <1>2, <2>1
    <2>3. b \in Seq(Element) /\ d \in Seq(Element)
      <3>1. <<0, 0>> \in Seq({0, 1}) /\ <<1, 0, 0>> \in Seq({0, 1})
        OBVIOUS
      <3> QED
        BY <3>1, FlagElements
    <2>4. Elements(k) = a \o b \o c \o d
      <3>1. Elements(k) = PPSElements(sps)
        BY <1>4 DEF Elements
      <3> QED
        BY <3>1, Zenon DEF PPSElements
    <2> HIDE DEF a, b, c, d
    <2>5. a \o b \o c \o d \in Seq(Element)
      BY <2>2, <2>3, Joined
    <2> QED
      BY <2>4, <2>5
  <1>5. CASE k > 2
    <2> DEFINE now == SliceTick(k)
               type == SliceType(k)
               h == ConstructHeader(sps, now, type, config.qp, RefFrameNum(k))
    <2>1. now \in Nat /\ (now # 0 => now - 1 \in CodeNum)
      <3>1. now \in Nat /\ now <= tick + Len(Payloads)
        BY <1>0, <1>5 DEF SliceTick
      <3>2. \A v \in CodeNum, u \in Nat : u <= v /\ u # 0 => u - 1 \in CodeNum
        BY SMT DEF CodeNum
      <3> HIDE DEF now
      <3> QED
        BY <1>0, <3>1, <3>2
    <2>2. h = [idr_pic_flag |-> now = 0 /\ type = "I",
               slice_type |-> SliceTypeValue(type),
               frame_num |-> now,
               pic_order_cnt_lsb |-> (2 * now) % 2^sps.log2_max_pic_order_cnt_lsb,
               slice_qp_delta |-> config.qp - 26,
               active_list0_ref_num |-> now]
      BY Zenon DEF ConstructHeader, RefFrameNum
    <2>3. (type = "P" => now # 0) /\ type \in {"I", "P"}
      BY DEF SliceType
    <2>4. (2 * now) % 2^sps.log2_max_pic_order_cnt_lsb \in Nat
      <3> DEFINE p == 2^sps.log2_max_pic_order_cnt_lsb
                 v == 2 * now
      <3>1. p \in Nat \ {0}
        <4>1. sps.log2_max_pic_order_cnt_lsb \in 0..32
          BY <1>1
        <4> QED
          BY <4>1, PowerDoubles
      <3>2. v \in Nat
        BY <2>1
      <3> HIDE DEF p, v
      <3>3. v % p \in Nat
        BY <3>1, <3>2
      <3> QED
        BY <3>3 DEF p, v
    <2>5. config.qp - 26 \in -26..25
      BY ConfigsAssumption
    <2> HIDE DEF now, type, h
    <2>6. /\ h.slice_type \in {5, 7} /\ (h.slice_type = 5 => h.active_list0_ref_num - 1 \in CodeNum)
          /\ h.frame_num \in Nat /\ h.pic_order_cnt_lsb \in Nat /\ h.slice_qp_delta \in -26..25
      BY <2>1, <2>2, <2>3, <2>4, <2>5 DEF SliceTypeValue
    <2> DEFINE a == <<UE(0), UE(h.slice_type), UE(0), U(sps.log2_max_frame_num, h.frame_num)>>
               b == IF h.idr_pic_flag THEN <<UE(0)>> ELSE <<>>
               c == <<U(sps.log2_max_pic_order_cnt_lsb, h.pic_order_cnt_lsb)>>
               d == IF h.slice_type = 5
                    THEN <<U(1, 1), UE(h.active_list0_ref_num - 1), U(1, 0)>> ELSE <<>>
               e == IF h.idr_pic_flag THEN Flags(<<0, 0>>) ELSE Flags(<<0>>)
               f == <<SE(h.slice_qp_delta), UE(0), SE(0), SE(0)>>
    <2>7. Elements(k) = a \o b \o c \o d \o e \o f
      <3>1. k # 1 /\ k # 2
        BY <1>5
      <3>2. Elements(k) = HeaderElements(sps, h)
        BY <3>1, Zenon DEF Elements, h, now, type
      <3> QED
        BY <3>2, Zenon DEF HeaderElements
    <2>8. /\ UE(h.slice_type) \in Element
          /\ U(sps.log2_max_frame_num, h.frame_num) \in Element
          /\ U(sps.log2_max_pic_order_cnt_lsb, h.pic_order_cnt_lsb) \in Element
          /\ SE(h.slice_qp_delta) \in Element
      <3>1. h.slice_type \in CodeNum
        <4>1. h.slice_type \in 0..100
          BY <2>6
        <4> QED
          BY <4>1, SyntaxElements, Zenon
      <3>2. sps.log2_max_frame_num \in 1..32 /\ sps.log2_max_pic_order_cnt_lsb \in 1..32
        BY <1>1
      <3> QED
        BY <1>2, <2>6, <3>1, <3>2, SyntaxElements, Zenon
    <2>9. a \in Seq(Element) /\ c \in Seq(Element) /\ f \in Seq(Element)
      BY <1>2, <2>8
    <2>10. b \in Seq(Element)
      BY <1>2
    <2>11. d \in Seq(Element)
      <3>1. CASE h.slice_type = 5
        <4>1. UE(h.active_list0_ref_num - 1) \in Element
          BY <1>2, <2>6, <3>1
        <4> QED
          BY <1>2, <3>1, <4>1
      <3>2. CASE h.slice_type # 5
        BY <3>2
      <3> QED
        BY <3>1, <3>2
    <2>12. e \in Seq(Element)
      <3>1. <<0, 0>> \in Seq({0, 1}) /\ <<0>> \in Seq({0, 1})
        OBVIOUS
      <3> QED
        BY <3>1, FlagElements
    <2> HIDE DEF a, b, c, d, e, f
    <2>13. a \o b \o c \o d \o e \o f \in Seq(Element)
      BY <2>9, <2>10, <2>11, <2>12, Joined
    <2> QED
      BY <2>7, <2>13
  <1> QED
    BY <1>0, <1>3, <1>4, <1>5

-----------------------------------------------------------------------------
(* NalStream: the escaping.                                                *)

\* The start code of a unit that begins at s, and its header byte.
StartCodeAt(s) ==
  /\ s \in Nat \ {0}
  /\ s + 4 <= Len(m_handle)
  /\ m_handle[s] = 0 /\ m_handle[s + 1] = 0 /\ m_handle[s + 2] = 0
  /\ m_handle[s + 3] = 1
  /\ m_handle[s + 4] # 0

\* zero_count is the number of zero bytes the open unit ends with, so the
\* test zero_count = 2 sees every pair of zeros.
CountsTrailingZeros ==
  phase = "escaping" =>
    /\ Len(m_handle) >= 5
    /\ zero_count = 0 => m_handle[Len(m_handle)] # 0
    /\ zero_count >= 1 => m_handle[Len(m_handle)] = 0
    /\ zero_count = 1 => m_handle[Len(m_handle) - 1] # 0
    /\ zero_count = 2 => m_handle[Len(m_handle) - 1] = 0

\* A finished unit does not end in a zero byte: the zeros before a start code
\* are the start code's own.
UnitsEndNonZero ==
  phase = "between" /\ m_handle # <<>> => m_handle[Len(m_handle)] # 0

\* The inductive invariant.
IInv ==
  /\ TypeOK
  /\ CountsTrailingZeros
  /\ UnitsEndNonZero
  /\ \A s \in UnitStarts : StartCodeAt(s)
  /\ NoEmulation
  /\ phase = "escaping" => rbsp # <<>>

-----------------------------------------------------------------------------
\* What pushing the bytes t does to the stream h.
LEMMA PushBytes ==
  ASSUME NEW h \in Seq(0..255), NEW t \in Seq(0..255)
  PROVE  /\ h \o t \in Seq(0..255)
         /\ Len(h) \in Nat /\ Len(t) \in Nat
         /\ Len(h \o t) = Len(h) + Len(t)
         /\ \A i \in 1..Len(h) : (h \o t)[i] = h[i]
         /\ \A i \in 1..Len(t) : (h \o t)[Len(h) + i] = t[i]
<1>1. /\ h \o t \in Seq(0..255)
      /\ Len(h) \in Nat /\ Len(t) \in Nat
      /\ Len(h \o t) = Len(h) + Len(t)
      /\ \A i \in 1..(Len(h) + Len(t)) :
           (h \o t)[i] = IF i <= Len(h) THEN h[i] ELSE t[i - Len(h)]
  BY ConcatProperties, LenProperties
<1>2. ASSUME NEW i \in 1..Len(t)
      PROVE  (h \o t)[Len(h) + i] = t[i]
  <2>1. Len(h) + i \in 1..(Len(h) + Len(t)) /\ ~(Len(h) + i <= Len(h)) /\ Len(h) + i - Len(h) = i
    BY <1>1
  <2>2. QED BY <1>1, <2>1
<1>3. QED BY <1>1, <1>2

-----------------------------------------------------------------------------
LEMMA InitIInv == Init => IInv
<1> SUFFICES ASSUME Init PROVE IInv
  OBVIOUS
<1>1. m_handle = <<>> /\ Len(m_handle) = 0 /\ starts = <<>> /\ Len(starts) = 0 /\ phase = "between"
      /\ rbsp = <<>> /\ zero_count = 0
  BY DEF Init
<1>2. TypeOK
  <2>1. m_handle \in Seq(0..255) /\ starts \in Seq(Nat \ {0}) /\ rbsp \in Seq(Seq(Byte))
    BY <1>1, EmptySeq
  <2>2. QED BY <1>1, <2>1 DEF TypeOK, Init
<1>3. UnitStarts = {}
  BY <1>1 DEF UnitStarts
<1>4. QED
  BY <1>1, <1>2, <1>3 DEF IInv, CountsTrailingZeros, UnitsEndNonZero, NoEmulation

LEMMA BeginIInv ==
  ASSUME IInv, NEW header \in Header, BeginUnit(header)
  PROVE  IInv'
<1> DEFINE t == UnitPrefix(header)
<1>1. m_handle \in Seq(0..255) /\ starts \in Seq(Nat \ {0}) /\ rbsp \in Seq(Seq(Byte))
  BY DEF IInv, TypeOK
<1>2. PICK n \in Nat : n = Len(m_handle)
  BY <1>1, LenProperties
<1>3. header \in 4..127
  BY HeaderAssumption
<1>4. /\ t \in Seq(0..255) /\ Len(t) = 5
      /\ t[1] = 0 /\ t[2] = 0 /\ t[3] = 0 /\ t[4] = 1 /\ t[5] = header
  BY <1>3 DEF UnitPrefix
<1>5. /\ m_handle' = m_handle \o t
      /\ starts' = Append(starts, Len(m_handle) + 1)
      /\ phase' = "escaping" /\ phase = "between" /\ zero_count' = 0
      /\ rbsp' = Append(rbsp, <<>>)
  BY DEF BeginUnit
<1> HIDE DEF t
<1>6. /\ m_handle' \in Seq(0..255)
      /\ Len(m_handle') = n + 5
      /\ \A i \in 1..n : m_handle'[i] = m_handle[i]
      /\ \A i \in 1..5 : m_handle'[n + i] = t[i]
  <2>1. /\ m_handle \o t \in Seq(0..255)
        /\ Len(m_handle \o t) = Len(m_handle) + Len(t)
        /\ \A i \in 1..Len(m_handle) : (m_handle \o t)[i] = m_handle[i]
        /\ \A i \in 1..Len(t) : (m_handle \o t)[Len(m_handle) + i] = t[i]
    <3>1. m_handle \in Seq(0..255) /\ t \in Seq(0..255)
      BY <1>1, <1>4
    <3>2. QED BY ONLY <3>1, PushBytes
  <2>2. Len(t) = 5 /\ m_handle' = m_handle \o t
    BY <1>4, <1>5
  <2>3. QED BY <1>2, <2>1, <2>2
<1>7. /\ m_handle'[n + 1] = 0 /\ m_handle'[n + 2] = 0 /\ m_handle'[n + 3] = 0
      /\ m_handle'[n + 4] = 1 /\ m_handle'[n + 5] # 0
  BY <1>3, <1>4, <1>6
<1>8. /\ Len(m_handle') = n + 5
      /\ \A i \in 1..n : m_handle'[i] = m_handle[i]
  BY <1>6
<1>9. UnitStarts' = UnitStarts \cup {n + 1} /\ starts' \in Seq(Nat \ {0})
  <2>1. PICK k \in Nat : k = Len(starts)
    BY <1>1, LenProperties
  <2>2. /\ starts' \in Seq(Nat \ {0}) /\ Len(starts') = k + 1
        /\ \A j \in 1..k : starts'[j] = starts[j]
        /\ starts'[k + 1] = n + 1
    BY <1>1, <1>2, <1>5, <2>1, AppendProperties
  <2>3. Len(starts) = k /\ Len(starts') = k + 1
        /\ (\A j \in 1..k : starts'[j] = starts[j]) /\ starts'[k + 1] = n + 1
    BY <2>1, <2>2
  <2>4. UnitStarts' = {starts'[j] : j \in 1..(k + 1)} /\ UnitStarts = {starts[j] : j \in 1..k}
    BY <2>3 DEF UnitStarts
  <2>5. QED BY <2>2, <2>3, <2>4
<1>10. TypeOK' /\ rbsp' # <<>>
  <2>1. rbsp' \in Seq(Seq(Byte)) /\ rbsp' # <<>>
    <3>1. <<>> \in Seq(Byte) BY EmptySeq
    <3>2. Append(rbsp, <<>>) \in Seq(Seq(Byte)) /\ Append(rbsp, <<>>) # <<>>
      <4>1. rbsp \in Seq(Seq(Byte))
        BY <1>1
      <4>2. QED BY ONLY <3>1, <4>1, AppendProperties
    <3>3. QED BY <1>5, <3>2
  <2>2. QED BY <1>5, <1>6, <1>9, <2>1 DEF TypeOK
<1>11. CountsTrailingZeros' /\ UnitsEndNonZero'
  <2>1. Len(m_handle') >= 5 /\ m_handle'[Len(m_handle')] # 0
    BY <1>7, <1>8
  <2>2. QED BY <1>5, <2>1 DEF CountsTrailingZeros, UnitsEndNonZero
<1>12. ASSUME NEW s \in UnitStarts' PROVE StartCodeAt(s)'
  <2>1. CASE s = n + 1
    BY <1>7, <1>8, <2>1 DEF StartCodeAt
  <2>2. CASE s \in UnitStarts
    <3>1. StartCodeAt(s) BY <2>2 DEF IInv
    <3>2. s \in 1..n /\ s + 1 \in 1..n /\ s + 2 \in 1..n /\ s + 3 \in 1..n /\ s + 4 \in 1..n
      BY <1>2, <3>1 DEF StartCodeAt
    <3>3. QED BY <1>8, <3>1, <3>2 DEF StartCodeAt
  <2>3. QED BY <1>9, <2>1, <2>2
<1>13. NoEmulation'
  <2> SUFFICES ASSUME NEW i \in 1..(Len(m_handle') - 2),
                      m_handle'[i] = 0, m_handle'[i + 1] = 0, m_handle'[i + 2] < 3
               PROVE  i \in UnitStarts' \/ i - 1 \in UnitStarts'
    BY DEF NoEmulation
  <2>1. i \in 1..(n + 3)
    BY <1>8
  <2>2. CASE i \in 1..(n - 2)
    <3>1. i \in 1..n /\ i + 1 \in 1..n /\ i + 2 \in 1..n /\ i \in 1..(Len(m_handle) - 2)
      BY <1>2, <2>2
    <3>2. m_handle[i] = 0 /\ m_handle[i + 1] = 0 /\ m_handle[i + 2] < 3
      BY <1>8, <3>1
    <3>3. i \in UnitStarts \/ i - 1 \in UnitStarts
      BY <3>1, <3>2 DEF IInv, NoEmulation
    <3>4. QED BY <1>9, <3>3
  <2>3. CASE i \in {n - 1, n}
    <3>1. n \in 1..n /\ m_handle'[n] = 0
      BY <1>8, <2>1, <2>3
    <3>2. m_handle[n] = 0 /\ m_handle # <<>>
      BY <1>1, <1>2, <1>8, <3>1, EmptySeq
    <3>3. QED BY <1>2, <1>5, <3>2 DEF IInv, UnitsEndNonZero
  <2>4. CASE i \in {n + 1, n + 2}
    BY <1>9, <2>4
  <2>5. CASE i = n + 3
    BY <1>7, <2>5
  <2>6. QED BY <2>1, <2>2, <2>3, <2>4, <2>5
<1>14. QED BY <1>9, <1>10, <1>11, <1>12, <1>13 DEF IInv

-----------------------------------------------------------------------------
\* The bytes one iteration pushes, by case.
EscapeCases(count, value) ==
  /\ Escaped(count, value) \in Seq(0..255)
  /\ NeedsEscape(count, value) =>
       /\ Len(Escaped(count, value)) = 2
       /\ Escaped(count, value)[1] = 3 /\ Escaped(count, value)[2] = value
  /\ ~NeedsEscape(count, value) =>
       Len(Escaped(count, value)) = 1 /\ Escaped(count, value)[1] = value

LEMMA EscapedBytes ==
  ASSUME NEW count \in 0..2, NEW value \in 0..255
  PROVE  EscapeCases(count, value)
<1>1. CASE NeedsEscape(count, value)
  <2>1. Escaped(count, value) = <<3, value>>
    BY <1>1 DEF Escaped
  <2>2. QED BY <1>1, <2>1 DEF EscapeCases
<1>2. CASE ~NeedsEscape(count, value)
  <2>1. Escaped(count, value) = <<value>>
    BY <1>2 DEF Escaped
  <2>2. QED BY <1>2, <2>1 DEF EscapeCases
<1>3. QED BY <1>1, <1>2

LEMMA PushValueIInv ==
  ASSUME IInv, NEW value \in Byte, phase = "escaping", PushValue(value),
         phase' \in {"between", "escaping"}, phase' = "between" => value # 0
  PROVE  IInv'
<1> DEFINE t == Escaped(zero_count, value)
<1>1. /\ m_handle \in Seq(0..255) /\ starts \in Seq(Nat \ {0}) /\ rbsp \in Seq(Seq(Byte))
      /\ zero_count \in 0..2 /\ rbsp # <<>>
  BY DEF IInv, TypeOK
<1>2. PICK n \in Nat : n = Len(m_handle)
  BY <1>1, LenProperties
<1>3. value \in 0..255
  BY ByteAssumption
<1>4. PICK m \in Nat :
        /\ t \in Seq(0..255) /\ Len(t) = m /\ t[m] = value
        /\ NeedsEscape(zero_count, value) => m = 2 /\ t[1] = 3
        /\ ~NeedsEscape(zero_count, value) => m = 1
  <2>1. CASE NeedsEscape(zero_count, value)
    <3>1. t \in Seq(0..255) /\ Len(t) = 2 /\ t[1] = 3 /\ t[2] = value
      <4>1. zero_count \in 0..2
        BY <1>1
      <4>2. EscapeCases(zero_count, value)
        BY <1>3, <4>1, EscapedBytes
      <4>3. QED BY <2>1, <4>2 DEF EscapeCases
    <3> HIDE DEF t
    <3>2. WITNESS 2 \in Nat
    <3>3. QED BY <2>1, <3>1
  <2>2. CASE ~NeedsEscape(zero_count, value)
    <3>1. t \in Seq(0..255) /\ Len(t) = 1 /\ t[1] = value
      <4>1. zero_count \in 0..2
        BY <1>1
      <4>2. EscapeCases(zero_count, value)
        BY <1>3, <4>1, EscapedBytes
      <4>3. QED BY <2>2, <4>2 DEF EscapeCases
    <3> HIDE DEF t
    <3>2. WITNESS 1 \in Nat
    <3>3. QED BY <2>2, <3>1
  <2>3. QED BY <2>1, <2>2
<1>5. /\ m_handle' = m_handle \o t
      /\ zero_count' = CountAfter(zero_count, value)
      /\ rbsp' = [rbsp EXCEPT ![Len(rbsp)] = Append(@, value)]
      /\ starts' = starts
  BY DEF PushValue
<1> HIDE DEF t
<1>6. /\ m_handle' \in Seq(0..255)
      /\ Len(m_handle') = n + m
      /\ \A i \in 1..n : m_handle'[i] = m_handle[i]
      /\ \A i \in 1..m : m_handle'[n + i] = t[i]
  <2>1. /\ m_handle \o t \in Seq(0..255)
        /\ Len(m_handle \o t) = Len(m_handle) + Len(t)
        /\ \A i \in 1..Len(m_handle) : (m_handle \o t)[i] = m_handle[i]
        /\ \A i \in 1..Len(t) : (m_handle \o t)[Len(m_handle) + i] = t[i]
    BY <1>1, <1>4, PushBytes
  <2>2. Len(t) = m /\ m_handle' = m_handle \o t
    BY <1>4, <1>5
  <2>3. QED BY <1>2, <2>1, <2>2
<1>7. /\ Len(m_handle') = n + m
      /\ \A i \in 1..n : m_handle'[i] = m_handle[i]
      /\ m \in {1, 2} /\ m_handle'[n + m] = value
      /\ NeedsEscape(zero_count, value) => m = 2 /\ m_handle'[n + 1] = 3
      /\ ~NeedsEscape(zero_count, value) => m = 1
  BY <1>4, <1>6
<1>8. /\ n >= 5
      /\ zero_count = 0 => m_handle[n] # 0
      /\ zero_count >= 1 => m_handle[n] = 0
      /\ zero_count = 1 => m_handle[n - 1] # 0
      /\ zero_count = 2 => m_handle[n - 1] = 0
  BY <1>2 DEF IInv, CountsTrailingZeros
<1>9. UnitStarts' = UnitStarts
  BY <1>5 DEF UnitStarts
<1>10. TypeOK' /\ rbsp' # <<>>
  <2>1. rbsp' \in Seq(Seq(Byte)) /\ rbsp' # <<>>
    <3>1. PICK k \in Nat \ {0} : k = Len(rbsp) /\ k \in 1..Len(rbsp)
      BY <1>1, EmptySeq
    <3>2. rbsp[k] \in Seq(Byte)
      BY <1>1, <3>1, ElementOfSeq
    <3>3. Append(rbsp[k], value) \in Seq(Byte)
      BY <3>2, AppendProperties
    <3>4. rbsp' = [rbsp EXCEPT ![k] = Append(rbsp[k], value)]
      BY <1>5, <3>1
    <3>5. rbsp' \in Seq(Seq(Byte)) /\ Len(rbsp') = k
      BY <1>1, <3>1, <3>3, <3>4, ExceptSeq
    <3>6. QED BY <3>1, <3>5, EmptySeq
  <2>2. zero_count' \in 0..2
    BY <1>1, <1>3, <1>5 DEF CountAfter, NeedsEscape
  <2>3. QED BY <1>1, <1>5, <1>6, <2>1, <2>2 DEF TypeOK
<1>11. CountsTrailingZeros' /\ UnitsEndNonZero'
  <2>1. n + m >= 5 /\ n + m - 1 \in {n, n + 1} /\ n \in 1..n
    BY <1>7, <1>8
  <2>2. CASE value # 0
    <3>1. zero_count' = 0 /\ m_handle'[Len(m_handle')] # 0 /\ Len(m_handle') >= 5
      BY <1>5, <1>7, <2>1, <2>2 DEF CountAfter
    <3>2. QED BY <3>1 DEF CountsTrailingZeros, UnitsEndNonZero
  <2>3. CASE value = 0 /\ NeedsEscape(zero_count, value)
    <3>1. zero_count' = 1 /\ Len(m_handle') = n + 2 /\ Len(m_handle') - 1 = n + 1
          /\ m_handle'[n + 2] = 0 /\ m_handle'[n + 1] = 3 /\ n + 2 >= 5
      BY <1>5, <1>7, <1>8, <2>3 DEF CountAfter
    <3>2. phase' = "escaping"
      BY <2>3
    <3>3. QED BY <3>1, <3>2 DEF CountsTrailingZeros, UnitsEndNonZero
  <2>4. CASE value = 0 /\ ~NeedsEscape(zero_count, value)
    <3>1. zero_count' = zero_count + 1 /\ zero_count \in {0, 1}
      BY <1>1, <1>5, <2>4 DEF CountAfter, NeedsEscape
    <3>2. Len(m_handle') = n + 1 /\ Len(m_handle') - 1 = n /\ m_handle'[n + 1] = 0
          /\ m_handle'[n] = m_handle[n] /\ n + 1 >= 5
      BY <1>7, <1>8, <2>1, <2>4
    <3>3. phase' = "escaping"
      BY <2>4
    <3>4. QED BY <1>8, <3>1, <3>2, <3>3 DEF CountsTrailingZeros, UnitsEndNonZero
  <2>5. QED BY <2>2, <2>3, <2>4
<1>12. ASSUME NEW s \in UnitStarts' PROVE StartCodeAt(s)'
  <2>1. StartCodeAt(s) BY <1>9 DEF IInv
  <2>2. s \in 1..n /\ s + 1 \in 1..n /\ s + 2 \in 1..n /\ s + 3 \in 1..n /\ s + 4 \in 1..n
    BY <1>2, <2>1 DEF StartCodeAt
  <2>3. QED BY <1>7, <2>1, <2>2 DEF StartCodeAt
<1>13. NoEmulation'
  <2> SUFFICES ASSUME NEW i \in 1..(Len(m_handle') - 2),
                      m_handle'[i] = 0, m_handle'[i + 1] = 0, m_handle'[i + 2] < 3
               PROVE  i \in UnitStarts' \/ i - 1 \in UnitStarts'
    BY DEF NoEmulation
  <2>1. i \in 1..(n + m - 2)
    BY <1>7
  <2>2. CASE i \in 1..(n - 2)
    <3>1. i \in 1..n /\ i + 1 \in 1..n /\ i + 2 \in 1..n /\ i \in 1..(Len(m_handle) - 2)
      BY <1>2, <2>2
    <3>2. m_handle[i] = 0 /\ m_handle[i + 1] = 0 /\ m_handle[i + 2] < 3
      BY <1>7, <3>1
    <3>3. i \in UnitStarts \/ i - 1 \in UnitStarts
      BY <3>1, <3>2 DEF IInv, NoEmulation
    <3>4. QED BY <1>9, <3>3
  <2>3. CASE i = n - 1 /\ ~NeedsEscape(zero_count, value)
    <3>1. n - 1 \in 1..n /\ n \in 1..n /\ i + 1 = n /\ i + 2 = n + 1 /\ m = 1
      BY <1>7, <1>8, <2>3
    <3>2. m_handle[n - 1] = 0 /\ m_handle[n] = 0 /\ value < 3
      BY <1>7, <2>3, <3>1
    <3>3. zero_count = 2
      BY <1>1, <1>8, <3>2
    <3>4. QED BY <1>3, <2>3, <3>2, <3>3 DEF NeedsEscape
  <2>4. CASE i \in {n - 1, n} /\ NeedsEscape(zero_count, value)
    <3>1. m = 2 /\ m_handle'[n + 1] = 3
      BY <1>7, <2>4
    <3>2. i + 1 = n + 1 \/ i + 2 = n + 1
      BY <2>4
    <3>3. QED BY <3>1, <3>2
  <2>5. m = 1 \/ NeedsEscape(zero_count, value)
    BY <1>7
  <2>6. QED BY <1>7, <2>1, <2>2, <2>3, <2>4, <2>5
<1>14. QED BY <1>1, <1>9, <1>10, <1>11, <1>12, <1>13 DEF IInv

LEMMA NextIInv == IInv /\ [Next]_vars => IInv'
<1> SUFFICES ASSUME IInv, [Next]_vars PROVE IInv'
  OBVIOUS
<1>1. ASSUME NEW header \in Header, BeginUnit(header) PROVE IInv'
  BY <1>1, BeginIInv
<1>2. ASSUME NEW value \in Byte, EscapeByte(value) PROVE IInv'
  BY <1>2, PushValueIInv DEF EscapeByte
<1>3. ASSUME NEW value \in Byte \ {0}, EscapeLastByte(value) PROVE IInv'
  BY <1>3, PushValueIInv DEF EscapeLastByte
<1>4. CASE UNCHANGED vars
  BY <1>4 DEF vars, IInv, TypeOK, CountsTrailingZeros, UnitsEndNonZero, UnitStarts,
     StartCodeAt, NoEmulation
<1>5. QED BY <1>1, <1>2, <1>3, <1>4 DEF Next

LEMMA InvariantHolds == Spec => []IInv
<1>1. QED BY InitIInv, NextIInv, PTL DEF Spec

-----------------------------------------------------------------------------
\* The state of the escaping loop keeps its types; in particular zero_count
\* never exceeds two, for any payload.
THEOREM TypeCorrect == Spec => []TypeOK
<1>1. IInv => TypeOK
  BY DEF IInv
<1>2. QED BY <1>1, InvariantHolds, PTL

\* RBSP2EBSP breaks every forbidden pattern, for any payload of any length and
\* any number of units.
THEOREM EmulationPrevented == Spec => []NoEmulation
<1>1. IInv => NoEmulation
  BY DEF IInv
<1>2. QED BY <1>1, InvariantHolds, PTL

\* A receiver that scans for 0 0 1 finds exactly the units Nalu::Serial began.
THEOREM StartCodesFound == Spec => []StartCodesDelimitUnits
<1>1. ASSUME IInv PROVE StartCodesDelimitUnits
  <2>1. PICK n \in Nat : n = Len(m_handle)
    BY <1>1, LenProperties DEF IInv, TypeOK
  <2>2. ASSUME NEW s \in UnitStarts PROVE s + 1 \in FoundStarts
    <3>1. StartCodeAt(s) BY <1>1 DEF IInv
    <3>2. s + 1 \in 1..(Len(m_handle) - 2) /\ s + 1 + 1 = s + 2 /\ s + 1 + 2 = s + 3
      BY <2>1, <3>1 DEF StartCodeAt
    <3>3. Triple(s + 1, 0, 0, 1)
      BY <3>1, <3>2 DEF Triple, StartCodeAt
    <3>4. QED BY <3>2, <3>3 DEF FoundStarts
  <2>3. ASSUME NEW i \in FoundStarts PROVE \E s \in UnitStarts : i = s + 1
    <3>1. /\ i \in 1..(Len(m_handle) - 2) /\ m_handle[i] = 0 /\ m_handle[i + 1] = 0
          /\ m_handle[i + 2] = 1
      BY DEF FoundStarts, Triple
    <3>2. i \in UnitStarts \/ i - 1 \in UnitStarts
      BY <1>1, <3>1 DEF IInv, NoEmulation
    <3>3. i \notin UnitStarts
      <4> SUFFICES ASSUME i \in UnitStarts PROVE FALSE
        OBVIOUS
      <4>1. StartCodeAt(i) BY <1>1 DEF IInv
      <4>2. QED BY <3>1, <4>1 DEF StartCodeAt
    <3>4. i \in Int BY <2>1, <3>1
    <3>5. QED BY <3>2, <3>3, <3>4
  <2>4. QED BY <2>2, <2>3 DEF StartCodesDelimitUnits
<1>2. QED BY <1>1, InvariantHolds, PTL

-----------------------------------------------------------------------------
(* Unescaping.                                                             *)

\* What a receiver has after some bytes.
Held == [out : Seq(0..255), zeros : Nat]

None == [out |-> <<>>, zeros |-> 0]

\* The equation of Taken.
Takes(taken, bytes) ==
  taken = [k \in 0..Len(bytes) |-> IF k = 0 THEN None ELSE Take(taken[k - 1], bytes[k])]

LEMMA TakeKeeps ==
  ASSUME NEW acc \in Held, NEW b \in 0..255
  PROVE  Take(acc, b) \in Held
  <1>1. acc.out \in Seq(0..255) /\ acc.zeros \in Nat
    BY DEF Held
  <1>2. Append(acc.out, b) \in Seq(0..255)
    BY <1>1, AppendProperties
  <1>3. CASE acc.zeros >= 2 /\ b = 3
    BY <1>1, <1>3 DEF Take, Held
  <1>4. CASE ~(acc.zeros >= 2 /\ b = 3)
    BY <1>1, <1>2, <1>4 DEF Take, Held
  <1> QED
    BY <1>3, <1>4

\* Taken is what stepping through the bytes gives.
LEMMA TakenSteps ==
  ASSUME NEW bytes \in Seq(0..255)
  PROVE  \E f : /\ f[0] = None
                /\ \A k \in 1..Len(bytes) : f[k] = Take(f[k - 1], bytes[k])
                /\ Taken(bytes) = f[Len(bytes)]
  <1> DEFINE n == Len(bytes)
             step == [xk \in Held \X (1..n) |-> Take(xk[1], bytes[xk[2]])]
             g == CHOOSE taken : Takes(taken, bytes)
  <1>0. n \in Nat
    OBVIOUS
  <1>1. None \in Held
    BY DEF None, Held
  <1>2. \A k \in 1..n, x \in Held : step[<<x, k>>] = Take(x, bytes[k])
    OBVIOUS
  <1> HIDE DEF step
  <1>3. Keeps(step, Held, n)
    <2> SUFFICES ASSUME NEW k \in 1..n, NEW x \in Held PROVE Take(x, bytes[k]) \in Held
      BY <1>2, Zenon DEF Keeps
    <2>1. bytes[k] \in 0..255
      BY ElementOfSeq, Zenon
    <2> QED
      BY <2>1, TakeKeeps
  <1>4. PICK f \in [0..n -> Held] : Computes(f, step, None, n)
    <2> HIDE DEF n
    <2> QED
      BY <1>0, <1>1, <1>3, Recursion, Zenon
  <1>5. Takes(f, bytes)
    <2>1. \A k \in 0..n : f[k] = IF k = 0 THEN None ELSE Take(f[k - 1], bytes[k])
      <3> SUFFICES ASSUME NEW k \in 1..n PROVE f[k] = Take(f[k - 1], bytes[k])
        BY <1>0, <1>4 DEF Computes
      <3>1. k - 1 \in 0..n
        BY <1>0
      <3> QED
        BY <1>2, <1>4, <3>1 DEF Computes
    <2>2. f = [k \in 0..n |-> f[k]]
      BY <1>4
    <2> QED
      BY <2>1, <2>2, Zenon DEF Takes
  <1>6. Takes(g, bytes)
    BY <1>5, Zenon
  <1>7. Taken(bytes) = g[n]
    BY Zenon DEF Taken, Takes, None
  <1> HIDE DEF g
  <1>8. g[0] = None /\ \A k \in 1..n : g[k] = Take(g[k - 1], bytes[k])
    <2>1. g = [k \in 0..n |-> IF k = 0 THEN None ELSE Take(g[k - 1], bytes[k])]
      BY <1>6, Zenon DEF Takes
    <2> HIDE DEF n
    <2>2. 0 \in 0..n /\ \A k \in 1..n : k \in 0..n /\ k # 0
      BY <1>0
    <2> QED
      BY <2>1, <2>2, Zenon
  <1> QED
    BY <1>7, <1>8

LEMMA TakenNone == Taken(<<>>) = None
  <1>1. <<>> \in Seq(0..255) /\ Len(<<>>) = 0
    OBVIOUS
  <1>2. PICK f : f[0] = None /\ Taken(<<>>) = f[Len(<<>>)]
    BY <1>1, TakenSteps
  <1> QED
    BY <1>1, <1>2

\* One byte more is one step more.
LEMMA TakenAppend ==
  ASSUME NEW bytes \in Seq(0..255), NEW b \in 0..255
  PROVE  Taken(Append(bytes, b)) = Take(Taken(bytes), b)
  <1> DEFINE n == Len(bytes)
             more == Append(bytes, b)
  <1>1. /\ more \in Seq(0..255) /\ Len(more) = n + 1 /\ n \in Nat
        /\ \A k \in 1..n : more[k] = bytes[k]
        /\ more[n + 1] = b
    BY AppendProperties
  <1> HIDE DEF more
  <1>2. PICK f : /\ f[0] = None
                 /\ \A k \in 1..n : f[k] = Take(f[k - 1], bytes[k])
                 /\ Taken(bytes) = f[n]
    BY TakenSteps
  <1>3. PICK g : /\ g[0] = None
                 /\ \A k \in 1..Len(more) : g[k] = Take(g[k - 1], more[k])
                 /\ Taken(more) = g[Len(more)]
    BY <1>1, TakenSteps
  <1> HIDE DEF n
  <1> DEFINE S == {k \in Nat : k <= n => f[k] = g[k]}
  <1>4. n \in S
    <2>1. 0 \in S
      BY <1>2, <1>3
    <2>2. ASSUME NEW k \in Nat, k \in S
          PROVE  k + 1 \in S
      <3> SUFFICES ASSUME k + 1 <= n PROVE f[k + 1] = g[k + 1]
        OBVIOUS
      <3>1. k + 1 \in 1..n /\ k + 1 \in 1..Len(more) /\ (k + 1) - 1 = k /\ k <= n
        BY <1>1
      <3>2. f[k] = g[k]
        BY <2>2, <3>1
      <3>3. f[k + 1] = Take(f[k], bytes[k + 1]) /\ g[k + 1] = Take(g[k], more[k + 1])
        BY <1>2, <1>3, <3>1
      <3> QED
        BY <1>1, <3>1, <3>2, <3>3
    <2> HIDE DEF S
    <2> QED
      BY <1>1, <2>1, <2>2, Induction
  <1>5. g[n + 1] = Take(g[n], b)
    <2>1. n + 1 \in 1..Len(more) /\ (n + 1) - 1 = n
      BY <1>1
    <2> QED
      BY <1>1, <1>3, <2>1
  <1> QED
    BY <1>1, <1>2, <1>3, <1>4, <1>5 DEF more

\* Unescaping undoes one iteration of RBSP2EBSP.
LEMMA TakenEscaped ==
  ASSUME NEW bytes \in Seq(Octet), NEW out, NEW count, NEW value \in Octet,
         Taken(bytes) = [out |-> out, zeros |-> count], out \in Seq(Octet), count \in 0..2
  PROVE  Taken(bytes \o Escaped(count, value))
           = [out |-> Append(out, value), zeros |-> CountAfter(count, value)]
  <1> USE DEF Octet
  <1> DEFINE was == [out |-> out, zeros |-> count]
  <1>1. CASE NeedsEscape(count, value)
    <2>1. Escaped(count, value) = <<3, value>> /\ count = 2 /\ value < 4
      BY <1>1 DEF Escaped, NeedsEscape
    <2> DEFINE once == Append(bytes, 3)
    <2>2. bytes \o <<3, value>> = Append(once, value) /\ once \in Seq(0..255)
      <3>1. 3 \in 0..255
        OBVIOUS
      <3> QED
        BY <3>1
    <2>3. Taken(once) = Take(was, 3)
      <3>1. 3 \in 0..255
        OBVIOUS
      <3> QED
        BY <3>1, TakenAppend
    <2>4. Taken(Append(once, value)) = Take(Taken(once), value)
      <3> HIDE DEF once
      <3> QED
        BY <2>2, TakenAppend
    <2>5. Take(was, 3) = [out |-> out, zeros |-> 0]
      BY <2>1 DEF Take
    <2>6. Take([out |-> out, zeros |-> 0], value)
            = [out |-> Append(out, value), zeros |-> IF value = 0 THEN 1 ELSE 0]
      BY DEF Take
    <2>7. CountAfter(count, value) = IF value = 0 THEN 1 ELSE 0
      BY <1>1 DEF CountAfter
    <2> HIDE DEF once, was
    <2> QED
      BY <2>1, <2>2, <2>3, <2>4, <2>5, <2>6, <2>7
  <1>2. CASE ~NeedsEscape(count, value)
    <2>1. Escaped(count, value) = <<value>>
      BY <1>2 DEF Escaped
    <2>2. bytes \o <<value>> = Append(bytes, value)
      OBVIOUS
    <2>3. Taken(Append(bytes, value)) = Take(was, value)
      BY TakenAppend
    <2>4. ~(count >= 2 /\ value = 3)
      BY <1>2 DEF NeedsEscape
    <2>5. Take(was, value) = [out |-> Append(out, value), zeros |-> IF value = 0 THEN count + 1 ELSE 0]
      BY <2>4 DEF Take
    <2>6. CountAfter(count, value) = IF value = 0 THEN count + 1 ELSE 0
      BY <1>2 DEF CountAfter
    <2> HIDE DEF was
    <2> QED
      BY <2>1, <2>2, <2>3, <2>5, <2>6
  <1> QED
    BY <1>1, <1>2

\* PushBytes, by that name of the bytes.
LEMMA PushOctets ==
  ASSUME NEW h \in Seq(Octet), NEW t \in Seq(Octet)
  PROVE  /\ h \o t \in Seq(Octet)
         /\ Len(h) \in Nat /\ Len(t) \in Nat
         /\ Len(h \o t) = Len(h) + Len(t)
         /\ \A i \in 1..Len(h) : (h \o t)[i] = h[i]
         /\ \A i \in 1..Len(t) : (h \o t)[Len(h) + i] = t[i]
  <1>1. /\ h \o t \in Seq(Octet)
        /\ Len(h) \in Nat /\ Len(t) \in Nat
        /\ Len(h \o t) = Len(h) + Len(t)
        /\ \A i \in 1..(Len(h) + Len(t)) :
             (h \o t)[i] = IF i <= Len(h) THEN h[i] ELSE t[i - Len(h)]
    BY ConcatProperties, LenProperties
  <1>2. ASSUME NEW i \in 1..Len(t)
        PROVE  (h \o t)[Len(h) + i] = t[i]
    <2>1. /\ Len(h) + i \in 1..(Len(h) + Len(t)) /\ ~(Len(h) + i <= Len(h))
          /\ Len(h) + i - Len(h) = i
      BY <1>1
    <2> QED
      BY <1>1, <2>1
  <1> QED
    BY <1>1, <1>2

\* The bytes from a place on.
LEMMA Suffix ==
  ASSUME NEW h \in Seq(Octet), NEW a \in 1..(Len(h) + 1)
  PROVE  /\ SubSeq(h, a, Len(h)) \in Seq(Octet)
         /\ Len(SubSeq(h, a, Len(h))) = (Len(h) - a) + 1
         /\ \A i \in 1..((Len(h) - a) + 1) : SubSeq(h, a, Len(h))[i] = h[(a + i) - 1]
  <1> DEFINE n == Len(h)
             s == SubSeq(h, a, n)
  <1>1. n \in Nat /\ a \in Int
    OBVIOUS
  <1>2. ASSUME NEW i \in a..n
        PROVE  h[i] \in Octet
    <2>1. i \in 1..Len(h)
      BY <1>1
    <2> QED
      BY <2>1, ElementOfSeq, Zenon
  <1> HIDE DEF n
  <1>3. /\ s \in Seq(Octet)
        /\ Len(s) = IF a <= n THEN n - a + 1 ELSE 0
        /\ \A i \in 1..(n - a + 1) : s[i] = h[a + i - 1]
    BY <1>1, <1>2, SubSeqProperties
  <1> HIDE DEF s
  <1>4. Len(s) = (n - a) + 1
    <2>1. a <= n + 1
      BY DEF n
    <2> QED
      BY <1>1, <1>3, <2>1
  <1> QED
    BY <1>3, <1>4 DEF s, n

\* The bytes from a place on, with more behind them.
LEMMA SuffixGrows ==
  ASSUME NEW h \in Seq(Octet), NEW t \in Seq(Octet), NEW a \in 1..(Len(h) + 1)
  PROVE  /\ SubSeq(h, a, Len(h)) \in Seq(Octet)
         /\ SubSeq(h \o t, a, Len(h \o t)) = SubSeq(h, a, Len(h)) \o t
  <1> DEFINE n == Len(h)
             m == Len(t)
             j == h \o t
             s == SubSeq(h, a, n)
             u == SubSeq(j, a, n + m)
             w == s \o t
  <1>1. /\ n \in Nat /\ m \in Nat /\ j \in Seq(Octet) /\ Len(j) = n + m
        /\ \A i \in 1..n : j[i] = h[i]
        /\ \A i \in 1..m : j[n + i] = t[i]
    BY PushOctets
  <1> HIDE DEF j
  <1>2. s \in Seq(Octet) /\ Len(s) = (n - a) + 1 /\ \A i \in 1..((n - a) + 1) : s[i] = h[(a + i) - 1]
    BY Suffix
  <1>3. u \in Seq(Octet) /\ Len(u) = ((n + m) - a) + 1 /\ \A i \in 1..(((n + m) - a) + 1) : u[i] = j[(a + i) - 1]
    <2>1. a \in 1..(Len(j) + 1)
      BY <1>1
    <2>2. /\ SubSeq(j, a, Len(j)) \in Seq(Octet) /\ Len(SubSeq(j, a, Len(j))) = (Len(j) - a) + 1
          /\ \A i \in 1..((Len(j) - a) + 1) : SubSeq(j, a, Len(j))[i] = j[(a + i) - 1]
      BY <1>1, <2>1, Suffix, Zenon
    <2>3. Len(j) = n + m
      BY <1>1
    <2> QED
      BY <2>2, <2>3, Zenon
  <1> HIDE DEF s, u
  <1>4. /\ w \in Seq(Octet) /\ Len(w) = Len(s) + m
        /\ \A i \in 1..Len(s) : w[i] = s[i]
        /\ \A i \in 1..m : w[Len(s) + i] = t[i]
    <2>1. s \in Seq(Octet)
      BY <1>2
    <2> QED
      BY <2>1, PushOctets, Zenon
  <1> HIDE DEF w, n, m
  <1>5. Len(u) = Len(w)
    BY <1>1, <1>2, <1>3, <1>4
  <1>6. ASSUME NEW i \in 1..Len(u)
        PROVE  u[i] = w[i]
    <2>1. CASE i <= Len(s)
      <3>1. /\ i \in 1..((n - a) + 1) /\ i \in 1..(((n + m) - a) + 1) /\ i \in 1..Len(s)
            /\ (a + i) - 1 \in 1..n
        <4>1. a \in 1..(n + 1)
          BY DEF n
        <4>2. i \in Int /\ 1 <= i /\ i <= Len(s) /\ Len(s) = (n - a) + 1
          BY <1>1, <1>2, <1>3, <2>1
        <4>3. n \in Nat /\ m \in Nat
          BY <1>1
        <4> QED
          BY ONLY <4>1, <4>2, <4>3
      <3> QED
        BY <1>1, <1>2, <1>3, <1>4, <3>1
    <2>2. CASE ~(i <= Len(s))
      <3> DEFINE q == i - Len(s)
      <3>1. q \in 1..m /\ Len(s) + q = i /\ (a + i) - 1 = n + q /\ i \in 1..(((n + m) - a) + 1)
        BY <1>1, <1>2, <1>3, <2>2 DEF n
      <3> HIDE DEF q
      <3>2. u[i] = j[n + q] /\ w[i] = t[q]
        BY <1>3, <1>4, <3>1
      <3> QED
        BY <1>1, <3>1, <3>2
    <2> QED
      BY <2>1, <2>2
  <1>7. u = w
    BY <1>3, <1>4, <1>5, <1>6, SeqEqual
  <1> QED
    BY <1>1, <1>2, <1>7 DEF s, u, w, n, m, j

-----------------------------------------------------------------------------
\* A receiver that takes the bytes of the last unit has the RBSP so far.
LastRecovered ==
  /\ Len(starts) = Len(rbsp)
  /\ rbsp # <<>> =>
       Taken(Payload(Len(starts))) = [out |-> rbsp[Len(rbsp)], zeros |-> zero_count]

LEMMA RecoveredInit == Init => LastRecovered
  BY DEF Init, LastRecovered

\* The bytes of the last unit.
LEMMA LastPayload ==
  ASSUME starts \in Seq(Nat \ {0})
  PROVE  Payload(Len(starts)) = SubSeq(m_handle, starts[Len(starts)] + 5, Len(m_handle))
  <1>1. ~(Len(starts) < Len(starts))
    OBVIOUS
  <1> QED
    BY <1>1, Zenon DEF Payload

LEMMA RecoveredBegin ==
  ASSUME IInv, LastRecovered, NEW header \in Header, BeginUnit(header)
  PROVE  LastRecovered'
  <1>1. /\ m_handle \in Seq(0..255) /\ starts \in Seq(Nat \ {0}) /\ rbsp \in Seq(Seq(Byte))
        /\ starts' \in Seq(Nat \ {0}) /\ header \in 0..255
    <2>1. header \in 0..255
      BY HeaderAssumption
    <2>2. m_handle \in Seq(0..255) /\ starts \in Seq(Nat \ {0}) /\ rbsp \in Seq(Seq(Byte))
      BY DEF IInv, TypeOK
    <2>3. Len(m_handle) + 1 \in Nat \ {0}
      BY <2>2
    <2>4. Append(starts, Len(m_handle) + 1) \in Seq(Nat \ {0})
      BY <2>2, <2>3, AppendProperties
    <2> QED
      BY <2>1, <2>2, <2>4 DEF BeginUnit
  <1>2. /\ Len(starts') = Len(starts) + 1 /\ starts'[Len(starts')] = Len(m_handle) + 1
        /\ Len(rbsp') = Len(rbsp) + 1 /\ rbsp'[Len(rbsp')] = <<>>
        /\ zero_count' = 0
    <2>1. Len(m_handle) + 1 \in Nat \ {0}
      BY <1>1
    <2>2. <<>> \in Seq(Byte)
      OBVIOUS
    <2> QED
      BY <1>1, <2>1, <2>2, AppendProperties DEF BeginUnit
  <1>3. Len(m_handle') = Len(m_handle) + 5
    <2>1. UnitPrefix(header) \in Seq(0..255) /\ Len(UnitPrefix(header)) = 5
      BY <1>1 DEF UnitPrefix
    <2> DEFINE t == UnitPrefix(header)
    <2>2. m_handle' = m_handle \o t
      BY DEF BeginUnit
    <2> HIDE DEF t
    <2>3. t \in Seq(0..255) /\ Len(t) = 5 /\ m_handle \in Seq(0..255)
      BY <1>1, <2>1 DEF t
    <2>4. Len(m_handle \o t) = Len(m_handle) + Len(t)
      <3>1. t \in Seq(Octet) /\ m_handle \in Seq(Octet)
        BY <2>3 DEF Octet
      <3> QED
        BY <3>1, PushOctets, Zenon
    <2> QED
      BY <2>2, <2>3, <2>4
  <1>4. Payload(Len(starts))' = SubSeq(m_handle', starts'[Len(starts')] + 5, Len(m_handle'))
    <2>1. ~(Len(starts') < Len(starts'))
      BY <1>1
    <2> QED
      BY <2>1, Zenon DEF Payload
  <1>5. SubSeq(m_handle', starts'[Len(starts')] + 5, Len(m_handle')) = <<>>
    <2> DEFINE n == Len(m_handle)
    <2>1. n \in Nat
      BY <1>1
    <2> HIDE DEF n
    <2>2. (n + 1) + 5 \in Int /\ n + 5 \in Int /\ n + 5 < (n + 1) + 5
      BY <2>1
    <2>3. SubSeq(m_handle', (n + 1) + 5, n + 5) = <<>>
      BY <2>2, SubSeqEmpty
    <2> QED
      BY <1>2, <1>3, <2>3 DEF n
  <1>6. Taken(Payload(Len(starts)))' = None
    BY <1>4, <1>5, TakenNone
  <1> QED
    BY <1>1, <1>2, <1>6 DEF LastRecovered, None

LEMMA RecoveredPush ==
  ASSUME IInv, LastRecovered, phase = "escaping", NEW value \in Byte, PushValue(value)
  PROVE  LastRecovered'
  <1> DEFINE top == Len(rbsp)
             out == rbsp[top]
             a == starts[Len(starts)] + 5
             bytes == SubSeq(m_handle, a, Len(m_handle))
             t == Escaped(zero_count, value)
  <1>1. /\ m_handle \in Seq(0..255) /\ starts \in Seq(Nat \ {0}) /\ rbsp \in Seq(Seq(Byte))
        /\ zero_count \in 0..2 /\ rbsp # <<>> /\ value \in 0..255
    BY ByteAssumption DEF IInv, TypeOK
  <1>2. /\ m_handle' = m_handle \o t /\ zero_count' = CountAfter(zero_count, value)
        /\ rbsp' = [rbsp EXCEPT ![top] = Append(out, value)]
        /\ starts' = starts
    BY DEF PushValue
  <1>3. top \in 1..Len(rbsp) /\ Len(starts) = top /\ top \in Nat
    BY <1>1 DEF LastRecovered
  <1>4. out \in Seq(0..255) /\ out \in Seq(Byte)
    <2>1. out \in Seq(Byte)
      <3> HIDE DEF top
      <3> QED
        BY <1>1, <1>3, ElementOfSeq
    <2>2. Byte = 0..255
      BY OutputAssumption
    <2> QED
      BY <2>1, <2>2
  <1>5. t \in Seq(0..255)
    <2>1. EscapeCases(zero_count, value)
      BY <1>1, EscapedBytes
    <2> QED
      BY <2>1 DEF EscapeCases
  <1>6. a \in 1..(Len(m_handle) + 1)
    <2>1. starts[Len(starts)] \in UnitStarts
      BY <1>3 DEF UnitStarts
    <2>2. StartCodeAt(starts[Len(starts)])
      BY <2>1 DEF IInv
    <2> QED
      BY <2>2 DEF StartCodeAt
  <1>7. Taken(bytes) = [out |-> out, zeros |-> zero_count]
    BY <1>1, LastPayload DEF LastRecovered
  <1>8. bytes \in Seq(0..255) /\ SubSeq(m_handle', a, Len(m_handle')) = bytes \o t
    <2>1. m_handle \in Seq(Octet) /\ t \in Seq(Octet)
      BY <1>1, <1>5, Zenon DEF Octet
    <2>2. bytes \in Seq(Octet) /\ SubSeq(m_handle \o t, a, Len(m_handle \o t)) = bytes \o t
      <3> HIDE DEF a, t
      <3> QED
        BY <1>6, <2>1, SuffixGrows, Zenon
    <2> HIDE DEF a, t
    <2> QED
      BY <1>2, <2>2, Zenon DEF Octet
  <1>9. Payload(Len(starts))' = bytes \o t
    <2>1. ~(Len(starts') < Len(starts'))
      BY <1>1, <1>2
    <2>2. Payload(Len(starts))' = SubSeq(m_handle', starts'[Len(starts')] + 5, Len(m_handle'))
      BY <2>1, Zenon DEF Payload
    <2> QED
      BY <1>2, <1>8, <2>2
  <1>10. Taken(bytes \o t) = [out |-> Append(out, value), zeros |-> CountAfter(zero_count, value)]
    <2> HIDE DEF bytes, out, t
    <2>1. bytes \in Seq(Octet) /\ out \in Seq(Octet) /\ value \in Octet /\ zero_count \in 0..2
      BY <1>1, <1>4, <1>8, Zenon DEF Octet
    <2> QED
      BY <1>7, <2>1, TakenEscaped DEF t
  <1>11. Len(rbsp') = top /\ rbsp'[Len(rbsp')] = Append(out, value)
    <2>1. Append(out, value) \in Seq(Byte)
      BY <1>4, AppendProperties
    <2> HIDE DEF top, out
    <2>2. rbsp' \in Seq(Seq(Byte)) /\ Len(rbsp') = Len(rbsp) /\ rbsp'[top] = Append(out, value)
      BY <1>1, <1>2, <1>3, <2>1, ExceptSeq
    <2> QED
      BY <2>2 DEF top
  <1> HIDE DEF top, out, bytes, t
  <1>12. Len(starts') = Len(rbsp')
    BY <1>2, <1>3, <1>11
  <1>13. Taken(Payload(Len(starts)))' = [out |-> rbsp'[Len(rbsp')], zeros |-> zero_count']
    BY <1>2, <1>9, <1>10, <1>11
  <1> QED
    BY <1>12, <1>13 DEF LastRecovered

LEMMA RecoveredNext == IInv /\ LastRecovered /\ [Next]_vars => LastRecovered'
  <1> SUFFICES ASSUME IInv, LastRecovered, [Next]_vars PROVE LastRecovered'
    OBVIOUS
  <1>1. ASSUME NEW header \in Header, BeginUnit(header) PROVE LastRecovered'
    BY <1>1, RecoveredBegin
  <1>2. ASSUME NEW value \in Byte, EscapeByte(value) PROVE LastRecovered'
    BY <1>2, RecoveredPush DEF EscapeByte
  <1>3. ASSUME NEW value \in Byte \ {0}, EscapeLastByte(value) PROVE LastRecovered'
    BY <1>3, RecoveredPush DEF EscapeLastByte
  <1>4. CASE UNCHANGED vars
    BY <1>4 DEF vars, LastRecovered, Payload
  <1> QED
    BY <1>1, <1>2, <1>3, <1>4 DEF Next

-----------------------------------------------------------------------------
(* One structure in the buffer.                                            *)

\* The buffer holds the elements and can take more.
Open(buf, elements) == Sound(buf) /\ LaidOut(buf.data, buf.bits, elements)

\* The bytes hold the elements, the stop bit and less than a byte of zeros.
Finished(data, elements) ==
  \E b \in Nat :
    /\ LaidOut(data, b, elements)
    /\ data \in Seq(0..255)
    /\ 8 * Len(data) - (b + 1) \in 0..7
    /\ Bits!BitAt(data, b + 1) = 1
    /\ \A i \in (b + 2)..(8 * Len(data)) : Bits!BitAt(data, i) = 0

LEMMA Continued ==
  ASSUME NEW buf, Sound(buf), NEW bits \in Seq({0, 1}), NEW next, Extends(next, buf, bits, Len(bits))
  PROVE  /\ Continues(next.data, buf.data, buf.bits)
         /\ next.bits <= 8 * Len(next.data)
         /\ HoldsAt(next.data, buf.bits + 1, bits)
  <1> DEFINE a == buf.bits
             n == Len(bits)
             data == next.data
  <1>1. /\ Sound(next) /\ next.bits = a + n
        /\ \A i \in 1..a : Bits!BitAt(data, i) = Bits!BitAt(buf.data, i)
        /\ \A i \in 1..n : Bits!BitAt(data, a + i) = bits[i]
    BY Zenon DEF Extends
  <1>2. a \in Nat /\ n \in Nat
    BY DEF Sound
  <1>3. data \in Seq(0..255) /\ Len(data) = (next.bits + 7) \div 8 /\ Len(data) \in Nat
    BY <1>1 DEF Sound
  <1> HIDE DEF a, n, data
  <1>4. /\ a + n <= 8 * Len(data) /\ a <= 8 * Len(data) /\ (a + 1) + n - 1 <= 8 * Len(data)
        /\ a + 1 \in Nat \ {0}
    BY <1>1, <1>2, <1>3
  <1>5. \A k \in 1..n : Bits!BitAt(data, (a + 1) + k - 1) = bits[k]
    <2> SUFFICES ASSUME NEW k \in 1..n PROVE Bits!BitAt(data, (a + 1) + k - 1) = bits[k]
      OBVIOUS
    <2>1. (a + 1) + k - 1 = a + k
      BY <1>2
    <2> QED
      BY <1>1, <2>1
  <1>6. Continues(data, buf.data, a)
    BY <1>1, <1>3, <1>4, Zenon DEF Continues
  <1>7. HoldsAt(data, a + 1, bits)
    BY <1>3, <1>4, <1>5, Zenon DEF HoldsAt, n
  <1> QED
    BY <1>1, <1>4, <1>6, <1>7 DEF a, data

LEMMA OpenWrite ==
  ASSUME NEW buf, NEW elements, Open(buf, elements), NEW e \in Element
  PROVE  Open(Bits!PushBits(buf, Code(e)), Append(elements, Noted(e)))
  <1> DEFINE next == Bits!PushBits(buf, Code(e))
  <1>1. Sound(buf) /\ LaidOut(buf.data, buf.bits, elements) /\ Code(e) \in Seq({0, 1})
    BY CodeIsBits DEF Open
  <1>2. Extends(next, buf, Code(e), Len(Code(e)))
    BY <1>1, PushAll
  <1> HIDE DEF next
  <1>3. Continues(next.data, buf.data, buf.bits) /\ HoldsAt(next.data, buf.bits + 1, Code(e))
    BY <1>1, <1>2, Continued
  <1>4. LaidOut(next.data, buf.bits, elements)
    BY <1>1, <1>3, LaidOutStays
  <1>5. LaidOut(next.data, buf.bits + Len(Code(e)), Append(elements, Noted(e)))
    BY <1>3, <1>4, LaidOutOne
  <1>6. Sound(next) /\ next.bits = buf.bits + Len(Code(e))
    BY <1>2 DEF Extends
  <1> QED
    BY <1>5, <1>6 DEF Open, next

\* The stop bit and what fills its byte.
LEMMA Trailing ==
  ASSUME NEW buf, buf.bits \in Nat, NEW t, t = Bits!TrailingBits(buf)
  PROVE  /\ t \in Seq({0, 1}) /\ Len(t) \in 1..8 /\ t[1] = 1
         /\ \A i \in 2..Len(t) : t[i] = 0
         /\ (buf.bits + Len(t)) % 8 = 0
  <1> DEFINE used == (buf.bits + 1) % 8
             fill == IF used = 0 THEN 0 ELSE 8 - used
             zeros == [i \in 1..fill |-> 0]
  <1>1. t = <<1>> \o zeros
    BY Zenon DEF Bits!TrailingBits
  <1>2. fill \in 0..7 /\ (buf.bits + (1 + fill)) % 8 = 0
    OBVIOUS
  <1> HIDE DEF fill
  <1>3. zeros \in Seq({0, 1}) /\ Len(zeros) = fill /\ \A i \in 1..fill : zeros[i] = 0
    <2>1. zeros \in [1..fill -> {0, 1}] /\ fill \in Nat
      BY <1>2
    <2>2. zeros \in Seq({0, 1}) /\ Len(zeros) = fill
      <3> HIDE DEF zeros
      <3> QED
        BY <2>1
    <2> QED
      BY <2>2
  <1> HIDE DEF zeros
  <1> DEFINE one == <<1>>
  <1>4. one \in Seq({0, 1}) /\ Len(one) = 1 /\ one[1] = 1
    OBVIOUS
  <1> HIDE DEF one
  <1>5. /\ one \o zeros \in Seq({0, 1}) /\ Len(one \o zeros) = Len(one) + Len(zeros)
        /\ \A i \in 1..(Len(one) + Len(zeros)) :
             (one \o zeros)[i] = IF i <= Len(one) THEN one[i] ELSE zeros[i - Len(one)]
    BY <1>3, <1>4, ConcatProperties
  <1>6. t = one \o zeros
    BY <1>1 DEF one
  <1>7. t \in Seq({0, 1}) /\ Len(t) = 1 + fill
    BY <1>3, <1>4, <1>5, <1>6
  <1>8. t[1] = 1
    BY <1>2, <1>3, <1>4, <1>5, <1>6
  <1>9. ASSUME NEW i \in 2..Len(t)
        PROVE  t[i] = 0
    <2>1. i \in 1..(1 + fill) /\ ~(i <= 1) /\ i - 1 \in 1..fill
      BY <1>2, <1>7
    <2> QED
      BY <1>3, <1>4, <1>5, <1>6, <2>1
  <1> QED
    BY <1>2, <1>7, <1>8, <1>9

LEMMA OpenClose ==
  ASSUME NEW buf, NEW elements, Open(buf, elements)
  PROVE  Finished(Bits!PushBits(buf, Bits!TrailingBits(buf)).data, elements)
  <1> DEFINE a == buf.bits
             t == Bits!TrailingBits(buf)
             n == Len(t)
             next == Bits!PushBits(buf, t)
             data == next.data
  <1>1. Sound(buf) /\ LaidOut(buf.data, a, elements) /\ a \in Nat
    BY DEF Open, Sound
  <1>2. /\ t \in Seq({0, 1}) /\ n \in 1..8 /\ t[1] = 1
        /\ \A i \in 2..n : t[i] = 0
        /\ (a + n) % 8 = 0
    BY <1>1, Trailing, Zenon
  <1> HIDE DEF t
  <1>3. Extends(next, buf, t, n)
    BY <1>1, <1>2, PushAll
  <1> HIDE DEF next
  <1>4. Continues(data, buf.data, a)
    BY <1>1, <1>2, <1>3, Continued
  <1>5. LaidOut(data, a, elements)
    BY <1>1, <1>4, LaidOutStays
  <1>6. /\ Sound(next) /\ next.bits = a + n
        /\ \A i \in 1..n : Bits!BitAt(data, a + i) = t[i]
    BY <1>3 DEF Extends
  <1>7. data \in Seq(0..255) /\ Len(data) = ((a + n) + 7) \div 8
    BY <1>6 DEF Sound
  <1> HIDE DEF data, a, n
  <1>8. 8 * Len(data) = a + n
    <2> DEFINE s == a + n
    <2>1. s \in Nat /\ s % 8 = 0 /\ Len(data) = (s + 7) \div 8
      BY <1>1, <1>2, <1>7
    <2> HIDE DEF s
    <2>2. 8 * Len(data) = s
      BY <2>1
    <2> QED
      BY <2>2 DEF s
  <1>9. Bits!BitAt(data, a + 1) = 1
    BY <1>2, <1>6
  <1>10. ASSUME NEW i \in (a + 2)..(8 * Len(data))
         PROVE  Bits!BitAt(data, i) = 0
    <2> DEFINE j == i - a
    <2>1. j \in 2..n /\ j \in 1..n /\ a + j = i
      BY <1>1, <1>2, <1>8
    <2> HIDE DEF j
    <2> QED
      BY <1>2, <1>6, <2>1
  <1>11. 8 * Len(data) - (a + 1) \in 0..7
    BY <1>1, <1>2, <1>8
  <1>12. Finished(data, elements)
    BY <1>1, <1>5, <1>7, <1>9, <1>10, <1>11, Zenon DEF Finished
  <1> QED
    BY <1>12 DEF data, next, t

\* The stop bit is in the last byte: it is not zero.
LEMMA LastByte ==
  ASSUME NEW data, NEW elements, Finished(data, elements)
  PROVE  data \in Seq(0..255) /\ Len(data) \in Nat \ {0} /\ data[Len(data)] \in 0..255 \ {0}
  <1>1. PICK b \in Nat : /\ data \in Seq(0..255)
                         /\ 8 * Len(data) - (b + 1) \in 0..7
                         /\ Bits!BitAt(data, b + 1) = 1
    BY Zenon DEF Finished
  <1> DEFINE n == Len(data)
             i == b + 1
  <1>2. n \in Nat
    BY <1>1
  <1>3. n # 0 /\ i \in Nat \ {0} /\ (i - 1) \div 8 + 1 = n /\ (i - 1) % 8 \in 0..7
    <2> HIDE DEF n
    <2>1. 8 * n - (b + 1) \in 0..7
      BY <1>1 DEF n
    <2> QED
      BY <1>2, <2>1
  <1>4. data[n] \in 0..255
    <2>1. n \in 1..Len(data)
      BY <1>2, <1>3
    <2> QED
      BY <1>1, <2>1, ElementOfSeq, Zenon
  <1> HIDE DEF n, i
  <1>5. Bits!BitAt(data, i) = BitOf(data[n], (i - 1) % 8)
    BY <1>3, BitIndex
  <1>6. data[n] # 0
    <2> SUFFICES ASSUME data[n] = 0 PROVE FALSE
      OBVIOUS
    <2>1. BitOf(0, (i - 1) % 8) = 0
      BY <1>3, ZeroBits
    <2>2. Bits!BitAt(data, i) = 1
      BY <1>1 DEF i
    <2> QED
      BY <1>5, <2>1, <2>2
  <1> QED
    BY <1>1, <1>2, <1>3, <1>4, <1>6 DEF n

\* What a reader of a finished structure finds.
LEMMA FinishedRead ==
  ASSUME NEW data, NEW elements, Finished(data, elements)
  PROVE  LET read == Bits!Replay(data, elements)
         IN  /\ read[1]
             /\ 8 * Len(data) - read[2] \in 0..7
             /\ Bits!BitAt(data, read[2]) = 1
             /\ \A i \in (read[2] + 1)..(8 * Len(data)) : Bits!BitAt(data, i) = 0
  <1>1. PICK b \in Nat : /\ LaidOut(data, b, elements)
                         /\ 8 * Len(data) - (b + 1) \in 0..7
                         /\ Bits!BitAt(data, b + 1) = 1
                         /\ \A i \in (b + 2)..(8 * Len(data)) : Bits!BitAt(data, i) = 0
    BY Zenon DEF Finished
  <1> DEFINE read == Bits!Replay(data, elements)
  <1>2. read = <<TRUE, b + 1>>
    BY <1>1, Replayed
  <1> HIDE DEF read
  <1>3. read[1] = TRUE /\ read[2] = b + 1 /\ (b + 1) + 1 = b + 2
    BY <1>2
  <1>4. \A i \in (read[2] + 1)..(8 * Len(data)) : Bits!BitAt(data, i) = 0
    BY <1>1, <1>3, Zenon
  <1>5. /\ read[1]
        /\ 8 * Len(data) - read[2] \in 0..7
        /\ Bits!BitAt(data, read[2]) = 1
    BY <1>1, <1>3
  <1> QED
    BY <1>4, <1>5 DEF read

\* An empty buffer.
LEMMA OpenEmpty == Open([data |-> <<>>, bits |-> 0], <<>>)
  <1> DEFINE buf == [data |-> <<>>, bits |-> 0]
             items == <<>>
             ends == [k \in 0..0 |-> 0]
  <1>1. Sound(buf)
    <2>1. buf.data = <<>> /\ buf.bits = 0 /\ <<>> \in Seq(0..255) /\ Len(<<>>) = 0
      OBVIOUS
    <2> QED
      BY <2>1 DEF Sound
  <1>2. LaidOutAs(<<>>, 0, <<>>, <<>>, ends)
    <2>1. <<>> \in Seq(Element) /\ Len(<<>>) = 0
      OBVIOUS
    <2>2. ends \in [0..0 -> 0..0] /\ ends[0] = 0
      OBVIOUS
    <2>3. <<>> = [k \in 1..0 |-> Noted(<<>>[k])]
      OBVIOUS
    <2>4. 1..0 = {}
      OBVIOUS
    <2> HIDE DEF ends
    <2> QED
      BY <2>1, <2>2, <2>3, <2>4 DEF LaidOutAs
  <1>3. LaidOut(<<>>, 0, <<>>)
    BY <1>2, Zenon DEF LaidOut
  <1> QED
    BY <1>1, <1>3 DEF Open

-----------------------------------------------------------------------------
(* The stream carries what was serialised.                                 *)

Notes == {Noted(e) : e \in Element}

\* The buffer of the structure being written, or closed.
BufferHolds == IF closed THEN Finished(m_data, written) ELSE Open(Bits!Buffer, written)

\* The unit of the structure has not been begun,
Serialising ==
  /\ phase = "between"
  /\ Len(units) = structure - 1 /\ Len(rbsp) = structure - 1

\* holds the first bytes of the structure and not yet all,
Escaping ==
  /\ phase = "escaping" /\ closed
  /\ Len(units) = structure - 1 /\ Len(rbsp) = structure
  /\ Len(rbsp[structure]) < Len(m_data)
  /\ rbsp[structure] = SubSeq(m_data, 1, Len(rbsp[structure]))

\* or holds the structure.
Sent ==
  /\ phase = "between" /\ closed
  /\ Len(units) = structure /\ Len(rbsp) = structure
  /\ rbsp[structure] = m_data /\ units[structure] = written

StreamTypes ==
  /\ config \in Configs /\ tick \in Ticks
  /\ structure \in 1..(2 + Len(Payloads))
  /\ to_write \in Seq(Element)
  /\ closed \in BOOLEAN
  /\ units \in Seq(Seq(Notes))

Received == unit_bytes # <<>> => Sent /\ unit_bytes = m_data

StreamInv ==
  /\ StreamTypes
  /\ BufferHolds
  /\ Serialising \/ Escaping \/ Sent
  /\ Received

LEMMA OpenNotes ==
  ASSUME NEW data, NEW bits, NEW elements, LaidOut(data, bits, elements)
  PROVE  elements \in Seq(Notes)
  <1>1. PICK items, ends : LaidOutAs(data, bits, elements, items, ends)
    BY Zenon DEF LaidOut
  <1>2. /\ items \in Seq(Element)
        /\ elements = [k \in 1..Len(items) |-> Noted(items[k])]
    BY <1>1, Zenon DEF LaidOutAs
  <1>3. ASSUME NEW k \in 1..Len(items)
        PROVE  Noted(items[k]) \in Notes
    BY <1>2, ElementOfSeq, Zenon DEF Notes
  <1>4. Len(items) \in Nat /\ elements \in [1..Len(items) -> Notes]
    BY <1>2, <1>3
  <1> QED
    BY <1>4

LEMMA WrittenNotes ==
  ASSUME BufferHolds
  PROVE  written \in Seq(Notes)
  BY OpenNotes, Zenon DEF BufferHolds, Finished, Open

\* The numbers of StreamInv.
LEMMA Places ==
  ASSUME StreamTypes
  PROVE  /\ structure \in Nat /\ structure # 0 /\ structure - 1 # structure
         /\ Len(units) \in Nat /\ Len(Payloads) \in Nat
  <1>1. Len(Payloads) \in Nat
    BY PayloadsAssumption
  <1> QED
    BY <1>1 DEF StreamTypes

LEMMA StreamStarts == StreamInit => StreamInv
  <1> SUFFICES ASSUME StreamInit PROVE StreamInv
    OBVIOUS
  <1>1. /\ Init /\ config \in Configs /\ tick \in Ticks
        /\ structure = 1 /\ to_write = Elements(1) /\ Bits!Init
        /\ units = <<>> /\ unit_bytes = <<>>
    BY DEF StreamInit
  <1>2. 1 \in 1..(2 + Len(Payloads))
    BY PayloadsAssumption
  <1>3. to_write \in Seq(Element)
    BY <1>1, <1>2, StructureElements
  <1>4. StreamTypes
    <2>1. <<>> \in Seq(Seq(Notes))
      OBVIOUS
    <2>2. closed \in BOOLEAN /\ units \in Seq(Seq(Notes)) /\ structure \in 1..(2 + Len(Payloads))
      BY <1>1, <1>2, <2>1 DEF Bits!Init
    <2> QED
      BY <1>1, <1>3, <2>2 DEF StreamTypes
  <1>5. BufferHolds
    BY <1>1, OpenEmpty DEF BufferHolds, Bits!Init, Bits!Buffer
  <1>6. Serialising
    BY <1>1 DEF Serialising, Init
  <1> QED
    BY <1>1, <1>4, <1>5, <1>6 DEF StreamInv, Received

\* A step that writes pushes the code of the next element and notes it.
LEMMA ElementWritten ==
  ASSUME StreamTypes, WriteElement, NEW e, e = Head(to_write), e \in Element
  PROVE  /\ ~closed /\ ~closed' /\ closed' \in BOOLEAN
         /\ m_data' = Bits!PushBits(Bits!Buffer, Code(e)).data
         /\ m_bits_count' = Bits!PushBits(Bits!Buffer, Code(e)).bits
         /\ written' = Append(written, Noted(e))
  <1>1. Bits!Write(e)
    BY DEF WriteElement
  <1>2. CASE e.kind = "u"
    <2>1. Bits!U_V(e.n, e.value)
      BY <1>1, <1>2 DEF Bits!Write
    <2>2. /\ Code(e) = Bits!BitString(e.n, e.value) /\ Kept(e) = e.value % 2^e.n
          /\ Noted(e) = [kind |-> "u", n |-> e.n, value |-> Kept(e)]
      BY <1>2 DEF Code, Noted, Kept, Element
    <2> QED
      BY <2>1, <2>2 DEF Bits!U_V, Bits!WriteElement, Bits!SetBuffer, StreamTypes
  <1>3. CASE e.kind = "ue"
    <2>1. Bits!UE_V(e.value)
      BY <1>1, <1>3 DEF Bits!Write
    <2>2. /\ Code(e) = Bits!UEBits(e.value) /\ Kept(e) = e.value
          /\ Noted(e) = [kind |-> "ue", n |-> 0, value |-> Kept(e)]
      BY <1>3 DEF Code, Noted, Kept, Element
    <2> QED
      BY <2>1, <2>2 DEF Bits!UE_V, Bits!WriteElement, Bits!SetBuffer, StreamTypes
  <1>4. CASE e.kind = "se"
    <2>1. Bits!SE_V(e.value)
      BY <1>1, <1>4 DEF Bits!Write
    <2>2. /\ Code(e) = Bits!SEBits(e.value) /\ Kept(e) = e.value
          /\ Noted(e) = [kind |-> "se", n |-> 0, value |-> Kept(e)]
      BY <1>4 DEF Code, Noted, Kept, Element
    <2> QED
      BY <2>1, <2>2 DEF Bits!SE_V, Bits!WriteElement, Bits!SetBuffer, StreamTypes
  <1> QED
    BY <1>1, <1>2, <1>3, <1>4 DEF Bits!Write

LEMMA WriteKeeps ==
  ASSUME StreamInv, WriteElement
  PROVE  StreamInv' /\ UNCHANGED vars
  <1> DEFINE e == Head(to_write)
             next == Bits!PushBits(Bits!Buffer, Code(e))
  <1>1. /\ to_write # <<>> /\ to_write' = Tail(to_write) /\ Bits!Write(e)
        /\ UNCHANGED <<m_handle, phase, zero_count, starts, rbsp>>
        /\ UNCHANGED <<config, tick, structure, units, unit_bytes>>
    BY DEF WriteElement, vars, receiverVars
  <1>2. StreamTypes /\ BufferHolds /\ Received
    BY DEF StreamInv
  <1>3. e \in Element /\ to_write' \in Seq(Element)
    BY <1>1, <1>2 DEF StreamTypes
  <1> HIDE DEF e
  <1>4. ~closed /\ ~closed' /\ closed' \in BOOLEAN
        /\ m_data' = next.data /\ m_bits_count' = next.bits
        /\ written' = Append(written, Noted(e))
    BY <1>2, <1>3, ElementWritten DEF e, next
  <1>5. Open(next, written')
    BY <1>2, <1>3, <1>4, OpenWrite DEF BufferHolds
  <1> HIDE DEF next
  <1>6. next = [data |-> next.data, bits |-> next.bits]
    BY <1>5 DEF Open, Sound
  <1>7. BufferHolds'
    BY <1>4, <1>5, <1>6 DEF BufferHolds, Bits!Buffer
  <1>8. Serialising /\ Serialising'
    BY <1>1, <1>4 DEF StreamInv, Serialising, Escaping, Sent
  <1>9. unit_bytes = <<>>
    BY <1>2, <1>4 DEF Received, Sent
  <1>10. StreamTypes'
    BY <1>1, <1>2, <1>3, <1>4 DEF StreamTypes
  <1> QED
    BY <1>1, <1>7, <1>8, <1>9, <1>10 DEF StreamInv, Received, vars

LEMMA EncodeKeeps ==
  ASSUME StreamInv, EncodeMacroblocks
  PROVE  StreamInv' /\ UNCHANGED vars
  <1>1. /\ UNCHANGED <<m_handle, phase, zero_count, starts, rbsp>>
        /\ UNCHANGED <<m_data, m_bits_count, written, closed>>
        /\ UNCHANGED <<config, tick, structure, units, unit_bytes>>
    BY DEF EncodeMacroblocks, vars, bitVars, receiverVars
  <1>2. PICK payload \in Payloads[structure - 2] : to_write' = payload /\ structure > 2
    BY DEF EncodeMacroblocks
  <1>3. payload \in Seq(Element)
    <2>1. structure - 2 \in 1..Len(Payloads)
      BY <1>2, Places DEF StreamInv, StreamTypes
    <2>2. Payloads[structure - 2] \in SUBSET Seq(Element)
      BY <2>1, PayloadsAssumption, ElementOfSeq, Zenon
    <2> QED
      BY <2>2
  <1>4. StreamTypes'
    BY <1>1, <1>2, <1>3 DEF StreamInv, StreamTypes
  <1>5. BufferHolds' /\ (Serialising \/ Escaping \/ Sent)' /\ Received'
    BY <1>1 DEF StreamInv, BufferHolds, Bits!Buffer, Serialising, Escaping, Sent, Received
  <1> QED
    BY <1>1, <1>4, <1>5 DEF StreamInv, vars

LEMMA CloseKeeps ==
  ASSUME StreamInv, CloseStructure
  PROVE  StreamInv' /\ UNCHANGED vars
  <1> DEFINE next == Bits!PushBits(Bits!Buffer, Bits!TrailingBits(Bits!Buffer))
  <1>1. /\ UNCHANGED <<m_handle, phase, zero_count, starts, rbsp>>
        /\ UNCHANGED <<config, tick, structure, to_write, units, unit_bytes>>
    BY DEF CloseStructure, vars, receiverVars
  <1>2. ~closed /\ closed' = TRUE /\ m_data' = next.data /\ written' = written
    BY DEF CloseStructure, Bits!SODB2RBSP, Bits!SetBuffer
  <1>3. Finished(next.data, written)
    BY <1>2, OpenClose DEF StreamInv, BufferHolds
  <1> HIDE DEF next
  <1>4. BufferHolds'
    BY <1>2, <1>3 DEF BufferHolds
  <1>5. Serialising /\ Serialising'
    BY <1>1, <1>2 DEF StreamInv, Serialising, Escaping, Sent
  <1>6. unit_bytes = <<>>
    BY <1>2 DEF StreamInv, Received, Sent
  <1>7. StreamTypes'
    BY <1>1, <1>2 DEF StreamInv, StreamTypes
  <1> QED
    BY <1>1, <1>4, <1>5, <1>6, <1>7 DEF StreamInv, Received, vars

\* Nalu's header bytes are the ones NalStream begins units with.
LEMMA HeadersAllowed == NalHeader(structure) \in Header
  BY OutputAssumption DEF NalHeader

LEMMA BeginKeeps ==
  ASSUME StreamInv, IInv, BeginNal
  PROVE  StreamInv' /\ Next
  <1>1. /\ closed /\ Len(units) < structure /\ BeginUnit(NalHeader(structure))
        /\ UNCHANGED <<m_data, m_bits_count, written, closed>>
        /\ UNCHANGED <<config, tick, structure, to_write, units, unit_bytes>>
    BY DEF BeginNal, bitVars, receiverVars
  <1>2. Next
    BY <1>1, HeadersAllowed DEF Next
  <1>3. StreamTypes /\ structure \in Nat /\ rbsp \in Seq(Seq(Byte))
    BY Places DEF StreamInv, IInv, TypeOK
  <1>4. Serialising /\ ~Sent
    BY <1>1, <1>3 DEF StreamInv, Serialising, Escaping, Sent, BeginUnit
  <1>5. rbsp' = Append(rbsp, <<>>) /\ phase' = "escaping"
    BY <1>1 DEF BeginUnit
  <1>6. Len(rbsp') = structure /\ rbsp'[structure] = <<>>
    <2>1. <<>> \in Seq(Byte)
      OBVIOUS
    <2>2. Len(rbsp') = Len(rbsp) + 1 /\ rbsp'[Len(rbsp) + 1] = <<>>
      BY <1>3, <1>5, <2>1, AppendProperties
    <2>3. Len(rbsp) + 1 = structure
      BY <1>3, <1>4 DEF Serialising
    <2> QED
      BY <2>2, <2>3
  <1>7. m_data \in Seq(0..255) /\ Len(m_data) \in Nat /\ Len(m_data) # 0
    BY <1>1, LastByte DEF StreamInv, BufferHolds
  <1>8. Len(<<>>) = 0 /\ SubSeq(m_data, 1, 0) = <<>>
    BY <1>7
  <1>9. Escaping'
    BY <1>1, <1>4, <1>5, <1>6, <1>7, <1>8 DEF Escaping, Serialising
  <1>10. StreamTypes' /\ BufferHolds'
    BY <1>1 DEF StreamInv, StreamTypes, BufferHolds, Bits!Buffer
  <1>11. unit_bytes' = <<>>
    BY <1>1, <1>4 DEF StreamInv, Received
  <1> QED
    BY <1>2, <1>9, <1>10, <1>11 DEF StreamInv, Received

\* What an iteration of the escaping loop adds to the unit's RBSP.
LEMMA RbspGrows ==
  ASSUME StreamInv, IInv, phase = "escaping", PushValue(m_data[index])
  PROVE  /\ m_data \in Seq(0..255) /\ index \in 1..Len(m_data) /\ m_data[index] \in Byte
         /\ Escaping /\ Len(rbsp') = structure
         /\ Len(rbsp'[structure]) = index
         /\ rbsp'[structure] = SubSeq(m_data, 1, index)
  <1> DEFINE out == rbsp[structure]
             n == Len(out)
  <1>1. Escaping /\ Len(rbsp) = structure /\ n < Len(m_data) /\ out = SubSeq(m_data, 1, n) /\ closed
    BY DEF StreamInv, Serialising, Escaping, Sent
  <1>2. rbsp \in Seq(Seq(Byte)) /\ structure \in 1..Len(rbsp) /\ Byte = 0..255
    <2>1. structure \in Nat /\ structure # 0
      BY Places DEF StreamInv
    <2>2. rbsp \in Seq(Seq(Byte))
      BY Zenon DEF IInv, TypeOK
    <2> QED
      BY <1>1, <2>1, <2>2, OutputAssumption
  <1>3. m_data \in Seq(0..255)
    BY <1>1, LastByte DEF StreamInv, BufferHolds
  <1>4. out \in Seq(Byte) /\ n \in Nat
    BY <1>2, ElementOfSeq
  <1>5. index = n + 1
    BY <1>1 DEF index
  <1>6. index \in 1..Len(m_data) /\ index \in Nat
    <2> HIDE DEF n
    <2> QED
      BY <1>1, <1>3, <1>4, <1>5
  <1>7. m_data[index] \in Byte
    BY <1>2, <1>3, <1>6, ElementOfSeq, Zenon
  <1>8. rbsp' = [rbsp EXCEPT ![structure] = Append(out, m_data[index])]
    BY <1>1 DEF PushValue
  <1>9. Append(out, m_data[index]) = SubSeq(m_data, 1, index)
    <2>1. SubSeq(m_data, 1, n + 1) = Append(SubSeq(m_data, 1, n), m_data[n + 1])
      <3> HIDE DEF n
      <3>1. /\ n \in 0..Len(m_data) /\ n + 1 \in 1..Len(m_data) /\ 1 \in 1..Len(m_data) + 1
            /\ n + 1 >= 1
        BY <1>1, <1>3, <1>4
      <3> QED
        BY <1>3, <1>4, <3>1, SubSeqRecursiveSecond
    <2> QED
      BY <1>1, <1>5, <2>1
  <1> HIDE DEF index
  <1>10. Append(out, m_data[index]) \in Seq(Byte) /\ Len(Append(out, m_data[index])) = index
    <2> HIDE DEF out
    <2> QED
      BY <1>4, <1>5, <1>7, AppendProperties DEF n
  <1> HIDE DEF out, n
  <1>11. Len(rbsp') = Len(rbsp) /\ rbsp'[structure] = Append(out, m_data[index])
    BY <1>2, <1>8, <1>10, ExceptSeq
  <1> QED
    BY <1>1, <1>3, <1>6, <1>7, <1>9, <1>10, <1>11

LEMMA EscapeNextKeeps ==
  ASSUME StreamInv, IInv, EscapeNext
  PROVE  StreamInv' /\ Next
  <1>1. /\ phase = "escaping" /\ index < Len(m_data) /\ EscapeByte(m_data[index])
        /\ UNCHANGED <<m_data, m_bits_count, written, closed>>
        /\ UNCHANGED <<config, tick, structure, to_write, units, unit_bytes>>
    BY DEF EscapeNext, bitVars, receiverVars
  <1>2. PushValue(m_data[index]) /\ phase' = "escaping"
    BY <1>1 DEF EscapeByte
  <1>3. /\ m_data[index] \in Byte
        /\ Escaping /\ Len(rbsp') = structure
        /\ Len(rbsp'[structure]) = index
        /\ rbsp'[structure] = SubSeq(m_data, 1, index)
    BY <1>1, <1>2, RbspGrows
  <1> HIDE DEF index
  <1>4. Next
    BY <1>1, <1>3 DEF Next
  <1>5. Escaping'
    BY <1>1, <1>2, <1>3 DEF Escaping
  <1>6. StreamTypes' /\ BufferHolds'
    BY <1>1 DEF StreamInv, StreamTypes, BufferHolds, Bits!Buffer
  <1>7. unit_bytes' = <<>>
    BY <1>1 DEF StreamInv, Received, Sent
  <1> QED
    BY <1>4, <1>5, <1>6, <1>7 DEF StreamInv, Received

LEMMA EscapeLastKeeps ==
  ASSUME StreamInv, IInv, EscapeLast
  PROVE  StreamInv' /\ Next
  <1>1. /\ phase = "escaping" /\ index = Len(m_data) /\ EscapeLastByte(m_data[index])
        /\ units' = Append(units, written)
        /\ UNCHANGED <<m_data, m_bits_count, written, closed>>
        /\ UNCHANGED <<config, tick, structure, to_write, unit_bytes>>
    BY DEF EscapeLast, bitVars, receiverVars
  <1>2. PushValue(m_data[index]) /\ phase' = "between"
    BY <1>1 DEF EscapeLastByte
  <1>3. /\ m_data \in Seq(0..255) /\ m_data[index] \in Byte
        /\ Escaping /\ Len(rbsp') = structure
        /\ rbsp'[structure] = SubSeq(m_data, 1, index)
    BY <1>1, <1>2, RbspGrows
  <1> HIDE DEF index
  <1>4. Next
    <2>1. m_data[index] # 0
      BY <1>1, <1>3, LastByte DEF StreamInv, BufferHolds, Escaping
    <2>2. m_data[index] \in Byte \ {0}
      BY <1>3, <2>1
    <2> QED
      BY <1>1, <2>2, Zenon DEF Next
  <1>5. rbsp'[structure] = m_data
    <2>1. SubSeq(m_data, 1, Len(m_data)) = m_data
      BY <1>3, SubSeqFull
    <2> QED
      BY <1>1, <1>3, <2>1
  <1>6. units' \in Seq(Seq(Notes)) /\ Len(units') = structure /\ units'[structure] = written
    <2>1. written \in Seq(Notes) /\ StreamTypes
      BY WrittenNotes DEF StreamInv
    <2>2. units \in Seq(Seq(Notes)) /\ Len(units) + 1 = structure
      BY <1>3, <2>1, Places DEF StreamTypes, Escaping
    <2> QED
      BY <1>1, <2>1, <2>2, AppendProperties
  <1>7. Sent'
    BY <1>1, <1>2, <1>3, <1>5, <1>6 DEF Sent, Escaping
  <1>8. StreamTypes' /\ BufferHolds'
    BY <1>1, <1>6 DEF StreamInv, StreamTypes, BufferHolds, Bits!Buffer
  <1>9. unit_bytes' = <<>>
    BY <1>1 DEF StreamInv, Received, Sent
  <1> QED
    BY <1>4, <1>7, <1>8, <1>9 DEF StreamInv, Received

LEMMA NextStructureKeeps ==
  ASSUME StreamInv, NextStructure
  PROVE  StreamInv' /\ UNCHANGED vars
  <1>1. /\ Len(units) = structure /\ structure < 2 + Len(Payloads) /\ Bits!Reset
        /\ structure' = structure + 1 /\ to_write' = Elements(structure + 1) /\ unit_bytes' = <<>>
        /\ UNCHANGED <<m_handle, phase, zero_count, starts, rbsp>>
        /\ UNCHANGED <<config, tick, units>>
    BY DEF NextStructure, vars
  <1>2. StreamTypes /\ structure \in Nat /\ structure - 1 # structure /\ Len(Payloads) \in Nat
    BY Places DEF StreamInv
  <1>3. structure' \in 1..(2 + Len(Payloads)) /\ structure' - 1 = structure
    BY <1>1, <1>2
  <1>4. to_write' \in Seq(Element)
    <2>1. config \in Configs /\ tick \in Ticks /\ structure + 1 \in 1..(2 + Len(Payloads))
      BY <1>1, <1>2, <1>3 DEF StreamTypes
    <2>2. Elements(structure + 1) \in Seq(Element)
      BY <2>1, StructureElements
    <2> QED
      BY <1>1, <2>2
  <1>5. StreamTypes'
    BY <1>1, <1>2, <1>3, <1>4 DEF StreamTypes, Bits!Reset
  <1>6. BufferHolds'
    BY <1>1, OpenEmpty DEF BufferHolds, Bits!Reset, Bits!Buffer
  <1>7. Sent
    BY <1>1, <1>2 DEF StreamInv, Serialising, Escaping
  <1>8. Serialising'
    BY <1>1, <1>3, <1>7 DEF Sent, Serialising
  <1> QED
    BY <1>1, <1>5, <1>6, <1>8 DEF StreamInv, Received, vars

LEMMA ReceiveKeeps ==
  ASSUME StreamInv, IInv, LastRecovered, ReceiveUnit
  PROVE  StreamInv' /\ UNCHANGED vars
  <1>1. /\ Len(units) = structure /\ unit_bytes' = Unescape(Payload(structure))
        /\ UNCHANGED <<m_handle, phase, zero_count, starts, rbsp>>
        /\ UNCHANGED <<m_data, m_bits_count, written, closed>>
        /\ UNCHANGED <<config, tick, structure, to_write, units>>
    BY DEF ReceiveUnit, writerVars, vars, bitVars
  <1>2. structure \in Nat /\ structure # 0 /\ structure - 1 # structure
    BY Places DEF StreamInv
  <1>3. Sent
    BY <1>1, <1>2 DEF StreamInv, Serialising, Escaping
  <1>4. Len(starts) = structure /\ rbsp # <<>> /\ Len(rbsp) = structure
    <2>1. rbsp # <<>>
      BY <1>2, <1>3 DEF Sent
    <2> QED
      BY <1>3, <2>1 DEF Sent, LastRecovered
  <1>5. Unescape(Payload(structure)) = m_data
    BY <1>3, <1>4 DEF LastRecovered, Unescape, Sent
  <1>6. StreamTypes' /\ BufferHolds' /\ Sent'
    BY <1>1, <1>3 DEF StreamInv, StreamTypes, BufferHolds, Bits!Buffer, Sent
  <1>7. Received'
    BY <1>1, <1>5, <1>6 DEF Received
  <1> QED
    BY <1>1, <1>6, <1>7 DEF StreamInv, vars

LEMMA OthersKeep ==
  ASSUME StreamInv, ParseUnit \/ UNCHANGED <<writerVars, receiverVars>>
  PROVE  StreamInv' /\ UNCHANGED vars
  <1>1. /\ UNCHANGED <<m_handle, phase, zero_count, starts, rbsp>>
        /\ UNCHANGED <<m_data, m_bits_count, written, closed>>
        /\ UNCHANGED <<config, tick, structure, to_write, units, unit_bytes>>
    BY DEF ParseUnit, writerVars, receiverVars, vars, bitVars
  <1>2. StreamTypes' /\ BufferHolds' /\ Received' /\ (Serialising \/ Escaping \/ Sent)'
    BY <1>1 DEF StreamInv, StreamTypes, BufferHolds, Bits!Buffer, Received, Serialising, Escaping, Sent
  <1> QED
    BY <1>1, <1>2 DEF StreamInv, vars

\* Every step of the stream is one of NalStream's or leaves its state alone.
LEMMA StreamStep ==
  ASSUME StreamInv, IInv, LastRecovered, [StreamNext]_<<writerVars, receiverVars>>
  PROVE  StreamInv' /\ [Next]_vars
  <1>1. CASE WriteElement
    BY <1>1, WriteKeeps
  <1>2. CASE EncodeMacroblocks
    BY <1>2, EncodeKeeps
  <1>3. CASE CloseStructure
    BY <1>3, CloseKeeps
  <1>4. CASE BeginNal
    BY <1>4, BeginKeeps
  <1>5. CASE EscapeNext
    BY <1>5, EscapeNextKeeps
  <1>6. CASE EscapeLast
    BY <1>6, EscapeLastKeeps
  <1>7. CASE NextStructure
    BY <1>7, NextStructureKeeps
  <1>8. CASE ReceiveUnit
    BY <1>8, ReceiveKeeps
  <1>9. CASE ParseUnit \/ UNCHANGED <<writerVars, receiverVars>>
    BY <1>9, OthersKeep
  <1> QED
    BY <1>1, <1>2, <1>3, <1>4, <1>5, <1>6, <1>7, <1>8, <1>9 DEF StreamNext

StreamIInv == StreamInv /\ IInv /\ LastRecovered

LEMMA StreamIInvHolds == StreamSpec => []StreamIInv
  <1>1. StreamInit => StreamIInv
    BY StreamStarts, InitIInv, RecoveredInit DEF StreamInit, StreamIInv
  <1>2. StreamIInv /\ [StreamNext]_<<writerVars, receiverVars>> => StreamIInv'
    BY StreamStep, NextIInv, RecoveredNext DEF StreamIInv
  <1> QED
    BY <1>1, <1>2, PTL DEF StreamSpec

\* What the encoder writes is a NalStream whatever is serialised: a structure's
\* last byte holds its stop bit, so no unit ends in a zero byte
\* (CodingUtil::SODB2EBSP and Nalu::Serial).
THEOREM StreamIsNalStream == StreamSpec => ImplementsNalStream
  <1>1. StreamInit => Init
    BY DEF StreamInit
  <1>2. StreamIInv /\ [StreamNext]_<<writerVars, receiverVars>> => [Next]_vars
    BY StreamStep DEF StreamIInv
  <1>3. StreamSpec => Spec
    BY <1>1, <1>2, StreamIInvHolds, PTL DEF StreamSpec, Spec
  <1> QED
    BY <1>3 DEF ImplementsNalStream

\* The start codes in the file are those of its units, and nothing inside a unit
\* looks like one, whatever the structures hold.
THEOREM StreamDelimited == StreamSpec => [](StartCodesDelimitUnits /\ NoEmulation)
  <1>1. StreamSpec => Spec
    BY StreamIsNalStream DEF ImplementsNalStream
  <1> QED
    BY <1>1, StartCodesFound, EmulationPrevented, PTL

\* A receiver that unescapes a unit reads back every element of the structure
\* and finds the stop bit behind the last, whatever elements the parameter sets,
\* headers and macroblocks write.
THEOREM ElementsRecovered == StreamSpec => []ReceiverRecoversElements
  <1>1. StreamIInv => ReceiverRecoversElements
    <2> SUFFICES ASSUME StreamIInv, unit_bytes # <<>>
                 PROVE  LET read == Bits!Replay(unit_bytes, units[structure])
                        IN  /\ read[1]
                            /\ 8 * Len(unit_bytes) - read[2] \in 0..7
                            /\ Bits!BitAt(unit_bytes, read[2]) = 1
                            /\ \A i \in (read[2] + 1)..(8 * Len(unit_bytes)) :
                                 Bits!BitAt(unit_bytes, i) = 0
      BY Zenon DEF ReceiverRecoversElements
    <2>1. Finished(unit_bytes, units[structure])
      BY DEF StreamIInv, StreamInv, Received, Sent, BufferHolds
    <2> QED
      BY <2>1, FinishedRead, Zenon
  <1> QED
    BY <1>1, StreamIInvHolds, PTL

-----------------------------------------------------------------------------
(* A receiver parses headers.                                              *)

LEMMA OverriddenValues ==
  ASSUME NEW f, NEW g
  PROVE  /\ DOMAIN Overridden(f, g) = DOMAIN f \cup DOMAIN g
         /\ \A x \in DOMAIN g : Overridden(f, g)[x] = g[x]
         /\ \A x \in DOMAIN f : x \notin DOMAIN g => Overridden(f, g)[x] = f[x]
  BY Zenon DEF Overridden

\* The fields after each entry of a syntax table.
ParseSteps(f, syntax, bytes, known) ==
  /\ f[0] = Overridden(known, [end |-> 1])
  /\ \A k \in 1..Len(syntax) : f[k] = ReadField(bytes, f[k - 1], syntax[k])

\* The equation of Parse.
Parses(parsed, syntax, bytes, known) ==
  parsed = [k \in 0..Len(syntax) |->
              IF k = 0 THEN Overridden(known, [end |-> 1]) ELSE ReadField(bytes, parsed[k - 1], syntax[k])]

\* Parse is what reading entry by entry gives.
LEMMA Parsed ==
  ASSUME NEW syntax, Len(syntax) \in Nat, NEW bytes, NEW known
  PROVE  \E f : /\ ParseSteps(f, syntax, bytes, known)
                /\ Parse(syntax, bytes, known) = f[Len(syntax)]
<1> DEFINE n == Len(syntax)
           base == Overridden(known, [end |-> 1])
           Step(x, k) == ReadField(bytes, x, syntax[k])
           Runs(f, m) == f = [k \in 0..m |-> IF k = 0 THEN base ELSE Step(f[k - 1], k)]
           S == {m \in Nat : \E f : Runs(f, m)}
           g == CHOOSE parsed : Parses(parsed, syntax, bytes, known)
<1> HIDE DEF base, Step
<1>1. 0 \in S
  <2>1. Runs([k \in 0..0 |-> base], 0)
    <3>1. \A k \in 0..0 : k = 0
      OBVIOUS
    <3> QED
      BY <3>1
  <2> QED
    BY <2>1
<1>2. ASSUME NEW m \in Nat, m \in S
      PROVE  m + 1 \in S
  <2>1. PICK f : Runs(f, m)
    BY <1>2
  <2> DEFINE last == Step(f[m], m + 1)
             h == [k \in 0..(m + 1) |-> IF k <= m THEN f[k] ELSE last]
  <2>2. \A k \in 0..m : f[k] = IF k = 0 THEN base ELSE Step(f[k - 1], k)
    BY <2>1, Zenon
  <2>3. \A k \in 0..(m + 1) : h[k] = IF k = 0 THEN base ELSE Step(h[k - 1], k)
    <3> SUFFICES ASSUME NEW k \in 0..(m + 1)
                 PROVE  h[k] = IF k = 0 THEN base ELSE Step(h[k - 1], k)
      OBVIOUS
    <3>1. CASE k = 0
      <4>1. 0 <= m /\ 0 \in 0..m /\ 0 \in 0..(m + 1)
        OBVIOUS
      <4> QED
        BY <2>2, <3>1, <4>1
    <3>2. CASE k # 0 /\ k <= m
      <4>1. k \in 0..m /\ k - 1 \in 0..(m + 1) /\ k - 1 <= m
        BY <3>2
      <4>2. h[k] = f[k] /\ h[k - 1] = f[k - 1]
        BY <3>2, <4>1
      <4> HIDE DEF h
      <4> QED
        BY <2>2, <3>2, <4>1, <4>2
    <3>3. CASE k = m + 1
      <4>1. m \in 0..(m + 1) /\ ~(m + 1 <= m) /\ k # 0 /\ k - 1 = m /\ m <= m
        BY <3>3
      <4>2. h[k] = last /\ h[k - 1] = f[m]
        BY <3>3, <4>1
      <4> HIDE DEF h
      <4> QED
        BY <3>3, <4>1, <4>2
    <3> QED
      BY <3>1, <3>2, <3>3
  <2>4. h = [k \in 0..(m + 1) |-> h[k]]
    OBVIOUS
  <2> HIDE DEF h
  <2>5. Runs(h, m + 1)
    BY <2>3, <2>4, Zenon
  <2> QED
    BY <2>5
<1> HIDE DEF S
<1>3. n \in S
  BY <1>1, <1>2, Induction
<1>4. Parses(g, syntax, bytes, known)
  <2>1. PICK f : Runs(f, n)
    BY <1>3 DEF S
  <2>2. Parses(f, syntax, bytes, known)
    BY <2>1, Zenon DEF Parses, base, Step
  <2> QED
    BY <2>2, Zenon
<1> HIDE DEF g
<1>5. ParseSteps(g, syntax, bytes, known)
  <2>1. 0 \in 0..n /\ \A k \in 1..n : k \in 0..n /\ k # 0
    OBVIOUS
  <2> QED
    BY <1>4, <2>1, Zenon DEF Parses, ParseSteps
<1>6. Parse(syntax, bytes, known) = g[n]
  BY Zenon DEF Parse, Parses, g
<1> QED
  BY <1>5, <1>6

\* A field that is there has the value read and moves the position,
LEMMA FieldRead ==
  ASSUME NEW bytes, NEW f, NEW field, NEW value, NEW next,
         field.name # "end", Present(field.name, f),
         Bits!Read(bytes, field.kind, Width(field, f), f["end"]) = <<value, next>>
  PROVE  /\ ReadField(bytes, f, field)["end"] = next
         /\ field.name \in DOMAIN ReadField(bytes, f, field)
         /\ ReadField(bytes, f, field)[field.name] = value
<1> DEFINE r == Bits!Read(bytes, field.kind, Width(field, f), f["end"])
           g == [x \in {field.name, "end"} |-> IF x = "end" THEN r[2] ELSE r[1]]
<1>1. ReadField(bytes, f, field) = Overridden(f, g)
  BY Zenon DEF ReadField
<1>2. r[1] = value /\ r[2] = next
  OBVIOUS
<1> HIDE DEF r
<1>3. DOMAIN g = {field.name, "end"} /\ g["end"] = next /\ g[field.name] = value
  BY <1>2
<1> HIDE DEF g
<1>4. /\ "end" \in DOMAIN g /\ field.name \in DOMAIN g
  BY <1>3
<1> DEFINE o == Overridden(f, g)
<1>5. /\ DOMAIN o = DOMAIN f \cup DOMAIN g
      /\ \A y \in DOMAIN g : o[y] = g[y]
      /\ \A y \in DOMAIN f : y \notin DOMAIN g => o[y] = f[y]
  BY OverriddenValues
<1> HIDE DEF o
<1>6. o["end"] = next /\ o[field.name] = value /\ field.name \in DOMAIN o
  BY <1>3, <1>4, <1>5
<1> QED
  BY <1>1, <1>6, Zenon DEF o

\* and one that is not, or another one, changes nothing.
LEMMA FieldPassed ==
  ASSUME NEW bytes, NEW f, NEW field, NEW x \in DOMAIN f, x # "end", x # field.name
  PROVE  x \in DOMAIN ReadField(bytes, f, field) /\ ReadField(bytes, f, field)[x] = f[x]
<1> DEFINE r == Bits!Read(bytes, field.kind, Width(field, f), f["end"])
           g == [y \in {field.name, "end"} |-> IF y = "end" THEN r[2] ELSE r[1]]
<1>1. CASE Present(field.name, f)
  <2>1. ReadField(bytes, f, field) = Overridden(f, g)
    BY <1>1, Zenon DEF ReadField
  <2>2. DOMAIN g = {field.name, "end"}
    OBVIOUS
  <2> HIDE DEF g
  <2>3. x \notin DOMAIN g
    BY <2>2
  <2> DEFINE o == Overridden(f, g)
  <2>4. /\ DOMAIN o = DOMAIN f \cup DOMAIN g
        /\ \A y \in DOMAIN g : o[y] = g[y]
        /\ \A y \in DOMAIN f : y \notin DOMAIN g => o[y] = f[y]
    BY OverriddenValues
  <2> HIDE DEF o
  <2>5. x \in DOMAIN o /\ o[x] = f[x]
    BY <2>3, <2>4
  <2> QED
    BY <2>1, <2>5, Zenon DEF o
<1>2. CASE ~Present(field.name, f)
  BY <1>2, Zenon DEF ReadField
<1> QED
  BY <1>1, <1>2

\* A field keeps its value to the end of the unit if no later entry has its name.
LEMMA FieldStays ==
  ASSUME NEW syntax, Len(syntax) \in Nat, NEW bytes, NEW known, NEW f,
         ParseSteps(f, syntax, bytes, known),
         NEW j \in 0..Len(syntax), NEW x \in DOMAIN f[j], x # "end",
         \A i \in (j + 1)..Len(syntax) : syntax[i].name # x
  PROVE  \A k \in j..Len(syntax) : x \in DOMAIN f[k] /\ f[k][x] = f[j][x]
<1> DEFINE n == Len(syntax)
           S == {m \in Nat : j + m <= n => x \in DOMAIN f[j + m] /\ f[j + m][x] = f[j][x]}
<1>1. 0 \in S
  <2>1. j + 0 = j
    OBVIOUS
  <2> QED
    BY <2>1
<1>2. ASSUME NEW m \in Nat, m \in S
      PROVE  m + 1 \in S
  <2> SUFFICES ASSUME j + (m + 1) <= n
               PROVE  x \in DOMAIN f[j + (m + 1)] /\ f[j + (m + 1)][x] = f[j][x]
    OBVIOUS
  <2> DEFINE k == j + (m + 1)
  <2>1. k \in 1..n /\ k \in (j + 1)..n /\ k - 1 = j + m /\ j + m <= n
    OBVIOUS
  <2> HIDE DEF k
  <2>2. x \in DOMAIN f[k - 1] /\ f[k - 1][x] = f[j][x]
    BY <1>2, <2>1
  <2>3. f[k] = ReadField(bytes, f[k - 1], syntax[k]) /\ x # syntax[k].name
    BY <2>1 DEF ParseSteps
  <2>4. x \in DOMAIN f[k] /\ f[k][x] = f[j][x]
    BY <2>2, <2>3, FieldPassed
  <2> QED
    BY <2>4 DEF k
<1> HIDE DEF S
<1>3. \A m \in Nat : m \in S
  BY <1>1, <1>2, Induction
<1> QED
  <2> SUFFICES ASSUME NEW k \in j..n
               PROVE  x \in DOMAIN f[k] /\ f[k][x] = f[j][x]
    OBVIOUS
  <2>1. k - j \in Nat /\ j + (k - j) = k /\ k <= n
    OBVIOUS
  <2> QED
    BY <1>3, <2>1 DEF S

\* Where each element is read, from the first bit on.
HeaderRead(at, bytes, elements) ==
  /\ at \in [0..Len(elements) -> Nat] /\ at[0] = 1
  /\ \A k \in 1..Len(elements) :
       Bits!Read(bytes, elements[k].kind, elements[k].n, at[k - 1]) = <<Kept(elements[k]), at[k]>>

\* The elements a structure begins with are read where they were written.
LEMMA HeaderFound ==
  ASSUME NEW data, NEW w, Finished(data, w), NEW elements \in Seq(Element),
         Len(elements) <= Len(w), \A k \in 1..Len(elements) : w[k] = Noted(elements[k])
  PROVE  \E at : HeaderRead(at, data, elements)
<1>1. PICK b \in Nat : LaidOut(data, b, w)
  BY Zenon DEF Finished
<1>2. PICK items, ends : LaidOutAs(data, b, w, items, ends)
  BY <1>1 DEF LaidOut
<1> DEFINE n == Len(items)
           m == Len(elements)
           at == [k \in 0..m |-> ends[k] + 1]
<1>3. /\ items \in Seq(Element) /\ n \in Nat /\ m \in Nat
      /\ ends \in [0..n -> 0..b] /\ ends[0] = 0
      /\ w = [k \in 1..n |-> Noted(items[k])]
      /\ \A k \in 1..n : Placed(data, items[k], ends[k - 1], ends[k])
  BY <1>2 DEF LaidOutAs
<1>4. Len(w) = n /\ m <= n
  BY <1>3
<1> HIDE DEF n, m
<1>5. \A k \in 0..m : ends[k] \in Nat /\ at[k] = ends[k] + 1
  BY <1>3, <1>4
<1>6. at \in [0..m -> Nat] /\ at[0] = 1
  BY <1>3, <1>5
<1> HIDE DEF at
<1>7. ASSUME NEW k \in 1..m
      PROVE  Bits!Read(data, elements[k].kind, elements[k].n, at[k - 1]) = <<Kept(elements[k]), at[k]>>
  <2> DEFINE e == items[k]
             first == ends[k - 1]
             last == ends[k]
  <2>1. /\ k \in 1..n /\ k - 1 \in 0..m /\ k \in 0..m
    BY <1>3, <1>4
  <2>2. /\ e \in Element /\ first \in Nat /\ last \in Nat
        /\ at[k - 1] = first + 1 /\ at[k] = last + 1
    <3>1. e \in Element
      BY <1>3, <2>1, ElementOfSeq, Zenon DEF n
    <3> QED
      BY <1>5, <2>1, <3>1
  <2>3. Placed(data, e, first, last) /\ w[k] = Noted(e) /\ w[k] = Noted(elements[k])
    BY <1>3, <2>1 DEF m
  <2> HIDE DEF e, first, last
  <2>4. Len(Code(e)) \in Nat
    BY <2>2, CodeIsBits
  <2>5. Bits!Read(data, e.kind, e.n, first + 1) = <<Kept(e), (first + 1) + Len(Code(e))>>
    BY <2>2, <2>3, ElementRead, Zenon DEF Placed
  <2>6. (first + 1) + Len(Code(e)) = last + 1
    BY <2>2, <2>3, <2>4 DEF Placed
  <2>7. elements[k].kind = e.kind /\ elements[k].n = e.n /\ Kept(elements[k]) = Kept(e)
    BY <2>3 DEF Noted
  <2> QED
    BY <2>2, <2>5, <2>6, <2>7, Zenon
<1> QED
  BY <1>6, <1>7, Zenon DEF HeaderRead, m

\* Replaying elements is comparing one after the other.
LEMMA ReplaySteps ==
  ASSUME NEW bytes, NEW elements, Len(elements) \in Nat
  PROVE  \E f : /\ f[0] = <<TRUE, 1>>
                /\ \A k \in 1..Len(elements) : f[k] = Bits!Compare(bytes, f[k - 1], elements[k])
                /\ Bits!Replay(bytes, elements) = f[Len(elements)]
<1> DEFINE n == Len(elements)
           base == <<TRUE, 1>>
           Step(x, k) == Bits!Compare(bytes, x, elements[k])
           Runs(f, m) == f = [k \in 0..m |-> IF k = 0 THEN base ELSE Step(f[k - 1], k)]
           S == {m \in Nat : \E f : Runs(f, m)}
           g == CHOOSE replayed : Replays(replayed, bytes, elements)
<1> HIDE DEF base, Step
<1>1. 0 \in S
  <2>1. Runs([k \in 0..0 |-> base], 0)
    <3>1. \A k \in 0..0 : k = 0
      OBVIOUS
    <3> QED
      BY <3>1
  <2> QED
    BY <2>1
<1>2. ASSUME NEW m \in Nat, m \in S
      PROVE  m + 1 \in S
  <2>1. PICK f : Runs(f, m)
    BY <1>2
  <2> DEFINE last == Step(f[m], m + 1)
             h == [k \in 0..(m + 1) |-> IF k <= m THEN f[k] ELSE last]
  <2>2. \A k \in 0..m : f[k] = IF k = 0 THEN base ELSE Step(f[k - 1], k)
    BY <2>1, Zenon
  <2>3. \A k \in 0..(m + 1) : h[k] = IF k = 0 THEN base ELSE Step(h[k - 1], k)
    <3> SUFFICES ASSUME NEW k \in 0..(m + 1)
                 PROVE  h[k] = IF k = 0 THEN base ELSE Step(h[k - 1], k)
      OBVIOUS
    <3>1. CASE k = 0
      <4>1. 0 <= m /\ 0 \in 0..m /\ 0 \in 0..(m + 1)
        OBVIOUS
      <4> QED
        BY <2>2, <3>1, <4>1
    <3>2. CASE k # 0 /\ k <= m
      <4>1. k \in 0..m /\ k - 1 \in 0..(m + 1) /\ k - 1 <= m
        BY <3>2
      <4>2. h[k] = f[k] /\ h[k - 1] = f[k - 1]
        BY <3>2, <4>1
      <4> HIDE DEF h
      <4> QED
        BY <2>2, <3>2, <4>1, <4>2
    <3>3. CASE k = m + 1
      <4>1. m \in 0..(m + 1) /\ ~(m + 1 <= m) /\ k # 0 /\ k - 1 = m /\ m <= m
        BY <3>3
      <4>2. h[k] = last /\ h[k - 1] = f[m]
        BY <3>3, <4>1
      <4> HIDE DEF h
      <4> QED
        BY <3>3, <4>1, <4>2
    <3> QED
      BY <3>1, <3>2, <3>3
  <2>4. h = [k \in 0..(m + 1) |-> h[k]]
    OBVIOUS
  <2> HIDE DEF h
  <2>5. Runs(h, m + 1)
    BY <2>3, <2>4, Zenon
  <2> QED
    BY <2>5
<1> HIDE DEF S
<1>3. n \in S
  BY <1>1, <1>2, Induction
<1>4. Replays(g, bytes, elements)
  <2>1. PICK f : Runs(f, n)
    BY <1>3 DEF S
  <2>2. Replays(f, bytes, elements)
    BY <2>1, Zenon DEF Replays, base, Step
  <2> QED
    BY <2>2, Zenon
<1> HIDE DEF g
<1>5. g[0] = <<TRUE, 1>> /\ \A k \in 1..n : g[k] = Bits!Compare(bytes, g[k - 1], elements[k])
  <2>1. 0 \in 0..n /\ \A k \in 1..n : k \in 0..n /\ k # 0
    OBVIOUS
  <2> QED
    BY <1>4, <2>1, Zenon DEF Replays
<1>6. Bits!Replay(bytes, elements) = g[n]
  BY Zenon DEF Bits!Replay, Replays, g
<1> QED
  BY <1>5, <1>6

\* Wherever the values agree or not, replaying ends behind the last element.
LEMMA ReplayEnds ==
  ASSUME NEW at, NEW bytes, NEW elements, Len(elements) \in Nat, HeaderRead(at, bytes, elements)
  PROVE  Bits!Replay(bytes, elements)[2] = at[Len(elements)]
<1> DEFINE n == Len(elements)
<1>1. PICK f : /\ f[0] = <<TRUE, 1>>
               /\ \A k \in 1..n : f[k] = Bits!Compare(bytes, f[k - 1], elements[k])
               /\ Bits!Replay(bytes, elements) = f[n]
  BY ReplaySteps
<1> DEFINE S == {k \in Nat : k <= n => f[k][2] = at[k]}
<1>2. 0 \in S
  BY <1>1 DEF HeaderRead
<1>3. ASSUME NEW k \in Nat, k \in S
      PROVE  k + 1 \in S
  <2> SUFFICES ASSUME k + 1 <= n
               PROVE  f[k + 1][2] = at[k + 1]
    OBVIOUS
  <2> DEFINE e == elements[k + 1]
             r == Bits!Read(bytes, e.kind, e.n, at[k])
  <2>1. k + 1 \in 1..n /\ (k + 1) - 1 = k /\ k <= n
    OBVIOUS
  <2>2. f[k + 1] = Bits!Compare(bytes, f[k], e) /\ f[k][2] = at[k]
    BY <1>1, <1>3, <2>1
  <2>3. r = <<Kept(e), at[k + 1]>>
    BY <2>1 DEF HeaderRead
  <2>4. Bits!Compare(bytes, f[k], e)
          = LET q == Bits!Read(bytes, e.kind, e.n, f[k][2]) IN <<f[k][1] /\ q[1] = e.value, q[2]>>
    BY Zenon DEF Bits!Compare
  <2> HIDE DEF e
  <2>5. f[k + 1] = <<f[k][1] /\ r[1] = e.value, r[2]>>
    BY <2>2, <2>4, Zenon
  <2> HIDE DEF r
  <2>6. r[2] = at[k + 1]
    BY <2>3
  <2>7. <<f[k][1] /\ r[1] = e.value, r[2]>>[2] = r[2]
    OBVIOUS
  <2> QED
    BY <2>5, <2>6, <2>7, Zenon
<1> HIDE DEF S
<1>4. n \in S
  BY <1>2, <1>3, Induction
<1> QED
  BY <1>1, <1>4 DEF S

\* The elements j are a ones of s and then b ones of t.
Joins(j, s, t, a, b) ==
  /\ j \in Seq(Element) /\ Len(j) = a + b
  /\ \A i \in 1..a : j[i] = s[i]
  /\ \A i \in (a + 1)..(a + b) : j[i] = t[i - a]

LEMMA ElementsJoined ==
  ASSUME NEW s \in Seq(Element), NEW t \in Seq(Element), NEW a \in Nat, NEW b \in Nat, Len(s) = a, Len(t) = b
  PROVE  Joins(s \o t, s, t, a, b)
<1>1. s \o t \in Seq(Element) /\ Len(s \o t) = a + b
  BY ConcatProperties
<1>2. \A i \in 1..(a + b) : (s \o t)[i] = IF i <= a THEN s[i] ELSE t[i - a]
  BY ConcatProperties
<1>3. \A i \in 1..a : (s \o t)[i] = s[i]
  BY <1>2
<1>4. ASSUME NEW i \in (a + 1)..(a + b)
      PROVE  (s \o t)[i] = t[i - a]
  <2>1. i \in 1..(a + b) /\ ~(i <= a)
    OBVIOUS
  <2> QED
    BY <1>2, <2>1
<1> QED
  BY <1>1, <1>3, <1>4 DEF Joins

\* The elements f are single bits.
AreFlags(f, values) ==
  /\ f \in Seq(Element) /\ Len(f) = Len(values)
  /\ \A i \in 1..Len(values) : f[i] = U(1, values[i])

LEMMA FlagItems ==
  ASSUME NEW values \in Seq({0, 1})
  PROVE  AreFlags(Flags(values), values)
<1>1. U(1, 0) \in Element /\ U(1, 1) \in Element
  <2>1. 1 \in 1..32 /\ 0 \in Nat /\ 1 \in Nat
    OBVIOUS
  <2> QED
    BY <2>1, SyntaxElements, Zenon
<1>2. \A i \in 1..Len(values) : U(1, values[i]) \in Element
  <2>1. \A i \in 1..Len(values) : values[i] = 0 \/ values[i] = 1
    OBVIOUS
  <2> QED
    BY <1>1, <2>1
<1>3. DOMAIN values = 1..Len(values) /\ Len(values) \in Nat
  OBVIOUS
<1>4. Flags(values) = [i \in 1..Len(values) |-> U(1, values[i])]
  BY <1>3, Zenon DEF Flags
<1> DEFINE n == Len(values)
           f == [i \in 1..n |-> U(1, values[i])]
<1>5. f \in [1..n -> Element] /\ \A i \in 1..n : f[i] = U(1, values[i])
  BY <1>2
<1> HIDE DEF f, n
<1>6. f \in Seq(Element) /\ Len(f) = n
  BY <1>3, <1>5 DEF n
<1> QED
  BY <1>4, <1>5, <1>6, Zenon DEF AreFlags, f, n

\* The elements of a sequence parameter set, one by one.
SPSItems(s, e) ==
  /\ e \in Seq(Element) /\ Len(e) = 21
  /\ e[1] = U(8, s.profile_idc)
  /\ \A i \in 2..7 : e[i] = U(1, 0)
  /\ e[8] = U(2, 0) /\ e[9] = U(8, s.level_idc) /\ e[10] = UE(0)
  /\ e[11] = UE(s.log2_max_frame_num - 4) /\ e[12] = UE(0)
  /\ e[13] = UE(s.log2_max_pic_order_cnt_lsb - 4) /\ e[14] = UE(s.max_num_ref_frames)
  /\ e[15] = U(1, 0)
  /\ e[16] = UE(s.pic_width_in_mbs_minus1) /\ e[17] = UE(s.pic_height_in_map_units_minus1)
  /\ e[18] = U(1, 1) /\ e[19] = U(1, 1) /\ e[20] = U(1, 0) /\ e[21] = U(1, 0)

LEMMA SPSItemwise ==
  ASSUME NEW c \in Configs, NEW s, s = ConstructSPS(c)
  PROVE  SPSItems(s, SPSElements(s))
<1> DEFINE a == <<U(8, s.profile_idc)>>
           b == Flags(<<0, 0, 0, 0, 0, 0>>)
           d == <<U(2, 0), U(8, s.level_idc), UE(0),
                  UE(s.log2_max_frame_num - 4), UE(0), UE(s.log2_max_pic_order_cnt_lsb - 4),
                  UE(s.max_num_ref_frames), U(1, 0),
                  UE(s.pic_width_in_mbs_minus1), UE(s.pic_height_in_map_units_minus1)>>
           f == Flags(<<1, 1, 0, 0>>)
<1>1. /\ U(8, s.profile_idc) \in Element /\ U(8, s.level_idc) \in Element
      /\ U(2, 0) \in Element /\ U(1, 0) \in Element /\ UE(0) \in Element
      /\ UE(s.log2_max_frame_num - 4) \in Element
      /\ UE(s.log2_max_pic_order_cnt_lsb - 4) \in Element
      /\ UE(s.max_num_ref_frames) \in Element
      /\ UE(s.pic_width_in_mbs_minus1) \in Element
      /\ UE(s.pic_height_in_map_units_minus1) \in Element
  <2>1. /\ s.profile_idc \in Nat /\ s.level_idc \in Nat
        /\ s.max_num_ref_frames \in CodeNum
        /\ s.pic_width_in_mbs_minus1 \in CodeNum /\ s.pic_height_in_map_units_minus1 \in CodeNum
        /\ s.log2_max_frame_num \in 4..32 /\ s.log2_max_pic_order_cnt_lsb \in 4..32
    BY SPSValues
  <2>2. s.log2_max_frame_num - 4 \in 0..100 /\ s.log2_max_pic_order_cnt_lsb - 4 \in 0..100 /\ 0 \in 0..100
    BY <2>1
  <2>3. s.log2_max_frame_num - 4 \in CodeNum /\ s.log2_max_pic_order_cnt_lsb - 4 \in CodeNum /\ 0 \in CodeNum
    BY <2>2, SyntaxElements, Zenon
  <2>4. 8 \in 1..32 /\ 2 \in 1..32 /\ 1 \in 1..32 /\ 0 \in Nat
    OBVIOUS
  <2> QED
    BY <2>1, <2>3, <2>4, SyntaxElements, Zenon
<1>2. a \in Seq(Element) /\ Len(a) = 1 /\ a[1] = U(8, s.profile_idc)
  BY <1>1
<1>3. b \in Seq(Element) /\ Len(b) = 6 /\ \A i \in 1..6 : b[i] = U(1, 0)
  <2> DEFINE v == <<0, 0, 0, 0, 0, 0>>
  <2>1. v \in Seq({0, 1}) /\ Len(v) = 6 /\ \A i \in 1..6 : v[i] = 0
    OBVIOUS
  <2> HIDE DEF v
  <2>2. Flags(v) \in Seq(Element) /\ Len(Flags(v)) = 6 /\ \A i \in 1..6 : Flags(v)[i] = U(1, v[i])
    <3>1. AreFlags(Flags(v), v)
      BY <2>1, FlagItems
    <3> QED
      BY <2>1, <3>1, Zenon DEF AreFlags
  <2>3. Flags(v) \in Seq(Element) /\ Len(Flags(v)) = 6 /\ \A i \in 1..6 : Flags(v)[i] = U(1, 0)
    BY <2>1, <2>2
  <2> QED
    BY <2>3 DEF v
<1>4. d \in Seq(Element) /\ Len(d) = 10
  BY <1>1
<1>5. /\ d[1] = U(2, 0) /\ d[2] = U(8, s.level_idc) /\ d[3] = UE(0)
      /\ d[4] = UE(s.log2_max_frame_num - 4) /\ d[5] = UE(0)
      /\ d[6] = UE(s.log2_max_pic_order_cnt_lsb - 4) /\ d[7] = UE(s.max_num_ref_frames)
      /\ d[8] = U(1, 0)
      /\ d[9] = UE(s.pic_width_in_mbs_minus1) /\ d[10] = UE(s.pic_height_in_map_units_minus1)
  OBVIOUS
<1>6. /\ f \in Seq(Element) /\ Len(f) = 4
      /\ f[1] = U(1, 1) /\ f[2] = U(1, 1) /\ f[3] = U(1, 0) /\ f[4] = U(1, 0)
  <2> DEFINE v == <<1, 1, 0, 0>>
  <2>1. v \in Seq({0, 1}) /\ Len(v) = 4 /\ v[1] = 1 /\ v[2] = 1 /\ v[3] = 0 /\ v[4] = 0
    OBVIOUS
  <2> HIDE DEF v
  <2>2. Flags(v) \in Seq(Element) /\ Len(Flags(v)) = 4 /\ \A i \in 1..4 : Flags(v)[i] = U(1, v[i])
    <3>1. AreFlags(Flags(v), v)
      BY <2>1, FlagItems
    <3> QED
      BY <2>1, <3>1, Zenon DEF AreFlags
  <2>3. /\ Flags(v) \in Seq(Element) /\ Len(Flags(v)) = 4
        /\ Flags(v)[1] = U(1, 1) /\ Flags(v)[2] = U(1, 1) /\ Flags(v)[3] = U(1, 0) /\ Flags(v)[4] = U(1, 0)
    BY <2>1, <2>2
  <2> QED
    BY <2>3 DEF v
<1> DEFINE ab == a \o b
           abd == ab \o d
           e == abd \o f
<1>7. SPSElements(s) = e
  BY Zenon DEF SPSElements
<1> HIDE DEF a, b, d, f
<1>8. /\ ab \in Seq(Element) /\ Len(ab) = 7
      /\ \A i \in 1..1 : ab[i] = a[i]
      /\ \A i \in 2..7 : ab[i] = b[i - 1]
  <2>1. Joins(ab, a, b, 1, 6)
    <3>1. 1 \in Nat /\ 6 \in Nat
      OBVIOUS
    <3> QED
      BY <1>2, <1>3, <3>1, ElementsJoined
  <2>2. 1 + 6 = 7 /\ 1 + 1 = 2
    OBVIOUS
  <2> QED
    BY <2>1, <2>2, Zenon DEF Joins
<1> HIDE DEF ab
<1>9. /\ abd \in Seq(Element) /\ Len(abd) = 17
      /\ \A i \in 1..7 : abd[i] = ab[i]
      /\ \A i \in 8..17 : abd[i] = d[i - 7]
  <2>1. Joins(abd, ab, d, 7, 10)
    <3>1. 7 \in Nat /\ 10 \in Nat
      OBVIOUS
    <3> QED
      BY <1>4, <1>8, <3>1, ElementsJoined
  <2>2. 7 + 10 = 17 /\ 7 + 1 = 8
    OBVIOUS
  <2> QED
    BY <2>1, <2>2, Zenon DEF Joins
<1> HIDE DEF abd
<1>10. /\ e \in Seq(Element) /\ Len(e) = 21
       /\ \A i \in 1..17 : e[i] = abd[i]
       /\ \A i \in 18..21 : e[i] = f[i - 17]
  <2>1. Joins(e, abd, f, 17, 4)
    <3>1. 17 \in Nat /\ 4 \in Nat
      OBVIOUS
    <3> QED
      BY <1>6, <1>9, <3>1, ElementsJoined
  <2>2. 17 + 4 = 21 /\ 17 + 1 = 18
    OBVIOUS
  <2> QED
    BY <2>1, <2>2, Zenon DEF Joins
<1> HIDE DEF e
<1>11. e[1] = U(8, s.profile_idc) /\ \A i \in 2..7 : e[i] = U(1, 0)
  BY <1>2, <1>3, <1>8, <1>9, <1>10
<1>12. ASSUME NEW i \in 8..17
       PROVE  e[i] = d[i - 7]
  <2>1. i \in 1..17
    OBVIOUS
  <2> QED
    BY <1>9, <1>10, <2>1
<1>13. /\ e[8] = d[1] /\ e[9] = d[2] /\ e[10] = d[3] /\ e[11] = d[4] /\ e[12] = d[5]
       /\ e[13] = d[6] /\ e[14] = d[7] /\ e[15] = d[8] /\ e[16] = d[9] /\ e[17] = d[10]
  BY <1>12
<1>14. e[18] = f[1] /\ e[19] = f[2] /\ e[20] = f[3] /\ e[21] = f[4]
  BY <1>10
<1> QED
  BY <1>5, <1>6, <1>7, <1>10, <1>11, <1>13, <1>14 DEF SPSItems

\* The elements of a picture parameter set, one by one.
PPSItems(s, e) ==
  /\ e \in Seq(Element) /\ Len(e) = 15
  /\ e[1] = UE(0) /\ e[2] = UE(0) /\ e[3] = U(1, 0) /\ e[4] = U(1, 0) /\ e[5] = UE(0)
  /\ e[6] = UE(s.max_num_ref_frames - 1) /\ e[7] = UE(s.max_num_ref_frames - 1)
  /\ e[8] = U(1, 0) /\ e[9] = U(2, 0) /\ e[10] = SE(0) /\ e[11] = SE(0) /\ e[12] = SE(0)
  /\ e[13] = U(1, 1) /\ e[14] = U(1, 0) /\ e[15] = U(1, 0)

LEMMA PPSItemwise ==
  ASSUME NEW s, s.max_num_ref_frames - 1 \in CodeNum
  PROVE  PPSItems(s, PPSElements(s))
<1> DEFINE a == <<UE(0), UE(0)>>
           b == Flags(<<0, 0>>)
           d == <<UE(0), UE(s.max_num_ref_frames - 1), UE(s.max_num_ref_frames - 1),
                  U(1, 0), U(2, 0), SE(0), SE(0), SE(0)>>
           f == Flags(<<1, 0, 0>>)
           j1 == a \o b
           j2 == j1 \o d
           j3 == j2 \o f
<1>1. /\ UE(0) \in Element /\ SE(0) \in Element /\ U(1, 0) \in Element /\ U(2, 0) \in Element
      /\ UE(s.max_num_ref_frames - 1) \in Element
  <2>1. 0 \in -26..25 /\ 2 \in 1..32 /\ 1 \in 1..32 /\ 0 \in Nat /\ 0 \in 0..100
    OBVIOUS
  <2> QED
    BY <2>1, SyntaxElements, Zenon
<1>2. a \in Seq(Element) /\ Len(a) = 2 /\ a[1] = UE(0) /\ a[2] = UE(0)
  BY <1>1
<1>3. /\ b \in Seq(Element) /\ Len(b) = 2
      /\ b[1] = U(1, 0) /\ b[2] = U(1, 0)
  <2> DEFINE v == <<0, 0>>
  <2>1. v \in Seq({0, 1}) /\ Len(v) = 2 /\ v[1] = 0 /\ v[2] = 0
    OBVIOUS
  <2> HIDE DEF v
  <2>2. Flags(v) \in Seq(Element) /\ Len(Flags(v)) = 2 /\ \A i \in 1..2 : Flags(v)[i] = U(1, v[i])
    <3>1. AreFlags(Flags(v), v)
      BY <2>1, FlagItems
    <3> QED
      BY <2>1, <3>1, Zenon DEF AreFlags
  <2>3. /\ Flags(v) \in Seq(Element) /\ Len(Flags(v)) = 2
        /\ Flags(v)[1] = U(1, 0) /\ Flags(v)[2] = U(1, 0)
    BY <2>1, <2>2
  <2> QED
    BY <2>3 DEF v
<1>4. d \in Seq(Element) /\ Len(d) = 8
  BY <1>1
<1>5. /\ f \in Seq(Element) /\ Len(f) = 3
      /\ f[1] = U(1, 1) /\ f[2] = U(1, 0) /\ f[3] = U(1, 0)
  <2> DEFINE v == <<1, 0, 0>>
  <2>1. v \in Seq({0, 1}) /\ Len(v) = 3 /\ v[1] = 1 /\ v[2] = 0 /\ v[3] = 0
    OBVIOUS
  <2> HIDE DEF v
  <2>2. Flags(v) \in Seq(Element) /\ Len(Flags(v)) = 3 /\ \A i \in 1..3 : Flags(v)[i] = U(1, v[i])
    <3>1. AreFlags(Flags(v), v)
      BY <2>1, FlagItems
    <3> QED
      BY <2>1, <3>1, Zenon DEF AreFlags
  <2>3. /\ Flags(v) \in Seq(Element) /\ Len(Flags(v)) = 3
        /\ Flags(v)[1] = U(1, 1) /\ Flags(v)[2] = U(1, 0) /\ Flags(v)[3] = U(1, 0)
    BY <2>1, <2>2
  <2> QED
    BY <2>3 DEF v
<1>6. /\ d[1] = UE(0) /\ d[2] = UE(s.max_num_ref_frames - 1) /\ d[3] = UE(s.max_num_ref_frames - 1)
      /\ d[4] = U(1, 0) /\ d[5] = U(2, 0) /\ d[6] = SE(0) /\ d[7] = SE(0) /\ d[8] = SE(0)
  OBVIOUS
<1>7. PPSElements(s) = j3
  BY Zenon DEF PPSElements
<1> HIDE DEF a, b, d, f
<1>8. /\ j1 \in Seq(Element) /\ Len(j1) = 4
      /\ \A i \in 1..2 : j1[i] = a[i]
      /\ \A i \in 3..4 : j1[i] = b[i - 2]
  <2>1. Joins(j1, a, b, 2, 2)
    <3>1. 2 \in Nat /\ 2 \in Nat
      OBVIOUS
    <3> QED
      BY <1>2, <1>3, <3>1, ElementsJoined
  <2>2. 2 + 2 = 4 /\ 2 + 1 = 3
    OBVIOUS
  <2> QED
    BY <2>1, <2>2, Zenon DEF Joins
<1> HIDE DEF j1
<1>9. /\ j2 \in Seq(Element) /\ Len(j2) = 12
      /\ \A i \in 1..4 : j2[i] = j1[i]
      /\ \A i \in 5..12 : j2[i] = d[i - 4]
  <2>1. Joins(j2, j1, d, 4, 8)
    <3>1. 4 \in Nat /\ 8 \in Nat
      OBVIOUS
    <3> QED
      BY <1>8, <1>4, <3>1, ElementsJoined
  <2>2. 4 + 8 = 12 /\ 4 + 1 = 5
    OBVIOUS
  <2> QED
    BY <2>1, <2>2, Zenon DEF Joins
<1> HIDE DEF j2
<1>10. /\ j3 \in Seq(Element) /\ Len(j3) = 15
       /\ \A i \in 1..12 : j3[i] = j2[i]
       /\ \A i \in 13..15 : j3[i] = f[i - 12]
  <2>1. Joins(j3, j2, f, 12, 3)
    <3>1. 12 \in Nat /\ 3 \in Nat
      OBVIOUS
    <3> QED
      BY <1>9, <1>5, <3>1, ElementsJoined
  <2>2. 12 + 3 = 15 /\ 12 + 1 = 13
    OBVIOUS
  <2> QED
    BY <2>1, <2>2, Zenon DEF Joins
<1> HIDE DEF j3
<1>11. j3[1] = a[1] /\ j3[2] = a[2]
  <2>1. j1[1] = a[1] /\ j1[2] = a[2]
    BY <1>8
  <2>2. j2[1] = a[1] /\ j2[2] = a[2]
    BY <1>9, <2>1
  <2>3. j3[1] = a[1] /\ j3[2] = a[2]
    BY <1>10, <2>2
  <2> QED
    BY <2>3
<1>12. j3[3] = b[1] /\ j3[4] = b[2]
  BY <1>8, <1>9, <1>10
<1>13. j3[5] = d[1] /\ j3[6] = d[2] /\ j3[7] = d[3] /\ j3[8] = d[4] /\ j3[9] = d[5] /\ j3[10] = d[6] /\ j3[11] = d[7] /\ j3[12] = d[8]
  BY <1>9, <1>10
<1>14. j3[13] = f[1] /\ j3[14] = f[2] /\ j3[15] = f[3]
  BY <1>10
<1> QED
  BY <1>2, <1>3, <1>5, <1>6, <1>7, <1>10, <1>11, <1>12, <1>13, <1>14 DEF PPSItems

\* The elements of the header of the IDR picture, one by one.
ISliceItems(s, h, e) ==
  /\ e \in Seq(Element) /\ Len(e) = 12
  /\ e[1] = UE(0) /\ e[2] = UE(7) /\ e[3] = UE(0) /\ e[4] = U(s.log2_max_frame_num, h.frame_num)
  /\ e[5] = UE(0) /\ e[6] = U(s.log2_max_pic_order_cnt_lsb, h.pic_order_cnt_lsb)
  /\ e[7] = U(1, 0) /\ e[8] = U(1, 0)
  /\ e[9] = SE(h.slice_qp_delta) /\ e[10] = UE(0) /\ e[11] = SE(0) /\ e[12] = SE(0)

LEMMA ISliceItemwise ==
  ASSUME NEW s, s.log2_max_frame_num \in 1..32, s.log2_max_pic_order_cnt_lsb \in 1..32,
         NEW h, h.frame_num \in Nat, h.pic_order_cnt_lsb \in Nat, h.slice_qp_delta \in -26..25,
         h.idr_pic_flag, h.slice_type = 7
  PROVE  ISliceItems(s, h, HeaderElements(s, h))
<1> DEFINE a == <<UE(0), UE(7), UE(0), U(s.log2_max_frame_num, h.frame_num)>>
           b == <<UE(0)>>
           c == <<U(s.log2_max_pic_order_cnt_lsb, h.pic_order_cnt_lsb)>>
           d == <<>>
           f == Flags(<<0, 0>>)
           g == <<SE(h.slice_qp_delta), UE(0), SE(0), SE(0)>>
           j1 == a \o b
           j2 == j1 \o c
           j3 == j2 \o d
           j4 == j3 \o f
           j5 == j4 \o g
<1>1. /\ UE(0) \in Element /\ SE(0) \in Element /\ U(1, 0) \in Element /\ U(1, 1) \in Element
      /\ UE(7) \in Element
      /\ U(s.log2_max_frame_num, h.frame_num) \in Element
      /\ U(s.log2_max_pic_order_cnt_lsb, h.pic_order_cnt_lsb) \in Element
      /\ SE(h.slice_qp_delta) \in Element
  <2>1. 0 \in -26..25 /\ 1 \in 1..32 /\ 0 \in Nat /\ 1 \in Nat /\ 0 \in 0..100 /\ 7 \in 0..100
    OBVIOUS
  <2> QED
    BY <2>1, SyntaxElements, Zenon
<1>2. HeaderElements(s, h) = j5
  <2>1. /\ (IF h.idr_pic_flag THEN <<UE(0)>> ELSE <<>>) = b
        /\ (IF h.slice_type = 5
             THEN <<U(1, 1), UE(h.active_list0_ref_num - 1), U(1, 0)>> ELSE <<>>) = d
        /\ (IF h.idr_pic_flag THEN Flags(<<0, 0>>) ELSE Flags(<<0>>)) = f
        /\ UE(h.slice_type) = UE(7)
    <3>1. 7 # 5
      OBVIOUS
    <3> QED
      BY <3>1, Zenon
  <2> QED
    BY <2>1, Zenon DEF HeaderElements
<1>3. /\ a \in Seq(Element) /\ Len(a) = 4
      /\ a[1] = UE(0) /\ a[2] = UE(7) /\ a[3] = UE(0) /\ a[4] = U(s.log2_max_frame_num, h.frame_num)
  BY <1>1
<1>4. b \in Seq(Element) /\ Len(b) = 1 /\ b[1] = UE(0)
  BY <1>1
<1>5. c \in Seq(Element) /\ Len(c) = 1 /\ c[1] = U(s.log2_max_pic_order_cnt_lsb, h.pic_order_cnt_lsb)
  BY <1>1
<1>6. d \in Seq(Element) /\ Len(d) = 0
  BY <1>1
<1>7. /\ f \in Seq(Element) /\ Len(f) = 2
      /\ f[1] = U(1, 0) /\ f[2] = U(1, 0)
  <2> DEFINE v == <<0, 0>>
  <2>1. v \in Seq({0, 1}) /\ Len(v) = 2 /\ v[1] = 0 /\ v[2] = 0
    OBVIOUS
  <2> HIDE DEF v
  <2>2. Flags(v) \in Seq(Element) /\ Len(Flags(v)) = 2 /\ \A i \in 1..2 : Flags(v)[i] = U(1, v[i])
    <3>1. AreFlags(Flags(v), v)
      BY <2>1, FlagItems
    <3> QED
      BY <2>1, <3>1, Zenon DEF AreFlags
  <2>3. /\ Flags(v) \in Seq(Element) /\ Len(Flags(v)) = 2
        /\ Flags(v)[1] = U(1, 0) /\ Flags(v)[2] = U(1, 0)
    BY <2>1, <2>2
  <2> QED
    BY <2>3 DEF v
<1>8. g \in Seq(Element) /\ Len(g) = 4
  BY <1>1
<1>9. g[1] = SE(h.slice_qp_delta) /\ g[2] = UE(0) /\ g[3] = SE(0) /\ g[4] = SE(0)
  OBVIOUS
<1> HIDE DEF a, b, c, d, f, g
<1>11. /\ j1 \in Seq(Element) /\ Len(j1) = 5
       /\ \A i \in 1..4 : j1[i] = a[i]
       /\ \A i \in 5..5 : j1[i] = b[i - 4]
  <2>1. Joins(j1, a, b, 4, 1)
    <3>1. 4 \in Nat /\ 1 \in Nat
      OBVIOUS
    <3> QED
      BY <1>3, <1>4, <3>1, ElementsJoined
  <2>2. 4 + 1 = 5 /\ 4 + 1 = 5
    OBVIOUS
  <2> QED
    BY <2>1, <2>2, Zenon DEF Joins
<1> HIDE DEF j1
<1>12. /\ j2 \in Seq(Element) /\ Len(j2) = 6
       /\ \A i \in 1..5 : j2[i] = j1[i]
       /\ \A i \in 6..6 : j2[i] = c[i - 5]
  <2>1. Joins(j2, j1, c, 5, 1)
    <3>1. 5 \in Nat /\ 1 \in Nat
      OBVIOUS
    <3> QED
      BY <1>11, <1>5, <3>1, ElementsJoined
  <2>2. 5 + 1 = 6 /\ 5 + 1 = 6
    OBVIOUS
  <2> QED
    BY <2>1, <2>2, Zenon DEF Joins
<1> HIDE DEF j2
<1>13. /\ j3 \in Seq(Element) /\ Len(j3) = 6
       /\ \A i \in 1..6 : j3[i] = j2[i]
       /\ \A i \in 7..6 : j3[i] = d[i - 6]
  <2>1. Joins(j3, j2, d, 6, 0)
    <3>1. 6 \in Nat /\ 0 \in Nat
      OBVIOUS
    <3> QED
      BY <1>12, <1>6, <3>1, ElementsJoined
  <2>2. 6 + 0 = 6 /\ 6 + 1 = 7
    OBVIOUS
  <2> QED
    BY <2>1, <2>2, Zenon DEF Joins
<1> HIDE DEF j3
<1>14. /\ j4 \in Seq(Element) /\ Len(j4) = 8
       /\ \A i \in 1..6 : j4[i] = j3[i]
       /\ \A i \in 7..8 : j4[i] = f[i - 6]
  <2>1. Joins(j4, j3, f, 6, 2)
    <3>1. 6 \in Nat /\ 2 \in Nat
      OBVIOUS
    <3> QED
      BY <1>13, <1>7, <3>1, ElementsJoined
  <2>2. 6 + 2 = 8 /\ 6 + 1 = 7
    OBVIOUS
  <2> QED
    BY <2>1, <2>2, Zenon DEF Joins
<1> HIDE DEF j4
<1>15. /\ j5 \in Seq(Element) /\ Len(j5) = 12
       /\ \A i \in 1..8 : j5[i] = j4[i]
       /\ \A i \in 9..12 : j5[i] = g[i - 8]
  <2>1. Joins(j5, j4, g, 8, 4)
    <3>1. 8 \in Nat /\ 4 \in Nat
      OBVIOUS
    <3> QED
      BY <1>14, <1>8, <3>1, ElementsJoined
  <2>2. 8 + 4 = 12 /\ 8 + 1 = 9
    OBVIOUS
  <2> QED
    BY <2>1, <2>2, Zenon DEF Joins
<1> HIDE DEF j5
<1>16. j5[1] = a[1] /\ j5[2] = a[2] /\ j5[3] = a[3] /\ j5[4] = a[4]
  <2>1. j1[1] = a[1] /\ j1[2] = a[2] /\ j1[3] = a[3] /\ j1[4] = a[4]
    BY <1>11
  <2>2. j2[1] = a[1] /\ j2[2] = a[2] /\ j2[3] = a[3] /\ j2[4] = a[4]
    BY <1>12, <2>1
  <2>3. j3[1] = a[1] /\ j3[2] = a[2] /\ j3[3] = a[3] /\ j3[4] = a[4]
    BY <1>13, <2>2
  <2>4. j4[1] = a[1] /\ j4[2] = a[2] /\ j4[3] = a[3] /\ j4[4] = a[4]
    BY <1>14, <2>3
  <2>5. j5[1] = a[1] /\ j5[2] = a[2] /\ j5[3] = a[3] /\ j5[4] = a[4]
    BY <1>15, <2>4
  <2> QED
    BY <2>5
<1>17. j5[5] = b[1]
  BY <1>11, <1>12, <1>13, <1>14, <1>15
<1>18. j5[6] = c[1]
  BY <1>12, <1>13, <1>14, <1>15
<1>19. j5[7] = f[1] /\ j5[8] = f[2]
  BY <1>14, <1>15
<1>20. j5[9] = g[1] /\ j5[10] = g[2] /\ j5[11] = g[3] /\ j5[12] = g[4]
  BY <1>15
<1> QED
  BY <1>2, <1>3, <1>4, <1>5, <1>6, <1>7, <1>9, <1>15,
     <1>16, <1>17, <1>18, <1>19, <1>20 DEF ISliceItems

\* The elements of the header of any other picture, one by one.
PSliceItems(s, h, e) ==
  /\ e \in Seq(Element) /\ Len(e) = 13
  /\ e[1] = UE(0) /\ e[2] = UE(5) /\ e[3] = UE(0) /\ e[4] = U(s.log2_max_frame_num, h.frame_num)
  /\ e[5] = U(s.log2_max_pic_order_cnt_lsb, h.pic_order_cnt_lsb)
  /\ e[6] = U(1, 1) /\ e[7] = UE(h.active_list0_ref_num - 1) /\ e[8] = U(1, 0) /\ e[9] = U(1, 0)
  /\ e[10] = SE(h.slice_qp_delta) /\ e[11] = UE(0) /\ e[12] = SE(0) /\ e[13] = SE(0)

LEMMA PSliceItemwise ==
  ASSUME NEW s, s.log2_max_frame_num \in 1..32, s.log2_max_pic_order_cnt_lsb \in 1..32,
         NEW h, h.frame_num \in Nat, h.pic_order_cnt_lsb \in Nat, h.slice_qp_delta \in -26..25,
         ~h.idr_pic_flag, h.slice_type = 5,
         h.active_list0_ref_num - 1 \in CodeNum
  PROVE  PSliceItems(s, h, HeaderElements(s, h))
<1> DEFINE a == <<UE(0), UE(5), UE(0), U(s.log2_max_frame_num, h.frame_num)>>
           b == <<>>
           c == <<U(s.log2_max_pic_order_cnt_lsb, h.pic_order_cnt_lsb)>>
           d == <<U(1, 1), UE(h.active_list0_ref_num - 1), U(1, 0)>>
           f == Flags(<<0>>)
           g == <<SE(h.slice_qp_delta), UE(0), SE(0), SE(0)>>
           j1 == a \o b
           j2 == j1 \o c
           j3 == j2 \o d
           j4 == j3 \o f
           j5 == j4 \o g
<1>1. /\ UE(0) \in Element /\ SE(0) \in Element /\ U(1, 0) \in Element /\ U(1, 1) \in Element
      /\ UE(5) \in Element
      /\ U(s.log2_max_frame_num, h.frame_num) \in Element
      /\ U(s.log2_max_pic_order_cnt_lsb, h.pic_order_cnt_lsb) \in Element
      /\ SE(h.slice_qp_delta) \in Element
      /\ UE(h.active_list0_ref_num - 1) \in Element
  <2>1. 0 \in -26..25 /\ 1 \in 1..32 /\ 0 \in Nat /\ 1 \in Nat /\ 0 \in 0..100 /\ 5 \in 0..100
    OBVIOUS
  <2> QED
    BY <2>1, SyntaxElements, Zenon
<1>2. HeaderElements(s, h) = j5
  <2>1. /\ (IF h.idr_pic_flag THEN <<UE(0)>> ELSE <<>>) = b
        /\ (IF h.slice_type = 5
             THEN <<U(1, 1), UE(h.active_list0_ref_num - 1), U(1, 0)>> ELSE <<>>) = d
        /\ (IF h.idr_pic_flag THEN Flags(<<0, 0>>) ELSE Flags(<<0>>)) = f
        /\ UE(h.slice_type) = UE(5)
    BY Zenon
  <2> QED
    BY <2>1, Zenon DEF HeaderElements
<1>3. /\ a \in Seq(Element) /\ Len(a) = 4
      /\ a[1] = UE(0) /\ a[2] = UE(5) /\ a[3] = UE(0) /\ a[4] = U(s.log2_max_frame_num, h.frame_num)
  BY <1>1
<1>4. b \in Seq(Element) /\ Len(b) = 0
  BY <1>1
<1>5. c \in Seq(Element) /\ Len(c) = 1 /\ c[1] = U(s.log2_max_pic_order_cnt_lsb, h.pic_order_cnt_lsb)
  BY <1>1
<1>6. /\ d \in Seq(Element) /\ Len(d) = 3
      /\ d[1] = U(1, 1) /\ d[2] = UE(h.active_list0_ref_num - 1) /\ d[3] = U(1, 0)
  BY <1>1
<1>7. /\ f \in Seq(Element) /\ Len(f) = 1
      /\ f[1] = U(1, 0)
  <2> DEFINE v == <<0>>
  <2>1. v \in Seq({0, 1}) /\ Len(v) = 1 /\ v[1] = 0
    OBVIOUS
  <2> HIDE DEF v
  <2>2. Flags(v) \in Seq(Element) /\ Len(Flags(v)) = 1 /\ \A i \in 1..1 : Flags(v)[i] = U(1, v[i])
    <3>1. AreFlags(Flags(v), v)
      BY <2>1, FlagItems
    <3> QED
      BY <2>1, <3>1, Zenon DEF AreFlags
  <2>3. /\ Flags(v) \in Seq(Element) /\ Len(Flags(v)) = 1
        /\ Flags(v)[1] = U(1, 0)
    BY <2>1, <2>2
  <2> QED
    BY <2>3 DEF v
<1>8. g \in Seq(Element) /\ Len(g) = 4
  BY <1>1
<1>9. g[1] = SE(h.slice_qp_delta) /\ g[2] = UE(0) /\ g[3] = SE(0) /\ g[4] = SE(0)
  OBVIOUS
<1> HIDE DEF a, b, c, d, f, g
<1>11. /\ j1 \in Seq(Element) /\ Len(j1) = 4
       /\ \A i \in 1..4 : j1[i] = a[i]
       /\ \A i \in 5..4 : j1[i] = b[i - 4]
  <2>1. Joins(j1, a, b, 4, 0)
    <3>1. 4 \in Nat /\ 0 \in Nat
      OBVIOUS
    <3> QED
      BY <1>3, <1>4, <3>1, ElementsJoined
  <2>2. 4 + 0 = 4 /\ 4 + 1 = 5
    OBVIOUS
  <2> QED
    BY <2>1, <2>2, Zenon DEF Joins
<1> HIDE DEF j1
<1>12. /\ j2 \in Seq(Element) /\ Len(j2) = 5
       /\ \A i \in 1..4 : j2[i] = j1[i]
       /\ \A i \in 5..5 : j2[i] = c[i - 4]
  <2>1. Joins(j2, j1, c, 4, 1)
    <3>1. 4 \in Nat /\ 1 \in Nat
      OBVIOUS
    <3> QED
      BY <1>11, <1>5, <3>1, ElementsJoined
  <2>2. 4 + 1 = 5 /\ 4 + 1 = 5
    OBVIOUS
  <2> QED
    BY <2>1, <2>2, Zenon DEF Joins
<1> HIDE DEF j2
<1>13. /\ j3 \in Seq(Element) /\ Len(j3) = 8
       /\ \A i \in 1..5 : j3[i] = j2[i]
       /\ \A i \in 6..8 : j3[i] = d[i - 5]
  <2>1. Joins(j3, j2, d, 5, 3)
    <3>1. 5 \in Nat /\ 3 \in Nat
      OBVIOUS
    <3> QED
      BY <1>12, <1>6, <3>1, ElementsJoined
  <2>2. 5 + 3 = 8 /\ 5 + 1 = 6
    OBVIOUS
  <2> QED
    BY <2>1, <2>2, Zenon DEF Joins
<1> HIDE DEF j3
<1>14. /\ j4 \in Seq(Element) /\ Len(j4) = 9
       /\ \A i \in 1..8 : j4[i] = j3[i]
       /\ \A i \in 9..9 : j4[i] = f[i - 8]
  <2>1. Joins(j4, j3, f, 8, 1)
    <3>1. 8 \in Nat /\ 1 \in Nat
      OBVIOUS
    <3> QED
      BY <1>13, <1>7, <3>1, ElementsJoined
  <2>2. 8 + 1 = 9 /\ 8 + 1 = 9
    OBVIOUS
  <2> QED
    BY <2>1, <2>2, Zenon DEF Joins
<1> HIDE DEF j4
<1>15. /\ j5 \in Seq(Element) /\ Len(j5) = 13
       /\ \A i \in 1..9 : j5[i] = j4[i]
       /\ \A i \in 10..13 : j5[i] = g[i - 9]
  <2>1. Joins(j5, j4, g, 9, 4)
    <3>1. 9 \in Nat /\ 4 \in Nat
      OBVIOUS
    <3> QED
      BY <1>14, <1>8, <3>1, ElementsJoined
  <2>2. 9 + 4 = 13 /\ 9 + 1 = 10
    OBVIOUS
  <2> QED
    BY <2>1, <2>2, Zenon DEF Joins
<1> HIDE DEF j5
<1>16. j5[1] = a[1] /\ j5[2] = a[2] /\ j5[3] = a[3] /\ j5[4] = a[4]
  <2>1. j1[1] = a[1] /\ j1[2] = a[2] /\ j1[3] = a[3] /\ j1[4] = a[4]
    BY <1>11
  <2>2. j2[1] = a[1] /\ j2[2] = a[2] /\ j2[3] = a[3] /\ j2[4] = a[4]
    BY <1>12, <2>1
  <2>3. j3[1] = a[1] /\ j3[2] = a[2] /\ j3[3] = a[3] /\ j3[4] = a[4]
    BY <1>13, <2>2
  <2>4. j4[1] = a[1] /\ j4[2] = a[2] /\ j4[3] = a[3] /\ j4[4] = a[4]
    BY <1>14, <2>3
  <2>5. j5[1] = a[1] /\ j5[2] = a[2] /\ j5[3] = a[3] /\ j5[4] = a[4]
    BY <1>15, <2>4
  <2> QED
    BY <2>5
<1>17. j5[5] = c[1]
  BY <1>12, <1>13, <1>14, <1>15
<1>18. j5[6] = d[1] /\ j5[7] = d[2] /\ j5[8] = d[3]
  BY <1>13, <1>14, <1>15
<1>19. j5[9] = f[1]
  BY <1>14, <1>15
<1>20. j5[10] = g[1] /\ j5[11] = g[2] /\ j5[12] = g[3] /\ j5[13] = g[4]
  BY <1>15
<1> QED
  BY <1>2, <1>3, <1>4, <1>5, <1>6, <1>7, <1>9, <1>15,
     <1>16, <1>17, <1>18, <1>19, <1>20 DEF PSliceItems

\* A syntax table: every field has a name of its own.
Table(syntax) ==
  /\ Len(syntax) \in Nat
  /\ \A i \in 1..Len(syntax) : syntax[i].name # "end"
  /\ \A i, j \in 1..Len(syntax) : syntax[i].name = syntax[j].name => i = j

LEMMA Tables == Table(SPSSyntax) /\ Table(PPSSyntax) /\ Table(SliceSyntax)
<1>1. Table(SPSSyntax)
  BY DEF Table, SPSSyntax, F
<1>2. Table(PPSSyntax)
  BY DEF Table, PPSSyntax, F
<1>3. Table(SliceSyntax)
  BY SMTT(60) DEF Table, SliceSyntax, F
<1> QED
  BY <1>1, <1>2, <1>3

\* f, the fields after each entry of the table, is how the header is parsed
\* whose elements are read at the bits at.
Parsing(f, at, syntax, bytes, known, elements) ==
  /\ Table(syntax) /\ Len(elements) \in Nat
  /\ ParseSteps(f, syntax, bytes, known)
  /\ HeaderRead(at, bytes, elements)

\* From entry k on the receiver knows the value of a field.
Knows(f, syntax, k, name, value) ==
  \A j \in k..Len(syntax) : name \in DOMAIN f[j] /\ f[j][name] = value

\* The field of entry k is read up to the bit next.
FieldReads(f, syntax, k, value, next) ==
  f[k]["end"] = next /\ Knows(f, syntax, k, syntax[k].name, value)

LEMMA FieldTaken ==
  ASSUME NEW f, NEW at, NEW syntax, NEW bytes, NEW known, NEW elements,
         Parsing(f, at, syntax, bytes, known, elements),
         NEW k \in 1..Len(syntax), NEW value, NEW next,
         Present(syntax[k].name, f[k - 1]),
         Bits!Read(bytes, syntax[k].kind, Width(syntax[k], f[k - 1]), f[k - 1]["end"])
           = <<value, next>>
  PROVE  FieldReads(f, syntax, k, value, next)
<1> DEFINE n == Len(syntax)
           x == syntax[k].name
<1>1. /\ n \in Nat /\ x # "end" /\ ParseSteps(f, syntax, bytes, known)
      /\ \A i \in 1..n : syntax[i].name = x => i = k
  BY Zenon DEF Parsing, Table
<1>2. f[k] = ReadField(bytes, f[k - 1], syntax[k])
  BY <1>1, Zenon DEF ParseSteps
<1>3. f[k]["end"] = next /\ x \in DOMAIN f[k] /\ f[k][x] = value
  <2> DEFINE g == ReadField(bytes, f[k - 1], syntax[k])
  <2>1. g["end"] = next /\ x \in DOMAIN g /\ g[x] = value
    BY <1>1, FieldRead
  <2> HIDE DEF g, x
  <2>2. f[k] = g
    BY <1>2, Zenon DEF g
  <2> QED
    BY <2>1, <2>2
<1>4. \A i \in (k + 1)..n : syntax[i].name # x
  <2>1. \A i \in (k + 1)..n : i \in 1..n /\ i # k
    OBVIOUS
  <2> QED
    BY <1>1, <2>1, Zenon
<1>5. k \in 0..n
  OBVIOUS
<1> HIDE DEF x
<1>6. \A j \in k..n : x \in DOMAIN f[j] /\ f[j][x] = f[k][x]
  <2>1. /\ n \in Nat /\ x # "end" /\ x \in DOMAIN f[k]
        /\ ParseSteps(f, syntax, bytes, known)
    BY <1>1, <1>3
  <2> QED
    BY ONLY <2>1, <1>4, <1>5, FieldStays
<1> HIDE DEF n
<1>7. Knows(f, syntax, k, x, value)
  BY <1>3, <1>6, Zenon DEF Knows, n
<1> QED
  BY <1>3, <1>7, Zenon DEF FieldReads, x

\* Entry k is there and coded as element m.
IsElement(f, syntax, elements, k, m) ==
  /\ Present(syntax[k].name, f[k - 1])
  /\ syntax[k].kind = elements[m].kind
  /\ Width(syntax[k], f[k - 1]) = elements[m].n

LEMMA FieldIsElement ==
  ASSUME NEW f, NEW at, NEW syntax, NEW bytes, NEW known, NEW elements,
         Parsing(f, at, syntax, bytes, known, elements),
         NEW k \in 1..Len(syntax), NEW m \in 1..Len(elements),
         IsElement(f, syntax, elements, k, m), f[k - 1]["end"] = at[m - 1]
  PROVE  FieldReads(f, syntax, k, Kept(elements[m]), at[m])
<1>1. Bits!Read(bytes, elements[m].kind, elements[m].n, at[m - 1]) = <<Kept(elements[m]), at[m]>>
  BY Zenon DEF Parsing, HeaderRead
<1>2. Bits!Read(bytes, syntax[k].kind, Width(syntax[k], f[k - 1]), f[k - 1]["end"])
        = <<Kept(elements[m]), at[m]>>
  BY <1>1, Zenon DEF IsElement
<1>3. Present(syntax[k].name, f[k - 1])
  BY Zenon DEF IsElement
<1> QED
  BY <1>2, <1>3, FieldTaken, Zenon

Skipped(f, k) == f[k] = f[k - 1]

LEMMA FieldAbsent ==
  ASSUME NEW f, NEW at, NEW syntax, NEW bytes, NEW known, NEW elements,
         Parsing(f, at, syntax, bytes, known, elements),
         NEW k \in 1..Len(syntax), ~Present(syntax[k].name, f[k - 1])
  PROVE  Skipped(f, k)
  BY Zenon DEF Parsing, ParseSteps, ReadField, Skipped

\* Before the first entry the receiver knows what it knew, and starts at bit 1.
LEMMA ParseStarts ==
  ASSUME NEW f, NEW at, NEW syntax, NEW bytes, NEW known, NEW elements,
         Parsing(f, at, syntax, bytes, known, elements)
  PROVE  /\ f[0]["end"] = at[0]
         /\ \A x \in DOMAIN known : x # "end" => x \in DOMAIN f[0] /\ f[0][x] = known[x]
<1> DEFINE start == [end |-> 1]
           g == Overridden(known, start)
<1>1. f[0] = g /\ at[0] = 1
  BY Zenon DEF Parsing, ParseSteps, HeaderRead
<1>2. DOMAIN start = {"end"} /\ start["end"] = 1
  OBVIOUS
<1> HIDE DEF start
<1>3. /\ DOMAIN g = DOMAIN known \cup DOMAIN start
      /\ \A x \in DOMAIN start : g[x] = start[x]
      /\ \A x \in DOMAIN known : x \notin DOMAIN start => g[x] = known[x]
  BY OverriddenValues
<1> HIDE DEF g
<1> QED
  BY <1>1, <1>2, <1>3

\* What it knew and the table does not ask for stays.
LEMMA KnownStays ==
  ASSUME NEW f, NEW at, NEW syntax, NEW bytes, NEW known, NEW elements,
         Parsing(f, at, syntax, bytes, known, elements),
         NEW x \in DOMAIN known, x # "end", \A i \in 1..Len(syntax) : syntax[i].name # x
  PROVE  Knows(f, syntax, 0, x, known[x])
<1> DEFINE n == Len(syntax)
<1>1. n \in Nat /\ ParseSteps(f, syntax, bytes, known)
  BY Zenon DEF Parsing, Table
<1>2. x \in DOMAIN f[0] /\ f[0][x] = known[x]
  BY ParseStarts, Zenon
<1>3. 0 \in 0..n /\ \A i \in (0 + 1)..n : i \in 1..n
  BY <1>1
<1>4. \A i \in (0 + 1)..n : syntax[i].name # x
  BY <1>3, Zenon
<1>5. \A j \in 0..n : x \in DOMAIN f[j] /\ f[j][x] = f[0][x]
  BY <1>1, <1>2, <1>3, <1>4, FieldStays
<1> HIDE DEF n
<1> QED
  BY <1>2, <1>5, Zenon DEF Knows, n

\* The fields that are always there, with a width of their own.
Plain(name) ==
  name \notin {"log2_max_pic_order_cnt_lsb_minus4", "mb_adaptive_frame_field_flag", "idr_pic_id",
               "frame_num", "pic_order_cnt_lsb", "delta_pic_order_cnt_bottom", "redundant_pic_cnt",
               "num_ref_idx_active_override_flag", "ref_pic_list_modification_flag_l0",
               "num_ref_idx_l0_active_minus1", "no_output_of_prior_pics_flag",
               "long_term_reference_flag", "adaptive_ref_pic_marking_mode_flag",
               "disable_deblocking_filter_idc", "slice_alpha_c0_offset_div2",
               "slice_beta_offset_div2"}

LEMMA PlainPresent ==
  ASSUME NEW field, NEW f, Plain(field.name)
  PROVE  Present(field.name, f) /\ Width(field, f) = field.n
<1>1. Present(field.name, f)
  BY DEF Plain, Present
<1>2. Width(field, f) = field.n
  BY DEF Plain, Width
<1> QED
  BY <1>1, <1>2

\* Plain fields that follow one another, coded as elements that do: the fields
\* first + 1 to first + n and the elements m + 1 to m + n.
Alike(syntax, elements, first, m, n) ==
  /\ first + n <= Len(syntax) /\ m + n <= Len(elements)
  /\ \A i \in 1..n : /\ Plain(syntax[first + i].name)
                     /\ syntax[first + i].kind = elements[m + i].kind
                     /\ syntax[first + i].n = elements[m + i].n

\* They are read one after the other.
RunRead(f, at, syntax, elements, first, m, n) ==
  /\ f[first + n]["end"] = at[m + n]
  /\ \A i \in 1..n : Knows(f, syntax, first + i, syntax[first + i].name, Kept(elements[m + i]))

LEMMA RunTaken ==
  ASSUME NEW f, NEW at, NEW syntax, NEW bytes, NEW known, NEW elements,
         Parsing(f, at, syntax, bytes, known, elements),
         NEW first \in Nat, NEW m \in Nat, NEW n \in Nat,
         Alike(syntax, elements, first, m, n), f[first]["end"] = at[m]
  PROVE  RunRead(f, at, syntax, elements, first, m, n)
<1> DEFINE Ends(k) == f[first + k]["end"] = at[m + k]
           Told(i) == Knows(f, syntax, first + i, syntax[first + i].name, Kept(elements[m + i]))
           S == {k \in Nat : k <= n => Ends(k) /\ \A i \in 1..k : Told(i)}
<1>1. 0 \in S
  <2>1. first + 0 = first /\ m + 0 = m /\ 1..0 = {}
    OBVIOUS
  <2> QED
    BY <2>1
<1>2. ASSUME NEW k \in Nat, k \in S
      PROVE  k + 1 \in S
  <2> SUFFICES ASSUME k + 1 <= n
               PROVE  Ends(k + 1) /\ \A i \in 1..(k + 1) : Told(i)
    OBVIOUS
  <2> DEFINE a == first + (k + 1)
             b == m + (k + 1)
  <2>1. Len(syntax) \in Nat /\ Len(elements) \in Nat
    BY Zenon DEF Parsing, Table
  <2>2. /\ k + 1 \in 1..n /\ a \in 1..Len(syntax) /\ b \in 1..Len(elements)
        /\ a - 1 = first + k /\ b - 1 = m + k
    BY <2>1 DEF Alike
  <2>3. Ends(k) /\ \A i \in 1..k : Told(i)
    BY <1>2
  <2>4. /\ Plain(syntax[a].name)
        /\ syntax[a].kind = elements[b].kind /\ syntax[a].n = elements[b].n
    BY <2>2, Zenon DEF Alike
  <2>5. f[a - 1]["end"] = at[b - 1]
    BY <2>2, <2>3, Zenon
  <2> HIDE DEF a, b
  <2>6. IsElement(f, syntax, elements, a, b)
    BY <2>4, PlainPresent, Zenon DEF IsElement
  <2>7. FieldReads(f, syntax, a, Kept(elements[b]), at[b])
    BY <2>2, <2>5, <2>6, FieldIsElement, Zenon
  <2>8. Ends(k + 1) /\ Told(k + 1)
    BY <2>7, Zenon DEF FieldReads, a, b
  <2> HIDE DEF Ends, Told
  <2> QED
    BY <2>3, <2>8
<1> HIDE DEF S
<1>3. n \in S
  BY <1>1, <1>2, Induction
<1> QED
  BY <1>3 DEF S, RunRead

LEMMA KeptValues ==
  /\ \A n, v : /\ U(n, v).kind = "u" /\ U(n, v).n = n
               /\ UE(v).kind = "ue" /\ UE(v).n = 0
               /\ SE(v).kind = "se" /\ SE(v).n = 0
  /\ \A n, v : Kept(U(n, v)) = v % 2^n
  /\ \A v : Kept(UE(v)) = v /\ Kept(SE(v)) = v
  /\ \A v \in 0..255 : Kept(U(8, v)) = v
  /\ Kept(U(1, 0)) = 0 /\ Kept(U(1, 1)) = 1
<1>1. \A n, v : /\ U(n, v).kind = "u" /\ U(n, v).n = n
                /\ UE(v).kind = "ue" /\ UE(v).n = 0
                /\ SE(v).kind = "se" /\ SE(v).n = 0
  BY DEF U, UE, SE
<1>2. \A n, v : Kept(U(n, v)) = v % 2^n
  BY DEF U, Kept
<1>3. \A v : Kept(UE(v)) = v /\ Kept(SE(v)) = v
  BY DEF UE, SE, Kept
<1>4. 2^8 = 256 /\ 2^1 = 2
  BY Powers
<1>5. \A v \in 0..255 : v % 256 = v
  BY SMT
<1>6. 0 % 2 = 0 /\ 1 % 2 = 1
  BY SMT
<1>7. \A v \in 0..255 : Kept(U(8, v)) = v
  <2> SUFFICES ASSUME NEW v \in 0..255
               PROVE  Kept(U(8, v)) = v
    OBVIOUS
  <2>1. Kept(U(8, v)) = v % 2^8
    BY <1>2, Zenon
  <2> QED
    BY <1>4, <1>5, <2>1
<1>8. Kept(U(1, 0)) = 0 /\ Kept(U(1, 1)) = 1
  <2>1. Kept(U(1, 0)) = 0 % 2^1 /\ Kept(U(1, 1)) = 1 % 2^1
    BY <1>2, Zenon
  <2> QED
    BY <1>4, <1>6, <2>1
<1> QED
  BY <1>1, <1>2, <1>3, <1>7, <1>8, Zenon

\* The fields say that a field has a value.
Has(fs, name, value) == name \in DOMAIN fs /\ fs[name] = value

\* What the sequence parameter set leaves for the slices,
SPSKnown(fs, s) ==
  /\ Has(fs, "log2_max_frame_num_minus4", s.log2_max_frame_num - 4)
  /\ Has(fs, "pic_order_cnt_type", 0)
  /\ Has(fs, "log2_max_pic_order_cnt_lsb_minus4", s.log2_max_pic_order_cnt_lsb - 4)

\* what the picture parameter set does,
PPSKnown(fs) ==
  /\ Has(fs, "bottom_field_pic_order_in_frame_present_flag", 0)
  /\ Has(fs, "redundant_pic_cnt_present_flag", 0)
  /\ Has(fs, "deblocking_filter_control_present_flag", 1)
  /\ Has(fs, "pic_init_qp_minus26", 0)

\* and all the receiver learns from the sequence parameter set.
SPSLearnt(fs, s) ==
  /\ SPSKnown(fs, s)
  /\ fs["profile_idc"] = s.profile_idc /\ fs["level_idc"] = s.level_idc
  /\ fs["pic_width_in_mbs_minus1"] = s.pic_width_in_mbs_minus1
  /\ fs["pic_height_in_map_units_minus1"] = s.pic_height_in_map_units_minus1
  /\ fs["max_num_ref_frames"] = s.max_num_ref_frames
  /\ fs["vui_parameters_present_flag"] = 0

\* The eight bits of constraint_flags are seven elements.
LEMMA ConstraintFlags ==
  ASSUME NEW at, NEW bytes, NEW s, NEW e, SPSItems(s, e), HeaderRead(at, bytes, e)
  PROVE  Bits!Read(bytes, "u", 8, at[1]) = <<Bits!Number(bytes, at[1], 8), at[8]>>
<1> DEFINE Counts(k) == at[k] = at[k - 1] + e[k].n
<1>1. \A i, n : Bits!Read(bytes, "u", n, i) = <<Bits!Number(bytes, i, n), i + n>>
  BY DEF Bits!Read
<1>2. Len(e) = 21 /\ \A k \in 0..21 : at[k] \in Nat
  BY DEF SPSItems, HeaderRead
<1>3. \A k \in 2..8 : e[k].kind = "u"
  <2>1. \A k \in 2..7 : e[k] = U(1, 0)
    BY Zenon DEF SPSItems
  <2>2. e[8] = U(2, 0)
    BY Zenon DEF SPSItems
  <2> QED
    BY <2>1, <2>2, KeptValues
<1>4. \A k \in 2..8 : Counts(k)
  <2> SUFFICES ASSUME NEW k \in 2..8
               PROVE  Counts(k)
    OBVIOUS
  <2>1. k \in 1..21
    OBVIOUS
  <2>2. Bits!Read(bytes, e[k].kind, e[k].n, at[k - 1]) = <<Kept(e[k]), at[k]>>
    BY <1>2, <2>1, Zenon DEF HeaderRead
  <2>3. Bits!Read(bytes, e[k].kind, e[k].n, at[k - 1])
          = <<Bits!Number(bytes, at[k - 1], e[k].n), at[k - 1] + e[k].n>>
    BY <1>1, <1>3, Zenon
  <2> QED
    BY <2>2, <2>3
<1>5. e[2].n = 1 /\ e[3].n = 1 /\ e[4].n = 1 /\ e[5].n = 1 /\ e[6].n = 1 /\ e[7].n = 1 /\ e[8].n = 2
  <2>1. e[8] = U(2, 0) /\ \A k \in 2..7 : e[k] = U(1, 0)
    BY Zenon DEF SPSItems
  <2>2. U(2, 0).n = 2 /\ U(1, 0).n = 1
    BY KeptValues
  <2> QED
    BY <2>1, <2>2
<1>6. at[8] = at[1] + 8
  <2>1. /\ at[2] = at[1] + 1 /\ at[3] = at[2] + 1 /\ at[4] = at[3] + 1 /\ at[5] = at[4] + 1
        /\ at[6] = at[5] + 1 /\ at[7] = at[6] + 1 /\ at[8] = at[7] + 2
    BY <1>4, <1>5
  <2>2. at[1] \in Nat
    BY <1>2
  <2> QED
    BY <2>1, <2>2
<1> QED
  BY <1>1, <1>6

LEMMA SPSParsed ==
  ASSUME NEW at, NEW bytes, NEW known, NEW s, NEW e, SPSItems(s, e), HeaderRead(at, bytes, e),
         s.profile_idc \in 0..255, s.level_idc \in 0..255,
         "nal_unit_type" \in DOMAIN known
  PROVE  /\ SPSLearnt(Parse(SPSSyntax, bytes, known), s)
         /\ Parse(SPSSyntax, bytes, known)["end"] = at[21]
         /\ Parse(SPSSyntax, bytes, known)["nal_unit_type"] = known["nal_unit_type"]
<1> DEFINE t == SPSSyntax
           p == Parse(t, bytes, known)
<1>1. Len(t) = 16 /\ Len(e) = 21
  BY DEF SPSSyntax, SPSItems
<1>2. PICK f : ParseSteps(f, t, bytes, known) /\ p = f[16]
  <2>1. Len(t) \in Nat
    BY <1>1
  <2> HIDE DEF t
  <2>2. PICK f : ParseSteps(f, t, bytes, known) /\ Parse(t, bytes, known) = f[Len(t)]
    BY <2>1, Parsed, Zenon
  <2> QED
    BY <1>1, <2>2
<1>3. Parsing(f, at, t, bytes, known, e)
  <2>1. Len(e) \in Nat
    BY <1>1
  <2> QED
    BY <1>2, <2>1, Tables, Zenon DEF Parsing
<1>4. /\ e[1] = U(8, s.profile_idc) /\ e[9] = U(8, s.level_idc) /\ e[10] = UE(0)
      /\ e[11] = UE(s.log2_max_frame_num - 4) /\ e[12] = UE(0)
      /\ e[13] = UE(s.log2_max_pic_order_cnt_lsb - 4) /\ e[14] = UE(s.max_num_ref_frames)
      /\ e[15] = U(1, 0)
      /\ e[16] = UE(s.pic_width_in_mbs_minus1) /\ e[17] = UE(s.pic_height_in_map_units_minus1)
      /\ e[18] = U(1, 1) /\ e[19] = U(1, 1) /\ e[20] = U(1, 0) /\ e[21] = U(1, 0)
  BY Zenon DEF SPSItems
<1>5. /\ t[1] = F("profile_idc", "u", 8) /\ t[2] = F("constraint_flags", "u", 8)
      /\ t[3] = F("level_idc", "u", 8) /\ t[4] = F("seq_parameter_set_id", "ue", 0)
      /\ t[5] = F("log2_max_frame_num_minus4", "ue", 0) /\ t[6] = F("pic_order_cnt_type", "ue", 0)
      /\ t[7] = F("log2_max_pic_order_cnt_lsb_minus4", "ue", 0)
      /\ t[8] = F("max_num_ref_frames", "ue", 0)
      /\ t[9] = F("gaps_in_frame_num_value_allowed_flag", "u", 1)
      /\ t[10] = F("pic_width_in_mbs_minus1", "ue", 0)
      /\ t[11] = F("pic_height_in_map_units_minus1", "ue", 0)
      /\ t[12] = F("frame_mbs_only_flag", "u", 1)
      /\ t[13] = F("mb_adaptive_frame_field_flag", "u", 1)
      /\ t[14] = F("direct_8x8_inference_flag", "u", 1) /\ t[15] = F("frame_cropping_flag", "u", 1)
      /\ t[16] = F("vui_parameters_present_flag", "u", 1)
  BY DEF SPSSyntax
<1> HIDE DEF t, p
<1>6. /\ Alike(t, e, 0, 0, 1) /\ Alike(t, e, 2, 8, 4)
      /\ Alike(t, e, 7, 13, 5) /\ Alike(t, e, 13, 18, 3)
  <2>1. Alike(t, e, 0, 0, 1)
    BY <1>1, <1>4, <1>5, KeptValues DEF Alike, F, Plain
  <2>2. Alike(t, e, 2, 8, 4)
    BY <1>1, <1>4, <1>5, KeptValues DEF Alike, F, Plain
  <2>3. Alike(t, e, 7, 13, 5)
    BY <1>1, <1>4, <1>5, KeptValues DEF Alike, F, Plain
  <2>4. Alike(t, e, 13, 18, 3)
    BY <1>1, <1>4, <1>5, KeptValues DEF Alike, F, Plain
  <2> QED
    BY <2>1, <2>2, <2>3, <2>4
<1>7. f[1]["end"] = at[1] /\ Knows(f, t, 1, "profile_idc", s.profile_idc)
  <2>1. f[0]["end"] = at[0]
    BY <1>3, ParseStarts, Zenon
  <2>2. RunRead(f, at, t, e, 0, 0, 1)
    <3>1. 0 \in Nat /\ 1 \in Nat
      OBVIOUS
    <3> QED
      BY ONLY <1>3, <1>6, <2>1, <3>1, RunTaken
  <2>3. t[1].name = "profile_idc" /\ Kept(e[1]) = s.profile_idc
    BY <1>4, <1>5, KeptValues DEF F
  <2> QED
    BY <2>2, <2>3 DEF RunRead
<1>8. f[2]["end"] = at[8]
  <2>1. t[2].kind = "u" /\ t[2].n = 8 /\ Plain(t[2].name)
    BY <1>5 DEF F, Plain
  <2>2. Present(t[2].name, f[1]) /\ Width(t[2], f[1]) = 8
    BY <2>1, PlainPresent, Zenon
  <2>3. Bits!Read(bytes, t[2].kind, Width(t[2], f[1]), f[1]["end"])
          = <<Bits!Number(bytes, at[1], 8), at[8]>>
    BY <1>7, <2>1, <2>2, ConstraintFlags, Zenon
  <2>4. 2 \in 1..Len(t) /\ 2 - 1 = 1
    BY <1>1
  <2>5. FieldReads(f, t, 2, Bits!Number(bytes, at[1], 8), at[8])
    BY <1>3, <2>2, <2>3, <2>4, FieldTaken
  <2> QED
    BY <2>5, Zenon DEF FieldReads
<1>9. /\ f[6]["end"] = at[12]
      /\ Knows(f, t, 3, "level_idc", s.level_idc)
      /\ Knows(f, t, 5, "log2_max_frame_num_minus4", s.log2_max_frame_num - 4)
      /\ Knows(f, t, 6, "pic_order_cnt_type", 0)
  <2>1. RunRead(f, at, t, e, 2, 8, 4)
    <3>1. 2 \in Nat /\ 8 \in Nat /\ 4 \in Nat
      OBVIOUS
    <3>2. Alike(t, e, 2, 8, 4) /\ f[2]["end"] = at[8]
      BY <1>6, <1>8
    <3> QED
      BY ONLY <1>3, <3>1, <3>2, RunTaken
  <2>2. /\ Knows(f, t, 3, t[3].name, Kept(e[9])) /\ Knows(f, t, 5, t[5].name, Kept(e[11]))
        /\ Knows(f, t, 6, t[6].name, Kept(e[12])) /\ f[6]["end"] = at[12]
    BY <2>1 DEF RunRead
  <2>3. /\ t[3].name = "level_idc" /\ t[5].name = "log2_max_frame_num_minus4"
        /\ t[6].name = "pic_order_cnt_type"
    BY <1>5 DEF F
  <2>4. Kept(e[9]) = s.level_idc
    BY <1>4, KeptValues
  <2>5. Kept(e[11]) = s.log2_max_frame_num - 4 /\ Kept(e[12]) = 0
    BY <1>4, KeptValues, Zenon
  <2> QED
    BY <2>2, <2>3, <2>4, <2>5, Zenon
<1>10. /\ f[7]["end"] = at[13]
       /\ Knows(f, t, 7, "log2_max_pic_order_cnt_lsb_minus4", s.log2_max_pic_order_cnt_lsb - 4)
  <2>1. f[6]["pic_order_cnt_type"] = 0
    BY <1>1, <1>9 DEF Knows
  <2>2. /\ t[7].name = "log2_max_pic_order_cnt_lsb_minus4" /\ t[7].kind = e[13].kind
        /\ t[7].n = e[13].n /\ Kept(e[13]) = s.log2_max_pic_order_cnt_lsb - 4
    BY <1>4, <1>5, KeptValues DEF F
  <2>3. Present(t[7].name, f[6]) /\ Width(t[7], f[6]) = t[7].n
    BY <2>1, <2>2 DEF Present, Width
  <2>4. 7 \in 1..Len(t) /\ 13 \in 1..Len(e) /\ 7 - 1 = 6 /\ 13 - 1 = 12
    BY <1>1
  <2>5. IsElement(f, t, e, 7, 13)
    BY <2>2, <2>3, <2>4, Zenon DEF IsElement
  <2>6. FieldReads(f, t, 7, Kept(e[13]), at[13])
    BY <1>3, <1>9, <2>4, <2>5, FieldIsElement
  <2> QED
    BY <2>2, <2>6, Zenon DEF FieldReads
<1>11. /\ f[12]["end"] = at[18]
       /\ Knows(f, t, 8, "max_num_ref_frames", s.max_num_ref_frames)
       /\ Knows(f, t, 10, "pic_width_in_mbs_minus1", s.pic_width_in_mbs_minus1)
       /\ Knows(f, t, 11, "pic_height_in_map_units_minus1", s.pic_height_in_map_units_minus1)
       /\ Knows(f, t, 12, "frame_mbs_only_flag", 1)
  <2>1. RunRead(f, at, t, e, 7, 13, 5)
    <3>1. 7 \in Nat /\ 13 \in Nat /\ 5 \in Nat
      OBVIOUS
    <3>2. Alike(t, e, 7, 13, 5) /\ f[7]["end"] = at[13]
      BY <1>6, <1>10
    <3> QED
      BY ONLY <1>3, <3>1, <3>2, RunTaken
  <2>2. /\ Knows(f, t, 8, t[8].name, Kept(e[14])) /\ Knows(f, t, 10, t[10].name, Kept(e[16]))
        /\ Knows(f, t, 11, t[11].name, Kept(e[17])) /\ Knows(f, t, 12, t[12].name, Kept(e[18]))
        /\ f[12]["end"] = at[18]
    BY <2>1 DEF RunRead
  <2> QED
    BY <1>4, <1>5, <2>2, KeptValues DEF F
<1>12. f[13]["end"] = at[18]
  <2>1. f[12]["frame_mbs_only_flag"] # 0
    BY <1>1, <1>11 DEF Knows
  <2>2. ~Present(t[13].name, f[12])
    BY <1>5, <2>1 DEF Present, F
  <2>3. 13 \in 1..Len(t) /\ 13 - 1 = 12
    BY <1>1
  <2>4. Skipped(f, 13)
    BY <1>3, <2>2, <2>3, FieldAbsent
  <2> QED
    BY <1>11, <2>4 DEF Skipped
<1>13. f[16]["end"] = at[21] /\ Knows(f, t, 16, "vui_parameters_present_flag", 0)
  <2>1. RunRead(f, at, t, e, 13, 18, 3)
    <3>1. 13 \in Nat /\ 18 \in Nat /\ 3 \in Nat
      OBVIOUS
    <3>2. Alike(t, e, 13, 18, 3) /\ f[13]["end"] = at[18]
      BY <1>6, <1>12
    <3> QED
      BY ONLY <1>3, <3>1, <3>2, RunTaken
  <2>2. Knows(f, t, 16, t[16].name, Kept(e[21])) /\ f[16]["end"] = at[21]
    BY <2>1 DEF RunRead
  <2> QED
    BY <1>4, <1>5, <2>2, KeptValues DEF F
<1>14. Knows(f, t, 0, "nal_unit_type", known["nal_unit_type"])
  <2>1. \A i \in 1..Len(t) : t[i].name # "nal_unit_type"
    BY <1>1, <1>5 DEF F
  <2> QED
    BY <1>3, <2>1, KnownStays
<1>15. \A k \in 0..16 : \A name, value : Knows(f, t, k, name, value) => Has(p, name, value)
  BY <1>1, <1>2 DEF Knows, Has
<1>16. SPSLearnt(p, s) /\ p["nal_unit_type"] = known["nal_unit_type"]
  <2>1. /\ Has(p, "profile_idc", s.profile_idc) /\ Has(p, "level_idc", s.level_idc)
        /\ Has(p, "max_num_ref_frames", s.max_num_ref_frames)
        /\ Has(p, "pic_width_in_mbs_minus1", s.pic_width_in_mbs_minus1)
        /\ Has(p, "pic_height_in_map_units_minus1", s.pic_height_in_map_units_minus1)
        /\ Has(p, "vui_parameters_present_flag", 0)
        /\ Has(p, "nal_unit_type", known["nal_unit_type"])
    BY <1>7, <1>9, <1>11, <1>13, <1>14, <1>15
  <2>2. SPSKnown(p, s)
    BY <1>9, <1>10, <1>15 DEF SPSKnown
  <2> QED
    BY <2>1, <2>2, Zenon DEF SPSLearnt, Has
<1> QED
  BY <1>2, <1>13, <1>16 DEF p, t

LEMMA PPSParsed ==
  ASSUME NEW at, NEW bytes, NEW known, NEW s, NEW e, PPSItems(s, e), HeaderRead(at, bytes, e),
         NEW active, SPSKnown(known, active), "nal_unit_type" \in DOMAIN known
  PROVE  /\ SPSKnown(Parse(PPSSyntax, bytes, known), active)
         /\ PPSKnown(Parse(PPSSyntax, bytes, known))
         /\ Parse(PPSSyntax, bytes, known)["entropy_coding_mode_flag"] = 0
         /\ Parse(PPSSyntax, bytes, known)["end"] = at[15]
         /\ Parse(PPSSyntax, bytes, known)["nal_unit_type"] = known["nal_unit_type"]
<1> DEFINE t == PPSSyntax
           p == Parse(t, bytes, known)
<1>1. Len(t) = 15 /\ Len(e) = 15
  BY DEF PPSSyntax, PPSItems
<1>2. PICK f : ParseSteps(f, t, bytes, known) /\ p = f[15]
  <2>1. Len(t) \in Nat
    BY <1>1
  <2> HIDE DEF t
  <2>2. PICK f : ParseSteps(f, t, bytes, known) /\ Parse(t, bytes, known) = f[Len(t)]
    BY <2>1, Parsed, Zenon
  <2> QED
    BY <1>1, <2>2
<1>3. Parsing(f, at, t, bytes, known, e)
  <2>1. Len(e) \in Nat
    BY <1>1
  <2> QED
    BY <1>2, <2>1, Tables, Zenon DEF Parsing
<1>4. /\ e[1] = UE(0) /\ e[2] = UE(0) /\ e[3] = U(1, 0) /\ e[4] = U(1, 0) /\ e[5] = UE(0)
      /\ e[6] = UE(s.max_num_ref_frames - 1) /\ e[7] = UE(s.max_num_ref_frames - 1)
      /\ e[8] = U(1, 0) /\ e[9] = U(2, 0) /\ e[10] = SE(0) /\ e[11] = SE(0) /\ e[12] = SE(0)
      /\ e[13] = U(1, 1) /\ e[14] = U(1, 0) /\ e[15] = U(1, 0)
  BY Zenon DEF PPSItems
<1>5. /\ t[1] = F("pic_parameter_set_id", "ue", 0) /\ t[2] = F("seq_parameter_set_id", "ue", 0)
      /\ t[3] = F("entropy_coding_mode_flag", "u", 1)
      /\ t[4] = F("bottom_field_pic_order_in_frame_present_flag", "u", 1)
      /\ t[5] = F("num_slice_groups_minus1", "ue", 0)
      /\ t[6] = F("num_ref_idx_l0_default_active_minus1", "ue", 0)
      /\ t[7] = F("num_ref_idx_l1_default_active_minus1", "ue", 0)
      /\ t[8] = F("weighted_pred_flag", "u", 1) /\ t[9] = F("weighted_bipred_idc", "u", 2)
      /\ t[10] = F("pic_init_qp_minus26", "se", 0) /\ t[11] = F("pic_init_qs_minus26", "se", 0)
      /\ t[12] = F("chroma_qp_index_offset", "se", 0)
      /\ t[13] = F("deblocking_filter_control_present_flag", "u", 1)
      /\ t[14] = F("constrained_intra_pred_flag", "u", 1)
      /\ t[15] = F("redundant_pic_cnt_present_flag", "u", 1)
  BY DEF PPSSyntax
<1> HIDE DEF t, p
<1>6. Alike(t, e, 0, 0, 15)
  BY <1>1, <1>4, <1>5, KeptValues DEF Alike, F, Plain
<1>7. RunRead(f, at, t, e, 0, 0, 15)
  <2>1. f[0]["end"] = at[0] /\ 0 \in Nat /\ 15 \in Nat
    BY <1>3, ParseStarts, Zenon
  <2> QED
    BY ONLY <1>3, <1>6, <2>1, RunTaken
<1>8. /\ f[15]["end"] = at[15]
      /\ Knows(f, t, 3, t[3].name, Kept(e[3])) /\ Knows(f, t, 4, t[4].name, Kept(e[4]))
      /\ Knows(f, t, 10, t[10].name, Kept(e[10])) /\ Knows(f, t, 13, t[13].name, Kept(e[13]))
      /\ Knows(f, t, 15, t[15].name, Kept(e[15]))
  BY <1>7 DEF RunRead
<1>9. /\ Knows(f, t, 3, "entropy_coding_mode_flag", 0)
      /\ Knows(f, t, 4, "bottom_field_pic_order_in_frame_present_flag", 0)
      /\ Knows(f, t, 10, "pic_init_qp_minus26", 0)
      /\ Knows(f, t, 13, "deblocking_filter_control_present_flag", 1)
      /\ Knows(f, t, 15, "redundant_pic_cnt_present_flag", 0)
  BY <1>4, <1>5, <1>8, KeptValues DEF F
<1>10. /\ Knows(f, t, 0, "nal_unit_type", known["nal_unit_type"])
       /\ Knows(f, t, 0, "log2_max_frame_num_minus4", active.log2_max_frame_num - 4)
       /\ Knows(f, t, 0, "pic_order_cnt_type", 0)
       /\ Knows(f, t, 0, "log2_max_pic_order_cnt_lsb_minus4", active.log2_max_pic_order_cnt_lsb - 4)
  <2>1. \A i \in 1..Len(t) : t[i].name \notin {"nal_unit_type", "log2_max_frame_num_minus4",
                               "pic_order_cnt_type", "log2_max_pic_order_cnt_lsb_minus4"}
    BY <1>1, <1>5 DEF F
  <2>2. \A x \in {"nal_unit_type", "log2_max_frame_num_minus4", "pic_order_cnt_type",
                  "log2_max_pic_order_cnt_lsb_minus4"} :
          /\ x \in DOMAIN known /\ x # "end"
          /\ \A i \in 1..Len(t) : t[i].name # x
    BY <2>1 DEF SPSKnown, Has
  <2>3. \A x \in {"nal_unit_type", "log2_max_frame_num_minus4", "pic_order_cnt_type",
                  "log2_max_pic_order_cnt_lsb_minus4"} :
          Knows(f, t, 0, x, known[x])
    BY <1>3, <2>2, KnownStays
  <2> QED
    BY <2>3 DEF SPSKnown, Has
<1>11. \A k \in 0..15 : \A name, value : Knows(f, t, k, name, value) => Has(p, name, value)
  BY <1>1, <1>2 DEF Knows, Has
<1>12. SPSKnown(p, active)
  BY <1>10, <1>11 DEF SPSKnown
<1>13. PPSKnown(p)
  BY <1>9, <1>11 DEF PPSKnown
<1>14. Has(p, "entropy_coding_mode_flag", 0) /\ Has(p, "nal_unit_type", known["nal_unit_type"])
  BY <1>9, <1>10, <1>11
<1> QED
  BY <1>2, <1>8, <1>12, <1>13, <1>14 DEF Has, p, t

LEMMA SliceFields ==
  /\ Len(SliceSyntax) = 18
  /\ SliceSyntax[1] = F("first_mb_in_slice", "ue", 0) /\ SliceSyntax[2] = F("slice_type", "ue", 0)
  /\ SliceSyntax[3] = F("pic_parameter_set_id", "ue", 0) /\ SliceSyntax[4] = F("frame_num", "u", 0)
  /\ SliceSyntax[5] = F("idr_pic_id", "ue", 0) /\ SliceSyntax[6] = F("pic_order_cnt_lsb", "u", 0)
  /\ SliceSyntax[7] = F("delta_pic_order_cnt_bottom", "se", 0)
  /\ SliceSyntax[8] = F("redundant_pic_cnt", "ue", 0)
  /\ SliceSyntax[9] = F("num_ref_idx_active_override_flag", "u", 1)
  /\ SliceSyntax[10] = F("num_ref_idx_l0_active_minus1", "ue", 0)
  /\ SliceSyntax[11] = F("ref_pic_list_modification_flag_l0", "u", 1)
  /\ SliceSyntax[12] = F("no_output_of_prior_pics_flag", "u", 1)
  /\ SliceSyntax[13] = F("long_term_reference_flag", "u", 1)
  /\ SliceSyntax[14] = F("adaptive_ref_pic_marking_mode_flag", "u", 1)
  /\ SliceSyntax[15] = F("slice_qp_delta", "se", 0)
  /\ SliceSyntax[16] = F("disable_deblocking_filter_idc", "ue", 0)
  /\ SliceSyntax[17] = F("slice_alpha_c0_offset_div2", "se", 0)
  /\ SliceSyntax[18] = F("slice_beta_offset_div2", "se", 0)
  BY DEF SliceSyntax

\* How a slice header is parsed with the parameter sets of s.
SliceParsing(f, at, bytes, known, e, s) ==
  /\ Parsing(f, at, SliceSyntax, bytes, known, e)
  /\ SPSKnown(known, s) /\ PPSKnown(known)
  /\ s.log2_max_frame_num \in Nat /\ s.log2_max_pic_order_cnt_lsb \in Nat
  /\ {"nal_unit_type", "nal_ref_idc"} \subseteq DOMAIN known

\* The names of what a slice takes from elsewhere.
Outer ==
  {"nal_unit_type", "nal_ref_idc", "log2_max_frame_num_minus4", "pic_order_cnt_type",
   "log2_max_pic_order_cnt_lsb_minus4", "bottom_field_pic_order_in_frame_present_flag",
   "redundant_pic_cnt_present_flag", "deblocking_filter_control_present_flag",
   "pic_init_qp_minus26"}

LEMMA OuterStays ==
  ASSUME NEW f, NEW at, NEW bytes, NEW known, NEW e, NEW s, SliceParsing(f, at, bytes, known, e, s)
  PROVE  \A x \in Outer, j \in 0..18 : x \in DOMAIN f[j] /\ f[j][x] = known[x]
<1> DEFINE t == SliceSyntax
<1>1. Len(t) = 18 /\ \A i \in 1..18 : t[i].name \notin Outer /\ "end" \notin Outer
  BY SliceFields DEF F, Outer
<1>2. \A x \in Outer : x \in DOMAIN known
  BY DEF Outer, SliceParsing, SPSKnown, PPSKnown, Has
<1> HIDE DEF t
<1>3. \A x \in Outer : x # "end" /\ \A i \in 1..Len(t) : t[i].name # x
  BY <1>1
<1>4. Parsing(f, at, t, bytes, known, e)
  BY Zenon DEF SliceParsing, t
<1>5. \A x \in Outer : Knows(f, t, 0, x, known[x])
  BY <1>2, <1>3, <1>4, KnownStays
<1> QED
  BY <1>1, <1>5 DEF Knows

\* The values of those.
OuterRead(fs, known, s) ==
  /\ fs["log2_max_frame_num_minus4"] + 4 = s.log2_max_frame_num
  /\ fs["log2_max_pic_order_cnt_lsb_minus4"] + 4 = s.log2_max_pic_order_cnt_lsb
  /\ fs["pic_order_cnt_type"] = 0
  /\ fs["bottom_field_pic_order_in_frame_present_flag"] = 0
  /\ fs["redundant_pic_cnt_present_flag"] = 0
  /\ fs["deblocking_filter_control_present_flag"] = 1
  /\ fs["nal_unit_type"] = known["nal_unit_type"] /\ fs["nal_ref_idc"] = known["nal_ref_idc"]

LEMMA OuterValues ==
  ASSUME NEW f, NEW at, NEW bytes, NEW known, NEW e, NEW s, SliceParsing(f, at, bytes, known, e, s)
  PROVE  \A j \in 0..18 : OuterRead(f[j], known, s)
<1> SUFFICES ASSUME NEW j \in 0..18
             PROVE  OuterRead(f[j], known, s)
  OBVIOUS
<1>1. \A x \in Outer : f[j][x] = known[x]
  BY OuterStays
<1>2. /\ f[j]["log2_max_frame_num_minus4"] = known["log2_max_frame_num_minus4"]
      /\ f[j]["log2_max_pic_order_cnt_lsb_minus4"] = known["log2_max_pic_order_cnt_lsb_minus4"]
      /\ f[j]["pic_order_cnt_type"] = known["pic_order_cnt_type"]
      /\ f[j]["bottom_field_pic_order_in_frame_present_flag"]
           = known["bottom_field_pic_order_in_frame_present_flag"]
      /\ f[j]["redundant_pic_cnt_present_flag"] = known["redundant_pic_cnt_present_flag"]
      /\ f[j]["deblocking_filter_control_present_flag"]
           = known["deblocking_filter_control_present_flag"]
      /\ f[j]["nal_unit_type"] = known["nal_unit_type"]
      /\ f[j]["nal_ref_idc"] = known["nal_ref_idc"]
  BY <1>1 DEF Outer
<1>3. /\ known["log2_max_frame_num_minus4"] = s.log2_max_frame_num - 4
      /\ known["log2_max_pic_order_cnt_lsb_minus4"] = s.log2_max_pic_order_cnt_lsb - 4
      /\ known["pic_order_cnt_type"] = 0
      /\ known["bottom_field_pic_order_in_frame_present_flag"] = 0
      /\ known["redundant_pic_cnt_present_flag"] = 0
      /\ known["deblocking_filter_control_present_flag"] = 1
      /\ s.log2_max_frame_num \in Nat /\ s.log2_max_pic_order_cnt_lsb \in Nat
  BY DEF SliceParsing, SPSKnown, PPSKnown, Has
<1> QED
  BY <1>2, <1>3 DEF OuterRead

\* The fields up to frame_num.
HeadItems(e, s, type, number) ==
  /\ Len(e) >= 4
  /\ e[1] = UE(0) /\ e[2] = UE(type) /\ e[3] = UE(0) /\ e[4] = U(s.log2_max_frame_num, number)

HeadRead(f, at, s, type, number) ==
  /\ f[4]["end"] = at[4]
  /\ Knows(f, SliceSyntax, 1, "first_mb_in_slice", 0)
  /\ Knows(f, SliceSyntax, 2, "slice_type", type)
  /\ Knows(f, SliceSyntax, 4, "frame_num", number % 2^s.log2_max_frame_num)

LEMMA SliceHead ==
  ASSUME NEW f, NEW at, NEW bytes, NEW known, NEW e, NEW s, SliceParsing(f, at, bytes, known, e, s),
         NEW type, NEW number, HeadItems(e, s, type, number)
  PROVE  HeadRead(f, at, s, type, number)
<1> DEFINE t == SliceSyntax
<1>1. Parsing(f, at, t, bytes, known, e) /\ Len(t) = 18 /\ Len(e) \in Nat
  BY SliceFields, Zenon DEF SliceParsing, Parsing
<1>0. /\ Len(e) >= 4
      /\ e[1] = UE(0) /\ e[2] = UE(type) /\ e[3] = UE(0) /\ e[4] = U(s.log2_max_frame_num, number)
  BY Zenon DEF HeadItems
<1>2. /\ t[1] = F("first_mb_in_slice", "ue", 0) /\ t[2] = F("slice_type", "ue", 0)
      /\ t[3] = F("pic_parameter_set_id", "ue", 0) /\ t[4] = F("frame_num", "u", 0)
  BY SliceFields, Zenon
<1> HIDE DEF t
<1>3. Alike(t, e, 0, 0, 3)
  <2>1. \A i \in 1..3 : e[i].kind = "ue" /\ e[i].n = 0
    <3>1. e[1] = UE(0) /\ e[2] = UE(type) /\ e[3] = UE(0)
      BY <1>0
    <3> QED
      BY ONLY <3>1 DEF UE
  <2>2. \A i \in 1..3 : t[i].kind = "ue" /\ t[i].n = 0 /\ Plain(t[i].name)
    BY <1>2 DEF F, Plain
  <2> QED
    BY <1>0, <1>1, <2>1, <2>2 DEF Alike
<1>4. RunRead(f, at, t, e, 0, 0, 3)
  <2>1. f[0]["end"] = at[0] /\ 0 \in Nat /\ 3 \in Nat
    BY <1>1, ParseStarts, Zenon
  <2> QED
    BY ONLY <1>1, <1>3, <2>1, RunTaken
<1>5. /\ f[3]["end"] = at[3]
      /\ Knows(f, t, 1, t[1].name, Kept(e[1])) /\ Knows(f, t, 2, t[2].name, Kept(e[2]))
  BY <1>4 DEF RunRead
<1>6. Knows(f, t, 1, "first_mb_in_slice", 0) /\ Knows(f, t, 2, "slice_type", type)
  <2>1. t[1].name = "first_mb_in_slice" /\ t[2].name = "slice_type"
    BY <1>2 DEF F
  <2>2. Kept(e[1]) = 0 /\ Kept(e[2]) = type
    BY <1>0, KeptValues, Zenon
  <2> QED
    BY <1>5, <2>1, <2>2, Zenon
<1>7. FieldReads(f, t, 4, number % 2^s.log2_max_frame_num, at[4])
  <2>1. t[4].name = "frame_num" /\ t[4].kind = "u"
    BY <1>2 DEF F
  <2>2. /\ e[4].kind = "u" /\ e[4].n = s.log2_max_frame_num
        /\ Kept(e[4]) = number % 2^s.log2_max_frame_num
    <3>1. e[4] = U(s.log2_max_frame_num, number)
      BY <1>0
    <3> QED
      BY ONLY <3>1, KeptValues
  <2>3. f[3]["log2_max_frame_num_minus4"] + 4 = s.log2_max_frame_num
    <3>1. OuterRead(f[3], known, s)
      BY OuterValues
    <3> QED
      BY <3>1, Zenon DEF OuterRead
  <2>4. Present(t[4].name, f[3]) /\ Width(t[4], f[3]) = e[4].n
    BY <2>1, <2>2, <2>3 DEF Present, Width
  <2>5. 4 \in 1..Len(t) /\ 4 \in 1..Len(e) /\ 4 - 1 = 3
    BY <1>0, <1>1
  <2>6. IsElement(f, t, e, 4, 4)
    BY <2>1, <2>2, <2>4, <2>5, Zenon DEF IsElement
  <2>7. FieldReads(f, t, 4, Kept(e[4]), at[4])
    BY ONLY <1>1, <1>5, <2>5, <2>6, FieldIsElement
  <2> QED
    BY <2>2, <2>7, Zenon
<1>8. t[4].name = "frame_num"
  BY <1>2 DEF F
<1> QED
  BY <1>6, <1>7, <1>8, Zenon DEF FieldReads, HeadRead, t

\* The picture order count, and what would follow it in other streams.
CountRead(f, at, s, m, count) ==
  /\ f[8]["end"] = at[m]
  /\ Knows(f, SliceSyntax, 6, "pic_order_cnt_lsb", count % 2^s.log2_max_pic_order_cnt_lsb)

LEMMA SliceCount ==
  ASSUME NEW f, NEW at, NEW bytes, NEW known, NEW e, NEW s, SliceParsing(f, at, bytes, known, e, s),
         NEW m \in 1..Len(e), NEW count,
         e[m] = U(s.log2_max_pic_order_cnt_lsb, count), f[5]["end"] = at[m - 1]
  PROVE  CountRead(f, at, s, m, count)
<1> DEFINE t == SliceSyntax
<1>1. Parsing(f, at, t, bytes, known, e) /\ Len(t) = 18
  BY SliceFields, Zenon DEF SliceParsing
<1>2. /\ t[6].name = "pic_order_cnt_lsb" /\ t[6].kind = "u"
      /\ t[7].name = "delta_pic_order_cnt_bottom" /\ t[8].name = "redundant_pic_cnt"
  BY SliceFields DEF F
<1> HIDE DEF t
<1>3. OuterRead(f[5], known, s) /\ OuterRead(f[6], known, s) /\ OuterRead(f[7], known, s)
  BY OuterValues
<1>4. FieldReads(f, t, 6, count % 2^s.log2_max_pic_order_cnt_lsb, at[m])
  <2>1. /\ e[m].kind = "u" /\ e[m].n = s.log2_max_pic_order_cnt_lsb
        /\ Kept(e[m]) = count % 2^s.log2_max_pic_order_cnt_lsb
    <3> DEFINE n == s.log2_max_pic_order_cnt_lsb
               g == e[m]
    <3>1. g = U(n, count)
      OBVIOUS
    <3> HIDE DEF n, g
    <3>2. g.kind = "u" /\ g.n = n /\ Kept(g) = count % 2^n
      BY ONLY <3>1, KeptValues
    <3> QED
      BY <3>2, Zenon DEF n, g
  <2>2. /\ f[5]["log2_max_pic_order_cnt_lsb_minus4"] + 4 = s.log2_max_pic_order_cnt_lsb
        /\ f[5]["pic_order_cnt_type"] = 0
    BY <1>3 DEF OuterRead
  <2>3. Present(t[6].name, f[5]) /\ Width(t[6], f[5]) = e[m].n
    BY <1>2, <2>1, <2>2 DEF Present, Width
  <2>4. 6 \in 1..Len(t) /\ 6 - 1 = 5
    BY <1>1
  <2>5. IsElement(f, t, e, 6, m)
    BY <1>2, <2>1, <2>3, <2>4, Zenon DEF IsElement
  <2>6. FieldReads(f, t, 6, Kept(e[m]), at[m])
    BY <1>1, <2>4, <2>5, FieldIsElement
  <2> QED
    BY <2>1, <2>6, Zenon
<1>5. f[7] = f[6]
  <2>1. f[6]["bottom_field_pic_order_in_frame_present_flag"] # 1
    BY <1>3 DEF OuterRead
  <2>2. ~Present(t[7].name, f[6])
    BY <1>2, <2>1 DEF Present
  <2>3. 7 \in 1..Len(t) /\ 7 - 1 = 6
    BY <1>1
  <2>4. Skipped(f, 7)
    BY <1>1, <2>2, <2>3, FieldAbsent
  <2> QED
    BY <2>4 DEF Skipped
<1>6. f[8] = f[7]
  <2>1. f[7]["redundant_pic_cnt_present_flag"] # 1
    BY <1>3 DEF OuterRead
  <2>2. ~Present(t[8].name, f[7])
    BY <1>2, <2>1 DEF Present
  <2>3. 8 \in 1..Len(t) /\ 8 - 1 = 7
    BY <1>1
  <2>4. Skipped(f, 8)
    BY <1>1, <2>2, <2>3, FieldAbsent
  <2> QED
    BY <2>4 DEF Skipped
<1> QED
  BY <1>2, <1>4, <1>5, <1>6, Zenon DEF FieldReads, CountRead, t

\* The quantiser and the deblocking filter.
TailItems(e, m, delta) ==
  /\ m + 4 <= Len(e)
  /\ e[m + 1] = SE(delta) /\ e[m + 2] = UE(0) /\ e[m + 3] = SE(0) /\ e[m + 4] = SE(0)

TailRead(f, at, m, delta) ==
  f[18]["end"] = at[m + 4] /\ Knows(f, SliceSyntax, 15, "slice_qp_delta", delta)

LEMMA SliceTail ==
  ASSUME NEW f, NEW at, NEW bytes, NEW known, NEW e, NEW s, SliceParsing(f, at, bytes, known, e, s),
         NEW m \in Nat, NEW delta, TailItems(e, m, delta), f[14]["end"] = at[m]
  PROVE  TailRead(f, at, m, delta)
<1> DEFINE t == SliceSyntax
<1>1. Parsing(f, at, t, bytes, known, e) /\ Len(t) = 18 /\ Len(e) \in Nat
  BY SliceFields, Zenon DEF SliceParsing, Parsing
<1>2. /\ t[15] = F("slice_qp_delta", "se", 0) /\ t[16] = F("disable_deblocking_filter_idc", "ue", 0)
      /\ t[17] = F("slice_alpha_c0_offset_div2", "se", 0)
      /\ t[18] = F("slice_beta_offset_div2", "se", 0)
  BY SliceFields, Zenon
<1> HIDE DEF t
<1>0. /\ m + 4 <= Len(e)
      /\ e[m + 1] = SE(delta) /\ e[m + 2] = UE(0) /\ e[m + 3] = SE(0) /\ e[m + 4] = SE(0)
  BY Zenon DEF TailItems
<1>3. FieldReads(f, t, 15, delta, at[m + 1])
  <2>1. t[15].kind = "se" /\ t[15].n = 0 /\ Plain(t[15].name)
    BY <1>2 DEF F, Plain
  <2>2. e[m + 1].kind = "se" /\ e[m + 1].n = 0 /\ Kept(e[m + 1]) = delta
    BY <1>0, KeptValues, Zenon
  <2>3. 15 \in 1..Len(t) /\ m + 1 \in 1..Len(e) /\ 15 - 1 = 14 /\ (m + 1) - 1 = m
    BY <1>0, <1>1
  <2>4. Present(t[15].name, f[14]) /\ Width(t[15], f[14]) = e[m + 1].n
    BY <2>1, <2>2, PlainPresent, Zenon
  <2>5. IsElement(f, t, e, 15, m + 1)
    BY <2>1, <2>2, <2>3, <2>4, Zenon DEF IsElement
  <2>6. FieldReads(f, t, 15, Kept(e[m + 1]), at[m + 1])
    <3> DEFINE n == m + 1
    <3>1. n \in 1..Len(e) /\ n - 1 = m
      BY <2>3
    <3>2. IsElement(f, t, e, 15, n)
      BY <2>5
    <3> HIDE DEF n
    <3>3. FieldReads(f, t, 15, Kept(e[n]), at[n])
      BY <1>1, <2>3, <3>1, <3>2, FieldIsElement
    <3> QED
      BY <3>3 DEF n
  <2> QED
    BY <2>2, <2>6, Zenon

<1>4. FieldReads(f, t, 16, 0, at[m + 2])
  <2>1. t[16].kind = "ue" /\ t[16].n = 0 /\ t[16].name = "disable_deblocking_filter_idc"
    BY <1>2 DEF F
  <2>2. e[m + 2].kind = "ue" /\ e[m + 2].n = 0 /\ Kept(e[m + 2]) = 0
    BY <1>0, KeptValues, Zenon
  <2>3. 16 \in 1..Len(t) /\ m + 2 \in 1..Len(e) /\ 16 - 1 = 15 /\ (m + 2) - 1 = m + 1
    BY <1>0, <1>1
  <2>4. f[15]["deblocking_filter_control_present_flag"] = 1
    <3>1. OuterRead(f[15], known, s)
      BY OuterValues
    <3> QED
      BY <3>1, Zenon DEF OuterRead
  <2>6. Present(t[16].name, f[15]) /\ Width(t[16], f[15]) = e[m + 2].n
    BY <2>1, <2>2, <2>4 DEF Present, Width
  <2>7. f[15]["end"] = at[m + 1]
    BY <1>3, Zenon DEF FieldReads
  <2> DEFINE n == m + 2
  <2>8. n \in 1..Len(e) /\ f[16 - 1]["end"] = at[n - 1]
    BY <2>3, <2>7
  <2>9. IsElement(f, t, e, 16, n)
    BY <2>1, <2>2, <2>3, <2>6, Zenon DEF IsElement
  <2> HIDE DEF n
  <2>10. FieldReads(f, t, 16, Kept(e[n]), at[n])
    BY <1>1, <2>3, <2>8, <2>9, FieldIsElement
  <2> QED
    BY <2>2, <2>10, Zenon DEF n
<1>5. FieldReads(f, t, 17, 0, at[m + 3])
  <2>1. t[17].kind = "se" /\ t[17].n = 0 /\ t[17].name = "slice_alpha_c0_offset_div2"
    BY <1>2 DEF F
  <2>2. e[m + 3].kind = "se" /\ e[m + 3].n = 0 /\ Kept(e[m + 3]) = 0
    BY <1>0, KeptValues, Zenon
  <2>3. 17 \in 1..Len(t) /\ m + 3 \in 1..Len(e) /\ 17 - 1 = 16 /\ (m + 3) - 1 = m + 2
    BY <1>0, <1>1
  <2>4. f[16]["deblocking_filter_control_present_flag"] = 1
    <3>1. OuterRead(f[16], known, s)
      BY OuterValues
    <3> QED
      BY <3>1, Zenon DEF OuterRead
  <2>5. f[16]["disable_deblocking_filter_idc"] = 0
    <3>1. 16 \in 16..Len(t) /\ t[16].name = "disable_deblocking_filter_idc"
      BY <1>1, <1>2 DEF F
    <3> QED
      BY <1>4, <3>1, Zenon DEF FieldReads, Knows
  <2>6. Present(t[17].name, f[16]) /\ Width(t[17], f[16]) = e[m + 3].n
    BY <2>1, <2>2, <2>4, <2>5 DEF Present, Width
  <2>7. f[16]["end"] = at[m + 2]
    BY <1>4, Zenon DEF FieldReads
  <2> DEFINE n == m + 3
  <2>8. n \in 1..Len(e) /\ f[17 - 1]["end"] = at[n - 1]
    BY <2>3, <2>7
  <2>9. IsElement(f, t, e, 17, n)
    BY <2>1, <2>2, <2>3, <2>6, Zenon DEF IsElement
  <2> HIDE DEF n
  <2>10. FieldReads(f, t, 17, Kept(e[n]), at[n])
    BY <1>1, <2>3, <2>8, <2>9, FieldIsElement
  <2> QED
    BY <2>2, <2>10, Zenon DEF n
<1>6. FieldReads(f, t, 18, 0, at[m + 4])
  <2>1. t[18].kind = "se" /\ t[18].n = 0 /\ t[18].name = "slice_beta_offset_div2"
    BY <1>2 DEF F
  <2>2. e[m + 4].kind = "se" /\ e[m + 4].n = 0 /\ Kept(e[m + 4]) = 0
    BY <1>0, KeptValues, Zenon
  <2>3. 18 \in 1..Len(t) /\ m + 4 \in 1..Len(e) /\ 18 - 1 = 17 /\ (m + 4) - 1 = m + 3
    BY <1>0, <1>1
  <2>4. f[17]["deblocking_filter_control_present_flag"] = 1
    <3>1. OuterRead(f[17], known, s)
      BY OuterValues
    <3> QED
      BY <3>1, Zenon DEF OuterRead
  <2>5. f[17]["disable_deblocking_filter_idc"] = 0
    <3>1. 17 \in 16..Len(t) /\ t[16].name = "disable_deblocking_filter_idc"
      BY <1>1, <1>2 DEF F
    <3> QED
      BY <1>4, <3>1, Zenon DEF FieldReads, Knows
  <2>6. Present(t[18].name, f[17]) /\ Width(t[18], f[17]) = e[m + 4].n
    BY <2>1, <2>2, <2>4, <2>5 DEF Present, Width
  <2>7. f[17]["end"] = at[m + 3]
    BY <1>5, Zenon DEF FieldReads
  <2> DEFINE n == m + 4
  <2>8. n \in 1..Len(e) /\ f[18 - 1]["end"] = at[n - 1]
    BY <2>3, <2>7
  <2>9. IsElement(f, t, e, 18, n)
    BY <2>1, <2>2, <2>3, <2>6, Zenon DEF IsElement
  <2> HIDE DEF n
  <2>10. FieldReads(f, t, 18, Kept(e[n]), at[n])
    BY <1>1, <2>3, <2>8, <2>9, FieldIsElement
  <2> QED
    BY <2>2, <2>10, Zenon DEF n
<1>7. t[15].name = "slice_qp_delta"
  BY <1>2 DEF F
<1> QED
  BY <1>3, <1>6, <1>7, Zenon DEF FieldReads, TailRead, t

\* What the receiver learns from a slice header.
SliceLearnt(fs, s, h, type) ==
  /\ SPSKnown(fs, s) /\ PPSKnown(fs)
  /\ fs["first_mb_in_slice"] = 0 /\ fs["slice_type"] = type
  /\ fs["frame_num"] = h.frame_num % 2^s.log2_max_frame_num
  /\ fs["pic_order_cnt_lsb"] = h.pic_order_cnt_lsb % 2^s.log2_max_pic_order_cnt_lsb
  /\ fs["slice_qp_delta"] = h.slice_qp_delta

\* The start and the end of a slice header are that of any other.
LEMMA SliceEnds ==
  ASSUME NEW f, NEW at, NEW bytes, NEW known, NEW e, NEW s, SliceParsing(f, at, bytes, known, e, s),
         NEW h, NEW type,
         Knows(f, SliceSyntax, 1, "first_mb_in_slice", 0), Knows(f, SliceSyntax, 2, "slice_type", type),
         Knows(f, SliceSyntax, 4, "frame_num", h.frame_num % 2^s.log2_max_frame_num),
         Knows(f, SliceSyntax, 6, "pic_order_cnt_lsb",
               h.pic_order_cnt_lsb % 2^s.log2_max_pic_order_cnt_lsb),
         Knows(f, SliceSyntax, 15, "slice_qp_delta", h.slice_qp_delta)
  PROVE  SliceLearnt(f[18], s, h, type) /\ f[18]["nal_unit_type"] = known["nal_unit_type"]
<1>1. Len(SliceSyntax) = 18
  BY SliceFields
<1>2. /\ f[18]["first_mb_in_slice"] = 0 /\ f[18]["slice_type"] = type
      /\ f[18]["frame_num"] = h.frame_num % 2^s.log2_max_frame_num
      /\ f[18]["pic_order_cnt_lsb"] = h.pic_order_cnt_lsb % 2^s.log2_max_pic_order_cnt_lsb
      /\ f[18]["slice_qp_delta"] = h.slice_qp_delta
  <2>1. 18 \in 1..18 /\ 18 \in 2..18 /\ 18 \in 4..18 /\ 18 \in 6..18 /\ 18 \in 15..18
    OBVIOUS
  <2> QED
    BY <1>1, <2>1, Zenon DEF Knows
<1>3. \A x \in Outer : x \in DOMAIN f[18] /\ f[18][x] = known[x]
  BY OuterStays
<1>4. SPSKnown(known, s) /\ PPSKnown(known)
  BY Zenon DEF SliceParsing
<1>5. SPSKnown(f[18], s)
  BY <1>3, <1>4 DEF SPSKnown, Has, Outer
<1>6. PPSKnown(f[18])
  BY <1>3, <1>4 DEF PPSKnown, Has, Outer
<1>7. f[18]["nal_unit_type"] = known["nal_unit_type"]
  BY <1>3 DEF Outer
<1> QED
  BY <1>2, <1>5, <1>6, <1>7, Zenon DEF SliceLearnt

LEMMA ISliceParsed ==
  ASSUME NEW at, NEW bytes, NEW known, NEW s, NEW h, NEW e,
         ISliceItems(s, h, e), HeaderRead(at, bytes, e),
         SPSKnown(known, s), PPSKnown(known),
         s.log2_max_frame_num \in Nat, s.log2_max_pic_order_cnt_lsb \in Nat,
         {"nal_unit_type", "nal_ref_idc"} \subseteq DOMAIN known,
         known["nal_unit_type"] = 5, known["nal_ref_idc"] # 0
  PROVE  /\ SliceLearnt(Parse(SliceSyntax, bytes, known), s, h, 7)
         /\ Parse(SliceSyntax, bytes, known)["end"] = at[12]
         /\ Parse(SliceSyntax, bytes, known)["nal_unit_type"] = 5
<1> DEFINE t == SliceSyntax
           p == Parse(t, bytes, known)
<1>1. PICK f : Parsing(f, at, t, bytes, known, e) /\ p = f[18] /\ Len(t) = 18
  <2>1. Len(t) = 18 /\ Len(t) \in Nat
    BY SliceFields
  <2>2. Len(e) \in Nat
    BY DEF ISliceItems
  <2> HIDE DEF t
  <2>3. PICK f : ParseSteps(f, t, bytes, known) /\ Parse(t, bytes, known) = f[Len(t)]
    BY <2>1, Parsed, Zenon
  <2>4. Table(t)
    BY Tables DEF t
  <2>5. Parsing(f, at, t, bytes, known, e)
    BY <2>2, <2>3, <2>4, Zenon DEF Parsing
  <2> QED
    BY <2>1, <2>3, <2>5
<1>2. /\ SliceParsing(f, at, bytes, known, e, s) /\ Len(e) = 12
      /\ known["nal_unit_type"] = 5 /\ known["nal_ref_idc"] # 0
      /\ e[1] = UE(0) /\ e[2] = UE(7) /\ e[3] = UE(0) /\ e[4] = U(s.log2_max_frame_num, h.frame_num)
      /\ e[5] = UE(0) /\ e[6] = U(s.log2_max_pic_order_cnt_lsb, h.pic_order_cnt_lsb)
      /\ e[7] = U(1, 0) /\ e[8] = U(1, 0)
      /\ e[9] = SE(h.slice_qp_delta) /\ e[10] = UE(0) /\ e[11] = SE(0) /\ e[12] = SE(0)
  <2>1. SliceParsing(f, at, bytes, known, e, s)
    BY <1>1, Zenon DEF SliceParsing
  <2> QED
    BY <2>1, Zenon DEF ISliceItems
<1> HIDE DEF t, p
<1>3. 12 >= 4
  OBVIOUS
<1>4. /\ f[4]["end"] = at[4]
      /\ Knows(f, t, 1, "first_mb_in_slice", 0) /\ Knows(f, t, 2, "slice_type", 7)
      /\ Knows(f, t, 4, "frame_num", h.frame_num % 2^s.log2_max_frame_num)
  <2>1. HeadItems(e, s, 7, h.frame_num)
    BY <1>2, <1>3, Zenon DEF HeadItems
  <2>2. HeadRead(f, at, s, 7, h.frame_num)
    BY ONLY <1>2, <2>1, SliceHead
  <2> QED
    BY <2>2, Zenon DEF HeadRead, t
<1>5. FieldReads(f, t, 5, 0, at[5])
  <2>1. t[5].name = "idr_pic_id" /\ t[5].kind = "ue" /\ t[5].n = 0
    BY SliceFields DEF F, t
  <2>2. e[5].kind = "ue" /\ e[5].n = 0 /\ Kept(e[5]) = 0
    BY <1>2, KeptValues
  <2>3. f[4]["nal_unit_type"] = 5
    <3>1. OuterRead(f[4], known, s)
      BY <1>2, OuterValues
    <3> QED
      BY <1>2, <3>1 DEF OuterRead
  <2>4. Present(t[5].name, f[4]) /\ Width(t[5], f[4]) = 0
    BY <2>1, <2>3 DEF Present, Width
  <2>5. 5 \in 1..Len(t) /\ 5 \in 1..Len(e) /\ 5 - 1 = 4 /\ 5 - 1 = 4
    BY <1>1, <1>2
  <2>6. IsElement(f, t, e, 5, 5)
    BY <2>1, <2>2, <2>4, <2>5, Zenon DEF IsElement
  <2>7. f[4]["end"] = at[4]
    BY <1>4
  <2>8. FieldReads(f, t, 5, Kept(e[5]), at[5])
    BY ONLY <1>1, <2>5, <2>6, <2>7, FieldIsElement
  <2> QED
    BY <2>2, <2>8, Zenon
<1>6. /\ f[8]["end"] = at[6]
      /\ Knows(f, t, 6, "pic_order_cnt_lsb", h.pic_order_cnt_lsb % 2^s.log2_max_pic_order_cnt_lsb)
  <2>1. 6 \in 1..Len(e) /\ 6 - 1 = 5 /\ f[5]["end"] = at[5]
    BY <1>2, <1>5 DEF FieldReads
  <2>2. e[6] = U(s.log2_max_pic_order_cnt_lsb, h.pic_order_cnt_lsb)
    BY <1>2
  <2>3. CountRead(f, at, s, 6, h.pic_order_cnt_lsb)
    BY <1>2, <2>1, <2>2, SliceCount
  <2> QED
    BY <2>3, Zenon DEF CountRead, t
<1>7. f[9]["end"] = at[6]
  <2>1. t[9].name = "num_ref_idx_active_override_flag"
    BY SliceFields DEF F, t
  <2>3. ~(f[8]["slice_type"] % 5 = 0)
    <3>1. 8 \in 2..Len(t)
      BY <1>1
    <3>2. f[8]["slice_type"] = 7
      BY <1>4, <3>1, Zenon DEF Knows
    <3> QED
      BY <3>2
  <2>4. ~Present(t[9].name, f[8])
    BY <2>1, <2>3 DEF Present
  <2>5. 9 \in 1..Len(t) /\ 9 - 1 = 8
    BY <1>1
  <2>6. Skipped(f, 9)
    BY <1>1, <2>4, <2>5, FieldAbsent
  <2>7. f[8]["end"] = at[6]
    BY <1>6
  <2> QED
    BY <2>6, <2>7 DEF Skipped
<1>8. f[10]["end"] = at[6]
  <2>1. t[10].name = "num_ref_idx_l0_active_minus1"
    BY SliceFields DEF F, t
  <2>3. ~(f[9]["slice_type"] % 5 = 0)
    <3>1. 9 \in 2..Len(t)
      BY <1>1
    <3>2. f[9]["slice_type"] = 7
      BY <1>4, <3>1, Zenon DEF Knows
    <3> QED
      BY <3>2
  <2>4. ~Present(t[10].name, f[9])
    BY <2>1, <2>3 DEF Present
  <2>5. 10 \in 1..Len(t) /\ 10 - 1 = 9
    BY <1>1
  <2>6. Skipped(f, 10)
    BY <1>1, <2>4, <2>5, FieldAbsent
  <2>7. f[9]["end"] = at[6]
    BY <1>7
  <2> QED
    BY <2>6, <2>7 DEF Skipped
<1>9. f[11]["end"] = at[6]
  <2>1. t[11].name = "ref_pic_list_modification_flag_l0"
    BY SliceFields DEF F, t
  <2>3. ~(f[10]["slice_type"] % 5 = 0)
    <3>1. 10 \in 2..Len(t)
      BY <1>1
    <3>2. f[10]["slice_type"] = 7
      BY <1>4, <3>1, Zenon DEF Knows
    <3> QED
      BY <3>2
  <2>4. ~Present(t[11].name, f[10])
    BY <2>1, <2>3 DEF Present
  <2>5. 11 \in 1..Len(t) /\ 11 - 1 = 10
    BY <1>1
  <2>6. Skipped(f, 11)
    BY <1>1, <2>4, <2>5, FieldAbsent
  <2>7. f[10]["end"] = at[6]
    BY <1>8
  <2> QED
    BY <2>6, <2>7 DEF Skipped
<1>10. FieldReads(f, t, 12, 0, at[7])
  <2>1. t[12].name = "no_output_of_prior_pics_flag" /\ t[12].kind = "u" /\ t[12].n = 1
    BY SliceFields DEF F, t
  <2>2. e[7].kind = "u" /\ e[7].n = 1 /\ Kept(e[7]) = 0
    BY <1>2, KeptValues
  <2>3. f[11]["nal_unit_type"] = 5 /\ f[11]["nal_ref_idc"] # 0
    <3>1. OuterRead(f[11], known, s)
      BY <1>2, OuterValues
    <3> QED
      BY <1>2, <3>1 DEF OuterRead
  <2>4. Present(t[12].name, f[11]) /\ Width(t[12], f[11]) = 1
    BY <2>1, <2>3 DEF Present, Width
  <2>5. 12 \in 1..Len(t) /\ 7 \in 1..Len(e) /\ 12 - 1 = 11 /\ 7 - 1 = 6
    BY <1>1, <1>2
  <2>6. IsElement(f, t, e, 12, 7)
    BY <2>1, <2>2, <2>4, <2>5, Zenon DEF IsElement
  <2>7. f[11]["end"] = at[6]
    BY <1>9
  <2>8. FieldReads(f, t, 12, Kept(e[7]), at[7])
    BY ONLY <1>1, <2>5, <2>6, <2>7, FieldIsElement
  <2> QED
    BY <2>2, <2>8, Zenon
<1>11. FieldReads(f, t, 13, 0, at[8])
  <2>1. t[13].name = "long_term_reference_flag" /\ t[13].kind = "u" /\ t[13].n = 1
    BY SliceFields DEF F, t
  <2>2. e[8].kind = "u" /\ e[8].n = 1 /\ Kept(e[8]) = 0
    BY <1>2, KeptValues
  <2>3. f[12]["nal_unit_type"] = 5 /\ f[12]["nal_ref_idc"] # 0
    <3>1. OuterRead(f[12], known, s)
      BY <1>2, OuterValues
    <3> QED
      BY <1>2, <3>1 DEF OuterRead
  <2>4. Present(t[13].name, f[12]) /\ Width(t[13], f[12]) = 1
    BY <2>1, <2>3 DEF Present, Width
  <2>5. 13 \in 1..Len(t) /\ 8 \in 1..Len(e) /\ 13 - 1 = 12 /\ 8 - 1 = 7
    BY <1>1, <1>2
  <2>6. IsElement(f, t, e, 13, 8)
    BY <2>1, <2>2, <2>4, <2>5, Zenon DEF IsElement
  <2>7. f[12]["end"] = at[7]
    BY <1>10 DEF FieldReads
  <2>8. FieldReads(f, t, 13, Kept(e[8]), at[8])
    BY ONLY <1>1, <2>5, <2>6, <2>7, FieldIsElement
  <2> QED
    BY <2>2, <2>8, Zenon
<1>12. f[14]["end"] = at[8]
  <2>1. t[14].name = "adaptive_ref_pic_marking_mode_flag"
    BY SliceFields DEF F, t
  <2>3. f[13]["nal_unit_type"] = 5 /\ f[13]["nal_ref_idc"] # 0
    <3>1. OuterRead(f[13], known, s)
      BY <1>2, OuterValues
    <3> QED
      BY <1>2, <3>1 DEF OuterRead
  <2>4. ~Present(t[14].name, f[13])
    BY <2>1, <2>3 DEF Present
  <2>5. 14 \in 1..Len(t) /\ 14 - 1 = 13
    BY <1>1
  <2>6. Skipped(f, 14)
    BY <1>1, <2>4, <2>5, FieldAbsent
  <2>7. f[13]["end"] = at[8]
    BY <1>11 DEF FieldReads
  <2> QED
    BY <2>6, <2>7 DEF Skipped
<1>13. f[18]["end"] = at[12] /\ Knows(f, t, 15, "slice_qp_delta", h.slice_qp_delta)
  <2>1. TailItems(e, 8, h.slice_qp_delta) /\ 8 \in Nat
    BY <1>2 DEF TailItems
  <2>2. f[14]["end"] = at[8]
    BY <1>12
  <2>3. TailRead(f, at, 8, h.slice_qp_delta)
    BY <1>2, <2>1, <2>2, SliceTail
  <2> QED
    BY <2>3 DEF TailRead, t
<1>14. SliceLearnt(f[18], s, h, 7) /\ f[18]["nal_unit_type"] = 5
  BY <1>2, <1>4, <1>6, <1>13, SliceEnds, Zenon DEF t
<1> QED
  BY <1>1, <1>13, <1>14 DEF p, t

LEMMA PSliceParsed ==
  ASSUME NEW at, NEW bytes, NEW known, NEW s, NEW h, NEW e,
         PSliceItems(s, h, e), HeaderRead(at, bytes, e),
         SPSKnown(known, s), PPSKnown(known),
         s.log2_max_frame_num \in Nat, s.log2_max_pic_order_cnt_lsb \in Nat,
         {"nal_unit_type", "nal_ref_idc"} \subseteq DOMAIN known,
         known["nal_unit_type"] = 1, known["nal_ref_idc"] # 0
  PROVE  /\ SliceLearnt(Parse(SliceSyntax, bytes, known), s, h, 5)
         /\ Parse(SliceSyntax, bytes, known)["end"] = at[13]
         /\ Parse(SliceSyntax, bytes, known)["nal_unit_type"] = 1
         /\ Parse(SliceSyntax, bytes, known)["num_ref_idx_l0_active_minus1"]
              = h.active_list0_ref_num - 1
<1> DEFINE t == SliceSyntax
           p == Parse(t, bytes, known)
<1>1. PICK f : Parsing(f, at, t, bytes, known, e) /\ p = f[18] /\ Len(t) = 18
  <2>1. Len(t) = 18 /\ Len(t) \in Nat
    BY SliceFields
  <2>2. Len(e) \in Nat
    BY DEF PSliceItems
  <2> HIDE DEF t
  <2>3. PICK f : ParseSteps(f, t, bytes, known) /\ Parse(t, bytes, known) = f[Len(t)]
    BY <2>1, Parsed, Zenon
  <2>4. Table(t)
    BY Tables DEF t
  <2>5. Parsing(f, at, t, bytes, known, e)
    BY <2>2, <2>3, <2>4, Zenon DEF Parsing
  <2> QED
    BY <2>1, <2>3, <2>5
<1>2. /\ SliceParsing(f, at, bytes, known, e, s) /\ Len(e) = 13
      /\ known["nal_unit_type"] = 1 /\ known["nal_ref_idc"] # 0
      /\ e[1] = UE(0) /\ e[2] = UE(5) /\ e[3] = UE(0) /\ e[4] = U(s.log2_max_frame_num, h.frame_num)
      /\ e[5] = U(s.log2_max_pic_order_cnt_lsb, h.pic_order_cnt_lsb)
      /\ e[6] = U(1, 1) /\ e[7] = UE(h.active_list0_ref_num - 1) /\ e[8] = U(1, 0) /\ e[9] = U(1, 0)
      /\ e[10] = SE(h.slice_qp_delta) /\ e[11] = UE(0) /\ e[12] = SE(0) /\ e[13] = SE(0)
  <2>1. SliceParsing(f, at, bytes, known, e, s)
    BY <1>1, Zenon DEF SliceParsing
  <2> QED
    BY <2>1, Zenon DEF PSliceItems
<1> HIDE DEF t, p
<1>3. 13 >= 4
  OBVIOUS
<1>4. /\ f[4]["end"] = at[4]
      /\ Knows(f, t, 1, "first_mb_in_slice", 0) /\ Knows(f, t, 2, "slice_type", 5)
      /\ Knows(f, t, 4, "frame_num", h.frame_num % 2^s.log2_max_frame_num)
  <2>1. HeadItems(e, s, 5, h.frame_num)
    BY <1>2, <1>3, Zenon DEF HeadItems
  <2>2. HeadRead(f, at, s, 5, h.frame_num)
    BY ONLY <1>2, <2>1, SliceHead
  <2> QED
    BY <2>2, Zenon DEF HeadRead, t
<1>5. f[5]["end"] = at[4]
  <2>1. t[5].name = "idr_pic_id"
    BY SliceFields DEF F, t
  <2>3. f[4]["nal_unit_type"] = 1
    <3>1. OuterRead(f[4], known, s)
      BY <1>2, OuterValues
    <3> QED
      BY <1>2, <3>1 DEF OuterRead
  <2>4. ~Present(t[5].name, f[4])
    BY <2>1, <2>3 DEF Present
  <2>5. 5 \in 1..Len(t) /\ 5 - 1 = 4
    BY <1>1
  <2>6. Skipped(f, 5)
    BY <1>1, <2>4, <2>5, FieldAbsent
  <2>7. f[4]["end"] = at[4]
    BY <1>4
  <2> QED
    BY <2>6, <2>7 DEF Skipped
<1>6. /\ f[8]["end"] = at[5]
      /\ Knows(f, t, 6, "pic_order_cnt_lsb", h.pic_order_cnt_lsb % 2^s.log2_max_pic_order_cnt_lsb)
  <2>1. 5 \in 1..Len(e) /\ 5 - 1 = 4 /\ f[5]["end"] = at[4]
    BY <1>2, <1>5
  <2>2. e[5] = U(s.log2_max_pic_order_cnt_lsb, h.pic_order_cnt_lsb)
    BY <1>2
  <2>3. CountRead(f, at, s, 5, h.pic_order_cnt_lsb)
    BY <1>2, <2>1, <2>2, SliceCount
  <2> QED
    BY <2>3, Zenon DEF CountRead, t
<1>7. FieldReads(f, t, 9, 1, at[6])
  <2>1. t[9].name = "num_ref_idx_active_override_flag" /\ t[9].kind = "u" /\ t[9].n = 1
    BY SliceFields DEF F, t
  <2>2. e[6].kind = "u" /\ e[6].n = 1 /\ Kept(e[6]) = 1
    BY <1>2, KeptValues
  <2>3. f[8]["slice_type"] % 5 = 0
    <3>1. 8 \in 2..Len(t)
      BY <1>1
    <3>2. f[8]["slice_type"] = 5
      BY <1>4, <3>1, Zenon DEF Knows
    <3> QED
      BY <3>2
  <2>4. Present(t[9].name, f[8]) /\ Width(t[9], f[8]) = 1
    BY <2>1, <2>3 DEF Present, Width
  <2>5. 9 \in 1..Len(t) /\ 6 \in 1..Len(e) /\ 9 - 1 = 8 /\ 6 - 1 = 5
    BY <1>1, <1>2
  <2>6. IsElement(f, t, e, 9, 6)
    BY <2>1, <2>2, <2>4, <2>5, Zenon DEF IsElement
  <2>7. f[8]["end"] = at[5]
    BY <1>6
  <2>8. FieldReads(f, t, 9, Kept(e[6]), at[6])
    BY ONLY <1>1, <2>5, <2>6, <2>7, FieldIsElement
  <2> QED
    BY <2>2, <2>8, Zenon
<1>8. FieldReads(f, t, 10, h.active_list0_ref_num - 1, at[7])
  <2>1. t[10].name = "num_ref_idx_l0_active_minus1" /\ t[10].kind = "ue" /\ t[10].n = 0
    BY SliceFields DEF F, t
  <2>2. e[7].kind = "ue" /\ e[7].n = 0 /\ Kept(e[7]) = h.active_list0_ref_num - 1
    BY <1>2, KeptValues
  <2>3. f[9]["slice_type"] % 5 = 0 /\ f[9]["num_ref_idx_active_override_flag"] = 1
    <3>1. 9 \in 2..Len(t) /\ 9 \in 9..Len(t) /\ t[9].name = "num_ref_idx_active_override_flag"
      BY <1>1, SliceFields DEF F, t
    <3>2. f[9]["slice_type"] = 5
      BY <1>4, <3>1, Zenon DEF Knows
    <3>3. f[9]["num_ref_idx_active_override_flag"] = 1
      BY <1>7, <3>1, Zenon DEF FieldReads, Knows
    <3> QED
      BY <3>2, <3>3
  <2>4. Present(t[10].name, f[9]) /\ Width(t[10], f[9]) = 0
    BY <2>1, <2>3 DEF Present, Width
  <2>5. 10 \in 1..Len(t) /\ 7 \in 1..Len(e) /\ 10 - 1 = 9 /\ 7 - 1 = 6
    BY <1>1, <1>2
  <2>6. IsElement(f, t, e, 10, 7)
    BY <2>1, <2>2, <2>4, <2>5, Zenon DEF IsElement
  <2>7. f[9]["end"] = at[6]
    BY <1>7 DEF FieldReads
  <2>8. FieldReads(f, t, 10, Kept(e[7]), at[7])
    BY ONLY <1>1, <2>5, <2>6, <2>7, FieldIsElement
  <2> QED
    BY <2>2, <2>8, Zenon
<1>9. FieldReads(f, t, 11, 0, at[8])
  <2>1. t[11].name = "ref_pic_list_modification_flag_l0" /\ t[11].kind = "u" /\ t[11].n = 1
    BY SliceFields DEF F, t
  <2>2. e[8].kind = "u" /\ e[8].n = 1 /\ Kept(e[8]) = 0
    BY <1>2, KeptValues
  <2>3. f[10]["slice_type"] % 5 = 0
    <3>1. 10 \in 2..Len(t)
      BY <1>1
    <3>2. f[10]["slice_type"] = 5
      BY <1>4, <3>1, Zenon DEF Knows
    <3> QED
      BY <3>2
  <2>4. Present(t[11].name, f[10]) /\ Width(t[11], f[10]) = 1
    BY <2>1, <2>3 DEF Present, Width
  <2>5. 11 \in 1..Len(t) /\ 8 \in 1..Len(e) /\ 11 - 1 = 10 /\ 8 - 1 = 7
    BY <1>1, <1>2
  <2>6. IsElement(f, t, e, 11, 8)
    BY <2>1, <2>2, <2>4, <2>5, Zenon DEF IsElement
  <2>7. f[10]["end"] = at[7]
    BY <1>8 DEF FieldReads
  <2>8. FieldReads(f, t, 11, Kept(e[8]), at[8])
    BY ONLY <1>1, <2>5, <2>6, <2>7, FieldIsElement
  <2> QED
    BY <2>2, <2>8, Zenon
<1>10. f[12]["end"] = at[8]
  <2>1. t[12].name = "no_output_of_prior_pics_flag"
    BY SliceFields DEF F, t
  <2>3. f[11]["nal_unit_type"] = 1 /\ f[11]["nal_ref_idc"] # 0
    <3>1. OuterRead(f[11], known, s)
      BY <1>2, OuterValues
    <3> QED
      BY <1>2, <3>1 DEF OuterRead
  <2>4. ~Present(t[12].name, f[11])
    BY <2>1, <2>3 DEF Present
  <2>5. 12 \in 1..Len(t) /\ 12 - 1 = 11
    BY <1>1
  <2>6. Skipped(f, 12)
    BY <1>1, <2>4, <2>5, FieldAbsent
  <2>7. f[11]["end"] = at[8]
    BY <1>9 DEF FieldReads
  <2> QED
    BY <2>6, <2>7 DEF Skipped
<1>11. f[13]["end"] = at[8]
  <2>1. t[13].name = "long_term_reference_flag"
    BY SliceFields DEF F, t
  <2>3. f[12]["nal_unit_type"] = 1 /\ f[12]["nal_ref_idc"] # 0
    <3>1. OuterRead(f[12], known, s)
      BY <1>2, OuterValues
    <3> QED
      BY <1>2, <3>1 DEF OuterRead
  <2>4. ~Present(t[13].name, f[12])
    BY <2>1, <2>3 DEF Present
  <2>5. 13 \in 1..Len(t) /\ 13 - 1 = 12
    BY <1>1
  <2>6. Skipped(f, 13)
    BY <1>1, <2>4, <2>5, FieldAbsent
  <2>7. f[12]["end"] = at[8]
    BY <1>10
  <2> QED
    BY <2>6, <2>7 DEF Skipped
<1>12. FieldReads(f, t, 14, 0, at[9])
  <2>1. t[14].name = "adaptive_ref_pic_marking_mode_flag" /\ t[14].kind = "u" /\ t[14].n = 1
    BY SliceFields DEF F, t
  <2>2. e[9].kind = "u" /\ e[9].n = 1 /\ Kept(e[9]) = 0
    BY <1>2, KeptValues
  <2>3. f[13]["nal_unit_type"] = 1 /\ f[13]["nal_ref_idc"] # 0
    <3>1. OuterRead(f[13], known, s)
      BY <1>2, OuterValues
    <3> QED
      BY <1>2, <3>1 DEF OuterRead
  <2>4. Present(t[14].name, f[13]) /\ Width(t[14], f[13]) = 1
    BY <2>1, <2>3 DEF Present, Width
  <2>5. 14 \in 1..Len(t) /\ 9 \in 1..Len(e) /\ 14 - 1 = 13 /\ 9 - 1 = 8
    BY <1>1, <1>2
  <2>6. IsElement(f, t, e, 14, 9)
    BY <2>1, <2>2, <2>4, <2>5, Zenon DEF IsElement
  <2>7. f[13]["end"] = at[8]
    BY <1>11
  <2>8. FieldReads(f, t, 14, Kept(e[9]), at[9])
    BY ONLY <1>1, <2>5, <2>6, <2>7, FieldIsElement
  <2> QED
    BY <2>2, <2>8, Zenon
<1>13. f[18]["end"] = at[13] /\ Knows(f, t, 15, "slice_qp_delta", h.slice_qp_delta)
  <2>1. TailItems(e, 9, h.slice_qp_delta) /\ 9 \in Nat
    BY <1>2 DEF TailItems
  <2>2. f[14]["end"] = at[9]
    BY <1>12 DEF FieldReads
  <2>3. TailRead(f, at, 9, h.slice_qp_delta)
    BY <1>2, <2>1, <2>2, SliceTail
  <2> QED
    BY <2>3 DEF TailRead, t
<1>14. SliceLearnt(f[18], s, h, 5) /\ f[18]["nal_unit_type"] = 1
  BY <1>2, <1>4, <1>6, <1>13, SliceEnds, Zenon DEF t
<1>15. f[18]["num_ref_idx_l0_active_minus1"] = h.active_list0_ref_num - 1
  <2>1. 18 \in 10..Len(t) /\ t[10].name = "num_ref_idx_l0_active_minus1"
    BY <1>1, SliceFields DEF F, t
  <2> QED
    BY <1>8, <2>1, Zenon DEF FieldReads, Knows
<1> QED
  BY <1>1, <1>13, <1>14, <1>15 DEF p, t

\* What is written of a structure starts with its elements, and what is left of
\* them is to_write until the macroblocks' are.
HeaderFirst ==
  LET E == Elements(structure)
  IN  /\ \A k \in 1..Len(E) : k <= Len(written) => written[k] = Noted(E[k])
      /\ IF data_written \/ closed THEN Len(E) <= Len(written)
         ELSE /\ Len(written) + Len(to_write) = Len(E)
              /\ \A k \in 1..Len(to_write) : to_write[k] = E[Len(written) + k]

\* The unit that holds the structure begins with its NAL header.
UnitHeaded ==
  Len(starts) = structure => m_handle[starts[structure] + 4] = NalHeader(structure)

\* What the receiver knows when it has read the unit of structure k.
Understood(k) ==
  CASE k = 1 -> SPSUnderstood
    [] k = 2 -> PPSUnderstood
    [] OTHER -> SliceUnderstood(SliceTick(k))

HeaderParsed ==
  "end" \in DOMAIN fields =>
    /\ unit_bytes # <<>>
    /\ fields["end"] = Bits!Replay(unit_bytes, Elements(structure))[2]
    /\ Understood(structure)

\* The parameter sets it has read are active.
SetsActive ==
  /\ structure > 1 \/ "end" \in DOMAIN fields => SPSKnown(fields, sps)
  /\ structure > 2 \/ (structure = 2 /\ "end" \in DOMAIN fields) => PPSKnown(fields)

ParseInv == HeaderFirst /\ UnitHeaded /\ HeaderParsed /\ SetsActive

\* The elements of the structure being written.
LEMMA HeaderElementsValid ==
  ASSUME StreamTypes
  PROVE  Elements(structure) \in Seq(Element) /\ Len(Elements(structure)) \in Nat
<1>1. Elements(structure) \in Seq(Element)
  BY StructureElements, Zenon DEF StreamTypes
<1> HIDE DEF Elements
<1> QED
  BY <1>1

LEMMA ParseInvStarts == StreamInit => ParseInv
<1> SUFFICES ASSUME StreamInit
             PROVE  ParseInv
  OBVIOUS
<1>1. /\ m_handle = <<>> /\ starts = <<>> /\ rbsp = <<>>
      /\ structure = 1 /\ to_write = Elements(structure) /\ ~data_written
      /\ written = <<>> /\ ~closed /\ fields = <<>>
  BY DEF StreamInit, Init, Bits!Init
<1>2. Elements(structure) \in Seq(Element)
  BY StreamStarts, HeaderElementsValid DEF StreamInv
<1> DEFINE E == Elements(structure)
<1> HIDE DEF E
<1>3. /\ Len(written) = 0 /\ Len(E) \in Nat /\ Len(starts) = 0 /\ Len(rbsp) = 0
      /\ "end" \notin DOMAIN fields
  BY <1>1, <1>2 DEF E
<1>4. HeaderFirst
  <2>1. Len(written) + Len(E) = Len(E) /\ \A k \in 1..Len(E) : ~(k <= Len(written)) /\ Len(written) + k = k
    BY <1>3
  <2>2. to_write = E
    BY <1>1 DEF E
  <2> QED
    BY <1>1, <2>1, <2>2, Zenon DEF HeaderFirst, E
<1>5. UnitHeaded
  BY <1>1, <1>3 DEF UnitHeaded
<1>6. HeaderParsed /\ SetsActive
  BY <1>1, <1>3 DEF HeaderParsed, SetsActive
<1> QED
  BY <1>4, <1>5, <1>6 DEF ParseInv

\* Writing the header's elements.
LEMMA WriteHeader ==
  ASSUME StreamInv, HeaderFirst, WriteElement
  PROVE  HeaderFirst'
<1> DEFINE e == Head(to_write)
           E == Elements(structure)
           n == Len(written)
           m == Len(to_write)
<1>1. /\ to_write # <<>> /\ to_write' = Tail(to_write) /\ Bits!Write(e)
      /\ UNCHANGED <<config, tick, structure, data_written>>
  BY DEF WriteElement
<1>2. /\ StreamTypes /\ to_write \in Seq(Element) /\ E \in Seq(Element) /\ written \in Seq(Notes)
  BY HeaderElementsValid, WrittenNotes DEF StreamInv, StreamTypes
<1>3. e = to_write[1] /\ e \in Element /\ n \in Nat /\ m \in Nat /\ m # 0 /\ Len(E) \in Nat
      /\ to_write' \in Seq(Element) /\ Len(to_write') = m - 1
      /\ \A k \in 1..(m - 1) : to_write'[k] = to_write[k + 1]
  <2> HIDE DEF E
  <2> QED
    BY <1>1, <1>2
<1>4. ~closed /\ ~closed' /\ written' = Append(written, Noted(e))
  BY <1>2, <1>3, ElementWritten
<1>5. /\ Len(written') = n + 1 /\ written'[n + 1] = Noted(e)
      /\ \A k \in 1..n : written'[k] = written[k]
  <2>1. Noted(e) \in Notes
    BY <1>3, Zenon DEF Notes
  <2> HIDE DEF e
  <2> QED
    BY <1>2, <1>4, <2>1, AppendProperties
<1>6. Elements(structure)' = E
  BY <1>1 DEF Elements, sps, SliceTick, SliceType, RefFrameNum
<1>7. /\ \A k \in 1..Len(E) : k <= n => written[k] = Noted(E[k])
      /\ IF data_written \/ closed THEN Len(E) <= n
         ELSE n + m = Len(E) /\ \A k \in 1..m : to_write[k] = E[n + k]
  BY Zenon DEF HeaderFirst
<1> HIDE DEF e, E, n, m
<1>8. CASE data_written
  <2>1. Len(E) <= n /\ Len(E) <= Len(written')
    BY <1>3, <1>5, <1>7, <1>8
  <2>2. \A k \in 1..Len(E) : written'[k] = Noted(E[k])
    BY <1>3, <1>5, <1>7, <2>1
  <2> QED
    BY <1>1, <1>6, <1>8, <2>1, <2>2 DEF HeaderFirst
<1>9. CASE ~data_written
  <2>1. n + m = Len(E) /\ \A k \in 1..m : to_write[k] = E[n + k]
    BY <1>4, <1>7, <1>9
  <2>2. \A k \in 1..Len(E) : k <= Len(written') => written'[k] = Noted(E[k])
    <3> SUFFICES ASSUME NEW k \in 1..Len(E), k <= Len(written')
                 PROVE  written'[k] = Noted(E[k])
      OBVIOUS
    <3>1. CASE k <= n
      <4>1. k \in 1..n
        BY <1>3, <3>1
      <4> QED
        BY <1>5, <1>7, <3>1, <4>1
    <3>2. CASE k = n + 1
      <4>1. 1 \in 1..m
        BY <1>3
      <4>2. to_write[1] = E[n + 1]
        BY <2>1, <4>1
      <4> QED
        BY <1>3, <1>5, <3>2, <4>2
    <3> QED
      BY <1>3, <1>5, <3>1, <3>2
  <2>3. \A k \in 1..(m - 1) : to_write'[k] = E[Len(written') + k]
    <3> SUFFICES ASSUME NEW k \in 1..(m - 1)
                 PROVE  to_write'[k] = E[Len(written') + k]
      OBVIOUS
    <3>1. k + 1 \in 1..m /\ n + (k + 1) = (n + 1) + k
      BY <1>3
    <3>2. to_write'[k] = to_write[k + 1]
      BY <1>3
    <3>3. to_write[k + 1] = E[(n + 1) + k]
      BY <2>1, <3>1
    <3> QED
      BY <1>5, <3>2, <3>3
  <2>4. Len(written') + Len(to_write') = Len(E)
    <3>1. n \in Nat /\ m \in Nat /\ Len(written') = n + 1 /\ Len(to_write') = m - 1
      BY <1>3, <1>5
    <3>2. (n + 1) + (m - 1) = n + m
      BY <3>1
    <3>3. n + m = Len(E)
      BY <2>1
    <3> QED
      BY <3>1, <3>2, <3>3, Zenon
  <2> QED
    BY <1>1, <1>3, <1>4, <1>6, <1>9, <2>2, <2>3, <2>4 DEF HeaderFirst
<1> QED
  BY <1>8, <1>9

LEMMA HeaderComplete ==
  ASSUME StreamInv, HeaderFirst, to_write = <<>>
  PROVE  Len(Elements(structure)) <= Len(written)
<1>1. Len(to_write) = 0 /\ Len(Elements(structure)) \in Nat /\ Len(written) \in Nat
  <2>1. written \in Seq(Notes)
    BY WrittenNotes DEF StreamInv
  <2> QED
    BY <2>1, HeaderElementsValid DEF StreamInv
<1> DEFINE E == Elements(structure)
<1>2. IF data_written \/ closed THEN Len(E) <= Len(written) ELSE Len(written) + Len(to_write) = Len(E)
  BY Zenon DEF HeaderFirst
<1> HIDE DEF E
<1>3. Len(E) <= Len(written)
  BY <1>1, <1>2 DEF E
<1> QED
  BY <1>3 DEF E

LEMMA OtherHeader ==
  ASSUME StreamInv, HeaderFirst,
         \/ EncodeMacroblocks \/ CloseStructure
         \/ UNCHANGED <<config, tick, structure, to_write, data_written, written, closed>>
  PROVE  HeaderFirst'
<1>1. UNCHANGED <<config, tick, structure, written>>
  BY DEF EncodeMacroblocks, CloseStructure, bitVars, Bits!SODB2RBSP
<1>2. Elements(structure)' = Elements(structure)
  BY <1>1 DEF Elements, sps, SliceTick, SliceType, RefFrameNum
<1> DEFINE E == Elements(structure)
<1>3. \A k \in 1..Len(E) : k <= Len(written) => written[k] = Noted(E[k])
  BY Zenon DEF HeaderFirst
<1>4. CASE EncodeMacroblocks \/ CloseStructure
  <2>1. to_write = <<>> /\ (data_written' \/ closed')
    BY <1>4 DEF EncodeMacroblocks, CloseStructure, Bits!SODB2RBSP
  <2>2. Len(E) <= Len(written)
    BY <2>1, HeaderComplete
  <2> HIDE DEF E
  <2>3. E' = E
    BY <1>2 DEF E
  <2> QED
    BY <1>1, <1>2, <1>3, <2>1, <2>2 DEF HeaderFirst, E
<1>5. CASE UNCHANGED <<config, tick, structure, to_write, data_written, written, closed>>
  BY <1>2, <1>5 DEF HeaderFirst
<1> QED
  BY <1>4, <1>5

LEMMA NextHeader ==
  ASSUME StreamInv, StreamInv', NextStructure
  PROVE  HeaderFirst'
<1>1. /\ structure' = structure + 1 /\ to_write' = Elements(structure + 1) /\ ~data_written'
      /\ written' = <<>> /\ ~closed' /\ UNCHANGED <<config, tick>>
  BY DEF NextStructure, Bits!Reset
<1> DEFINE E == Elements(structure + 1)
<1>2. Elements(structure)' = E
  BY <1>1 DEF Elements, sps, SliceTick, SliceType, RefFrameNum
<1>3. to_write' \in Seq(Element)
  BY DEF StreamInv, StreamTypes
<1> HIDE DEF E
<1>4. to_write' = E /\ Len(E) \in Nat /\ Len(written') = 0
  BY <1>1, <1>3 DEF E
<1>5. Len(written') + Len(E) = Len(E)
      /\ \A k \in 1..Len(E) : ~(k <= Len(written')) /\ Len(written') + k = k
  BY <1>4
<1> QED
  BY <1>1, <1>2, <1>4, <1>5, Zenon DEF HeaderFirst

\* The header byte of the unit being written stays where it was put.
LEMMA BeginHeaded ==
  ASSUME StreamInv, IInv, LastRecovered, BeginNal
  PROVE  UnitHeaded'
<1>1. BeginUnit(NalHeader(structure)) /\ UNCHANGED <<tick, structure>>
  BY DEF BeginNal
<1>2. /\ starts' = Append(starts, Len(m_handle) + 1)
      /\ m_handle' = m_handle \o UnitPrefix(NalHeader(structure))
  BY <1>1 DEF BeginUnit
<1>3. m_handle \in Seq(0..255) /\ starts \in Seq(Nat \ {0}) /\ NalHeader(structure) \in 0..255
  <2>1. NalHeader(structure) \in 0..255
    <3> DEFINE h == NalHeader(structure)
    <3>1. h \in Header
      BY HeadersAllowed
    <3> HIDE DEF h
    <3>2. h \in 0..255
      BY <3>1, HeaderAssumption
    <3> QED
      BY <3>2 DEF h
  <2> QED
    BY <2>1 DEF IInv, TypeOK
<1> DEFINE h == NalHeader(structure)
           t == UnitPrefix(h)
           n == Len(m_handle)
<1>4. h' = h
  BY <1>1 DEF NalHeader, SliceTick
<1> HIDE DEF h
<1>5. t \in Seq(0..255) /\ Len(t) = 5 /\ t[5] = h
  BY <1>3 DEF UnitPrefix, h
<1> HIDE DEF t
<1>6. m_handle'[n + 5] = h
  <2>1. /\ Len(m_handle) \in Nat
        /\ \A i \in 1..Len(t) : (m_handle \o t)[Len(m_handle) + i] = t[i]
    BY <1>3, <1>5, PushBytes
  <2>2. 5 \in 1..Len(t)
    BY <1>5
  <2>3. (m_handle \o t)[Len(m_handle) + 5] = t[5]
    BY <2>1, <2>2, Zenon
  <2>4. m_handle' = m_handle \o t
    BY <1>2, Zenon DEF t, h
  <2> QED
    BY <1>5, <2>3, <2>4, Zenon DEF n
<1>7. n \in Nat
  BY <1>3
<1>8. Len(starts') = Len(starts) + 1 /\ starts'[Len(starts) + 1] = n + 1 /\ Len(starts) \in Nat
  <2>1. n + 1 \in Nat \ {0} /\ Len(starts) \in Nat
    BY <1>3, <1>7
  <2>2. starts' = Append(starts, n + 1)
    BY <1>2, Zenon
  <2> HIDE DEF n
  <2> QED
    BY <1>3, <2>1, <2>2, AppendProperties
<1> HIDE DEF n
<1>9. Len(starts') = structure => starts'[structure] + 4 = n + 5
  BY <1>7, <1>8
<1>10. structure' = structure /\ NalHeader(structure)' = h
  BY <1>1, <1>4 DEF h
<1> QED
  BY <1>6, <1>9, <1>10 DEF UnitHeaded

LEMMA EscapeHeaded ==
  ASSUME StreamInv, IInv, UnitHeaded, EscapeNext \/ EscapeLast
  PROVE  UnitHeaded'
<1>1. /\ phase = "escaping" /\ PushValue(m_data[index]) /\ UNCHANGED <<tick, structure>>
  BY DEF EscapeNext, EscapeLast, EscapeByte, EscapeLastByte
<1> DEFINE value == m_data[index]
           t == Escaped(zero_count, value)
<1>2. value \in 0..255
  BY <1>1, RbspGrows, OutputAssumption
<1>3. m_handle' = m_handle \o t /\ starts' = starts
  BY <1>1 DEF PushValue
<1> HIDE DEF value
<1>4. t \in Seq(0..255)
  <2>1. <<3, value>> \in Seq(0..255) /\ <<value>> \in Seq(0..255)
    BY <1>2
  <2> QED
    BY <2>1, Zenon DEF Escaped
<1> HIDE DEF t
<1>5. m_handle \in Seq(0..255) /\ starts \in Seq(Nat \ {0}) /\ \A s \in UnitStarts : StartCodeAt(s)
  BY DEF IInv, TypeOK
<1>6. \A i \in 1..Len(m_handle) : m_handle'[i] = m_handle[i]
  BY <1>3, <1>4, <1>5, PushBytes
<1>7. NalHeader(structure)' = NalHeader(structure)
  BY <1>1 DEF NalHeader, SliceTick
<1>8. ASSUME Len(starts) = structure
      PROVE  m_handle'[starts[structure] + 4] = NalHeader(structure)
  <2>1. structure \in 1..Len(starts)
    BY <1>8, Places DEF StreamInv
  <2>2. StartCodeAt(starts[structure])
    BY <1>5, <2>1, Zenon DEF UnitStarts
  <2> DEFINE s == starts[structure]
  <2>3. s + 4 \in 1..Len(m_handle)
    BY <1>5, <2>2 DEF StartCodeAt
  <2>4. m_handle[s + 4] = NalHeader(structure)
    BY <1>8, Zenon DEF UnitHeaded
  <2> HIDE DEF s
  <2>5. m_handle'[s + 4] = NalHeader(structure)
    BY <1>6, <2>3, <2>4
  <2> QED
    BY <2>5 DEF s
<1> QED
  BY <1>1, <1>3, <1>7, <1>8, Zenon DEF UnitHeaded

LEMMA OtherHeaded ==
  ASSUME StreamInv, LastRecovered, UnitHeaded,
         NextStructure \/ UNCHANGED <<m_handle, starts, structure, tick>>
  PROVE  UnitHeaded'
<1>1. CASE NextStructure
  <2>1. structure' = structure + 1 /\ starts' = starts /\ Len(units) = structure
    BY <1>1 DEF NextStructure, vars
  <2>2. structure \in Nat /\ structure # structure + 1 /\ structure - 1 # structure
    BY Places DEF StreamInv
  <2>3. Sent
    BY <2>1, <2>2 DEF StreamInv, Serialising, Escaping
  <2>4. Len(starts') # structure'
    BY <2>1, <2>2, <2>3 DEF Sent, LastRecovered
  <2> QED
    BY <2>4 DEF UnitHeaded
<1>2. CASE UNCHANGED <<m_handle, starts, structure, tick>>
  BY <1>2 DEF UnitHeaded, NalHeader, SliceTick
<1> QED
  BY <1>1, <1>2

\* What the receiver knows when it parses the unit of a structure.
LEMMA HeaderRecognised ==
  ASSUME StreamInv, LastRecovered, UnitHeaded, Sent, NEW known, known = Overridden(fields, NalFields)
  PROVE  /\ {"nal_unit_type", "nal_ref_idc"} \subseteq DOMAIN known
         /\ known["nal_unit_type"] = NalHeader(structure) % 32
         /\ known["nal_ref_idc"] = (NalHeader(structure) \div 32) % 4
         /\ NalFields["nal_unit_type"] = NalHeader(structure) % 32
         /\ \A x \in DOMAIN fields : x \notin {"nal_unit_type", "nal_ref_idc"}
                                       => x \in DOMAIN known /\ known[x] = fields[x]
<1>1. m_handle[starts[structure] + 4] = NalHeader(structure)
  BY DEF UnitHeaded, Sent, LastRecovered
<1> DEFINE h == NalHeader(structure)
           g == NalFields
<1>2. g = [nal_ref_idc |-> (h \div 32) % 4, nal_unit_type |-> h % 32]
  BY <1>1, Zenon DEF NalFields
<1> HIDE DEF h, g
<1>3. /\ DOMAIN g = {"nal_ref_idc", "nal_unit_type"}
      /\ g["nal_ref_idc"] = (h \div 32) % 4 /\ g["nal_unit_type"] = h % 32
  BY <1>2
<1>4. /\ DOMAIN known = DOMAIN fields \cup DOMAIN g
      /\ \A x \in DOMAIN g : known[x] = g[x]
      /\ \A x \in DOMAIN fields : x \notin DOMAIN g => known[x] = fields[x]
  <2> DEFINE o == Overridden(fields, g)
  <2>1. known = o
    BY DEF g
  <2>2. /\ DOMAIN o = DOMAIN fields \cup DOMAIN g
        /\ \A x \in DOMAIN g : o[x] = g[x]
        /\ \A x \in DOMAIN fields : x \notin DOMAIN g => o[x] = fields[x]
    BY OverriddenValues
  <2> QED
    BY <2>1, <2>2, Zenon
<1> QED
  BY <1>3, <1>4 DEF g, h

LEMMA HeaderTypes ==
  ASSUME StreamTypes
  PROVE  /\ structure = 1 => NalHeader(structure) % 32 = 7
         /\ structure = 2 => NalHeader(structure) % 32 = 8
         /\ structure > 2 =>
              IF SliceTick(structure) = 0
              THEN NalHeader(structure) % 32 = 5 /\ (NalHeader(structure) \div 32) % 4 = 3
              ELSE NalHeader(structure) % 32 = 1 /\ (NalHeader(structure) \div 32) % 4 = 2
<1>1. CASE structure = 1
  BY <1>1 DEF NalHeader
<1>2. CASE structure = 2
  BY <1>2 DEF NalHeader
<1>3. CASE structure > 2
  <2>1. structure # 1 /\ structure # 2
    BY <1>3
  <2>2. NalHeader(structure) = IF SliceTick(structure) = 0 THEN 3 * 32 + 5 ELSE 2 * 32 + 1
    BY <2>1, Zenon DEF NalHeader
  <2> QED
    BY <2>1, <2>2
<1> QED
  BY <1>1, <1>2, <1>3, Places

\* The received unit begins with the structure's elements, each read at its bit.
LEMMA HeaderThere ==
  ASSUME StreamInv, HeaderFirst, unit_bytes # <<>>
  PROVE  /\ Sent
         /\ \E at : /\ HeaderRead(at, unit_bytes, Elements(structure))
                    /\ Bits!Replay(unit_bytes, Elements(structure))[2] = at[Len(Elements(structure))]
<1> DEFINE E == Elements(structure)
<1>1. Sent /\ Finished(unit_bytes, written) /\ closed
  BY DEF StreamInv, Received, Sent, BufferHolds
<1>2. E \in Seq(Element) /\ Len(E) \in Nat
  BY HeaderElementsValid DEF StreamInv
<1>3. Len(E) <= Len(written) /\ \A k \in 1..Len(E) : k <= Len(written) => written[k] = Noted(E[k])
  BY <1>1, Zenon DEF HeaderFirst
<1>4. Len(written) \in Nat
  BY WrittenNotes DEF StreamInv
<1> HIDE DEF E
<1>5. \A k \in 1..Len(E) : written[k] = Noted(E[k])
  BY <1>2, <1>3, <1>4
<1>6. PICK at : HeaderRead(at, unit_bytes, E)
  BY <1>1, <1>2, <1>3, <1>5, HeaderFound, Zenon
<1>7. Bits!Replay(unit_bytes, E)[2] = at[Len(E)]
  BY <1>2, <1>6, ReplayEnds, Zenon
<1> QED
  BY <1>1, <1>6, <1>7 DEF E

\* What a step that parses leaves alone.
LEMMA ParseFrame ==
  ASSUME ParseUnit
  PROVE  /\ UNCHANGED <<config, tick, structure, unit_bytes>>
         /\ unit_bytes # <<>> /\ "end" \notin DOMAIN fields
         /\ sps' = sps
         /\ Elements(structure)' = Elements(structure)
         /\ SliceTick(structure)' = SliceTick(structure)
<1>1. UNCHANGED <<config, tick, structure, unit_bytes>> /\ unit_bytes # <<>> /\ "end" \notin DOMAIN fields
  BY DEF ParseUnit, writerVars
<1> QED
  BY <1>1 DEF sps, Elements, SliceTick, SliceType, RefFrameNum

LEMMA SPSUnitParsed ==
  ASSUME StreamInv, LastRecovered, ParseInv, ParseUnit, structure = 1
  PROVE  HeaderParsed' /\ SetsActive'
<1> DEFINE known == Overridden(fields, NalFields)
           E == Elements(structure)
           p == Parse(SPSSyntax, unit_bytes, known)
<1>1. /\ UNCHANGED <<config, tick, structure, unit_bytes>> /\ unit_bytes # <<>>
      /\ sps' = sps /\ Elements(structure)' = E
  BY ParseFrame
<1>2. PICK at : HeaderRead(at, unit_bytes, E) /\ Bits!Replay(unit_bytes, E)[2] = at[Len(E)]
  BY <1>1, HeaderThere DEF ParseInv
<1>3. Sent
  BY <1>1, HeaderThere DEF ParseInv
<1>4. /\ "nal_unit_type" \in DOMAIN known /\ known["nal_unit_type"] = 7
      /\ NalFields["nal_unit_type"] = 7
  BY <1>3, HeaderRecognised, HeaderTypes DEF ParseInv, StreamInv
<1>5. E = SPSElements(sps) /\ SPSItems(sps, E) /\ Len(E) = 21
  <2>1. E = SPSElements(sps)
    BY DEF Elements
  <2>2. SPSItems(sps, SPSElements(sps))
    BY SPSItemwise, Zenon DEF sps, StreamInv, StreamTypes
  <2>3. SPSItems(sps, E)
    BY <2>1, <2>2
  <2> QED
    BY <2>1, <2>3, Zenon DEF SPSItems
<1>6. fields' = p
  <2>1. Syntax(7) = SPSSyntax
    BY DEF Syntax
  <2> QED
    BY <1>4, <2>1, Zenon DEF ParseUnit
<1>7. /\ config.profile_idc \in 0..255 /\ config.level_idc \in 0..255
      /\ config.width \in Nat /\ config.width % 16 = 0
      /\ config.height \in Nat /\ config.height % 16 = 0
  BY ConfigsAssumption DEF StreamInv, StreamTypes, CodeNum
<1>8. /\ sps.profile_idc = config.profile_idc /\ sps.level_idc = config.level_idc
      /\ sps.max_num_ref_frames = config.ref_frame_num
      /\ sps.pic_width_in_mbs_minus1 = (config.width \div 16) - 1
      /\ sps.pic_height_in_map_units_minus1 = (config.height \div 16) - 1
  BY DEF sps, ConstructSPS
<1> HIDE DEF known, E
<1>9. SPSLearnt(p, sps) /\ p["end"] = at[21] /\ p["nal_unit_type"] = 7
  <2>1. sps.profile_idc \in 0..255 /\ sps.level_idc \in 0..255
    BY <1>7, <1>8
  <2> HIDE DEF p
  <2> QED
    BY <1>2, <1>4, <1>5, <2>1, SPSParsed DEF p
<1> HIDE DEF p
<1>10. \A size \in Nat : size % 16 = 0 => 16 * (((size \div 16) - 1) + 1) = size
  BY SMT
<1>11. SPSUnderstood'
  <2>1. /\ p["profile_idc"] = config.profile_idc /\ p["level_idc"] = config.level_idc
        /\ p["pic_width_in_mbs_minus1"] = (config.width \div 16) - 1
        /\ p["pic_height_in_map_units_minus1"] = (config.height \div 16) - 1
        /\ p["max_num_ref_frames"] = config.ref_frame_num
        /\ p["vui_parameters_present_flag"] = 0
    BY <1>8, <1>9 DEF SPSLearnt
  <2>2. /\ 16 * (p["pic_width_in_mbs_minus1"] + 1) = config.width
        /\ 16 * (p["pic_height_in_map_units_minus1"] + 1) = config.height
    BY <1>7, <1>10, <2>1
  <2> QED
    BY <1>1, <1>6, <1>9, <2>1, <2>2 DEF SPSUnderstood
<1>12. SPSKnown(fields, sps)'
  BY <1>1, <1>6, <1>9 DEF SPSLearnt, SPSKnown, Has
<1>13. HeaderParsed'
  <2>1. fields'["end"] = at[Len(E)]
    BY <1>5, <1>6, <1>9
  <2> QED
    BY <1>1, <1>2, <1>11, <2>1 DEF HeaderParsed, Understood
<1> QED
  BY <1>1, <1>12, <1>13 DEF SetsActive

LEMMA PPSUnitParsed ==
  ASSUME StreamInv, LastRecovered, ParseInv, ParseUnit, structure = 2
  PROVE  HeaderParsed' /\ SetsActive'
<1> DEFINE known == Overridden(fields, NalFields)
           E == Elements(structure)
           p == Parse(PPSSyntax, unit_bytes, known)
<1>1. /\ UNCHANGED <<config, tick, structure, unit_bytes>> /\ unit_bytes # <<>>
      /\ sps' = sps /\ Elements(structure)' = E
  BY ParseFrame
<1>2. PICK at : HeaderRead(at, unit_bytes, E) /\ Bits!Replay(unit_bytes, E)[2] = at[Len(E)]
  BY <1>1, HeaderThere DEF ParseInv
<1>3. Sent
  BY <1>1, HeaderThere DEF ParseInv
<1>4. /\ "nal_unit_type" \in DOMAIN known /\ known["nal_unit_type"] = 8
      /\ NalFields["nal_unit_type"] = 8
      /\ \A x \in DOMAIN fields : x \notin {"nal_unit_type", "nal_ref_idc"}
                                    => x \in DOMAIN known /\ known[x] = fields[x]
  BY <1>3, HeaderRecognised, HeaderTypes DEF ParseInv, StreamInv
<1>5. PPSItems(sps, E) /\ Len(E) = 15
  <2>1. E = PPSElements(sps)
    BY DEF Elements
  <2>2. sps.max_num_ref_frames - 1 \in CodeNum
    BY SPSValues, Zenon DEF sps, StreamInv, StreamTypes
  <2>3. PPSItems(sps, E)
    BY <2>1, <2>2, PPSItemwise, Zenon
  <2> QED
    BY <2>3, Zenon DEF PPSItems
<1>6. fields' = p
  <2>1. Syntax(8) = PPSSyntax
    BY DEF Syntax
  <2> QED
    BY <1>4, <2>1, Zenon DEF ParseUnit
<1> HIDE DEF known, E
<1>7. SPSKnown(known, sps)
  <2>1. SPSKnown(fields, sps)
    BY DEF ParseInv, SetsActive
  <2> QED
    BY <1>4, <2>1 DEF SPSKnown, Has
<1>8. /\ SPSKnown(p, sps) /\ PPSKnown(p) /\ p["entropy_coding_mode_flag"] = 0
      /\ p["end"] = at[15] /\ p["nal_unit_type"] = 8
  <2> HIDE DEF p
  <2> QED
    BY <1>2, <1>4, <1>5, <1>7, PPSParsed DEF p
<1> HIDE DEF p
<1>9. PPSUnderstood'
  BY <1>6, <1>8 DEF PPSUnderstood
<1>10. SPSKnown(fields, sps)' /\ PPSKnown(fields)'
  BY <1>1, <1>6, <1>8 DEF SPSKnown, PPSKnown, Has
<1>11. HeaderParsed'
  <2>1. fields'["end"] = at[Len(E)]
    BY <1>5, <1>6, <1>8
  <2> QED
    BY <1>1, <1>2, <1>9, <2>1 DEF HeaderParsed, Understood
<1> QED
  BY <1>1, <1>10, <1>11 DEF SetsActive

\* The header of slice structure, from the encoder's state.
HeaderOf(k) == ConstructHeader(sps, SliceTick(k), SliceType(k), config.qp, RefFrameNum(k))

LEMMA HeaderValues ==
  ASSUME StreamTypes, structure > 2, NEW now, now = SliceTick(structure),
         NEW h, h = HeaderOf(structure)
  PROVE  /\ now \in Nat /\ (now # 0 => now - 1 \in CodeNum)
         /\ h.idr_pic_flag = (now = 0) /\ h.slice_type = IF now = 0 THEN 7 ELSE 5
         /\ h.frame_num = now /\ h.active_list0_ref_num = now
         /\ h.pic_order_cnt_lsb = (2 * now) % 2^sps.log2_max_pic_order_cnt_lsb
         /\ h.slice_qp_delta = config.qp - 26 /\ h.slice_qp_delta \in -26..25
         /\ Elements(structure) = HeaderElements(sps, h)
<1>0. Len(Payloads) \in Nat /\ tick \in Nat /\ tick + Len(Payloads) \in CodeNum
  BY PayloadsAssumption DEF StreamTypes
<1>1. now \in Nat /\ (now # 0 => now - 1 \in CodeNum)
  <2>1. now \in Nat /\ now <= tick + Len(Payloads)
    BY <1>0 DEF SliceTick, StreamTypes
  <2>2. \A v \in CodeNum, u \in Nat : u <= v /\ u # 0 => u - 1 \in CodeNum
    BY SMT DEF CodeNum
  <2> QED
    BY <1>0, <2>1, <2>2
<1> DEFINE type == SliceType(structure)
<1>2. type = IF now = 0 THEN "I" ELSE "P"
  BY DEF SliceType
<1>3. config.qp - 26 \in -26..25
  BY ConfigsAssumption DEF StreamTypes
<1>4. h = [idr_pic_flag |-> now = 0 /\ type = "I",
           slice_type |-> SliceTypeValue(type),
           frame_num |-> now,
           pic_order_cnt_lsb |-> (2 * now) % 2^sps.log2_max_pic_order_cnt_lsb,
           slice_qp_delta |-> config.qp - 26,
           active_list0_ref_num |-> now]
  BY Zenon DEF HeaderOf, ConstructHeader, RefFrameNum
<1> HIDE DEF type
<1>5. SliceTypeValue(type) = IF now = 0 THEN 7 ELSE 5
  BY <1>2 DEF SliceTypeValue
<1>6. h.idr_pic_flag = (now = 0)
  <2>1. h.idr_pic_flag = (now = 0 /\ type = "I")
    BY <1>4
  <2>2. (now = 0 /\ type = "I") = (now = 0)
    BY <1>2
  <2> QED
    BY <2>1, <2>2, Zenon
<1>7. Elements(structure) = HeaderElements(sps, h)
  <2>1. structure # 1 /\ structure # 2
    OBVIOUS
  <2> QED
    BY <2>1, Zenon DEF Elements, HeaderOf
<1>8. /\ h.slice_type = SliceTypeValue(type) /\ h.frame_num = now /\ h.active_list0_ref_num = now
      /\ h.pic_order_cnt_lsb = (2 * now) % 2^sps.log2_max_pic_order_cnt_lsb
      /\ h.slice_qp_delta = config.qp - 26
  BY <1>4
<1> QED
  BY <1>1, <1>3, <1>5, <1>6, <1>7, <1>8, Zenon

\* A number below a power is its own remainder.
LEMMA RemainderTwice ==
  ASSUME NEW v \in Nat, NEW n \in 0..32
  PROVE  v % 2^n \in Nat /\ (v % 2^n) % 2^n = v % 2^n
<1> DEFINE p == 2^n
<1>1. p \in Nat \ {0}
  BY PowerDoubles
<1> HIDE DEF p
<1>2. v % p \in 0..(p - 1)
  BY <1>1
<1> DEFINE r == v % p
<1>3. r \in 0..(p - 1)
  BY <1>2
<1> HIDE DEF r
<1>4. r \in Nat /\ r % p = r
  BY <1>1, <1>3
<1> QED
  BY <1>4 DEF r, p

LEMMA SliceUnitParsed ==
  ASSUME StreamInv, LastRecovered, ParseInv, ParseUnit, structure > 2
  PROVE  HeaderParsed' /\ SetsActive'
<1> DEFINE known == Overridden(fields, NalFields)
           E == Elements(structure)
           p == Parse(SliceSyntax, unit_bytes, known)
           now == SliceTick(structure)
           h == HeaderOf(structure)
<1>1. /\ UNCHANGED <<config, tick, structure, unit_bytes>> /\ unit_bytes # <<>>
      /\ sps' = sps /\ Elements(structure)' = E /\ SliceTick(structure)' = now
  BY ParseFrame
<1>2. PICK at : HeaderRead(at, unit_bytes, E) /\ Bits!Replay(unit_bytes, E)[2] = at[Len(E)]
  BY <1>1, HeaderThere DEF ParseInv
<1>3. Sent
  BY <1>1, HeaderThere DEF ParseInv
<1>4. /\ {"nal_unit_type", "nal_ref_idc"} \subseteq DOMAIN known
      /\ known["nal_unit_type"] = (IF now = 0 THEN 5 ELSE 1) /\ known["nal_ref_idc"] # 0
      /\ NalFields["nal_unit_type"] = (IF now = 0 THEN 5 ELSE 1)
      /\ \A x \in DOMAIN fields : x \notin {"nal_unit_type", "nal_ref_idc"}
                                    => x \in DOMAIN known /\ known[x] = fields[x]
  BY <1>3, HeaderRecognised, HeaderTypes DEF ParseInv, StreamInv
<1>5. fields' = p
  <2>1. Syntax(5) = SliceSyntax /\ Syntax(1) = SliceSyntax
    BY DEF Syntax
  <2>2. NalFields["nal_unit_type"] = 5 \/ NalFields["nal_unit_type"] = 1
    BY <1>4
  <2> QED
    BY <2>1, <2>2, Zenon DEF ParseUnit
<1>6. /\ sps.log2_max_frame_num \in 4..32 /\ sps.log2_max_pic_order_cnt_lsb \in 4..32
  BY SPSValues, Zenon DEF sps, StreamInv, StreamTypes
<1>7. /\ now \in Nat /\ (now # 0 => now - 1 \in CodeNum)
      /\ h.idr_pic_flag = (now = 0) /\ h.slice_type = IF now = 0 THEN 7 ELSE 5
      /\ h.frame_num = now /\ h.active_list0_ref_num = now
      /\ h.pic_order_cnt_lsb = (2 * now) % 2^sps.log2_max_pic_order_cnt_lsb
      /\ h.slice_qp_delta = config.qp - 26 /\ h.slice_qp_delta \in -26..25
      /\ E = HeaderElements(sps, h)
  BY HeaderValues DEF StreamInv
<1>8. SPSKnown(fields, sps) /\ PPSKnown(fields)
  <2>1. SetsActive
    BY Zenon DEF ParseInv
  <2>2. structure > 1
    BY Places DEF StreamInv
  <2> QED
    BY <2>1, <2>2, Zenon DEF SetsActive
<1>9. SPSKnown(known, sps) /\ PPSKnown(known)
  <2> HIDE DEF known
  <2>1. SPSKnown(known, sps)
    BY <1>4, <1>8 DEF SPSKnown, Has
  <2>2. PPSKnown(known)
    BY <1>4, <1>8 DEF PPSKnown, Has
  <2> QED
    BY <2>1, <2>2
<1> HIDE DEF known, E, now, h
<1>10. /\ h.pic_order_cnt_lsb \in Nat
       /\ h.pic_order_cnt_lsb % 2^sps.log2_max_pic_order_cnt_lsb = h.pic_order_cnt_lsb
  <2> DEFINE n == sps.log2_max_pic_order_cnt_lsb
             v == 2 * now
  <2>1. v \in Nat /\ n \in 0..32 /\ h.pic_order_cnt_lsb = v % 2^n
    BY <1>6, <1>7
  <2> HIDE DEF n, v
  <2>2. v % 2^n \in Nat /\ (v % 2^n) % 2^n = v % 2^n
    BY <2>1, RemainderTwice
  <2> QED
    BY <2>1, <2>2, Zenon DEF n
<1>11. /\ sps.log2_max_frame_num \in 1..32 /\ sps.log2_max_pic_order_cnt_lsb \in 1..32
       /\ sps.log2_max_frame_num \in Nat /\ sps.log2_max_pic_order_cnt_lsb \in Nat
       /\ h.frame_num \in Nat
  BY <1>6, <1>7
<1>12. /\ SliceLearnt(p, sps, h, IF now = 0 THEN 7 ELSE 5)
       /\ p["end"] = at[Len(E)]
       /\ p["nal_unit_type"] = IF now = 0 THEN 5 ELSE 1
       /\ now # 0 => p["num_ref_idx_l0_active_minus1"] = now - 1
  <2>1. CASE now = 0
    <3>1. ISliceItems(sps, h, HeaderElements(sps, h))
      BY <1>7, <1>10, <1>11, <2>1, ISliceItemwise
    <3>2. ISliceItems(sps, h, E) /\ Len(E) = 12
      BY <1>7, <3>1, Zenon DEF ISliceItems
    <3>3. known["nal_unit_type"] = 5
      BY <1>4, <2>1
    <3>4. SliceLearnt(p, sps, h, 7) /\ p["end"] = at[12] /\ p["nal_unit_type"] = 5
      <4> HIDE DEF p
      <4> QED
        BY <1>2, <1>4, <1>9, <1>11, <3>2, <3>3, ISliceParsed DEF p
    <3> HIDE DEF p
    <3> QED
      BY <2>1, <3>2, <3>4
  <2>2. CASE now # 0
    <3>1. PSliceItems(sps, h, HeaderElements(sps, h))
      BY <1>7, <1>10, <1>11, <2>2, PSliceItemwise
    <3>2. PSliceItems(sps, h, E) /\ Len(E) = 13
      BY <1>7, <3>1, Zenon DEF PSliceItems
    <3>3. known["nal_unit_type"] = 1
      BY <1>4, <2>2
    <3>4. /\ SliceLearnt(p, sps, h, 5) /\ p["end"] = at[13] /\ p["nal_unit_type"] = 1
          /\ p["num_ref_idx_l0_active_minus1"] = h.active_list0_ref_num - 1
      <4> HIDE DEF p
      <4> QED
        BY <1>2, <1>4, <1>9, <1>11, <3>2, <3>3, PSliceParsed DEF p
    <3> HIDE DEF p
    <3> QED
      BY <1>7, <2>2, <3>2, <3>4
  <2> QED
    BY <2>1, <2>2
<1> HIDE DEF p
<1>13. SPSKnown(fields, sps)' /\ PPSKnown(fields)'
  BY <1>1, <1>5, <1>12 DEF SliceLearnt, SPSKnown, PPSKnown, Has
<1>14. /\ p["log2_max_frame_num_minus4"] + 4 = sps.log2_max_frame_num
       /\ p["log2_max_pic_order_cnt_lsb_minus4"] + 4 = sps.log2_max_pic_order_cnt_lsb
       /\ p["pic_init_qp_minus26"] = 0
  <2>1. SPSKnown(p, sps) /\ PPSKnown(p)
    BY <1>12, Zenon DEF SliceLearnt
  <2>2. /\ p["log2_max_frame_num_minus4"] = sps.log2_max_frame_num - 4
        /\ p["log2_max_pic_order_cnt_lsb_minus4"] = sps.log2_max_pic_order_cnt_lsb - 4
        /\ p["pic_init_qp_minus26"] = 0
    BY <2>1, Zenon DEF SPSKnown, PPSKnown, Has
  <2>3. \A v \in Nat : (v - 4) + 4 = v
    OBVIOUS
  <2> QED
    BY <1>11, <2>2, <2>3, Zenon
<1>15. SliceUnderstood(SliceTick(structure))'
  <2>1. /\ p["first_mb_in_slice"] = 0
        /\ p["slice_type"] % 5 = IF now = 0 THEN 2 ELSE 0
        /\ p["slice_qp_delta"] = config.qp - 26
    BY <1>7, <1>12 DEF SliceLearnt
  <2>2. /\ p["frame_num"] = now % 2^(p["log2_max_frame_num_minus4"] + 4)
        /\ p["pic_order_cnt_lsb"] = (2 * now) % 2^(p["log2_max_pic_order_cnt_lsb_minus4"] + 4)
    BY <1>7, <1>10, <1>12, <1>14, Zenon DEF SliceLearnt
  <2>3. 26 + p["pic_init_qp_minus26"] + p["slice_qp_delta"] = config.qp
    <3>1. config.qp \in 0..51
      BY ConfigsAssumption DEF StreamInv, StreamTypes
    <3> QED
      BY <1>14, <2>1, <3>1
  <2>4. now > 0 => p["num_ref_idx_l0_active_minus1"] + 1 = now
    BY <1>7, <1>12
  <2>5. RefFrameNum(structure)' = now /\ config' = config /\ fields' = p
        /\ SliceTick(structure)' = now
    BY <1>1, <1>5 DEF RefFrameNum
  <2> QED
    BY <1>12, <2>1, <2>2, <2>3, <2>4, <2>5, Zenon DEF SliceUnderstood
<1>16. HeaderParsed'
  <2>1. fields'["end"] = at[Len(E)]
    BY <1>5, <1>12
  <2>2. structure' = structure /\ structure # 1 /\ structure # 2
    BY <1>1
  <2>3. Understood(structure)'
    BY <1>15, <2>2, Zenon DEF Understood
  <2> QED
    BY <1>1, <1>2, <2>1, <2>3, Zenon DEF HeaderParsed
<1> QED
  BY <1>13, <1>16 DEF SetsActive

\* A unit parsed is understood.
LEMMA ParseKeeps ==
  ASSUME StreamInv, LastRecovered, ParseInv, ParseUnit
  PROVE  HeaderParsed' /\ SetsActive'
<1>1. structure = 1 \/ structure = 2 \/ structure > 2
  BY Places DEF StreamInv
<1> QED
  BY <1>1, SPSUnitParsed, PPSUnitParsed, SliceUnitParsed

\* What the receiver has learnt stays, and the parameter sets stay active.
LEMMA NextKeepsLearnt ==
  ASSUME StreamInv, ParseInv, NextStructure
  PROVE  HeaderParsed' /\ SetsActive'
<1>1. /\ "end" \in DOMAIN fields /\ UNCHANGED config /\ structure' = structure + 1
      /\ fields' = [x \in DOMAIN fields \ {"end"} |-> fields[x]]
  BY DEF NextStructure, Restrict
<1>2. /\ "end" \notin DOMAIN fields'
      /\ \A name, value : Has(fields, name, value) /\ name # "end" => Has(fields', name, value)
  BY <1>1 DEF Has
<1>3. HeaderParsed'
  BY <1>2 DEF HeaderParsed
<1>4. structure \in Nat /\ structure # 0
  BY Places DEF StreamInv
<1>5. SPSKnown(fields, sps) => SPSKnown(fields, sps)'
  BY <1>1, <1>2 DEF SPSKnown, sps
<1>6. PPSKnown(fields) => PPSKnown(fields)'
  BY <1>2 DEF PPSKnown
<1>7. structure > 1 => structure # 1
  BY <1>4
<1>8. SetsActive
  BY Zenon DEF ParseInv
<1>9. SPSKnown(fields, sps)'
  BY <1>1, <1>5, <1>8, Zenon DEF SetsActive
<1>10. structure' > 2 => PPSKnown(fields)'
  <2>1. structure' > 2 => structure > 2 \/ structure = 2
    BY <1>1, <1>4
  <2> QED
    BY <1>1, <1>6, <1>8, <2>1, Zenon DEF SetsActive
<1> QED
  BY <1>2, <1>3, <1>9, <1>10 DEF SetsActive

LEMMA OtherKeepsLearnt ==
  ASSUME ParseInv, UNCHANGED <<config, tick, structure, fields>>,
         ReceiveUnit \/ UNCHANGED unit_bytes
  PROVE  HeaderParsed' /\ SetsActive'
<1>1. /\ Elements(structure)' = Elements(structure) /\ sps' = sps
      /\ SliceTick(structure)' = SliceTick(structure)
      /\ RefFrameNum(structure)' = RefFrameNum(structure)
  BY DEF Elements, sps, SliceTick, SliceType, RefFrameNum
<1>2. "end" \in DOMAIN fields => unit_bytes' = unit_bytes
  BY DEF ParseInv, HeaderParsed, ReceiveUnit
<1>3. Understood(structure)' = Understood(structure)
  BY <1>1 DEF Understood, SPSUnderstood, PPSUnderstood, SliceUnderstood
<1>4. HeaderParsed'
  <2>1. HeaderParsed
    BY Zenon DEF ParseInv
  <2> QED
    BY <1>1, <1>2, <1>3, <2>1, Zenon DEF HeaderParsed
<1>5. SetsActive'
  BY <1>1 DEF ParseInv, SetsActive, SPSKnown, PPSKnown
<1> QED
  BY <1>4, <1>5

\* A step concerns the header, the unit or what the receiver has learnt.
LEMMA ParseStep ==
  ASSUME StreamIInv, StreamInv', ParseInv, [StreamNext]_<<writerVars, receiverVars>>
  PROVE  ParseInv'
<1>1. StreamInv /\ IInv /\ LastRecovered
  BY DEF StreamIInv
<1>2. HeaderFirst /\ UnitHeaded
  BY Zenon DEF ParseInv
<1> DEFINE Learnt == HeaderParsed' /\ SetsActive'
<1>3. CASE WriteElement
  <2>1. UNCHANGED <<config, tick, structure, fields, unit_bytes, m_handle, starts>>
    BY <1>3 DEF WriteElement, vars, receiverVars
  <2>2. Learnt
    BY <2>1, OtherKeepsLearnt
  <2>3. HeaderFirst' /\ UnitHeaded'
    BY <1>1, <1>2, <1>3, <2>1, WriteHeader, OtherHeaded
  <2> QED
    BY <2>2, <2>3, Zenon DEF ParseInv
<1>4. CASE EncodeMacroblocks \/ CloseStructure
  <2>1. UNCHANGED <<config, tick, structure, fields, unit_bytes, m_handle, starts>>
    BY <1>4 DEF EncodeMacroblocks, CloseStructure, vars, receiverVars
  <2>2. Learnt
    BY <2>1, OtherKeepsLearnt
  <2>3. HeaderFirst' /\ UnitHeaded'
    BY <1>1, <1>2, <1>4, <2>1, OtherHeader, OtherHeaded
  <2> QED
    BY <2>2, <2>3, Zenon DEF ParseInv
<1>5. CASE BeginNal
  <2>1. UNCHANGED <<config, tick, structure, fields, unit_bytes, to_write, data_written, written, closed>>
    BY <1>5 DEF BeginNal, bitVars, receiverVars
  <2>2. Learnt
    BY <2>1, OtherKeepsLearnt
  <2>3. HeaderFirst' /\ UnitHeaded'
    BY <1>1, <1>2, <1>5, <2>1, OtherHeader, BeginHeaded
  <2> QED
    BY <2>2, <2>3, Zenon DEF ParseInv
<1>6. CASE EscapeNext \/ EscapeLast
  <2>1. UNCHANGED <<config, tick, structure, fields, unit_bytes, to_write, data_written, written, closed>>
    BY <1>6 DEF EscapeNext, EscapeLast, bitVars, receiverVars
  <2>2. Learnt
    BY <2>1, OtherKeepsLearnt
  <2>3. HeaderFirst' /\ UnitHeaded'
    BY <1>1, <1>2, <1>6, <2>1, OtherHeader, EscapeHeaded
  <2> QED
    BY <2>2, <2>3, Zenon DEF ParseInv
<1>7. CASE NextStructure
  BY <1>1, <1>2, <1>7, NextHeader, OtherHeaded, NextKeepsLearnt, Zenon DEF ParseInv
<1>8. CASE ReceiveUnit \/ ParseUnit \/ UNCHANGED <<writerVars, receiverVars>>
  <2>1. UNCHANGED writerVars
    BY <1>8 DEF ReceiveUnit, ParseUnit
  <2>2. UNCHANGED <<config, tick, structure, to_write, data_written, written, closed, m_handle, starts>>
    BY <2>1 DEF writerVars, vars, bitVars
  <2>3. HeaderFirst' /\ UnitHeaded'
    BY <1>1, <1>2, <2>2, OtherHeader, OtherHeaded
  <2>4. CASE ParseUnit
    BY <1>1, <2>3, <2>4, ParseKeeps, Zenon DEF ParseInv
  <2>5. CASE ReceiveUnit \/ UNCHANGED <<writerVars, receiverVars>>
    <3>1. UNCHANGED fields /\ (ReceiveUnit \/ UNCHANGED unit_bytes)
      BY <2>5 DEF ReceiveUnit, receiverVars
    <3>2. Learnt
      BY <2>2, <3>1, OtherKeepsLearnt
    <3> QED
      BY <2>3, <3>2, Zenon DEF ParseInv
  <2> QED
    BY <1>8, <2>4, <2>5
<1> QED
  BY <1>3, <1>4, <1>5, <1>6, <1>7, <1>8, Zenon DEF StreamNext

LEMMA ParseInvHolds == StreamSpec => []ParseInv
<1>1. StreamInit => ParseInv
  BY ParseInvStarts
<1>2. StreamIInv /\ StreamIInv' /\ ParseInv /\ [StreamNext]_<<writerVars, receiverVars>> => ParseInv'
  BY ParseStep DEF StreamIInv
<1> QED
  BY <1>1, <1>2, StreamIInvHolds, PTL DEF StreamSpec

\* A receiver that parses a unit by the standard's syntax, knowing only what the
\* units before it said, learns what the encoder meant by it, for every
\* configuration and every picture of a sequence, and finds the bit where the
\* macroblocks begin (Convert2BytesData of SPSData, PPSData and SliceHeader).
THEOREM HeadersParsed == StreamSpec => []ReceiverParsesHeaders
<1>1. ParseInv => ReceiverParsesHeaders
  BY DEF ParseInv, HeaderParsed, Understood, ReceiverParsesHeaders
<1> QED
  BY <1>1, ParseInvHolds, PTL
=============================================================================
