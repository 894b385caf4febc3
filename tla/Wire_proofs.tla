---------------------------- MODULE Wire_proofs ----------------------------
(***************************************************************************)
(* Proofs about Wire, for every scale and every size of a byte.            *)
(***************************************************************************)
EXTENDS Wire, SequenceTheorems, TLAPS

(***************************************************************************)
(* Division.                                                               *)
(***************************************************************************)

\* The quotient is the largest number of whole parts.
LEMMA DivBounds ==
    ASSUME NEW m \in Nat, NEW n \in Nat \ {0}
    PROVE  m \div n \in Nat /\ n * (m \div n) <= m /\ m < n * (m \div n) + n
  OBVIOUS

\* Quotient and remainder make up the number.
LEMMA DivMod ==
    ASSUME NEW m \in Nat, NEW n \in Nat \ {0}
    PROVE  m % n \in 0 .. n - 1 /\ m \div n \in Nat /\ m = n * (m \div n) + (m % n)
  OBVIOUS

\* The quotient is the only number between the bounds.
LEMMA Quotient ==
    ASSUME NEW m \in Nat, NEW n \in Nat \ {0}, NEW q \in Nat, n * q <= m, m < n * q + n
    PROVE  m \div n = q
<1>1. PICK k \in Nat : k = m \div n /\ n * k <= m /\ m < n * k + n
  BY DivBounds
<1>2. n * k < n * (q + 1) /\ n * q < n * (k + 1)
  BY <1>1
<1>3. k < q + 1 /\ q < k + 1
  <2>1. k >= q + 1 => n * k >= n * (q + 1)
    OBVIOUS
  <2>2. q >= k + 1 => n * q >= n * (k + 1)
    OBVIOUS
  <2> QED
    BY ONLY <1>2, <2>1, <2>2, k \in Nat, q \in Nat, n \in Nat
<1> QED
  BY ONLY <1>1, <1>3, k \in Nat, q \in Nat

(***************************************************************************)
(* Scaling.                                                                *)
(***************************************************************************)

\* What Raw computes of the magnitude of a value.
LEMMA Magnitude ==
    ASSUME NEW y \in Nat
    PROVE  \E q \in Nat : /\ q = (2 * y + Scale) \div (2 * Scale)
                          /\ 2 * (q * Scale) <= 2 * y + Scale
                          /\ 2 * y < 2 * (q * Scale) + Scale
<1>1. Scale \in Nat /\ Scale > 0
  BY ScaleAssumption
<1>2. PICK m \in Nat, n \in Nat \ {0} : m = 2 * y + Scale /\ n = 2 * Scale
  BY <1>1
<1>3. PICK q \in Nat : q = m \div n /\ n * q <= m /\ m < n * q + n
  BY DivBounds
<1>4. n * q = 2 * (q * Scale)
  BY <1>1, <1>2
<1>5. 2 * (q * Scale) <= 2 * y + Scale /\ 2 * y < 2 * (q * Scale) + Scale
  BY <1>1, <1>2, <1>3, <1>4
<1> QED
  BY <1>2, <1>3, <1>5

\* The code rounds to the nearest value that a camera can hold: what it holds
\* then is never further than half a raw unit from what was asked.
THEOREM RoundsToNearest ==
    ASSUME NEW x \in Int
    PROVE  Raw(x) \in Int /\ Held(x) \in Int /\ 2 * Abs(x - Held(x)) <= Scale
<1>1. PICK y \in Nat : y = Abs(x)
  BY DEF Abs
<1>2. PICK q \in Nat : /\ q = (2 * y + Scale) \div (2 * Scale)
                       /\ 2 * (q * Scale) <= 2 * y + Scale
                       /\ 2 * y < 2 * (q * Scale) + Scale
  BY Magnitude
<1>3. Raw(x) = IF x < 0 THEN -q ELSE q
  BY <1>1, <1>2 DEF Raw
<1>4. PICK h \in Nat : h = q * Scale
  BY ScaleAssumption
<1>5. Held(x) = IF x < 0 THEN -h ELSE h
  <2>1. Scale \in Nat
    BY ScaleAssumption
  <2>2. (-q) * Scale = -(q * Scale)
    BY <2>1
  <2> QED
    BY <1>3, <1>4, <2>2 DEF Held, FromRaw
<1>6. x = IF x < 0 THEN -y ELSE y
  BY <1>1 DEF Abs
<1>7. 2 * h <= 2 * y + Scale /\ 2 * y < 2 * h + Scale /\ Scale \in Nat
  BY <1>2, <1>4, ScaleAssumption
<1>8. Held(x) \in Int /\ Raw(x) \in Int
  BY <1>3, <1>5
<1>9. 2 * Abs(x - Held(x)) <= Scale
  BY ONLY <1>5, <1>6, <1>7, x \in Int, y \in Nat, h \in Nat DEF Abs
<1> QED
  BY <1>8, <1>9

\* A value that a camera holds is read and sent without a change.
THEOREM RawIsExact ==
    ASSUME NEW r \in Int
    PROVE  FromRaw(r) \in Int /\ Raw(FromRaw(r)) = r
<1>1. Scale \in Nat \ {0}
  BY ScaleAssumption
<1>2. PICK k \in Nat : k = Abs(r)
  BY DEF Abs
<1>3. r * Scale \in Int /\ Abs(r * Scale) = k * Scale /\ (r * Scale < 0 <=> r < 0)
  <2>1. r = k \/ r = -k
    BY <1>2 DEF Abs
  <2>2. (-k) * Scale = -(k * Scale) /\ k * Scale \in Nat /\ (k > 0 => k * Scale > 0)
    BY <1>1
  <2> QED
    BY <1>1, <1>2, <2>1, <2>2 DEF Abs
<1>4. (2 * (k * Scale) + Scale) \div (2 * Scale) = k
  <2>1. PICK m \in Nat, n \in Nat \ {0} : m = 2 * (k * Scale) + Scale /\ n = 2 * Scale
    BY <1>1
  <2>2. n * k <= m /\ m < n * k + n
    BY <1>1, <2>1
  <2> QED
    BY <2>1, <2>2, Quotient
<1>5. Raw(FromRaw(r)) = IF r < 0 THEN -k ELSE k
  BY <1>3, <1>4 DEF Raw, FromRaw
<1> QED
  BY <1>2, <1>3, <1>5 DEF Abs, FromRaw

\* A larger value is not sent as a smaller one.
LEMMA RawKeepsOrder ==
    ASSUME NEW x \in Int, NEW y \in Int, x <= y PROVE Raw(x) <= Raw(y)
<1>1. /\ Raw(x) \in Int /\ Raw(y) \in Int /\ Held(x) \in Int /\ Held(y) \in Int
      /\ 2 * Abs(x - Held(x)) <= Scale /\ 2 * Abs(y - Held(y)) <= Scale
  BY RoundsToNearest
<1>2. Scale \in Nat /\ Scale > 0
  BY ScaleAssumption
<1>3. Held(x) = Raw(x) * Scale /\ Held(y) = Raw(y) * Scale
  BY DEF Held, FromRaw
<1>4. ASSUME Raw(x) > Raw(y) PROVE FALSE
  <2>1. (Raw(x) - Raw(y)) * Scale >= Scale
    BY <1>1, <1>2, <1>4
  <2>2. Held(x) - Held(y) >= Scale
    BY <1>1, <1>2, <1>3, <2>1
  <2>3. x = y
    BY ONLY <1>1, <1>2, <2>2, x \in Int, y \in Int, x <= y DEF Abs
  <2> QED
    BY <1>1, <1>4, <2>3
<1> QED
  BY <1>1, <1>4

(***************************************************************************)
(* Bytes.                                                                  *)
(***************************************************************************)

\* A byte, two and four of them have at least one value.
LEMMA Sizes == Byte \in Nat \ {0} /\ Word \in Nat \ {0} /\ DoubleWord \in Nat \ {0}
<1>1. Byte \in Nat \ {0}
  BY ByteAssumption
<1>2. Word \in Nat \ {0}
  BY <1>1 DEF Word
<1> QED
  BY <1>1, <1>2 DEF DoubleWord

\* A word comes back from its two bytes.
THEOREM U16RoundTrip ==
    ASSUME NEW v \in Nat, v < Word
    PROVE  /\ ReadU16(WriteU16(v)) = v
           /\ WriteU16(v) \in Seq(Nat) /\ Len(WriteU16(v)) = 2
           /\ ReadU16(<<WriteU16(v)[1], WriteU16(v)[2]>>) = v
<1>1. v % Word = v
  <2>1. PICK w \in Nat \ {0} : w = Word
    BY Sizes
  <2>2. v % w = v
    BY <2>1
  <2> QED
    BY <2>1, <2>2
<1>2. WriteU16(v) = << v % Byte, v \div Byte >>
  BY <1>1 DEF WriteU16
<1>3. v % Byte \in Nat /\ v \div Byte \in Nat /\ v = Byte * (v \div Byte) + (v % Byte)
  BY Sizes, DivMod
<1>4. (v % Byte) + Byte * (v \div Byte) = v
  BY <1>3, Sizes
<1> QED
  BY <1>2, <1>3, <1>4 DEF ReadU16

\* The bytes of two words in a row.
LEMMA JoinedHalves ==
    ASSUME NEW s \in Seq(Nat), NEW t \in Seq(Nat), Len(s) = 2, Len(t) = 2
    PROVE  /\ (s \o t)[1] = s[1] /\ (s \o t)[2] = s[2]
           /\ (s \o t)[3] = t[1] /\ (s \o t)[4] = t[2]
<1> DEFINE u == s \o t
<1>1. \A i \in 1 .. Len(s) + Len(t) : u[i] = IF i <= Len(s) THEN s[i] ELSE t[i - Len(s)]
  BY ConcatProperties
<1> HIDE DEF u
<1>2. \A i \in 1 .. 2 + 2 : u[i] = IF i <= 2 THEN s[i] ELSE t[i - 2]
  BY ONLY <1>1, Len(s) = 2, Len(t) = 2
<1>3. u[1] = s[1] /\ u[2] = s[2] /\ u[3] = t[1] /\ u[4] = t[2]
  BY ONLY <1>2
<1> QED
  BY ONLY <1>3 DEF u

\* A signed double word comes back from its four bytes: the two's complement
\* of the UVC position is the one that the camera reads, and the other way
\* around.
THEOREM I32RoundTrip ==
    ASSUME NEW v \in Int, -DoubleWord <= 2 * v, 2 * v < DoubleWord
    PROVE  ReadI32(WriteI32(v)) = v
<1>1. PICK w \in Nat \ {0} : w = Word
  BY Sizes
<1>2. PICK dw \in Nat \ {0} : dw = DoubleWord /\ dw = w * w
  BY <1>1, Sizes DEF DoubleWord
<1>3. PICK bits \in Nat : bits = v % dw /\ bits = IF v < 0 THEN v + dw ELSE v
  <2>1. v < 0 => v % dw = v + dw
    BY <1>2
  <2>2. v >= 0 => v % dw = v
    BY <1>2
  <2> QED
    BY <1>2, <2>1, <2>2
<1>4. bits < dw
  BY <1>2, <1>3
<1>5. PICK low \in Nat, high \in Nat :
          low = bits % w /\ high = bits \div w /\ low < w /\ bits = w * high + low
  <2>1. /\ bits % w \in 0 .. w - 1 /\ bits \div w \in Nat
        /\ bits = w * (bits \div w) + (bits % w)
    BY ONLY bits \in Nat, w \in Nat \ {0}, DivMod
  <2>2. bits % w \in Nat /\ bits % w < w
    BY ONLY <2>1, w \in Nat \ {0}
  <2> QED
    BY ONLY <2>1, <2>2
<1>6. high < w
  <2>1. w * high < w * w
    BY <1>2, <1>4, <1>5
  <2>2. high >= w => w * high >= w * w
    BY <1>1
  <2> QED
    BY <2>1, <2>2
<1>7. WriteI32(v) = WriteU16(low) \o WriteU16(high)
  BY <1>1, <1>2, <1>3, <1>5 DEF WriteI32
<1>8. /\ WriteU16(low) \in Seq(Nat) /\ Len(WriteU16(low)) = 2
      /\ WriteU16(high) \in Seq(Nat) /\ Len(WriteU16(high)) = 2
      /\ ReadU16(<<WriteU16(low)[1], WriteU16(low)[2]>>) = low
      /\ ReadU16(<<WriteU16(high)[1], WriteU16(high)[2]>>) = high
  BY <1>1, <1>5, <1>6, U16RoundTrip
<1>9. /\ WriteI32(v)[1] = WriteU16(low)[1] /\ WriteI32(v)[2] = WriteU16(low)[2]
      /\ WriteI32(v)[3] = WriteU16(high)[1] /\ WriteI32(v)[4] = WriteU16(high)[2]
  <2>1. PICK s \in Seq(Nat), t \in Seq(Nat) : s = WriteU16(low) /\ t = WriteU16(high)
    BY ONLY <1>8
  <2>2. Len(s) = 2 /\ Len(t) = 2 /\ WriteI32(v) = s \o t
    BY ONLY <1>7, <1>8, <2>1
  <2>3. /\ (s \o t)[1] = s[1] /\ (s \o t)[2] = s[2]
        /\ (s \o t)[3] = t[1] /\ (s \o t)[4] = t[2]
    BY ONLY <2>2, s \in Seq(Nat), t \in Seq(Nat), JoinedHalves
  <2> DEFINE u == s \o t
  <2>4. WriteI32(v) = u /\ u[1] = s[1] /\ u[2] = s[2] /\ u[3] = t[1] /\ u[4] = t[2]
    BY ONLY <2>2, <2>3
  <2> HIDE DEF u
  <2> QED
    BY ONLY <2>1, <2>4
<1>10. ReadI32(WriteI32(v)) = IF 2 * bits < dw THEN bits ELSE bits - dw
  <2>1. low + w * high = bits
    BY <1>5
  <2> QED
    BY <1>1, <1>2, <1>8, <1>9, <2>1 DEF ReadI32
<1> QED
  BY <1>2, <1>3, <1>10
=============================================================================
