---------------------------- MODULE OpcodeProofs ----------------------------
(***************************************************************************)
(* What is proved of the instructions, for every width, program and        *)
(* starting state: the arithmetic of both modes is that of its reference,  *)
(* jumps land where the bytecode says, arrays are shared by their handles  *)
(* and pairs survive a field.                                              *)
(***************************************************************************)
EXTENDS Opcodes, FunctionTheorems, SequenceTheorems, FiniteSetTheorems, WellFoundedInduction,
        TLAPS

-----------------------------------------------------------------------------
\* The prover knows nothing of powers: they are counted.  Half the subsets of
\* 0..n lack n.
LEMMA Doubles ==
    ASSUME NEW n \in Nat
    PROVE  2 ^ n \in Nat /\ 2 ^ (n + 1) = 2 * 2 ^ n
<1>. DEFINE A == SUBSET (1..n)
            B == {s \cup {n + 1} : s \in A}
            f == [s \in A |-> s \cup {n + 1}]
<1>1. /\ IsFiniteSet(1..n) /\ Cardinality(1..n) = n
      /\ IsFiniteSet(1..n + 1) /\ Cardinality(1..n + 1) = n + 1
  BY FS_Interval
<1>2. /\ IsFiniteSet(A) /\ Cardinality(A) = 2 ^ n
      /\ Cardinality(SUBSET (1..n + 1)) = 2 ^ (n + 1)
  BY <1>1, FS_SUBSET
<1>3. /\ IsFiniteSet(B) /\ Cardinality(B) = Cardinality(A)
  <2>1. \A s, t \in A : f[s] = f[t] => s = t
    <3>. SUFFICES ASSUME NEW s \in A, NEW t \in A, s \cup {n + 1} = t \cup {n + 1}
                  PROVE  s \subseteq t /\ t \subseteq s
      BY ZenonT(60)
    <3>1. n + 1 \notin s /\ n + 1 \notin t
      OBVIOUS
    <3>. QED BY <3>1
  <2>2. f \in [A -> B] /\ \A t \in B : \E s \in A : f[s] = t
    BY Zenon
  <2>3. f \in Bijection(A, B)
    BY <2>1, <2>2, Fun_IsBij, Zenon
  <2>. QED BY <1>2, <2>3, FS_Bijection DEF ExistsBijection
<1>4. SUBSET (1..n + 1) = A \cup B
  <2>1. ASSUME NEW s \in SUBSET (1..n + 1), s \notin A
        PROVE  s \in B
    <3>1. s \ {n + 1} \in A
      OBVIOUS
    <3>2. n + 1 \in s
      BY <2>1
    <3>3. s = (s \ {n + 1}) \cup {n + 1}
      BY <3>2, Zenon
    <3>. QED BY <3>1, <3>3, Zenon
  <2>2. \A s \in A : s \in SUBSET (1..n + 1) /\ s \cup {n + 1} \in SUBSET (1..n + 1)
    OBVIOUS
  <2>3. \A s \in B : s \in SUBSET (1..n + 1)
    BY <2>2, ZenonT(60)
  <2>. HIDE DEF A, B
  <2>. QED BY <2>1, <2>2, <2>3
<1>5. A \cap B = {}
  <2>1. \A s \in A : n + 1 \notin s
    OBVIOUS
  <2>. QED BY <2>1, Zenon
<1>. HIDE DEF A, B, f
<1>6. Cardinality(A \cup B) = Cardinality(A) + Cardinality(B) - Cardinality(A \cap B)
  BY <1>2, <1>3, FS_Union
<1>7. Cardinality(A \cap B) = 0 /\ Cardinality(A) \in Nat
  BY <1>2, <1>5, FS_EmptySet, FS_CardinalityType
<1>8. 2 ^ (n + 1) = Cardinality(A) + Cardinality(A) - 0
  BY <1>2, <1>3, <1>4, <1>6, <1>7
<1>. QED BY <1>2, <1>7, <1>8

\* A set of naturals that is not empty has a least member.
LEMMA LeastOf ==
    ASSUME NEW S \in SUBSET Nat, S # {}
    PROVE  \E k \in S : \A j \in S : k <= j
<1>1. PICK k \in S : \A j \in S : ~ (<<j, k>> \in OpToRel(<, Nat))
  BY NatLessThanWellFounded, WFMin
<1>2. \A j \in S : ~ (j < k)
  BY <1>1 DEF OpToRel
<1>. QED BY <1>2

\* Powers of any positive base are positive naturals.
LEMMA PowersPositive ==
    ASSUME NEW n \in Nat
    PROVE  2 ^ n \in Nat /\ 0 < 2 ^ n
<1>. DEFINE S == {k \in Nat : ~ (0 < 2 ^ k)}
<1>. SUFFICES S = {}
  BY Doubles
<1>. SUFFICES ASSUME S # {} PROVE FALSE
  OBVIOUS
<1>1. PICK k \in S : \A j \in S : k <= j
  BY LeastOf
<1>0. 2 ^ 0 = 1
  OBVIOUS
<1>2. k # 0
  <2>1. k = 0 => 2 ^ k = 2 ^ 0
    BY Zenon
  <2>. QED BY <1>0, <1>1, <2>1
<1>3. k - 1 \in Nat /\ 0 < 2 ^ (k - 1)
  BY <1>1, <1>2
<1>4. 2 ^ ((k - 1) + 1) = 2 * 2 ^ (k - 1) /\ 2 ^ (k - 1) \in Nat
  BY <1>3, Doubles
<1>5. (k - 1) + 1 = k
  BY <1>1
<1>. QED BY <1>1, <1>3, <1>4, <1>5

\* The power of a sum is the product of the powers.
LEMMA PowersAdd ==
    ASSUME NEW m \in Nat, NEW n \in Nat
    PROVE  2 ^ (m + n) = 2 ^ m * 2 ^ n
<1>. DEFINE S == {k \in Nat : 2 ^ (m + k) # 2 ^ m * 2 ^ k}
<1>. SUFFICES S = {}
  OBVIOUS
<1>. SUFFICES ASSUME S # {} PROVE FALSE
  OBVIOUS
<1>1. PICK k \in S : \A j \in S : k <= j
  BY LeastOf
<1>0. 2 ^ 0 = 1 /\ 2 ^ m \in Nat /\ m + 0 = m
  BY Doubles
<1>2. k # 0
  <2>1. 2 ^ (m + 0) = 2 ^ m * 2 ^ 0
    BY <1>0
  <2>. QED BY <1>1, <2>1
<1>3. k - 1 \in Nat /\ 2 ^ (m + (k - 1)) = 2 ^ m * 2 ^ (k - 1)
  BY <1>1, <1>2
<1>4. 2 ^ ((k - 1) + 1) = 2 * 2 ^ (k - 1) /\ 2 ^ (k - 1) \in Nat
  BY <1>3, Doubles
<1>5. 2 ^ ((m + (k - 1)) + 1) = 2 * 2 ^ (m + (k - 1)) /\ 2 ^ m \in Nat
  BY <1>3, Doubles
<1>6. (k - 1) + 1 = k /\ (m + (k - 1)) + 1 = m + k
  BY <1>1
<1>7. 2 ^ m * (2 * 2 ^ (k - 1)) = 2 * (2 ^ m * 2 ^ (k - 1))
  BY <1>4, <1>5
<1>8. 2 ^ (m + k) = 2 ^ m * 2 ^ k
  BY <1>3, <1>4, <1>5, <1>6, <1>7
<1>. QED BY <1>1, <1>8

\* A larger power is a multiple of a smaller one.
LEMMA PowersDivide ==
    ASSUME NEW m \in Nat, NEW n \in Nat, m <= n
    PROVE  /\ 2 ^ n = 2 ^ m * 2 ^ (n - m)
           /\ 0 < 2 ^ m /\ 2 ^ m <= 2 ^ n
           /\ 2 ^ m \in Int /\ 2 ^ n \in Int /\ 2 ^ (n - m) \in Int
           /\ 0 < 2 ^ (n - m)
<1>1. n - m \in Nat /\ m + (n - m) = n
  OBVIOUS
<1>2. 2 ^ n = 2 ^ m * 2 ^ (n - m)
  BY <1>1, PowersAdd
<1>3. 2 ^ m \in Nat /\ 0 < 2 ^ m /\ 2 ^ (n - m) \in Nat /\ 0 < 2 ^ (n - m)
  BY <1>1, PowersPositive
<1>4. \A x, y \in Nat : 0 < x /\ 0 < y => x <= x * y
  OBVIOUS
<1>. QED BY <1>2, <1>3, <1>4

-----------------------------------------------------------------------------
\* Division, of which the provers know the quotient and the remainder.
LEMMA DivMod ==
    ASSUME NEW x \in Int, NEW p \in Int, 0 < p
    PROVE  /\ x = p * (x \div p) + (x % p)
           /\ x \div p \in Int
           /\ x % p \in Int /\ 0 <= x % p /\ x % p < p
OBVIOUS

\* Quotient and remainder are the only ones that fit.
LEMMA DivModUnique ==
    ASSUME NEW p \in Int, 0 < p, NEW q \in Int, NEW r \in Int, 0 <= r, r < p
    PROVE  (p * q + r) \div p = q /\ (p * q + r) % p = r
OBVIOUS

\* A multiple of the modulus goes into the quotient alone.
LEMMA ModAddMultiple ==
    ASSUME NEW x \in Int, NEW p \in Int, 0 < p, NEW k \in Int
    PROVE  (x + p * k) % p = x % p /\ (x + p * k) \div p = x \div p + k
<1>. DEFINE q == x \div p
            r == x % p
<1>1. x = p * q + r /\ q \in Int /\ r \in Int /\ 0 <= r /\ r < p
  BY DivMod
<1>. HIDE DEF q, r
<1>2. x + p * k = p * (q + k) + r
  BY <1>1
<1>3. (p * (q + k) + r) \div p = q + k /\ (p * (q + k) + r) % p = r
  BY <1>1, DivModUnique
<1>. QED BY <1>2, <1>3 DEF q, r

\* The remainder by a divisor of the modulus survives a remainder by the modulus.
LEMMA ModTower ==
    ASSUME NEW x \in Int, NEW p \in Int, 0 < p, NEW m \in Int, 0 < m
    PROVE  (x % (p * m)) % p = x % p
<1>. DEFINE q == x \div (p * m)
            r == x % (p * m)
<1>0. p * m \in Int /\ 0 < p * m
  OBVIOUS
<1>1. x = (p * m) * q + r /\ q \in Int /\ r \in Int
  BY <1>0, DivMod
<1>. HIDE DEF q, r
<1>2. x = r + p * (m * q)
  BY <1>1
<1>3. (r + p * (m * q)) % p = r % p
  <2>1. m * q \in Int
    BY <1>1
  <2>. QED BY <1>1, <2>1, ModAddMultiple, ZenonT(60)
<1>. QED BY <1>2, <1>3 DEF r
-----------------------------------------------------------------------------
\* Machine integers.
LEMMA Widths ==
    /\ {ByteBits, ShortBits, BackBits, IntBits, LongBits} \subseteq Nat \ {0}
    /\ ByteBits < ShortBits /\ ShortBits < IntBits /\ IntBits < LongBits
    /\ BackBits < IntBits
    /\ LongBits = IntBits + IntBits /\ 3 <= IntBits
BY OpcodesConstantsOK DEF LongBits

\* Half the values of so many bits are those below the sign bit.
LEMMA Halves ==
    ASSUME NEW bits \in Nat \ {0}
    PROVE  /\ 2 ^ bits = 2 * 2 ^ (bits - 1)
           /\ 2 ^ (bits - 1) \in Int /\ 1 <= 2 ^ (bits - 1)
           /\ 2 ^ bits \in Int /\ 2 <= 2 ^ bits
<1>1. bits - 1 \in Nat /\ (bits - 1) + 1 = bits
  OBVIOUS
<1>2. 2 ^ ((bits - 1) + 1) = 2 * 2 ^ (bits - 1)
  BY <1>1, Doubles
<1>3. 2 ^ (bits - 1) \in Nat /\ 0 < 2 ^ (bits - 1)
  BY <1>1, PowersPositive
<1>. QED BY <1>1, <1>2, <1>3

\* Unsigned keeps what fits its bits and wraps the rest into them.
LEMMA UnsignedRange ==
    ASSUME NEW bits \in Nat, NEW x \in Int
    PROVE  /\ Unsigned(bits, x) \in Int
           /\ 0 <= Unsigned(bits, x) /\ Unsigned(bits, x) < 2 ^ bits
           /\ (0 <= x /\ x < 2 ^ bits) => Unsigned(bits, x) = x
<1>1. 2 ^ bits \in Int /\ 0 < 2 ^ bits
  BY PowersPositive
<1>2. ASSUME 0 <= x, x < 2 ^ bits
      PROVE  x % 2 ^ bits = x
  <2>1. x = 2 ^ bits * 0 + x
    BY <1>1
  <2>2. (2 ^ bits * 0 + x) % 2 ^ bits = x
    BY <1>1, <1>2, DivModUnique
  <2>. QED BY <2>1, <2>2
<1>3. x % 2 ^ bits \in Int /\ 0 <= x % 2 ^ bits /\ x % 2 ^ bits < 2 ^ bits
  BY <1>1, DivMod
<1>. QED BY <1>2, <1>3 DEF Unsigned

\* A number that is read as signed keeps its low bits.
LEMMA SignedRange ==
    ASSUME NEW bits \in Nat \ {0}, NEW x \in Int
    PROVE  /\ Signed(bits, x) \in Int
           /\ -(2 ^ (bits - 1)) <= Signed(bits, x) /\ Signed(bits, x) < 2 ^ (bits - 1)
           /\ Signed(bits, x) % 2 ^ bits = x % 2 ^ bits
           /\ (-(2 ^ (bits - 1)) <= x /\ x < 2 ^ (bits - 1)) => Signed(bits, x) = x
<1>. DEFINE p == 2 ^ bits
            h == 2 ^ (bits - 1)
            u == x % p
<1>1. p = 2 * h /\ h \in Int /\ 1 <= h /\ p \in Int /\ 0 < p
  BY Halves
<1>2. u \in Int /\ 0 <= u /\ u < p
  BY <1>1, DivMod
<1>3. u % p = u /\ (u + p * (-1)) % p = u
  <2>1. (p * 0 + u) % p = u
    BY <1>1, <1>2, DivModUnique
  <2>2. p * 0 + u = u
    BY <1>1, <1>2
  <2>3. (u + p * (-1)) % p = u % p
    BY <1>1, <1>2, ModAddMultiple
  <2>. QED BY <2>1, <2>2, <2>3
<1>4. Signed(bits, x) = IF u >= h THEN u - p ELSE u
  BY DEF Signed, Unsigned
<1>5. ASSUME -h <= x, x < h
      PROVE  u = IF x >= 0 THEN x ELSE x + p
  <2>1. CASE x >= 0
    <3>1. (p * 0 + x) % p = x
      BY <1>1, <1>5, <2>1, DivModUnique
    <3>2. p * 0 + x = x
      BY <1>1
    <3>. QED BY <2>1, <3>1, <3>2
  <2>2. CASE x < 0
    <3>1. (p * (-1) + (x + p)) % p = x + p
      BY <1>1, <1>5, <2>2, DivModUnique
    <3>2. p * (-1) + (x + p) = x
      BY <1>1
    <3>. QED BY <2>2, <3>1, <3>2
  <2>. QED BY <2>1, <2>2
<1>. HIDE DEF p, h, u
<1>6. u + p * (-1) = u - p
  BY <1>1, <1>2
<1>7. /\ Signed(bits, x) \in Int
      /\ -h <= Signed(bits, x) /\ Signed(bits, x) < h
      /\ Signed(bits, x) % p = u
  BY <1>1, <1>2, <1>3, <1>4, <1>6
<1>8. (-h <= x /\ x < h) => Signed(bits, x) = x
  BY <1>1, <1>4, <1>5
<1>. QED BY <1>7, <1>8 DEF p, h, u

\* The low half of a low half, and the low bits of a wrapped number.
LEMMA UnsignedTower ==
    ASSUME NEW m \in Nat, NEW n \in Nat, m <= n, NEW x \in Int
    PROVE  Unsigned(m, Unsigned(n, x)) = Unsigned(m, x)
<1>1. /\ 2 ^ n = 2 ^ m * 2 ^ (n - m)
      /\ 2 ^ m \in Int /\ 0 < 2 ^ m
      /\ 2 ^ (n - m) \in Int /\ 0 < 2 ^ (n - m)
  BY PowersDivide
<1>2. (x % (2 ^ m * 2 ^ (n - m))) % 2 ^ m = x % 2 ^ m
  BY <1>1, ModTower
<1>. QED BY <1>1, <1>2, SMTT(40) DEF Unsigned

\* Wrapping at 64 bits changes nothing of the low bits.
LEMMA LongKeepsLow ==
    ASSUME NEW bits \in Nat \ {0}, bits <= LongBits, NEW x \in Int
    PROVE  /\ Unsigned(bits, Long(x)) = Unsigned(bits, x)
           /\ Signed(bits, Long(x)) = Signed(bits, x)
<1>1. LongBits \in Nat \ {0} /\ Long(x) \in Int
  BY Widths, SignedRange DEF Long
<1>2. Unsigned(LongBits, Long(x)) = Unsigned(LongBits, x)
  BY <1>1, SignedRange DEF Long, Unsigned
<1>3. Unsigned(bits, Long(x)) = Unsigned(bits, x)
  BY <1>1, <1>2, UnsignedTower
<1>. QED BY <1>3 DEF Signed

\* Long is the identity on longs, and makes a long of any integer.
LEMMA LongsAre ==
    /\ Longs \subseteq Int
    /\ \A x \in Int : Long(x) \in Longs
    /\ \A x \in Longs : Long(x) = x
<1>1. 2 ^ (LongBits - 1) \in Int /\ 1 <= 2 ^ (LongBits - 1) /\ LongBits \in Nat \ {0}
  BY Widths, Halves
<1>2. \A x \in Int : /\ Long(x) \in Int
                     /\ -(2 ^ (LongBits - 1)) <= Long(x) /\ Long(x) < 2 ^ (LongBits - 1)
                     /\ (-(2 ^ (LongBits - 1)) <= x /\ x < 2 ^ (LongBits - 1)) => Long(x) = x
  BY <1>1, SignedRange DEF Long
<1>. QED BY <1>1, <1>2 DEF Longs, MinLong

\* 2^IntBits squared is 2^LongBits: whatever fits 32 bits, signed or not, fits 64.
LEMMA IntsFit ==
    /\ 2 ^ LongBits = 2 ^ IntBits * 2 ^ IntBits
    /\ 2 ^ (LongBits - 1) = 2 ^ IntBits * 2 ^ (IntBits - 1)
    /\ 2 ^ IntBits \in Int /\ 8 <= 2 ^ IntBits
    /\ 2 ^ IntBits = 2 * 2 ^ (IntBits - 1) /\ 2 ^ (IntBits - 1) \in Int
    /\ 4 * 2 ^ IntBits <= 2 ^ (LongBits - 1)
<1>1. /\ 2 ^ (IntBits + IntBits) = 2 ^ IntBits * 2 ^ IntBits
      /\ 2 ^ (IntBits + (IntBits - 1)) = 2 ^ IntBits * 2 ^ (IntBits - 1)
  <2>1. IntBits \in Nat /\ IntBits - 1 \in Nat
    BY Widths
  <2>. QED BY <2>1, PowersAdd
<1>2. IntBits + IntBits = LongBits /\ IntBits + (IntBits - 1) = LongBits - 1
  BY Widths
<1>3. 2 ^ IntBits = 2 * 2 ^ (IntBits - 1) /\ 2 ^ (IntBits - 1) \in Int /\ 2 ^ IntBits \in Int
  BY Widths, Halves
<1>4. 4 <= 2 ^ (IntBits - 1)
  <2>1. 2 <= IntBits - 1 /\ 2 \in Nat /\ IntBits - 1 \in Nat
    BY Widths
  <2>2. 2 ^ 2 <= 2 ^ (IntBits - 1)
    BY <2>1, PowersDivide
  <2>3. 2 ^ 2 = 4
    OBVIOUS
  <2>. QED BY <2>2, <2>3
<1>5. \A p, h \in Int : 4 <= h /\ 0 <= p => p * 4 <= p * h
  OBVIOUS
<1>6. 2 ^ IntBits * 4 <= 2 ^ IntBits * 2 ^ (IntBits - 1)
  BY <1>3, <1>4, <1>5
<1>. QED BY <1>1, <1>2, <1>3, <1>4, <1>6

-----------------------------------------------------------------------------
\* Division and remainder.
LEMMA TruncDivIs ==
    ASSUME NEW x \in Int, NEW y \in Int, y # 0
    PROVE  \E d, q, r \in Int :
              /\ d = Abs(y) /\ 0 < d
              /\ Abs(x) = d * q + r /\ 0 <= q /\ 0 <= r /\ r < d
              /\ q = Abs(x) \div d
              /\ TruncDiv(x, y) = IF (x < 0) = (y < 0) THEN q ELSE -q
              /\ TruncRem(x, y) = IF x < 0 THEN -r ELSE r
<1>1. Abs(x) \in Int /\ Abs(y) \in Int /\ 0 < Abs(y) /\ 0 <= Abs(x)
  BY DEF Abs
<1>. DEFINE d == Abs(y)
            a == Abs(x)
            q == a \div d
            r == a % d
<1>2. a = d * q + r /\ q \in Int /\ r \in Int /\ 0 <= r /\ r < d
  BY <1>1, DivMod
<1>3. 0 <= q
  <2>1. \A e, p \in Int : 0 < e /\ p <= -1 => e * p <= -e
    OBVIOUS
  <2>. HIDE DEF a, d, q, r
  <2>2. d \in Int /\ 0 < d /\ 0 <= a /\ a \in Int
    BY <1>1 DEF d, a
  <2>. QED BY <1>2, <2>1, <2>2
<1>4. TruncDiv(x, y) = IF (x < 0) = (y < 0) THEN q ELSE -q
  BY DEF TruncDiv
<1>5. a = (IF x < 0 THEN -x ELSE x) /\ d = IF y < 0 THEN -y ELSE y
  BY DEF Abs
<1>6. d \in Int /\ 0 < d /\ a \in Int
  BY <1>1
<1>. HIDE DEF a, d, q, r
<1>7. TruncRem(x, y) = x - y * (IF (x < 0) = (y < 0) THEN q ELSE -q)
  BY <1>4 DEF TruncRem
<1>8. /\ y * q = IF y < 0 THEN -(d * q) ELSE d * q
      /\ y * (-q) = IF y < 0 THEN d * q ELSE -(d * q)
  BY <1>2, <1>5, <1>6
<1>9. TruncRem(x, y) = IF x < 0 THEN -r ELSE r
  BY <1>2, <1>5, <1>6, <1>7, <1>8
<1>10. q = a \div d
  BY DEF q
<1>. QED BY <1>2, <1>3, <1>4, <1>6, <1>9, <1>10 DEF a, d

\* Rust's quotient, corrected, is the floor.
LEMMA FloorDivIsFloor ==
    ASSUME NEW b \in Int, NEW c \in Int, c # 0
    PROVE  /\ FloorDiv(b, c) = FloorQuotient(b, c)
           /\ FloorMod(b, c) = b - c * FloorQuotient(b, c)
           /\ FloorQuotient(b, c) \in Int
<1>1. PICK d, q, r \in Int :
        /\ d = Abs(c) /\ 0 < d
        /\ Abs(b) = d * q + r /\ 0 <= q /\ 0 <= r /\ r < d
        /\ q = Abs(b) \div d
        /\ TruncDiv(b, c) = IF (b < 0) = (c < 0) THEN q ELSE -q
        /\ TruncRem(b, c) = IF b < 0 THEN -r ELSE r
  BY TruncDivIs
<1>2. d = (IF c < 0 THEN -c ELSE c) /\ (IF b < 0 THEN -b ELSE b) = d * q + r
  BY <1>1 DEF Abs
<1>3. /\ d * (-q) = -(d * q) /\ d * (-q - 1) = -(d * q) - d
      /\ c * q = (IF c < 0 THEN -(d * q) ELSE d * q)
      /\ c * (-q) = (IF c < 0 THEN d * q ELSE -(d * q))
      /\ c * (-q - 1) = (IF c < 0 THEN d * q + d ELSE -(d * q) - d)
  BY <1>2
<1>. DEFINE n == IF c > 0 THEN b ELSE -b
            f == IF r = 0 \/ (b < 0) = (c < 0) THEN TruncDiv(b, c) ELSE TruncDiv(b, c) - 1
<1>4. /\ FloorQuotient(b, c) = n \div d
      /\ n \in Int
  BY <1>2 DEF FloorQuotient
<1>5. FloorDiv(b, c) = f
  BY <1>1 DEF FloorDiv
<1>6. FloorMod(b, c) = IF r = 0 \/ (b < 0) = (c < 0) THEN TruncRem(b, c)
                                                     ELSE TruncRem(b, c) + c
  BY <1>1 DEF FloorMod
<1>7. f \in Int /\ \E s \in Int : 0 <= s /\ s < d /\ n = d * f + s
  <2>1. CASE (b < 0) = (c < 0) /\ ~ (b < 0)
    <3>1. f = q /\ n = d * q + r
      BY <1>1, <1>2, <2>1
    <3>. QED BY <1>1, <3>1
  <2>2. CASE (b < 0) = (c < 0) /\ b < 0
    <3>1. f = q /\ n = d * q + r
      BY <1>1, <1>2, <2>2
    <3>. QED BY <1>1, <3>1
  <2>3. CASE (b < 0) # (c < 0)
    <3>1. n = -(d * q) - r
      BY <1>1, <1>2, <2>3
    <3>2. CASE r = 0
      <4>1. f = -q /\ n = d * (-q) + 0
        BY <1>1, <1>3, <2>3, <3>1, <3>2
      <4>. QED BY <1>1, <4>1
    <3>3. CASE r # 0
      <4>1. f = -q - 1 /\ n = d * (-q - 1) + (d - r)
        BY <1>1, <1>3, <2>3, <3>1, <3>3
      <4>. QED BY <1>1, <3>3, <4>1
    <3>. QED BY <3>2, <3>3
  <2>. QED BY <2>1, <2>2, <2>3
<1>8. n \div d = f
  <2>. HIDE DEF n, f
  <2>1. PICK s \in Int : 0 <= s /\ s < d /\ n = d * f + s
    BY <1>7
  <2>. QED BY <1>1, <1>7, <2>1, DivModUnique
<1>9. TruncRem(b, c) = b - c * TruncDiv(b, c)
  BY DEF TruncRem
<1>10. TruncDiv(b, c) \in Int
  BY <1>1
<1>11. c * (TruncDiv(b, c) - 1) = c * TruncDiv(b, c) - c
  BY <1>10
<1>12. FloorMod(b, c) = b - c * f
  <2>1. CASE r = 0 \/ (b < 0) = (c < 0)
    BY <1>6, <1>9, <2>1
  <2>2. CASE ~ (r = 0 \/ (b < 0) = (c < 0))
    <3>1. c * TruncDiv(b, c) \in Int
      BY <1>10
    <3>2. FloorMod(b, c) = (b - c * TruncDiv(b, c)) + c
      BY <1>6, <1>9, <2>2
    <3>3. c * f = c * TruncDiv(b, c) - c
      BY <1>11, <2>2
    <3>. QED BY <3>1, <3>2, <3>3
  <2>. QED BY <2>1, <2>2
<1>13. f \in Int
  BY <1>7
<1>. HIDE DEF n, f
<1>. QED BY <1>4, <1>5, <1>8, <1>12, <1>13

\* A quotient or a remainder of two longs is one, but for MinLong by -1.
LEMMA QuotientsAreLongs ==
    ASSUME NEW b \in Longs, NEW c \in Longs, c # 0, ~ DivisionOverflows(b, c)
    PROVE  /\ {TruncDiv(b, c), TruncRem(b, c)} \subseteq Longs
           /\ {FloorDiv(b, c), FloorMod(b, c)} \subseteq Longs
<1>. DEFINE M == 2 ^ (LongBits - 1)
<1>1. /\ b \in Int /\ c \in Int /\ M \in Int /\ 1 <= M
      /\ -M <= b /\ b < M /\ -M <= c /\ c < M
      /\ ~ (b = -M /\ c = -1)
      /\ Longs = -M..M - 1
  BY Widths, Halves DEF Longs, MinLong, DivisionOverflows
<1>2. PICK d, q, r \in Int :
        /\ d = Abs(c) /\ 0 < d
        /\ Abs(b) = d * q + r /\ 0 <= q /\ 0 <= r /\ r < d
        /\ q = Abs(b) \div d
        /\ TruncDiv(b, c) = IF (b < 0) = (c < 0) THEN q ELSE -q
        /\ TruncRem(b, c) = IF b < 0 THEN -r ELSE r
  BY <1>1, TruncDivIs
<1>. HIDE DEF M
<1>3. d = (IF c < 0 THEN -c ELSE c) /\ (IF b < 0 THEN -b ELSE b) = d * q + r
  BY <1>2 DEF Abs
<1>2a. /\ 0 <= q /\ 0 <= r /\ r < d /\ 0 < d
       /\ TruncDiv(b, c) = IF (b < 0) = (c < 0) THEN q ELSE -q
       /\ TruncRem(b, c) = IF b < 0 THEN -r ELSE r
  BY <1>2
<1>. DEFINE m == d * q
<1>4. /\ m \in Int /\ q <= m
      /\ d >= 2 => 2 * q <= m
      /\ d = 1 => m = q
  BY <1>2
<1>5. m + r <= M
  BY <1>1, <1>2, <1>3
<1>5a. d = 1 => c \in {1, -1} /\ r = 0 /\ q = IF b < 0 THEN -b ELSE b
  BY <1>1, <1>2, <1>3
<1>. HIDE DEF m
<1>6. /\ q <= M /\ r < M
      /\ (b < 0) = (c < 0) => q < M
  <2>1. q <= M
    BY <1>1, <1>2, <1>4, <1>5, SMTT(40)
  <2>2. r < M
    BY <1>1, <1>2, <1>3
  <2>3. ASSUME (b < 0) = (c < 0) PROVE q < M
    <3>1. CASE d >= 2
      BY <1>1, <1>2, <1>4, <1>5, <3>1, SMTT(40)
    <3>2. CASE d = 1
      BY <1>1, <1>5a, <2>3, <3>2
    <3>. QED BY <1>2, <3>1, <3>2
  <2>. QED BY <2>1, <2>2, <2>3
<1>7. {TruncDiv(b, c), TruncRem(b, c)} \subseteq Longs
  <2>1. TruncDiv(b, c) \in -M..M - 1
    BY <1>1, <1>2a, <1>6
  <2>2. TruncRem(b, c) \in -M..M - 1
    BY <1>1, <1>2a, <1>6
  <2>. QED BY <1>1, <2>1, <2>2
<1>8. FloorDiv(b, c) \in Longs
  <2>1. FloorDiv(b, c) = IF r = 0 \/ (b < 0) = (c < 0) THEN TruncDiv(b, c)
                                                       ELSE TruncDiv(b, c) - 1
    BY <1>2 DEF FloorDiv
  <2>2. CASE r = 0 \/ (b < 0) = (c < 0)
    BY <1>7, <2>1, <2>2
  <2>3. CASE r # 0 /\ (b < 0) # (c < 0)
    <3>1. 1 <= r /\ q + 1 <= m + r
      BY <1>2, <1>4, <2>3
    <3>2. FloorDiv(b, c) = -q - 1
      BY <1>2a, <2>1, <2>3
    <3>. QED BY <1>1, <1>2a, <1>4, <1>5, <3>1, <3>2
  <2>. QED BY <2>2, <2>3
<1>9. FloorMod(b, c) \in Longs
  <2>1. FloorMod(b, c) = IF r = 0 \/ (b < 0) = (c < 0) THEN TruncRem(b, c)
                                                       ELSE TruncRem(b, c) + c
    BY <1>2 DEF FloorMod
  <2>2. CASE r = 0 \/ (b < 0) = (c < 0)
    BY <1>7, <2>1, <2>2
  <2>3. CASE ~ (r = 0 \/ (b < 0) = (c < 0))
    BY <1>1, <1>2, <1>3, <2>1, <2>3
  <2>. QED BY <2>2, <2>3
<1>. QED BY <1>7, <1>8, <1>9

-----------------------------------------------------------------------------
\* Shifts.
LEMMA Shifts ==
    ASSUME NEW k \in Nat, NEW x \in Int
    PROVE  /\ x * 2 ^ k \in Int
           /\ Shr(x, k) \in Int
           /\ x >= 0 => (0 <= Shr(x, k) /\ Shr(x, k) <= x)
           /\ x < 0 => (x <= Shr(x, k) /\ Shr(x, k) < 0)
           /\ Shl(x, k) \in Longs
<1>. DEFINE p == 2 ^ k
            q == x \div p
<1>1. p \in Int /\ 0 < p
  BY PowersPositive
<1>2. x = p * q + (x % p) /\ q \in Int /\ x % p \in Int /\ 0 <= x % p /\ x % p < p
  BY <1>1, DivMod
<1>. HIDE DEF p, q
<1>3. x * p \in Int
  BY <1>1
<1>4. /\ q >= 0 => q <= p * q
      /\ q <= -1 => p * q <= -p /\ p * q <= q
  BY <1>1, <1>2
<1>4a. q <= -1 => p * (q + 1) <= q + 1
  BY <1>1, <1>2
<1>4b. p * (q + 1) = p * q + p /\ p * q \in Int
  BY <1>1, <1>2
<1>5. x >= 0 => (0 <= q /\ q <= x)
  BY <1>1, <1>2, <1>4, <1>4b
<1>6. x < 0 => (x <= q /\ q < 0)
  <2>1. ASSUME x < 0 PROVE q < 0
    <3>1. q >= 0 => p * q >= 0
      BY <1>1, <1>2
    <3>. QED BY <1>2, <1>4b, <2>1, <3>1
  <2>2. ASSUME x < 0 PROVE x <= q
    BY <1>1, <1>2, <1>4a, <1>4b, <2>1, <2>2
  <2>. QED BY <2>1, <2>2
<1>7. Shl(x, k) \in Longs
  BY <1>3, LongsAre DEF Shl, p
<1>. QED BY <1>2, <1>3, <1>5, <1>6, <1>7 DEF p, q, Shr

\* An arithmetic shift to the right stays within a long.
LEMMA ShrIsLong ==
    ASSUME NEW k \in Nat, NEW x \in Longs
    PROVE  Shr(x, k) \in Longs
<1>1. /\ x \in Int /\ 2 ^ (LongBits - 1) \in Int /\ 1 <= 2 ^ (LongBits - 1)
      /\ Longs = -(2 ^ (LongBits - 1))..2 ^ (LongBits - 1) - 1
  BY Widths, Halves DEF Longs, MinLong
<1>2. /\ Shr(x, k) \in Int
      /\ x >= 0 => (0 <= Shr(x, k) /\ Shr(x, k) <= x)
      /\ x < 0 => (x <= Shr(x, k) /\ Shr(x, k) < 0)
  BY <1>1, Shifts
<1>. QED BY <1>1, <1>2

\* The sign extension of control.rs: shifting up and down again.
LEMMA ShiftsExtendSign ==
    ASSUME NEW w \in Nat \ {0}, w <= LongBits, NEW v \in Int
    PROVE  SignExtendByShifts(v, w) = Signed(w, v)
<1>. DEFINE p == 2 ^ (LongBits - w)
            q == 2 ^ w
            h == 2 ^ (w - 1)
            u == v % q
<1>1. /\ LongBits - w \in Nat /\ LongBits \in Nat \ {0}
      /\ (LongBits - w) + w = LongBits /\ (LongBits - w) + (w - 1) = LongBits - 1
      /\ w - 1 \in Nat
  BY Widths
<1>2. 2 ^ LongBits = p * q /\ 2 ^ (LongBits - 1) = p * h
  BY <1>1, PowersAdd
<1>3. p \in Int /\ 0 < p /\ h \in Int /\ 1 <= h /\ q = 2 * h /\ q \in Int
  BY <1>1, PowersPositive, Halves
<1>4. v = q * (v \div q) + u /\ v \div q \in Int /\ u \in Int /\ 0 <= u /\ u < q
  BY <1>3, DivMod
<1>. DEFINE s == IF u >= h THEN u - q ELSE u
<1>5. Signed(w, v) = s
  BY DEF Signed, Unsigned
<1>6. SignExtendByShifts(v, w) = Shr(Long(v * p), LongBits - w)
  BY DEF SignExtendByShifts, Shl
<1>. HIDE DEF p, q, h, u
<1>7. (v * p) % (p * q) = p * u
  <2>. DEFINE k == v \div q
  <2>1. k \in Int /\ v = q * k + u
    BY <1>4
  <2>. HIDE DEF k
  <2>2. v * p = (p * q) * k + p * u
    BY <1>3, <1>4, <2>1
  <2>3. p * q \in Int /\ 0 < p * q /\ p * u \in Int /\ 0 <= p * u
    BY <1>3, <1>4
  <2>4. p * u < p * q
    BY <1>3, <1>4
  <2>. QED BY <2>1, <2>2, <2>3, <2>4, DivModUnique
<1>8. (p * u >= p * h) <=> (u >= h)
  BY <1>3, <1>4
<1>9. Long(v * p) = IF u >= h THEN p * u - p * q ELSE p * u
  BY <1>2, <1>7, <1>8 DEF Long, Signed, Unsigned
<1>10. Long(v * p) = p * s + 0 /\ s \in Int
  <2>1. p * (u - q) = p * u - p * q /\ p * u \in Int /\ p * q \in Int
    BY <1>3, <1>4
  <2>. QED BY <1>3, <1>4, <1>9, <2>1
<1>. HIDE DEF s
<1>11. (p * s + 0) \div p = s
  BY <1>3, <1>10, DivModUnique
<1>. QED BY <1>5, <1>6, <1>10, <1>11 DEF Shr, p

-----------------------------------------------------------------------------
\* Digits and bits.
LEMMA NumberIs ==
    ASSUME NEW base \in Int, base # 0, NEW digits \in Seq(Int)
    PROVE  \E f \in [0..Len(digits) -> Int] :
              /\ f[0] = 0
              /\ \A n \in 1..Len(digits) : f[n] = f[n - 1] + base ^ (n - 1) * digits[n]
              /\ Number(base, digits) = f[Len(digits)]
<1>. DEFINE N == Len(digits)
            term(n) == base ^ (n - 1) * digits[n]
            R(f, m) == f = [n \in 0..m |-> IF n = 0 THEN 0 ELSE f[n - 1] + term(n)]
<1>1. N \in Nat /\ \A n \in 1..N : term(n) \in Int
  <2>1. \A n \in 1..N : digits[n] \in Int /\ n - 1 \in Nat
    OBVIOUS
  <2>2. \A k \in Nat : base ^ k \in Int
    OBVIOUS
  <2>. QED BY <2>1, <2>2
<1>. HIDE DEF term
<1>2. \E f \in [0..N -> Int] : R(f, N)
  <2>. DEFINE solved(m) == \E f \in [0..m -> Int] : R(f, m)
              S == {m \in 0..N : ~ solved(m)}
  <2>. SUFFICES S = {}
    <3>. HIDE DEF solved
    <3>1. solved(N)
      BY <1>1
    <3>. QED BY <3>1 DEF solved
  <2>. SUFFICES ASSUME S # {} PROVE FALSE
    OBVIOUS
  <2>1. PICK m \in S : \A k \in S : m <= k
    <3>. HIDE DEF solved
    <3>1. S \in SUBSET Nat
      BY <1>1
    <3>. QED BY <3>1, LeastOf
  <2>2. m # 0
    <3>1. [n \in 0..0 |-> 0] \in [0..0 -> Int] /\ R([n \in 0..0 |-> 0], 0)
      OBVIOUS
    <3>. QED BY <2>1, <3>1
  <2>3. m - 1 \in 0..N /\ m - 1 \notin S /\ m \in 1..N
    <3>. HIDE DEF solved
    <3>1. m \in 1..N
      BY <1>1, <2>1, <2>2
    <3>2. m - 1 \in 0..N /\ ~ (m <= m - 1)
      BY <1>1, <3>1
    <3>. QED BY <2>1, <3>1, <3>2
  <2>4. PICK f \in [0..m - 1 -> Int] : R(f, m - 1)
    BY <2>3
  <2>. DEFINE g == [n \in 0..m |-> IF n < m THEN f[n] ELSE f[m - 1] + term(m)]
  <2>5. g \in [0..m -> Int]
    BY <1>1, <2>3, SMTT(40)
  <2>6. \A n \in 0..m : g[n] = IF n = 0 THEN 0 ELSE g[n - 1] + term(n)
    <3>. TAKE n \in 0..m
    <3>1. CASE n < m
      <4>1. n \in 0..m - 1 /\ (n # 0 => n - 1 \in 0..m - 1)
        BY <2>3, <3>1
      <4>2. f[n] = IF n = 0 THEN 0 ELSE f[n - 1] + term(n)
        BY <2>4, <4>1
      <4>. QED BY <3>1, <4>1, <4>2
    <3>2. CASE n = m
      BY <2>3, <3>2
    <3>. QED BY <3>1, <3>2
  <2>7. R(g, m)
    <3>. HIDE DEF g
    <3>. QED BY <2>5, <2>6
  <2>. QED BY <2>1, <2>5, <2>7
<1>. DEFINE f == CHOOSE f : R(f, N)
<1>3. R(f, N)
  <2>1. \E h : R(h, N)
    BY <1>2
  <2>. HIDE DEF R
  <2>. QED BY <2>1
<1>4. PICK h \in [0..N -> Int] : R(h, N)
  BY <1>2
<1>5. Number(base, digits) = f[N]
  BY DEF Number, term
<1>. HIDE DEF f
<1>6. \A n \in 0..N : f[n] = IF n = 0 THEN 0 ELSE f[n - 1] + term(n)
  BY <1>3
<1>7. \A n \in 0..N : h[n] = IF n = 0 THEN 0 ELSE h[n - 1] + term(n)
  BY <1>4
<1>8. \A n \in 0..N : f[n] = h[n]
  <2>. DEFINE S == {n \in 0..N : f[n] # h[n]}
  <2>. SUFFICES S = {}
    OBVIOUS
  <2>. SUFFICES ASSUME S # {} PROVE FALSE
    OBVIOUS
  <2>1. PICK m \in S : \A k \in S : m <= k
    <3>1. S \in SUBSET Nat
      BY <1>1
    <3>. HIDE DEF S
    <3>. QED BY <3>1, LeastOf
  <2>2. m # 0
    BY <1>1, <1>6, <1>7, <2>1
  <2>3. m - 1 \in 0..N /\ f[m - 1] = h[m - 1]
    BY <1>1, <2>1, <2>2
  <2>. QED BY <1>6, <1>7, <2>1, <2>2, <2>3
<1>9. /\ h[0] = 0
      /\ \A n \in 1..N : h[n] = h[n - 1] + term(n)
      /\ Number(base, digits) = h[N]
  BY <1>1, <1>5, <1>7, <1>8
<1>. QED BY <1>9 DEF term

\* Digits that are integers make an integer.
LEMMA NumberIsInt ==
    ASSUME NEW base \in Int, base # 0, NEW digits \in Seq(Int)
    PROVE  Number(base, digits) \in Int
<1>1. PICK f \in [0..Len(digits) -> Int] : Number(base, digits) = f[Len(digits)]
  BY NumberIs
<1>. QED BY <1>1

\* A bit is 0 or 1.
LEMMA BitIs ==
    ASSUME NEW x \in Int, NEW n \in Nat \ {0}
    PROVE  Bit(x, n) \in {0, 1}
<1>1. n - 1 \in Nat
  OBVIOUS
<1>2. 2 ^ (n - 1) \in Int /\ 0 < 2 ^ (n - 1)
  BY <1>1, PowersPositive
<1>3. x \div 2 ^ (n - 1) \in Int
  BY <1>2, DivMod
<1>. QED BY <1>3 DEF Bit

\* The bitwise operators make longs.
LEMMA BitwiseIsLong ==
    ASSUME NEW x \in Int, NEW y \in Int
    PROVE  {BitAnd(x, y), BitOr(x, y), BitXor(x, y)} \subseteq Longs
<1>1. LongBits \in Nat
  BY Widths
<1>2. \A n \in 1..LongBits : Bit(x, n) \in {0, 1} /\ Bit(y, n) \in {0, 1}
  BY <1>1, BitIs
<1>3. ASSUME NEW bits \in Seq(Int)
      PROVE  FromBits(bits) \in Longs
  BY NumberIsInt, LongsAre DEF FromBits
<1>4. [n \in 1..LongBits |-> Bit(x, n) * Bit(y, n)] \in Seq(Int)
  <2>1. \A n \in 1..LongBits : Bit(x, n) * Bit(y, n) \in Int
    BY <1>2
  <2>. QED BY <1>1, <2>1
<1>5. [n \in 1..LongBits |-> IF Bit(x, n) + Bit(y, n) = 0 THEN 0 ELSE 1] \in Seq(Int)
  BY <1>1
<1>6. [n \in 1..LongBits |-> (Bit(x, n) + Bit(y, n)) % 2] \in Seq(Int)
  <2>1. \A n \in 1..LongBits : (Bit(x, n) + Bit(y, n)) % 2 \in Int
    BY <1>2
  <2>. QED BY <1>1, <2>1
<1>. QED BY <1>3, <1>4, <1>5, <1>6 DEF BitAnd, BitOr, BitXor

\* Two functions that start alike and grow alike end alike.
LEMMA SumsAgree ==
    ASSUME NEW N \in Nat, NEW f \in [0..N -> Int], NEW g \in [0..N -> Int],
           f[0] = g[0], \A n \in 1..N : f[n] - f[n - 1] = g[n] - g[n - 1]
    PROVE  f[N] = g[N]
<1>. DEFINE S == {n \in 0..N : f[n] # g[n]}
<1>. SUFFICES S = {}
  OBVIOUS
<1>. SUFFICES ASSUME S # {} PROVE FALSE
  OBVIOUS
<1>1. PICK m \in S : \A k \in S : m <= k
  <2>1. S \in SUBSET Nat
    OBVIOUS
  <2>. HIDE DEF S
  <2>. QED BY <2>1, LeastOf
<1>2. m \in 1..N /\ m - 1 \in 0..N
  BY <1>1
<1>3. f[m - 1] = g[m - 1]
  BY <1>1, <1>2
<1>4. f[m] - f[m - 1] = g[m] - g[m - 1]
  BY <1>2
<1>5. f[m] = g[m]
  BY <1>2, <1>3, <1>4
<1>. QED BY <1>1, <1>5

\* The low bits of a number are its lowest ones and the next one.
LEMMA OneMoreBit ==
    ASSUME NEW x \in Int, NEW n \in Nat
    PROVE  x % 2 ^ (n + 1) = (x % 2 ^ n) + 2 ^ n * Bit(x, n + 1)
<1>. DEFINE p == 2 ^ n
            q == x \div p
            r == x % p
            e == q \div 2
            b == q % 2
<1>1. p \in Int /\ 0 < p /\ 2 ^ (n + 1) = 2 * p
  BY Doubles, PowersPositive
<1>2. x = p * q + r /\ q \in Int /\ r \in Int /\ 0 <= r /\ r < p
  BY <1>1, DivMod
<1>3. q = 2 * e + b /\ e \in Int /\ b \in {0, 1}
  <2>. HIDE DEF q
  <2>. QED BY <1>2
<1>4. Bit(x, n + 1) = b
  BY DEF Bit
<1>. HIDE DEF p, q, r, e, b
<1>5. x = (2 * p) * e + (p * b + r)
  <2>1. p * (2 * e + b) = (2 * p) * e + p * b
    BY <1>1, <1>3
  <2>. QED BY <1>1, <1>2, <1>3, <2>1
<1>6. p * b + r \in Int /\ 0 <= p * b + r /\ p * b + r < 2 * p
  <2>1. CASE b = 0
    BY <1>1, <1>2, <2>1
  <2>2. CASE b = 1
    BY <1>1, <1>2, <2>2
  <2>. QED BY <1>3, <2>1, <2>2
<1>7. ((2 * p) * e + (p * b + r)) % (2 * p) = p * b + r
  <2>1. 2 * p \in Int /\ 0 < 2 * p
    BY <1>1
  <2>. QED BY <1>3, <1>6, <2>1, DivModUnique
<1>8. x % 2 ^ (n + 1) = p * b + r
  BY <1>1, <1>5, <1>7
<1>9. p * b \in Int
  BY <1>1, <1>3
<1>. QED BY <1>2, <1>4, <1>8, <1>9 DEF p, r

\* The bits of 2^j and of 2^j - 1.
LEMMA BitsOfMasks ==
    ASSUME NEW j \in Nat, NEW n \in Nat \ {0}
    PROVE  /\ Bit(2 ^ j, n) = IF n = j + 1 THEN 1 ELSE 0
           /\ Bit(2 ^ j - 1, n) = IF n <= j THEN 1 ELSE 0
<1>. DEFINE p == 2 ^ (n - 1)
<1>0. n - 1 \in Nat
  OBVIOUS
<1>1. p \in Int /\ 0 < p /\ 2 ^ j \in Int /\ 0 < 2 ^ j
  BY <1>0, PowersPositive
<1>2. CASE n <= j
  <2>. DEFINE h == 2 ^ (j - n)
  <2>0. j - n \in Nat /\ (n - 1) + ((j - n) + 1) = j /\ (j - n) + 1 \in Nat
    BY <1>2
  <2>1. 2 ^ j = p * 2 ^ ((j - n) + 1)
    BY <1>0, <2>0, PowersAdd
  <2>2. 2 ^ ((j - n) + 1) = 2 * h /\ h \in Int
    BY <2>0, Doubles
  <2>. HIDE DEF p, h
  <2>3. 2 ^ j = p * (2 * h) + 0 /\ 2 ^ j - 1 = p * (2 * h - 1) + (p - 1)
    BY <1>1, <2>1, <2>2
  <2>4. 2 * h \in Int /\ 2 * h - 1 \in Int /\ p - 1 \in Int /\ 0 <= p - 1
    BY <1>1, <2>2
  <2>5. (p * (2 * h) + 0) \div p = 2 * h
    BY <1>1, <2>4, DivModUnique
  <2>6. (p * (2 * h - 1) + (p - 1)) \div p = 2 * h - 1
    <3>. DEFINE k == 2 * h - 1
                r == p - 1
    <3>1. k \in Int /\ r \in Int /\ 0 <= r /\ r < p
      BY <1>1, <2>4
    <3>. HIDE DEF k, r
    <3>2. (p * k + r) \div p = k
      BY <1>1, <3>1, DivModUnique
    <3>. QED BY <3>2 DEF k, r
  <2>7. (2 * h) % 2 = 0 /\ (2 * h - 1) % 2 = 1
    BY <2>2
  <2>8. n # j + 1
    BY <1>2
  <2>. QED BY <1>2, <2>3, <2>5, <2>6, <2>7, <2>8 DEF Bit, p
<1>3. CASE n = j + 1
  <2>1. n - 1 = j /\ ~ (n <= j)
    BY <1>3
  <2>2. (p * 1 + 0) \div p = 1 /\ (p * 0 + (p - 1)) \div p = 0
    BY <1>1, DivModUnique
  <2>3. p * 1 + 0 = 2 ^ j /\ p * 0 + (p - 1) = 2 ^ j - 1
    BY <1>1, <2>1
  <2>. HIDE DEF p
  <2>4. 2 ^ j \div p = 1 /\ (2 ^ j - 1) \div p = 0
    BY <2>2, <2>3
  <2>5. Bit(2 ^ j, n) = 1 /\ Bit(2 ^ j - 1, n) = 0
    <3>1. Bit(2 ^ j, n) = (2 ^ j \div p) % 2 /\ Bit(2 ^ j - 1, n) = ((2 ^ j - 1) \div p) % 2
      BY Zenon DEF Bit, p
    <3>2. 0 % 2 = 0 /\ 1 % 2 = 1
      OBVIOUS
    <3>. QED BY <2>4, <3>1, <3>2
  <2>. QED BY <1>3, <2>1, <2>5
<1>4. CASE j + 1 < n
  <2>1. j <= n - 2 /\ n - 2 \in Nat /\ (n - 2) + 1 = n - 1
    BY <1>4
  <2>2. 2 ^ j <= 2 ^ (n - 2) /\ 2 ^ (n - 2) \in Int /\ 0 < 2 ^ (n - 2)
    BY <2>1, PowersDivide
  <2>3. 2 ^ (n - 1) = 2 * 2 ^ (n - 2)
    BY <2>1, Doubles
  <2>4. 2 ^ j < p
    BY <1>1, <2>2, <2>3
  <2>. HIDE DEF p
  <2>5. (p * 0 + 2 ^ j) \div p = 0 /\ (p * 0 + (2 ^ j - 1)) \div p = 0
    BY <1>1, <2>4, DivModUnique
  <2>6. p * 0 + 2 ^ j = 2 ^ j /\ p * 0 + (2 ^ j - 1) = 2 ^ j - 1
    BY <1>1
  <2>7. 2 ^ j \div p = 0 /\ (2 ^ j - 1) \div p = 0
    BY <2>5, <2>6
  <2>8. Bit(2 ^ j, n) = 0 /\ Bit(2 ^ j - 1, n) = 0
    <3>1. Bit(2 ^ j, n) = (2 ^ j \div p) % 2 /\ Bit(2 ^ j - 1, n) = ((2 ^ j - 1) \div p) % 2
      BY Zenon DEF Bit, p
    <3>2. 0 % 2 = 0 /\ 1 % 2 = 1
      OBVIOUS
    <3>. QED BY <2>7, <3>1, <3>2
  <2>. QED BY <1>4, <2>8
<1>. QED BY <1>2, <1>3, <1>4

\* Conjunction with 2^w - 1 keeps the low w bits.
LEMMA AndMasks ==
    ASSUME NEW x \in Int, NEW j \in Nat, j < LongBits - 1
    PROVE  /\ BitAnd(x, 2 ^ j - 1) = x % 2 ^ j
           /\ BitAnd(x, 2 ^ j) = 2 ^ j * Bit(x, j + 1)
<1>. DEFINE L == LongBits
            digits(m) == [n \in 1..L |-> Bit(x, n) * Bit(m, n)]
<1>0. L \in Nat /\ L >= 1 /\ 2 ^ j \in Int /\ 0 < 2 ^ j /\ 2 ^ j - 1 \in Int
  BY Widths, PowersPositive
<1>1. \A n \in 1..L : Bit(x, n) \in {0, 1} /\ Bit(2 ^ j, n) \in {0, 1} /\ Bit(2 ^ j - 1, n) \in {0, 1}
  BY <1>0, BitIs
<1>2. /\ digits(2 ^ j) \in Seq(Int) /\ Len(digits(2 ^ j)) = L
      /\ digits(2 ^ j - 1) \in Seq(Int) /\ Len(digits(2 ^ j - 1)) = L
  <2>1. \A n \in 1..L : Bit(x, n) * Bit(2 ^ j, n) \in Int /\ Bit(x, n) * Bit(2 ^ j - 1, n) \in Int
    BY <1>1
  <2>. QED BY <1>0, <2>1
<1>3. /\ BitAnd(x, 2 ^ j) = Long(Number(2, digits(2 ^ j)))
      /\ BitAnd(x, 2 ^ j - 1) = Long(Number(2, digits(2 ^ j - 1)))
  BY DEF BitAnd, FromBits
<1>4. \A n \in 0..L : 2 ^ n \in Int /\ 0 < 2 ^ n /\ x % 2 ^ n \in Int
                      /\ 0 <= x % 2 ^ n /\ x % 2 ^ n < 2 ^ n
  <2>1. \A n \in 0..L : n \in Nat /\ 2 ^ n \in Int /\ 0 < 2 ^ n
    BY <1>0, PowersPositive
  <2>. QED BY <2>1, DivMod
<1>5. \A n \in 1..L : x % 2 ^ n = (x % 2 ^ (n - 1)) + 2 ^ (n - 1) * Bit(x, n)
  <2>. TAKE n \in 1..L
  <2>1. n - 1 \in Nat /\ (n - 1) + 1 = n
    BY <1>0
  <2>2. x % 2 ^ ((n - 1) + 1) = (x % 2 ^ (n - 1)) + 2 ^ (n - 1) * Bit(x, (n - 1) + 1)
    BY <2>1, OneMoreBit
  <2>. QED BY <2>1, <2>2
<1>6. Number(2, digits(2 ^ j - 1)) = x % 2 ^ j
  <2>1. PICK f \in [0..L -> Int] :
          /\ f[0] = 0
          /\ \A n \in 1..L : f[n] = f[n - 1] + 2 ^ (n - 1) * digits(2 ^ j - 1)[n]
          /\ Number(2, digits(2 ^ j - 1)) = f[L]
    <3>. DEFINE D == digits(2 ^ j - 1)
                base == 2
    <3>0. base \in Int /\ base # 0
      OBVIOUS
    <3>1. D \in Seq(Int) /\ Len(D) = L
      BY <1>2, Zenon
    <3>. HIDE DEF D, L, base
    <3>2. \E f \in [0..Len(D) -> Int] :
              /\ f[0] = 0
              /\ \A n \in 1..Len(D) : f[n] = f[n - 1] + base ^ (n - 1) * D[n]
              /\ Number(base, D) = f[Len(D)]
      BY <3>0, <3>1, NumberIs
    <3>3. \E f \in [0..L -> Int] :
              /\ f[0] = 0
              /\ \A n \in 1..L : f[n] = f[n - 1] + base ^ (n - 1) * D[n]
              /\ Number(base, D) = f[L]
      BY <3>1, <3>2
    <3>. QED BY <3>3 DEF D, L, base
  <2>. DEFINE g == [n \in 0..L |-> IF n <= j THEN x % 2 ^ n ELSE x % 2 ^ j]
  <2>2. j \in 0..L
    BY <1>0
  <2>3. g \in [0..L -> Int]
    BY <1>4, <2>2
  <2>4. g[0] = 0
    <3>1. 2 ^ 0 = 1 /\ x % 1 = 0
      OBVIOUS
    <3>. QED BY <1>0, <3>1
  <2>5. \A n \in 1..L : f[n] - f[n - 1] = g[n] - g[n - 1]
    <3>. TAKE n \in 1..L
    <3>1. n - 1 \in 0..L /\ n \in 0..L /\ n \in Nat \ {0}
      BY <1>0
    <3>2. digits(2 ^ j - 1)[n] = IF n <= j THEN Bit(x, n) ELSE 0
      BY <1>1, <3>1, BitsOfMasks
    <3>. DEFINE t == 2 ^ (n - 1) * Bit(x, n)
    <3>3. t \in Int
      BY <1>1, <1>4, <3>1
    <3>4. CASE n <= j
      <4>1. f[n] = f[n - 1] + t
        BY <2>1, <3>2, <3>4
      <4>2. g[n] = g[n - 1] + t
        <5>1. g[n] = x % 2 ^ n /\ g[n - 1] = x % 2 ^ (n - 1)
          BY <3>1, <3>4
        <5>. QED BY <1>5, <5>1
      <4>. HIDE DEF t, g
      <4>. QED BY <2>3, <3>1, <3>3, <4>1, <4>2
    <3>5. CASE ~ (n <= j)
      <4>1. f[n] = f[n - 1] + 2 ^ (n - 1) * 0
        BY <2>1, <3>2, <3>5
      <4>2. 2 ^ (n - 1) * 0 = 0
        BY <1>4, <3>1
      <4>3. g[n] = x % 2 ^ j /\ g[n - 1] = x % 2 ^ j
        <5>1. n - 1 = j \/ ~ (n - 1 <= j)
          BY <3>1, <3>5
        <5>. QED BY <3>1, <3>5, <5>1
      <4>. HIDE DEF g
      <4>. QED BY <1>4, <2>2, <2>3, <3>1, <4>1, <4>2, <4>3, SMTT(40)
    <3>. QED BY <3>4, <3>5
  <2>6. f[L] = g[L]
    <3>. HIDE DEF g, L
    <3>. QED BY <1>0, <2>1, <2>3, <2>4, <2>5, SumsAgree
  <2>7. g[L] = x % 2 ^ j
    BY <1>0
  <2>. QED BY <2>1, <2>6, <2>7
<1>7. Number(2, digits(2 ^ j)) = 2 ^ j * Bit(x, j + 1)
  <2>1. PICK f \in [0..L -> Int] :
          /\ f[0] = 0
          /\ \A n \in 1..L : f[n] = f[n - 1] + 2 ^ (n - 1) * digits(2 ^ j)[n]
          /\ Number(2, digits(2 ^ j)) = f[L]
    <3>. DEFINE D == digits(2 ^ j)
                base == 2
    <3>0. base \in Int /\ base # 0
      OBVIOUS
    <3>1. D \in Seq(Int) /\ Len(D) = L
      BY <1>2, Zenon
    <3>. HIDE DEF D, L, base
    <3>2. \E f \in [0..Len(D) -> Int] :
              /\ f[0] = 0
              /\ \A n \in 1..Len(D) : f[n] = f[n - 1] + base ^ (n - 1) * D[n]
              /\ Number(base, D) = f[Len(D)]
      BY <3>0, <3>1, NumberIs
    <3>3. \E f \in [0..L -> Int] :
              /\ f[0] = 0
              /\ \A n \in 1..L : f[n] = f[n - 1] + base ^ (n - 1) * D[n]
              /\ Number(base, D) = f[L]
      BY <3>1, <3>2
    <3>. QED BY <3>3 DEF D, L, base
  <2>. DEFINE t == 2 ^ j * Bit(x, j + 1)
              g == [n \in 0..L |-> IF n <= j THEN 0 ELSE t]
  <2>2. j + 1 \in 1..L /\ t \in Int
    <3>1. j + 1 \in 1..L
      BY <1>0
    <3>. QED BY <1>0, <1>1, <3>1
  <2>3. g \in [0..L -> Int]
    <3>. HIDE DEF t
    <3>. QED BY <2>2
  <2>4. g[0] = 0
    BY <1>0
  <2>5. \A n \in 1..L : f[n] - f[n - 1] = g[n] - g[n - 1]
    <3>. TAKE n \in 1..L
    <3>1. n - 1 \in 0..L /\ n \in 0..L /\ n \in Nat \ {0}
      BY <1>0
    <3>2. digits(2 ^ j)[n] = IF n = j + 1 THEN Bit(x, n) ELSE 0
      BY <1>1, <3>1, BitsOfMasks
    <3>3. CASE n = j + 1
      <4>1. f[n] = f[n - 1] + t
        <5>1. n - 1 = j
          BY <3>3
        <5>. QED BY <2>1, <3>2, <3>3, <5>1
      <4>2. g[n] = t /\ g[n - 1] = 0
        BY <3>1, <3>3
      <4>. HIDE DEF t, g
      <4>. QED BY <2>1, <2>2, <3>1, <4>1, <4>2, SMTT(40)
    <3>4. CASE n # j + 1
      <4>1. f[n] = f[n - 1] + 2 ^ (n - 1) * 0
        BY <2>1, <3>2, <3>4
      <4>2. 2 ^ (n - 1) * 0 = 0
        BY <1>4, <3>1
      <4>3. g[n] = g[n - 1]
        <5>1. (n <= j) = (n - 1 <= j)
          BY <3>1, <3>4
        <5>. HIDE DEF t
        <5>. QED BY <3>1, <5>1
      <4>. HIDE DEF g
      <4>. QED BY <2>3, <3>1, <4>1, <4>2, <4>3
    <3>. QED BY <3>3, <3>4
  <2>6. f[L] = g[L]
    <3>. HIDE DEF g, L
    <3>. QED BY <1>0, <2>1, <2>3, <2>4, <2>5, SumsAgree
  <2>7. g[L] = t
    <3>. HIDE DEF t
    <3>. QED BY <1>0
  <2>. QED BY <2>1, <2>6, <2>7
<1>8. /\ x % 2 ^ j \in Longs
      /\ 2 ^ j * Bit(x, j + 1) \in Longs
  <2>1. L - 1 \in Nat /\ j + 1 \in Nat /\ j + 1 <= L - 1 /\ j + 1 \in 1..L /\ j \in 0..L
    BY <1>0
  <2>2. 2 ^ (j + 1) = 2 * 2 ^ j
    BY Doubles
  <2>3. 2 ^ (j + 1) <= 2 ^ (L - 1) /\ 2 ^ (L - 1) \in Int
    BY <2>1, PowersDivide
  <2>4. x % 2 ^ j \in Int /\ 0 <= x % 2 ^ j /\ x % 2 ^ j < 2 ^ j
    BY <1>4, <2>1
  <2>5. Bit(x, j + 1) \in {0, 1}
    BY <1>1, <2>1
  <2>6. 2 ^ j * Bit(x, j + 1) \in {0, 2 ^ j}
    BY <1>0, <2>5
  <2>7. Longs = -(2 ^ (L - 1))..2 ^ (L - 1) - 1
    BY DEF Longs, MinLong
  <2>. HIDE DEF L
  <2>. QED BY <1>0, <2>2, <2>3, <2>4, <2>6, <2>7
<1>. QED BY <1>3, <1>6, <1>7, <1>8, LongsAre

\* The sign extension of the dex crate: the low bits less the sign bit.
LEMMA MasksExtendSign ==
    ASSUME NEW w \in Nat \ {0}, w < LongBits, NEW v \in Int
    PROVE  SignExtend(v, w) = Signed(w, v)
<1>. DEFINE h == 2 ^ (w - 1)
            b == Bit(v, w)
            r == v % h
<1>0. w - 1 \in Nat /\ w - 1 < LongBits - 1 /\ (w - 1) + 1 = w /\ LongBits \in Nat
  BY Widths
<1>1. SignExtend(v, w) = r - h * b
  <2>1. /\ BitAnd(v, 2 ^ (w - 1) - 1) = v % 2 ^ (w - 1)
        /\ BitAnd(v, 2 ^ (w - 1)) = 2 ^ (w - 1) * Bit(v, (w - 1) + 1)
    BY <1>0, AndMasks
  <2>. QED BY <1>0, <2>1 DEF SignExtend
<1>2. v % 2 ^ w = r + h * b
  <2>1. v % 2 ^ ((w - 1) + 1) = (v % 2 ^ (w - 1)) + 2 ^ (w - 1) * Bit(v, (w - 1) + 1)
    BY <1>0, OneMoreBit
  <2>. QED BY <1>0, <2>1
<1>3. 2 ^ w = 2 * h /\ h \in Int /\ 0 < h
  BY Halves
<1>4. r \in Int /\ 0 <= r /\ r < h
  BY <1>3, DivMod
<1>5. b \in {0, 1}
  BY BitIs
<1>6. Signed(w, v) = IF r + h * b >= h THEN (r + h * b) - 2 * h ELSE r + h * b
  BY <1>2, <1>3 DEF Signed, Unsigned
<1>. HIDE DEF h, b, r
<1>7. CASE b = 0
  BY <1>1, <1>3, <1>4, <1>6, <1>7
<1>8. CASE b = 1
  BY <1>1, <1>3, <1>4, <1>6, <1>8
<1>. QED BY <1>5, <1>7, <1>8

-----------------------------------------------------------------------------
\* What the operators of both modes compute.
LEMMA BackFits == 2 ^ BackBits \in Int /\ 0 < 2 ^ BackBits /\ 2 ^ BackBits <= 2 ^ IntBits
<1>1. BackBits \in Nat /\ IntBits \in Nat /\ BackBits <= IntBits
  BY Widths
<1>. QED BY <1>1, PowersDivide

\* reg_ops_helper's mask and extension, on a number of any width.
LEMMA PostMaskIs ==
    ASSUME NEW x \in Int
    PROVE  /\ PostMask(x) \in Longs
           /\ PostMask(x) = LET a == x % 2 ^ IntBits
                            IN  IF a > 2 ^ (IntBits - 1) - 1 THEN a - (2 ^ IntBits - 1 - 1) ELSE a
<1>. DEFINE u == Unsigned(IntBits, x)
            p == 2 ^ IntBits
            h == 2 ^ (IntBits - 1)
<1>1. /\ p \in Int /\ 8 <= p /\ p = 2 * h /\ h \in Int
      /\ 2 ^ (LongBits - 1) \in Int /\ 4 * p <= 2 ^ (LongBits - 1)
  BY IntsFit, Widths, Halves
<1>2. u \in Int /\ 0 <= u /\ u < p
  BY Widths, UnsignedRange
<1>3. PostMask(x) = IF u > h - 1 THEN u - (p - 2) ELSE u
  BY DEF PostMask
<1>4. u = x % p
  BY DEF Unsigned
<1>5. Longs = -(2 ^ (LongBits - 1))..2 ^ (LongBits - 1) - 1
  BY DEF Longs, MinLong
<1>. HIDE DEF u, p, h
<1>6. PostMask(x) \in Longs
  BY <1>1, <1>2, <1>3, <1>5
<1>7. PostMask(x) = IF u > h - 1 THEN u - (p - 1 - 1) ELSE u
  BY <1>1, <1>2, <1>3
<1>. QED BY <1>4, <1>6, <1>7 DEF p, h

\* Whatever fits into the bits of an int, as a signed number or an unsigned one,
\* is a long.
LEMMA SmallIsLong ==
    ASSUME NEW x \in Int, -(4 * 2 ^ IntBits) <= x, x < 4 * 2 ^ IntBits
    PROVE  x \in Longs
<1>1. /\ 2 ^ IntBits \in Int
      /\ 2 ^ (LongBits - 1) \in Int /\ 4 * 2 ^ IntBits <= 2 ^ (LongBits - 1)
  BY IntsFit, Widths, Halves
<1>. QED BY <1>1 DEF Longs, MinLong

\* The casts of every conversion make longs.
LEMMA UnsignedIsLong ==
    ASSUME NEW bits \in {ByteBits, ShortBits, BackBits, IntBits}, NEW x \in Int
    PROVE  Unsigned(bits, x) \in Longs /\ Signed(bits, x) \in Longs
<1>1. bits \in Nat \ {0} /\ bits <= IntBits /\ IntBits \in Nat
  BY Widths
<1>2. 2 ^ bits <= 2 ^ IntBits /\ 2 ^ bits \in Int /\ 2 ^ IntBits \in Int /\ 0 < 2 ^ bits
  BY <1>1, PowersDivide
<1>3. 2 ^ bits = 2 * 2 ^ (bits - 1) /\ 2 ^ (bits - 1) \in Int /\ 1 <= 2 ^ (bits - 1)
  BY <1>1, Halves
<1>4. Unsigned(bits, x) \in Int /\ 0 <= Unsigned(bits, x) /\ Unsigned(bits, x) < 2 ^ bits
  BY <1>1, UnsignedRange
<1>5. /\ Signed(bits, x) \in Int
      /\ -(2 ^ (bits - 1)) <= Signed(bits, x) /\ Signed(bits, x) < 2 ^ (bits - 1)
  BY <1>1, SignedRange
<1>6. Unsigned(bits, x) \in Longs
  BY <1>2, <1>4, SmallIsLong
<1>7. Signed(bits, x) \in Longs
  BY <1>2, <1>3, <1>5, SmallIsLong
<1>. QED BY <1>6, <1>7

\* A shift count is a natural, Rust's remainder agreeing with the modulus on what is not negative.
LEMMA CountsAreNat ==
    ASSUME NEW w \in {IntBits, LongBits}, NEW c \in Int
    PROVE  /\ TruncRem(c, w) % LongBits \in Nat
           /\ c % w \in Nat
           /\ c >= 0 => TruncRem(c, w) % LongBits = c % w
<1>1. w \in Int /\ 0 < w /\ w # 0 /\ LongBits \in Int /\ w <= LongBits /\ 0 < LongBits
  BY Widths
<1>2. PICK d, q, r \in Int :
        /\ d = Abs(w) /\ 0 < d
        /\ Abs(c) = d * q + r /\ 0 <= q /\ 0 <= r /\ r < d
        /\ q = Abs(c) \div d
        /\ TruncRem(c, w) = IF c < 0 THEN -r ELSE r
  BY <1>1, TruncDivIs, ZenonT(60)
<1>3. d = w /\ (c >= 0 => c = d * q + r)
  BY <1>1, <1>2 DEF Abs
<1>4. c % w \in Nat
  BY <1>1, DivMod
<1>5. TruncRem(c, w) % LongBits \in Nat
  BY <1>1, <1>2, DivMod
<1>6. ASSUME c >= 0 PROVE TruncRem(c, w) % LongBits = c % w
  <2>1. c % w = r
    <3>1. (d * q + r) % d = r
      BY <1>2, DivModUnique
    <3>. QED BY <1>3, <1>6, <3>1
  <2>2. r % LongBits = r
    <3>1. (LongBits * 0 + r) % LongBits = r
      BY <1>1, <1>2, <1>3, DivModUnique
    <3>2. LongBits * 0 + r = r
      BY <1>1, <1>2
    <3>. QED BY <3>1, <3>2
  <2>. QED BY <1>2, <1>6, <2>1, <2>2
<1>. QED BY <1>4, <1>5, <1>6

\* The result of reg_ops_helper is a number of 64 bits unless it panics.
LEMMA FaithfulAluType ==
    ASSUME NEW op \in IntOps, NEW type, NEW b \in Longs, NEW c \in Longs, NEW overflowChecks,
           FaithfulAlu(op, type, b, c, overflowChecks) # Panic
    PROVE  FaithfulAlu(op, type, b, c, overflowChecks) \in Numbers
<1>. DEFINE count == TruncRem(c, IF type = "long" THEN LongBits ELSE IntBits)
            masked == count % LongBits
            kept(x) == IF type = "long" THEN Long(x) ELSE Unsigned(BackBits, x)
            low == Unsigned(IntBits, b)
            raw ==
                CASE op = "add" -> Long(b + c)
                  [] op = "sub" -> Long(b - c)
                  [] op = "mul" -> Long(b * c)
                  [] op = "div" -> IF c = 0 THEN 0 ELSE FloorDiv(b, c)
                  [] op = "rem" -> IF c = 0 THEN 0 ELSE FloorMod(b, c)
                  [] op = "and" -> BitAnd(b, c)
                  [] op = "or" -> BitOr(b, c)
                  [] op = "xor" -> BitXor(b, c)
                  [] op = "shl" -> kept(Shl(b, masked))
                  [] op = "shr" -> kept(Shr(b, masked))
                  [] op = "ushr" -> kept(IF type = "int" THEN Shr(low, masked)
                                                         ELSE Shl(low, masked))
            answer == Num(IF type = "int" THEN PostMask(raw) ELSE raw)
<1>1. /\ FaithfulAlu(op, type, b, c, overflowChecks) = answer
      /\ op \in {"div", "rem"} => ~ DivisionOverflows(b, c)
  BY DEF FaithfulAlu
<1>2. b \in Int /\ c \in Int /\ 0 \in Longs
  BY LongsAre, SmallIsLong, IntsFit
<1>3. masked \in Nat /\ low \in Int
  BY <1>2, CountsAreNat, UnsignedRange, Widths
<1>. HIDE DEF count, masked, low
<1>4. \A x \in Int : kept(x) \in Longs
  BY LongsAre, UnsignedIsLong
<1>5. /\ Shl(b, masked) \in Int /\ Shr(b, masked) \in Int
      /\ Shr(low, masked) \in Int /\ Shl(low, masked) \in Int
  BY <1>2, <1>3, Shifts, LongsAre
<1>. HIDE DEF kept
<1>6. op \in {"add", "sub", "mul"} => raw \in Longs
  BY <1>2, LongsAre
<1>7. op \in {"div", "rem"} => raw \in Longs
  BY <1>1, <1>2, QuotientsAreLongs
<1>8. op \in {"and", "or", "xor"} => raw \in Longs
  BY <1>2, BitwiseIsLong
<1>9. op \in ShiftOps => raw \in Longs
  BY <1>4, <1>5 DEF ShiftOps
<1>10. raw \in Longs
  BY <1>6, <1>7, <1>8, <1>9 DEF IntOps, FloatOps
<1>. HIDE DEF raw
<1>11. (IF type = "int" THEN PostMask(raw) ELSE raw) \in Longs
  BY <1>10, LongsAre, PostMaskIs
<1>. QED BY <1>1, <1>11 DEF Num, Numbers

\* When the faithful int operation panics.
LEMMA FaithfulPanics ==
    ASSUME NEW op \in IntOps, NEW b \in Longs, NEW c \in Longs, NEW overflowChecks \in BOOLEAN
    PROVE  (FaithfulAlu(op, "int", b, c, overflowChecks) = Panic)
             <=> \/ op \in {"div", "rem"} /\ DivisionOverflows(b, c)
                 \/ overflowChecks /\ op \in {"shr", "ushr"} /\ TruncRem(c, IntBits) < 0
<1>. DEFINE overflows == op \in {"div", "rem"} /\ DivisionOverflows(b, c)
            checked == /\ overflowChecks /\ TruncRem(c, IntBits) < 0
                       /\ op = "shr" \/ (op = "ushr" /\ "int" = "int")
<1>1. \A x : Num(x) # Panic
  BY DEF Num, Panic
<1>2. PICK x : FaithfulAlu(op, "int", b, c, overflowChecks)
                = IF overflows \/ checked THEN Panic ELSE Num(x)
  BY DEF FaithfulAlu
<1>. HIDE DEF overflows
<1>3. (FaithfulAlu(op, "int", b, c, overflowChecks) = Panic) <=> (overflows \/ checked)
  BY <1>1, <1>2
<1>. QED BY <1>3 DEF overflows

\* Wrapping and masking first is what computing on unbounded integers gives.
LEMMA FaithfulAluRight ==
    ASSUME NEW op \in IntOps, NEW b \in Longs, NEW c \in Longs, NEW overflowChecks,
           FaithfulAlu(op, "int", b, c, overflowChecks) # Panic
    PROVE  FaithfulAlu(op, "int", b, c, overflowChecks) = Num(PyAlu(op, b, c))
<1>. DEFINE masked == TruncRem(c, IntBits) % LongBits
            low == Unsigned(IntBits, b)
            raw ==
                CASE op = "add" -> Long(b + c)
                  [] op = "sub" -> Long(b - c)
                  [] op = "mul" -> Long(b * c)
                  [] op = "div" -> IF c = 0 THEN 0 ELSE FloorDiv(b, c)
                  [] op = "rem" -> IF c = 0 THEN 0 ELSE FloorMod(b, c)
                  [] op = "and" -> BitAnd(b, c)
                  [] op = "or" -> BitOr(b, c)
                  [] op = "xor" -> BitXor(b, c)
                  [] op = "shl" -> Unsigned(BackBits, Shl(b, masked))
                  [] op = "shr" -> Unsigned(BackBits, Shr(b, masked))
                  [] op = "ushr" -> Unsigned(BackBits, Shr(low, masked))
            count == IF c < 0 THEN TruncRem(c, IntBits) % LongBits ELSE c % IntBits
            kept(x) == x % 2 ^ BackBits
            python ==
                CASE op = "add" -> b + c
                  [] op = "sub" -> b - c
                  [] op = "mul" -> b * c
                  [] op = "div" -> IF c = 0 THEN 0 ELSE FloorQuotient(b, c)
                  [] op = "rem" -> IF c = 0 THEN 0 ELSE b - c * FloorQuotient(b, c)
                  [] op = "and" -> BitAnd(b, c)
                  [] op = "or" -> BitOr(b, c)
                  [] op = "xor" -> BitXor(b, c)
                  [] op = "shl" -> kept(b * 2 ^ count)
                  [] op = "shr" -> kept(b \div 2 ^ count)
                  [] op = "ushr" -> kept((b % 2 ^ IntBits) \div 2 ^ count)
            folded(x) == LET a == x % 2 ^ IntBits
                         IN  IF a > 2 ^ (IntBits - 1) - 1 THEN a - (2 ^ IntBits - 1 - 1) ELSE a
<1>1. FaithfulAlu(op, "int", b, c, overflowChecks) = Num(PostMask(raw))
  BY DEF FaithfulAlu
<1>2. PyAlu(op, b, c) = folded(python)
  BY DEF PyAlu
<1>3. b \in Int /\ c \in Int
  BY LongsAre
<1>4. masked \in Nat /\ count \in Nat /\ masked = count
  BY <1>3, CountsAreNat
<1>5. low = b % 2 ^ IntBits /\ low \in Int
  BY <1>3, Widths, UnsignedRange DEF Unsigned
<1>6. IntBits \in Nat \ {0} /\ BackBits \in Nat \ {0} /\ IntBits <= LongBits /\ BackBits <= LongBits
  BY Widths
<1>. HIDE DEF masked, low, count
<1>7. /\ b * 2 ^ count \in Int /\ Shr(b, count) \in Int /\ Shr(low, count) \in Int
  BY <1>3, <1>4, <1>5, Shifts
<1>8. ASSUME NEW x \in Int
      PROVE  Long(x) \in Int /\ Long(x) % 2 ^ IntBits = x % 2 ^ IntBits
  BY <1>6, LongKeepsLow, LongsAre DEF Unsigned
<1>9. raw \in Int /\ raw % 2 ^ IntBits = python % 2 ^ IntBits
  <2>1. CASE op \in {"add", "sub", "mul"}
    <3>1. b + c \in Int /\ b - c \in Int /\ b * c \in Int
      BY <1>3
    <3>. QED BY <1>8, <2>1, <3>1
  <2>2. CASE op \in {"div", "rem"}
    <3>1. c # 0 => /\ FloorDiv(b, c) = FloorQuotient(b, c)
                   /\ FloorMod(b, c) = b - c * FloorQuotient(b, c)
                   /\ FloorQuotient(b, c) \in Int
      BY <1>3, FloorDivIsFloor
    <3>2. c # 0 => b - c * FloorQuotient(b, c) \in Int
      BY <1>3, <3>1
    <3>3. raw = python /\ raw \in Int
      BY <2>2, <3>1, <3>2
    <3>. HIDE DEF raw, python
    <3>. QED BY <3>3
  <2>3. CASE op \in {"and", "or", "xor"}
    <3>1. raw = python /\ raw \in Longs
      BY <1>3, <2>3, BitwiseIsLong
    <3>. HIDE DEF raw, python
    <3>. QED BY <3>1, LongsAre
  <2>4. CASE op \in ShiftOps
    <3>1. Unsigned(BackBits, Shl(b, count)) = kept(b * 2 ^ count)
      BY <1>6, <1>7, LongKeepsLow DEF Shl, Unsigned
    <3>2. Unsigned(BackBits, Shr(b, count)) = kept(b \div 2 ^ count)
      BY DEF Unsigned, Shr
    <3>3. Unsigned(BackBits, Shr(low, count)) = kept((b % 2 ^ IntBits) \div 2 ^ count)
      BY <1>5 DEF Unsigned, Shr
    <3>4. raw = python
      BY <1>4, <2>4, <3>1, <3>2, <3>3 DEF ShiftOps
    <3>5. raw \in Int
      <4>1. \A x \in Int : Unsigned(BackBits, x) \in Int
        BY <1>6, UnsignedRange
      <4>2. Shl(b, count) \in Int
        BY <1>3, <1>4, Shifts, LongsAre
      <4>. QED BY <1>4, <1>7, <2>4, <4>1, <4>2 DEF ShiftOps
    <3>. HIDE DEF raw, python
    <3>. QED BY <3>4, <3>5
  <2>. QED BY <2>1, <2>2, <2>3, <2>4 DEF IntOps, FloatOps
<1>. HIDE DEF raw, python
<1>10. PostMask(raw) = folded(raw)
  BY <1>9, PostMaskIs
<1>11. folded(raw) = folded(python)
  BY <1>9
<1>. QED BY <1>1, <1>2, <1>10, <1>11

\* The inline operators stay within 64 bits.
LEMMA InlineAluType ==
    ASSUME NEW form, NEW op \in IntOps, NEW type, NEW b \in Longs, NEW c \in Longs,
           ~ InlinePanics(op, b, c)
    PROVE  InlineAlu(form, op, type, b, c) \in Longs
<1>. DEFINE count == InlineCount(type, c)
            unsigned == IF type = "int" /\ form # "23x" THEN Unsigned(IntBits, b)
                                                        ELSE Unsigned(LongBits, b)
            answer ==
                CASE op = "add" -> Long(b + c)
                  [] op = "sub" -> Long(b - c)
                  [] op = "mul" -> Long(b * c)
                  [] op = "div" -> IF c = 0 THEN 0 ELSE TruncDiv(b, c)
                  [] op = "rem" -> IF c = 0 THEN 0 ELSE TruncRem(b, c)
                  [] op = "and" -> BitAnd(b, c)
                  [] op = "or" -> BitOr(b, c)
                  [] op = "xor" -> BitXor(b, c)
                  [] op = "shl" -> Shl(b, count)
                  [] op = "shr" -> Shr(b, count)
                  [] op = "ushr" -> Long(Shr(unsigned, count))
<1>1. InlineAlu(form, op, type, b, c) = answer
  BY DEF InlineAlu
<1>2. b \in Int /\ c \in Int /\ 0 \in Longs
  BY LongsAre, SmallIsLong, IntsFit
<1>3. count \in Nat /\ unsigned \in Int
  BY <1>2, CountsAreNat, UnsignedRange, Widths DEF InlineCount
<1>. HIDE DEF count, unsigned
<1>4. op \in {"add", "sub", "mul"} => answer \in Longs
  BY <1>2, LongsAre
<1>5. op \in {"div", "rem"} => answer \in Longs
  BY <1>2, QuotientsAreLongs DEF InlinePanics
<1>6. op \in {"and", "or", "xor"} => answer \in Longs
  BY <1>2, BitwiseIsLong
<1>7. /\ Shl(b, count) \in Longs /\ Shr(b, count) \in Longs
      /\ Long(Shr(unsigned, count)) \in Longs
  BY <1>2, <1>3, Shifts, ShrIsLong, LongsAre
<1>8. op \in ShiftOps => answer \in Longs
  BY <1>7 DEF ShiftOps
<1>. QED BY <1>1, <1>4, <1>5, <1>6, <1>8 DEF IntOps, FloatOps

\* The arithmetic shift of a whole register: the bits that come down are the same.
LEMMA ShiftOfAll ==
    ASSUME NEW b \in Int, NEW k \in Nat, k <= IntBits
    PROVE  Signed(IntBits, Shr(Unsigned(LongBits, b), k)) = Signed(IntBits, b \div 2 ^ k)
<1>1. IntBits \in Nat \ {0} /\ LongBits \in Nat /\ LongBits = IntBits + IntBits
  BY Widths
<1>. DEFINE P == 2 ^ LongBits
            low == b % P
            q == b \div P
            rest == IntBits - k
<1>2. rest \in Nat /\ LongBits = k + (IntBits + rest)
  BY <1>1
<1>. HIDE DEF rest
<1>3. P = 2 ^ k * (2 ^ IntBits * 2 ^ rest)
  <2>1. 2 ^ (k + (IntBits + rest)) = 2 ^ k * 2 ^ (IntBits + rest)
    <3>1. IntBits + rest \in Nat
      BY <1>1, <1>2
    <3>. QED BY <3>1, PowersAdd
  <2>2. 2 ^ (IntBits + rest) = 2 ^ IntBits * 2 ^ rest
    BY <1>1, <1>2, PowersAdd
  <2>. QED BY <1>2, <2>1, <2>2
<1>4. /\ P \in Int /\ 0 < P /\ 2 ^ k \in Int /\ 0 < 2 ^ k
      /\ 2 ^ IntBits \in Int /\ 0 < 2 ^ IntBits /\ 2 ^ rest \in Int
  BY <1>1, <1>2, PowersPositive
<1>. HIDE DEF P
<1>5. b = P * q + low /\ q \in Int /\ low \in Int
  BY <1>4, DivMod
<1>. HIDE DEF low, q
<1>6. PICK m \in Int : m = 2 ^ rest * q
  BY <1>4, <1>5
<1>7. PICK n \in Int : n = 2 ^ IntBits * m
  BY <1>4, <1>6
<1>8. b = low + 2 ^ k * n
  <2>1. \A x, y, z, u \in Int : (x * (y * z)) * u = x * (y * (z * u))
    OBVIOUS
  <2>2. P * q = 2 ^ k * n
    BY <1>3, <1>4, <1>5, <1>6, <1>7, <2>1
  <2>. QED BY <1>4, <1>5, <1>7, <2>2
<1>9. b \div 2 ^ k = low \div 2 ^ k + n
  BY <1>4, <1>5, <1>7, <1>8, ModAddMultiple
<1>10. low \div 2 ^ k \in Int
  BY <1>4, <1>5, DivMod
<1>11. (b \div 2 ^ k) % 2 ^ IntBits = (low \div 2 ^ k) % 2 ^ IntBits
  <2>. DEFINE d == low \div 2 ^ k
  <2>1. d \in Int /\ b \div 2 ^ k = d + 2 ^ IntBits * m
    BY <1>7, <1>9, <1>10
  <2>. HIDE DEF d
  <2>2. \A p \in Int : 0 < p => (d + p * m) % p = d % p
    BY <1>6, <2>1, ModAddMultiple
  <2>3. (d + 2 ^ IntBits * m) % 2 ^ IntBits = d % 2 ^ IntBits
    BY <1>4, <2>2, Zenon
  <2>. QED BY <2>1, <2>3 DEF d
<1>. QED BY <1>11 DEF Signed, Unsigned, Shr, low, P

\* They are Dalvik's on as many bits as the type has.
LEMMA InlineAluRight ==
    ASSUME NEW form, NEW op \in IntOps, NEW type \in {"int", "long"},
           NEW b \in Longs, NEW c \in Longs,
           ~ (type = "int" /\ op = "ushr" /\ form = "23x")
    PROVE  LET bits == IF type = "int" THEN IntBits ELSE LongBits
           IN  Signed(bits, InlineAlu(form, op, type, b, c)) = DalvikAlu(bits, op, b, c)
<1>. DEFINE bits == IF type = "int" THEN IntBits ELSE LongBits
            count == c % bits
            unsigned == IF type = "int" /\ form # "23x" THEN Unsigned(IntBits, b)
                                                        ELSE Unsigned(LongBits, b)
            answer ==
                CASE op = "add" -> Long(b + c)
                  [] op = "sub" -> Long(b - c)
                  [] op = "mul" -> Long(b * c)
                  [] op = "div" -> IF c = 0 THEN 0 ELSE TruncDiv(b, c)
                  [] op = "rem" -> IF c = 0 THEN 0 ELSE TruncRem(b, c)
                  [] op = "and" -> BitAnd(b, c)
                  [] op = "or" -> BitOr(b, c)
                  [] op = "xor" -> BitXor(b, c)
                  [] op = "shl" -> Shl(b, count)
                  [] op = "shr" -> Shr(b, count)
                  [] op = "ushr" -> Long(Shr(unsigned, count))
            dalvik ==
                CASE op = "add" -> b + c
                  [] op = "sub" -> b - c
                  [] op = "mul" -> b * c
                  [] op = "div" -> IF c = 0 THEN 0 ELSE TruncDiv(b, c)
                  [] op = "rem" -> IF c = 0 THEN 0 ELSE TruncRem(b, c)
                  [] op = "and" -> BitAnd(b, c)
                  [] op = "or" -> BitOr(b, c)
                  [] op = "xor" -> BitXor(b, c)
                  [] op = "shl" -> b * 2 ^ count
                  [] op = "shr" -> b \div 2 ^ count
                  [] op = "ushr" -> (b % 2 ^ bits) \div 2 ^ count
<1>1. InlineAlu(form, op, type, b, c) = answer
  BY DEF InlineAlu, InlineCount
<1>2. DalvikAlu(bits, op, b, c) = Signed(bits, dalvik)
  BY DEF DalvikAlu
<1>3. b \in Int /\ c \in Int
  BY LongsAre
<1>4. bits \in Nat \ {0} /\ bits <= LongBits /\ bits \in {IntBits, LongBits}
  BY Widths
<1>5. count \in Nat
  BY <1>3, <1>4, CountsAreNat
<1>6. unsigned \in Int /\ b % 2 ^ bits \in Int
  BY <1>3, <1>4, Widths, UnsignedRange DEF Unsigned
<1>7. op = "ushr" => unsigned = b % 2 ^ bits
  <2>1. CASE type = "int" /\ form # "23x"
    BY <2>1 DEF Unsigned
  <2>2. CASE type = "long"
    BY <2>2 DEF Unsigned
  <2>. QED BY <2>1, <2>2
<1>8. ASSUME NEW x \in Int
      PROVE  Signed(bits, Long(x)) = Signed(bits, x)
  BY <1>4, LongKeepsLow
<1>. HIDE DEF bits, count, unsigned
<1>9. /\ b * 2 ^ count \in Int
      /\ (b % 2 ^ bits) \div 2 ^ count \in Int
  BY <1>3, <1>5, <1>6, Shifts DEF Shr
<1>10. Signed(bits, answer) = Signed(bits, dalvik)
  <2>1. CASE op \in {"add", "sub", "mul"}
    <3>1. b + c \in Int /\ b - c \in Int /\ b * c \in Int
      BY <1>3
    <3>. QED BY <1>8, <2>1, <3>1
  <2>2. CASE op \in {"div", "rem", "and", "or", "xor", "shr"}
    <3>1. answer = dalvik
      BY <2>2 DEF Shr
    <3>. HIDE DEF answer, dalvik
    <3>. QED BY <3>1
  <2>3. CASE op \in {"shl", "ushr"}
    <3>1. answer = Long(dalvik)
      BY <1>7, <2>3 DEF Shr, Shl
    <3>2. dalvik \in Int
      BY <1>9, <2>3
    <3>. HIDE DEF answer, dalvik
    <3>. QED BY <1>8, <3>1, <3>2
  <2>. QED BY <2>1, <2>2, <2>3 DEF IntOps, FloatOps, ShiftOps
<1>. QED BY <1>1, <1>2, <1>10 DEF bits

\* The exception: ushr-int of three operands is the arithmetic shift.
LEMMA WideUshrIsShr ==
    ASSUME NEW b \in Longs, NEW c \in Longs
    PROVE  Signed(IntBits, InlineAlu("23x", "ushr", "int", b, c)) = DalvikAlu(IntBits, "shr", b, c)
<1>. DEFINE k == c % IntBits
<1>1. b \in Int /\ c \in Int /\ IntBits \in Nat \ {0} /\ IntBits <= LongBits /\ LongBits \in Nat
  BY LongsAre, Widths
<1>2. k \in Nat /\ k <= IntBits
  BY <1>1
<1>3. InlineAlu("23x", "ushr", "int", b, c) = Long(Shr(Unsigned(LongBits, b), k))
  BY DEF InlineAlu, InlineCount
<1>4. DalvikAlu(IntBits, "shr", b, c) = Signed(IntBits, b \div 2 ^ k)
  BY DEF DalvikAlu
<1>. HIDE DEF k
<1>5. Shr(Unsigned(LongBits, b), k) \in Int
  BY <1>1, <1>2, UnsignedRange, Shifts
<1>6. Signed(IntBits, Long(Shr(Unsigned(LongBits, b), k))) = Signed(IntBits, Shr(Unsigned(LongBits, b), k))
  BY <1>1, <1>5, LongKeepsLow
<1>. QED BY <1>1, <1>2, <1>3, <1>4, <1>6, ShiftOfAll

-----------------------------------------------------------------------------
\* Values and registers.
Frames(numArrays) == UNION {[0..n - 1 -> SlotValues(numArrays)] : n \in RegNumbers}

\* What names one of few arrays names one of many.
LEMMA ValuesGrow ==
    ASSUME NEW m \in Nat, NEW n \in Nat, m <= n
    PROVE  Values(m) \subseteq Values(n) /\ SlotValues(m) \subseteq SlotValues(n)
<1>1. 1..m \subseteq 1..n
  OBVIOUS
<1>2. [k : {"array"}, id : 1..m] \subseteq [k : {"array"}, id : 1..n]
  BY <1>1
<1>3. Values(m) \subseteq Values(n)
  BY <1>2, Zenon DEF Values
<1>. QED BY <1>3, Zenon DEF SlotValues

\* The parts of Values.
LEMMA ValuesAre ==
    ASSUME NEW n
    PROVE  /\ Numbers \subseteq Values(n) /\ Strings \subseteq Values(n)
           /\ ByteVectors \subseteq Values(n) /\ Null \in Values(n)
           /\ [k : {"array"}, id : 1..n] \subseteq Values(n)
           /\ Values(n) \subseteq SlotValues(n) /\ None \in SlotValues(n)
BY Zenon DEF Values, SlotValues

\* A long in a register.
LEMMA NumIsNumber ==
    ASSUME NEW x \in Longs
    PROVE  Num(x) \in Numbers
BY DEF Num, Numbers

\* Without a value, and as null: what is no number is 0.
LEMMA AsIntIsLong ==
    ASSUME NEW n, NEW v \in SlotValues(n)
    PROVE  AsInt(v) \in Longs
<1>1. {0, 1} \subseteq Longs
  BY SmallIsLong, IntsFit
<1>2. CASE v \in Numbers
  BY <1>2 DEF AsInt, Numbers
<1>3. CASE v \notin Numbers
  <2>1. v.k # "int"
    BY <1>3 DEF SlotValues, Values, Strings, ByteVectors, Null, None, Bool
  <2>. QED BY <1>1, <2>1 DEF AsInt
<1>. QED BY <1>2, <1>3

\* A missing value becomes null.
LEMMA OrNullIsValue ==
    ASSUME NEW n, NEW v \in SlotValues(n)
    PROVE  OrNull(v) \in Values(n)
BY ValuesAre DEF OrNull, SlotValues

\* Whatever register is read, there is a slot's value and a long.
LEMMA FrameSlots ==
    ASSUME NEW n, regs \in Frames(n), NEW r
    PROVE  Slot(r) \in SlotValues(n) /\ Reg(r) \in Longs
<1>1. PICK m \in RegNumbers : regs \in [0..m - 1 -> SlotValues(n)]
  BY DEF Frames
<1>2. Slot(r) \in SlotValues(n)
  <2>1. CASE r \in DOMAIN regs
    BY <1>1, <2>1 DEF Slot
  <2>2. CASE r \notin DOMAIN regs
    BY <2>2, ValuesAre DEF Slot
  <2>. QED BY <2>1, <2>2
<1>. QED BY <1>2, AsIntIsLong DEF Reg

\* Writing a register, in the frame or beyond it, keeps the frame.
LEMMA WrittenFrame ==
    ASSUME NEW n, NEW rs \in Frames(n), NEW r, NEW v \in SlotValues(n)
    PROVE  Written(rs, r, v) \in Frames(n) /\ DOMAIN Written(rs, r, v) = DOMAIN rs
<1>1. PICK m \in RegNumbers : rs \in [0..m - 1 -> SlotValues(n)]
  BY DEF Frames
<1>2. Written(rs, r, v) \in [0..m - 1 -> SlotValues(n)]
  BY <1>1 DEF Written
<1>. QED BY <1>1, <1>2 DEF Frames

\* So does writing a pair.
LEMMA WrittenPairFrame ==
    ASSUME NEW n, NEW rs \in Frames(n), NEW r, NEW x \in Longs
    PROVE  WrittenPair(rs, r, x) \in Frames(n) /\ DOMAIN WrittenPair(rs, r, x) = DOMAIN rs
<1>1. Shr(x, IntBits) \in Longs /\ Unsigned(IntBits, x) \in Longs
  BY LongsAre, Widths, ShrIsLong, UnsignedIsLong
<1>2. Num(Shr(x, IntBits)) \in SlotValues(n) /\ Num(Unsigned(IntBits, x)) \in SlotValues(n)
  BY <1>1, NumIsNumber, ValuesAre
<1>. QED BY <1>2, WrittenFrame DEF WrittenPair

\* A wide operand of faithful mode is a long.
LEMMA WideOrIsLong ==
    ASSUME NEW n, regs \in Frames(n), NEW r
    PROVE  WideOr(r) \in Longs
<1>1. Reg(r) \in Longs /\ Reg(r + 1) \in Longs
  BY FrameSlots
<1>2. Signed(IntBits, Reg(r)) \in Int /\ Unsigned(IntBits, Reg(r + 1)) \in Longs
  BY <1>1, LongsAre, UnsignedIsLong
<1>3. Shl(Signed(IntBits, Reg(r)), IntBits) \in Longs
  BY <1>2, Widths, Shifts
<1>. QED BY <1>2, <1>3 DEF WideOr

-----------------------------------------------------------------------------
\* The instructions, by kind.
LEMMA InstrsAreWellFormed == \A i \in Instrs : WellFormed(i)
<1>. TAKE i \in Instrs
<1>1. PICK start \in Cases : i \in {start.program[n] : n \in DOMAIN start.program}
  BY DEF Instrs
<1>2. PICK n \in DOMAIN start.program : i = start.program[n]
  BY <1>1
<1>3. n \in 1..Len(start.program)
  <2>1. start.program = [k \in 1..Len(start.program) |-> start.program[k]]
    BY CasesOK
  <2>. QED BY <1>2, <2>1
<1>. QED BY <1>2, <1>3, CasesOK

\* All instructions but switches are records of DecodedInstrs.
LEMMA DecodedIs ==
    ASSUME NEW i \in Instrs, i.kind # "switch"
    PROVE  i \in DecodedInstrs
BY InstrsAreWellFormed DEF WellFormed

\* The operands of each kind, as far as the proofs need them.
LEMMA BinaryIs ==
    ASSUME NEW i \in Instrs, i.kind = "binary"
    PROVE  /\ i.op \in IntOps
           /\ i.type \in {"int", "long", "float", "double"}
           /\ i.form \in {"23x", "2addr", "lit"}
           /\ i.form = "lit" => i.lit \in Ints /\ i.type = "int"
           /\ i.a \in RegNumbers
<1>1. i \in DecodedInstrs
  BY DecodedIs
<1>. QED BY <1>1 DEF DecodedInstrs, IntOps

\* unop.rs.
LEMMA UnaryIs ==
    ASSUME NEW i \in Instrs, i.kind = "unary"
    PROVE  i.op \in Conversions /\ i.a \in RegNumbers /\ i.b \in RegNumbers
<1>1. i \in DecodedInstrs
  BY DecodedIs
<1>. QED BY <1>1 DEF DecodedInstrs

\* cmp.rs.
LEMMA CmpIs ==
    ASSUME NEW i \in Instrs, i.kind = "cmp"
    PROVE  i.bias \in {-1, 1}
<1>1. i \in DecodedInstrs
  BY DecodedIs
<1>. QED BY <1>1 DEF DecodedInstrs

\* Branches: addresses and offsets are integers.
LEMMA BranchIs ==
    ASSUME NEW i \in Instrs, i.kind \in {"goto", "if", "ifz"}
    PROVE  /\ i.at \in Int /\ i.offset \in Int
           /\ i.kind = "goto" => i.width \in {ByteBits, ShortBits, IntBits}
<1>1. i \in DecodedInstrs
  BY DecodedIs
<1>2. i.at \in UnsignedInts /\ i.offset \in Ints \cup UnsignedInts
  BY <1>1 DEF DecodedInstrs
<1>3. i.kind = "goto" => i.width \in {ByteBits, ShortBits, IntBits}
  BY <1>1 DEF DecodedInstrs
<1>4. Ints \subseteq Int /\ UnsignedInts \subseteq Int
  BY DEF Ints, UnsignedInts
<1>. QED BY <1>2, <1>3, <1>4

\* Switch tables hold integers.
LEMMA SwitchIs ==
    ASSUME NEW i \in Instrs, i.kind = "switch"
    PROVE  i.at \in Int /\ \A key \in DOMAIN i.table : i.table[key] \in Int
BY InstrsAreWellFormed DEF WellFormed, Ints, UnsignedInts

\* The register of a throw, which faithful mode puts into last_exception.
LEMMA ThrowIs ==
    ASSUME NEW i \in Instrs, i.kind = "throw"
    PROVE  i.a \in RegNumbers
<1>1. i \in DecodedInstrs
  BY DecodedIs
<1>. QED BY <1>1 DEF DecodedInstrs

\* Constants are numbers and strings.
LEMMA ConstIs ==
    ASSUME NEW i \in Instrs, i.kind = "const"
    PROVE  i.value \in Numbers \cup Strings
<1>1. i \in DecodedInstrs
  BY DecodedIs
<1>. QED BY <1>1 DEF DecodedInstrs

\* A new instance is the name of its type.
LEMMA NewInstanceIs ==
    ASSUME NEW i \in Instrs, i.kind = "new-instance"
    PROVE  i.type \in Strings
<1>1. i \in DecodedInstrs
  BY DecodedIs
<1>. QED BY <1>1 DEF DecodedInstrs

\* Array data are chunks of bytes.
LEMMA FillArrayIs ==
    ASSUME NEW i \in Instrs, i.kind = "fill-array"
    PROVE  i.data \in Seq(Seq(0..2 ^ ByteBits - 1))
<1>1. i \in DecodedInstrs
  BY DecodedIs
<1>. QED BY <1>1 DEF DecodedInstrs

\* Field accesses.
LEMMA FieldOpIs ==
    ASSUME NEW i \in Instrs, i.kind \in {"iget", "iput", "sget", "sput"}
    PROVE  i.wide \in BOOLEAN /\ i.a \in RegNumbers
<1>1. i \in DecodedInstrs
  BY DecodedIs
<1>. QED BY <1>1 DEF DecodedInstrs

-----------------------------------------------------------------------------
\* The type invariant.
MemoryOK(as, st, inst, last, exc) ==
    /\ as \in Seq(Seq(Values(Len(as))))
    /\ \A n \in DOMAIN as : Len(as[n]) <= MaxArray
    /\ \A x \in DOMAIN st : st[x] \in Values(Len(as))
    /\ \A x \in DOMAIN inst : inst[x] \in Numbers
    /\ {last, exc} \subseteq SlotValues(Len(as))

\* A frame stays one when there are more arrays.
LEMMA FramesGrow ==
    ASSUME NEW m \in Nat, NEW n \in Nat, m <= n
    PROVE  Frames(m) \subseteq Frames(n)
<1>. SUFFICES ASSUME NEW rs \in Frames(m) PROVE rs \in Frames(n)
  OBVIOUS
<1>1. PICK w \in RegNumbers : rs \in [0..w - 1 -> SlotValues(m)]
  BY DEF Frames
<1>2. SlotValues(m) \subseteq SlotValues(n)
  BY ValuesGrow
<1>3. rs \in [0..w - 1 -> SlotValues(n)]
  BY <1>1, <1>2
<1>. QED BY <1>3 DEF Frames

\* Two frames of one length.
LEMMA FramesTogether ==
    ASSUME NEW m, NEW rs, NEW old
    PROVE  (\E n \in RegNumbers : {rs, old} \subseteq [0..n - 1 -> SlotValues(m)])
             <=> rs \in Frames(m) /\ old \in Frames(m) /\ DOMAIN rs = DOMAIN old
<1>1. ASSUME NEW n \in RegNumbers, {rs, old} \subseteq [0..n - 1 -> SlotValues(m)]
      PROVE  rs \in Frames(m) /\ old \in Frames(m) /\ DOMAIN rs = DOMAIN old
  BY <1>1 DEF Frames
<1>2. ASSUME rs \in Frames(m), old \in Frames(m), DOMAIN rs = DOMAIN old
      PROVE  \E n \in RegNumbers : {rs, old} \subseteq [0..n - 1 -> SlotValues(m)]
  <2>1. PICK n \in RegNumbers : rs \in [0..n - 1 -> SlotValues(m)]
    BY <1>2 DEF Frames
  <2>2. PICK k \in RegNumbers : old \in [0..k - 1 -> SlotValues(m)]
    BY <1>2 DEF Frames
  <2>3. 0..n - 1 = 0..k - 1
    BY <1>2, <2>1, <2>2
  <2>. HIDE DEF Frames
  <2>. QED BY <2>1, <2>2, <2>3
<1>. QED BY <1>1, <1>2

\* What is at hand when an instruction is fetched.
LEMMA FetchedIs ==
    ASSUME OpTypeOK, NEW i \in Fetched
    PROVE  /\ program # <<>> /\ i = Head(program) /\ i \in Instrs
           /\ Tail(program) \in Seq(Instrs)
           /\ Len(arrays) \in Nat /\ regs \in Frames(Len(arrays))
           /\ MemoryOK(arrays, statics, instances, lastReturn, exception)
<1>1. program \in Seq(Instrs) /\ program # <<>> /\ i = Head(program)
  BY DEF OpTypeOK, Fetched
<1>2. i \in Instrs /\ Tail(program) \in Seq(Instrs)
  BY <1>1
<1>3. MemoryOK(arrays, statics, instances, lastReturn, exception)
  BY DEF OpTypeOK, MemoryOK
<1>4. Len(arrays) \in Nat
  BY DEF OpTypeOK
<1>5. regs \in Frames(Len(arrays))
  BY FramesTogether DEF OpTypeOK
<1>. QED BY <1>1, <1>2, <1>3, <1>4, <1>5

\* Whatever an instruction leaves of the registers and the memory, its answer
\* moves the program on and keeps the history.
LEMMA AnswerType ==
    ASSUME OpTypeOK, NEW i \in Fetched, NEW rs, NEW result, Answer(i, rs, result),
           rs \in Frames(Len(arrays')), DOMAIN rs = DOMAIN regs,
           Len(arrays) <= Len(arrays'),
           MemoryOK(arrays', statics', instances', lastReturn', exception')
    PROVE  OpTypeOK'
<1>1. /\ i \in Instrs /\ Tail(program) \in Seq(Instrs)
      /\ Len(arrays) \in Nat /\ regs \in Frames(Len(arrays))
  BY FetchedIs
<1>2. Len(arrays') \in Nat
  BY DEF MemoryOK
<1>3. regs \in Frames(Len(arrays'))
  BY <1>1, <1>2, FramesGrow
<1>4. regs' = rs /\ before' = regs /\ done' = Append(done, i) /\ faithful' = faithful
  BY DEF Answer
<1>5. program' \in Seq(Instrs)
  BY <1>1 DEF Answer
<1>6. done' \in Seq(Instrs) /\ faithful' \in BOOLEAN
  BY <1>1, <1>4 DEF OpTypeOK
<1>7. \E n \in RegNumbers : {rs, regs} \subseteq [0..n - 1 -> SlotValues(Len(arrays'))]
  BY <1>3, FramesTogether
<1>8. \E n \in RegNumbers : {regs', before'} \subseteq [0..n - 1 -> SlotValues(Len(arrays'))]
  BY <1>4, <1>7
<1>. QED BY <1>5, <1>6, <1>8 DEF OpTypeOK, MemoryOK

\* An answer that leaves the memory alone.
LEMMA SameMemoryType ==
    ASSUME OpTypeOK, NEW i \in Fetched, NEW rs, NEW result, Answer(i, rs, result),
           UNCHANGED memory, rs \in Frames(Len(arrays)), DOMAIN rs = DOMAIN regs
    PROVE  OpTypeOK'
<1>1. /\ arrays' = arrays /\ statics' = statics /\ instances' = instances
      /\ lastReturn' = lastReturn /\ exception' = exception
  BY DEF memory, fieldMaps, results
<1>2. /\ Len(arrays) \in Nat
      /\ MemoryOK(arrays, statics, instances, lastReturn, exception)
  BY FetchedIs
<1>3. MemoryOK(arrays', statics', instances', lastReturn', exception')
  BY <1>1, <1>2
<1>4. rs \in Frames(Len(arrays')) /\ Len(arrays) <= Len(arrays')
  BY <1>1, <1>2
<1>. QED BY <1>3, <1>4, AnswerType

\* The instruction writes registers only.
LEMMA GoesType ==
    ASSUME OpTypeOK, NEW i \in Fetched, NEW rs, Goes(i, rs),
           rs \in Frames(Len(arrays)), DOMAIN rs = DOMAIN regs
    PROVE  OpTypeOK'
BY SameMemoryType DEF Goes

\* The instruction does nothing.
LEMMA SkipType ==
    ASSUME OpTypeOK, NEW i \in Fetched, Skip(i)
    PROVE  OpTypeOK'
BY GoesType, FetchedIs DEF Skip

\* The instruction writes one register.
LEMMA WriteType ==
    ASSUME OpTypeOK, NEW i \in Fetched, NEW r, NEW v \in SlotValues(Len(arrays)), Write(i, r, v)
    PROVE  OpTypeOK'
<1>1. regs \in Frames(Len(arrays))
  BY FetchedIs
<1>2. Written(regs, r, v) \in Frames(Len(arrays)) /\ DOMAIN Written(regs, r, v) = DOMAIN regs
  BY <1>1, WrittenFrame
<1>. QED BY <1>2, GoesType DEF Write

\* The instruction writes one number.
LEMMA WriteNumType ==
    ASSUME OpTypeOK, NEW i \in Fetched, NEW r, NEW x \in Longs, Write(i, r, Num(x))
    PROVE  OpTypeOK'
<1>1. Num(x) \in SlotValues(Len(arrays))
  BY NumIsNumber, ValuesAre
<1>. QED BY <1>1, WriteType

\* The instruction panics.
LEMMA DiesType ==
    ASSUME OpTypeOK, NEW i \in Fetched, Dies(i)
    PROVE  OpTypeOK'
BY SameMemoryType, FetchedIs DEF Dies

\* Literals and register numbers are longs.
LEMMA IntsAreLongs == Ints \subseteq Longs /\ RegNumbers \subseteq Longs /\ {-1, 0, 1} \subseteq Longs
<1>1. /\ 2 ^ IntBits = 2 * 2 ^ (IntBits - 1) /\ 2 ^ (IntBits - 1) \in Int /\ 8 <= 2 ^ IntBits
      /\ 2 ^ IntBits \in Int
  BY IntsFit
<1>2. ShortBits \in Nat /\ IntBits \in Nat /\ ShortBits <= IntBits
  BY Widths
<1>3. 2 ^ ShortBits <= 2 ^ IntBits /\ 2 ^ ShortBits \in Int
  BY <1>2, PowersDivide
<1>4. ASSUME NEW x \in Ints PROVE x \in Longs
  <2>1. x \in Int /\ -(4 * 2 ^ IntBits) <= x /\ x < 4 * 2 ^ IntBits
    BY <1>1 DEF Ints
  <2>. QED BY <2>1, SmallIsLong
<1>5. ASSUME NEW x \in RegNumbers PROVE x \in Longs
  <2>1. x \in Int /\ -(4 * 2 ^ IntBits) <= x /\ x < 4 * 2 ^ IntBits
    BY <1>1, <1>3 DEF RegNumbers
  <2>. QED BY <2>1, SmallIsLong
<1>6. {-1, 0, 1} \subseteq Longs
  BY <1>1, SmallIsLong
<1>. QED BY <1>4, <1>5, <1>6

\* A negated and a complemented long.
LEMMA NegIsLong ==
    ASSUME NEW x \in Longs
    PROVE  Long(-x) \in Longs /\ -x - 1 \in Longs
<1>1. x \in Int /\ 2 ^ (LongBits - 1) \in Int
  BY LongsAre, Widths, Halves
<1>2. -x - 1 \in Longs
  BY <1>1 DEF Longs, MinLong
<1>. QED BY <1>1, <1>2, LongsAre

\* Arithmetic, in both modes.
LEMMA BinaryType ==
    ASSUME OpTypeOK, NEW i \in Fetched, Binary(i)
    PROVE  OpTypeOK'
<1>1. i \in Instrs /\ regs \in Frames(Len(arrays))
  BY FetchedIs
<1>2. i.kind = "binary"
  BY DEF Binary
<1>3. /\ i.op \in IntOps
      /\ i.form = "lit" => i.lit \in Longs
  BY <1>1, <1>2, BinaryIs, IntsAreLongs
<1>4. \A r : Reg(r) \in Longs
  BY <1>1, FrameSlots
<1>5. \A r : WideOr(r) \in Longs
  BY <1>1, WideOrIsLong
<1>6. 0 \in Longs
  BY IntsAreLongs
<1>7. CASE FaithfulBinary(i)
  <2>. DEFINE wide == WideOr(IF i.form = "2addr" THEN i.a ELSE i.b)
              b == IF i.type # "int" THEN (IF i.form = "2addr" THEN 0 ELSE wide)
                   ELSE IF i.form = "2addr" THEN Reg(i.a) ELSE Reg(i.b)
              c == IF i.form = "lit" THEN i.lit
                   ELSE IF i.type = "int" THEN Reg(IF i.form = "2addr" THEN i.b ELSE i.c)
                   ELSE IF i.form = "23x" /\ i.type = "long" /\ i.op \in ShiftOps THEN Reg(i.c)
                   ELSE wide
              reversed == i.form = "lit" /\ i.op = "sub"
              x == IF reversed THEN c ELSE b
              y == IF reversed THEN b ELSE c
              V(o) == FaithfulAlu(i.op, i.type, x, y, o)
  <2>1. b \in Longs /\ c \in Longs
    BY <1>3, <1>4, <1>5, <1>6
  <2>2. x \in Longs /\ y \in Longs
    BY <2>1
  <2>3. PICK o \in BOOLEAN :
          IF V(o) = Panic THEN Dies(i)
          ELSE IF i.type = "int" THEN Write(i, i.a, V(o))
          ELSE IF i.type = "float" THEN Skip(i)
          ELSE Goes(i, WrittenPair(regs, i.a, V(o).n))
    BY <1>7 DEF FaithfulBinary
  <2>. DEFINE v == V(o)
  <2>4. v # Panic => v \in Numbers
    <3>. HIDE DEF x, y
    <3>. QED BY <1>3, <2>2, FaithfulAluType
  <2>. HIDE DEF v
  <2>5. CASE v = Panic
    BY <2>3, <2>5, DiesType DEF v
  <2>6. CASE v # Panic /\ i.type = "int"
    <3>1. Write(i, i.a, v)
      BY <2>3, <2>6 DEF v
    <3>2. v \in SlotValues(Len(arrays))
      BY <2>4, <2>6, ValuesAre
    <3>. QED BY <3>1, <3>2, WriteType
  <2>7. CASE v # Panic /\ i.type = "float"
    <3>1. Skip(i)
      BY <2>3, <2>7 DEF v
    <3>. QED BY <3>1, SkipType
  <2>8. CASE v # Panic /\ i.type \notin {"int", "float"}
    <3>1. Goes(i, WrittenPair(regs, i.a, v.n))
      BY <2>3, <2>8 DEF v
    <3>2. v.n \in Longs
      BY <2>4, <2>8 DEF Numbers
    <3>3. /\ WrittenPair(regs, i.a, v.n) \in Frames(Len(arrays))
          /\ DOMAIN WrittenPair(regs, i.a, v.n) = DOMAIN regs
      BY <1>1, <3>2, WrittenPairFrame
    <3>. QED BY <3>1, <3>3, GoesType
  <2>. QED BY <2>5, <2>6, <2>7, <2>8
<1>8. CASE InlineBinary(i)
  <2>. DEFINE b == IF i.form = "2addr" THEN Reg(i.a) ELSE Reg(i.b)
              c == IF i.form = "lit" THEN i.lit
                   ELSE IF i.form = "2addr" THEN Reg(i.b) ELSE Reg(i.c)
              reversed == i.form = "lit" /\ i.op = "sub"
              x == IF reversed THEN c ELSE b
              y == IF reversed THEN b ELSE c
              z == InlineAlu(i.form, i.op, i.type, x, y)
  <2>1. b \in Longs /\ c \in Longs
    BY <1>3, <1>4
  <2>2. x \in Longs /\ y \in Longs
    BY <2>1
  <2>3. \/ Dies(i)
        \/ ~ InlinePanics(i.op, x, y) /\ Write(i, i.a, Num(z))
        \/ Write(i, i.a, Num(b))
        \/ Skip(i)
    BY <1>8 DEF InlineBinary
  <2>4. ~ InlinePanics(i.op, x, y) => z \in Longs
    <3>. HIDE DEF x, y
    <3>. QED BY <1>3, <2>2, InlineAluType
  <2>. HIDE DEF b, x, y, z
  <2>. QED BY <2>1, <2>3, <2>4, DiesType, WriteNumType, SkipType
<1>. QED BY <1>7, <1>8 DEF Binary

\* Negations and conversions, in both modes.
LEMMA UnaryType ==
    ASSUME OpTypeOK, NEW i \in Fetched, Unary(i)
    PROVE  OpTypeOK'
<1>1. i \in Instrs /\ regs \in Frames(Len(arrays))
  BY FetchedIs
<1>2. i.kind = "unary" /\ (FaithfulUnary(i) \/ InlineUnary(i))
  BY DEF Unary
<1>3. i.op \in Conversions
  BY <1>1, <1>2, UnaryIs
<1>. DEFINE b == Reg(i.b)
            low == Reg(i.b + 1)
            copied == Written(regs, i.a, Num(b))
            n == Len(arrays)
<1>4. b \in Longs /\ low \in Longs /\ 0 \in Longs
  BY <1>1, FrameSlots, IntsAreLongs
<1>5. b \in Int /\ low \in Int
  BY <1>4, LongsAre
<1>6. Num(b) \in SlotValues(n) /\ Num(0) \in SlotValues(n)
  BY <1>4, NumIsNumber, ValuesAre
<1>7. copied \in Frames(n) /\ DOMAIN copied = DOMAIN regs
  BY <1>1, <1>6, WrittenFrame
<1>8. /\ Signed(ByteBits, b) \in Longs /\ Signed(ShortBits, b) \in Longs
      /\ Unsigned(ShortBits, b) \in Longs /\ Signed(IntBits, b) \in Longs
      /\ Unsigned(IntBits, low) \in Longs
  BY <1>5, UnsignedIsLong
<1>9. Long(-b) \in Longs /\ Long(-low) \in Longs /\ -b - 1 \in Longs
  BY <1>4, NegIsLong
<1>10. CASE FaithfulUnary(i)
  <2>. DEFINE shifted == IF b # 0 THEN Shl(b, IntBits) ELSE Unsigned(IntBits, low)
              second == IF i.b + 1 \in DOMAIN copied THEN AsInt(copied[i.b + 1]) ELSE 0
              negated == Written(regs, i.a, Num(Long(-b)))
  <2>1. shifted \in Longs
    <3>1. Shl(b, IntBits) \in Longs
      BY <1>5, Widths, Shifts
    <3>. QED BY <1>8, <3>1
  <2>2. second \in Longs
    <3>1. ASSUME i.b + 1 \in DOMAIN copied PROVE copied[i.b + 1] \in SlotValues(n)
      <4>1. PICK m \in RegNumbers : copied \in [0..m - 1 -> SlotValues(n)]
        BY <1>7 DEF Frames
      <4>. HIDE DEF copied
      <4>. QED BY <3>1, <4>1
    <3>. HIDE DEF copied
    <3>. QED BY <1>4, <3>1, AsIntIsLong
  <2>3. /\ Num(second) \in SlotValues(n)
        /\ Num(Long(-b)) \in SlotValues(n) /\ Num(Long(-low)) \in SlotValues(n)
    BY <1>9, <2>2, NumIsNumber, ValuesAre
  <2>4. negated \in Frames(n) /\ DOMAIN negated = DOMAIN regs
    BY <1>1, <2>3, WrittenFrame
  <2>. DEFINE negatedPair == Written(negated, i.a + 1, Num(Long(-low)))
              copiedPair == Written(copied, i.a + 1, Num(second))
              widened == Written(copied, i.a + 1, Num(0))
  <2>. HIDE DEF copied, second, negated
  <2>5. /\ negatedPair \in Frames(n) /\ DOMAIN negatedPair = DOMAIN regs
        /\ copiedPair \in Frames(n) /\ DOMAIN copiedPair = DOMAIN regs
        /\ widened \in Frames(n) /\ DOMAIN widened = DOMAIN regs
    BY <1>6, <1>7, <2>3, <2>4, WrittenFrame
  <2>6. \/ \E x \in Longs : Write(i, i.a, Num(x))
        \/ Goes(i, negatedPair)
        \/ Goes(i, IF i.a = i.b THEN regs ELSE copied)
        \/ Goes(i, IF i.a = i.b THEN regs ELSE copiedPair)
        \/ Goes(i, widened)
    <3>1. FaithfulUnary(i)
            <=> CASE i.op = "neg" -> Write(i, i.a, Num(Long(-b)))
                  [] i.op = "not" -> Write(i, i.a, Num(-b - 1))
                  [] i.op = "neg-wide" -> Goes(i, negatedPair)
                  [] i.op = "copy" -> Goes(i, IF i.a = i.b THEN regs ELSE copied)
                  [] i.op = "copy-wide" -> Goes(i, IF i.a = i.b THEN regs ELSE copiedPair)
                  [] i.op = "widen" -> Goes(i, widened)
                  [] i.op \in {"narrow", "long-to-int"} -> Write(i, i.a, Num(shifted))
                  [] i.op \in {"int-to-byte", "int-to-char"} -> Write(i, i.a, Num(Signed(ByteBits, b)))
                  [] i.op = "int-to-short" -> Write(i, i.a, Num(Signed(ShortBits, b)))
      BY DEF FaithfulUnary, copied, second, negated
    <3>. HIDE DEF negatedPair, copiedPair, widened, shifted, b, low
    <3>2. CASE i.op \in {"neg", "not", "narrow", "long-to-int", "int-to-byte", "int-to-char",
                         "int-to-short"}
      <4>1. PICK x \in {Long(-b), -b - 1, shifted, Signed(ByteBits, b), Signed(ShortBits, b)} :
              Write(i, i.a, Num(x))
        BY <1>10, <3>1, <3>2
      <4>. QED BY <1>8, <1>9, <2>1, <4>1
    <3>3. CASE i.op = "neg-wide"
      BY <1>10, <3>1, <3>3
    <3>4. CASE i.op = "copy"
      BY <1>10, <3>1, <3>4
    <3>5. CASE i.op = "copy-wide"
      BY <1>10, <3>1, <3>5
    <3>6. CASE i.op = "widen"
      BY <1>10, <3>1, <3>6
    <3>. QED BY <1>3, <3>2, <3>3, <3>4, <3>5, <3>6 DEF Conversions
  <2>7. ASSUME NEW rs \in {negatedPair, copiedPair, widened, copied, regs}, Goes(i, rs)
        PROVE  OpTypeOK'
    <3>1. rs \in Frames(n) /\ DOMAIN rs = DOMAIN regs
      BY <1>1, <1>7, <2>5 DEF copied
    <3>. QED BY <2>7, <3>1, GoesType
  <2>. HIDE DEF negatedPair, copiedPair, widened
  <2>8. ASSUME \E x \in Longs : Write(i, i.a, Num(x)) PROVE OpTypeOK'
    BY <2>8, WriteNumType
  <2>9. \/ \E x \in Longs : Write(i, i.a, Num(x))
        \/ \E rs \in {negatedPair, copiedPair, widened, copied, regs} : Goes(i, rs)
    BY <2>6
  <2>. QED BY <2>7, <2>8, <2>9
<1>11. CASE InlineUnary(i)
  <2>. HIDE DEF b
  <2>1. \/ Skip(i)
        \/ \E x \in {b, Signed(IntBits, b), Signed(ByteBits, b), Unsigned(ShortBits, b),
                     Signed(ShortBits, b)} : Write(i, i.a, Num(x))
    BY <1>3, <1>11 DEF InlineUnary, Conversions, b
  <2>. QED BY <1>4, <1>8, <2>1, SkipType, WriteNumType
<1>. QED BY <1>2, <1>10, <1>11

\* Comparisons.
LEMMA CmpType ==
    ASSUME OpTypeOK, NEW i \in Fetched, Cmp(i)
    PROVE  OpTypeOK'
<1>1. i \in Instrs /\ i.kind = "cmp"
  BY FetchedIs DEF Cmp
<1>2. i.bias \in {-1, 0, 1}
  BY <1>1, CmpIs
<1>3. Skip(i) \/ \E x \in {-1, 0, 1} : Write(i, i.a, Num(x))
  BY <1>2 DEF Cmp
<1>. QED BY <1>3, SkipType, WriteNumType, IntsAreLongs

\* A branch leaves the registers alone, a return and a throw too.
LEMMA JumpType ==
    ASSUME OpTypeOK, NEW i \in Fetched, Goto(i) \/ If(i)
    PROVE  OpTypeOK'
<1>1. regs \in Frames(Len(arrays))
  BY FetchedIs
<1>2. UNCHANGED memory /\ \E result : Answer(i, regs, result)
  BY DEF Goto, If
<1>3. PICK result : Answer(i, regs, result)
  BY <1>2
<1>. QED BY <1>1, <1>2, <1>3, SameMemoryType

\* Instructions that set last_return or last_exception.
LEMMA ResultsType ==
    ASSUME OpTypeOK, NEW i \in Fetched, NEW result, Answer(i, regs, result),
           UNCHANGED <<arrays, fieldMaps>>,
           lastReturn' \in SlotValues(Len(arrays)), exception' \in SlotValues(Len(arrays))
    PROVE  OpTypeOK'
<1>1. /\ Len(arrays) \in Nat /\ regs \in Frames(Len(arrays))
      /\ MemoryOK(arrays, statics, instances, lastReturn, exception)
  BY FetchedIs
<1>2. arrays' = arrays /\ statics' = statics /\ instances' = instances
  BY DEF fieldMaps
<1>3. MemoryOK(arrays', statics', instances', lastReturn', exception')
  BY <1>1, <1>2 DEF MemoryOK
<1>4. regs \in Frames(Len(arrays')) /\ Len(arrays) <= Len(arrays')
  BY <1>1, <1>2
<1>. QED BY <1>3, <1>4, AnswerType

\* A switch, found or not.
LEMMA SwitchType ==
    ASSUME OpTypeOK, NEW i \in Fetched, Switch(i)
    PROVE  OpTypeOK'
<1>. DEFINE key == Signed(IntBits, Reg(i.a))
            target == Unsigned(IntBits, i.at + i.table[key])
            n == Len(arrays)
<1>1. i \in Instrs /\ {lastReturn, exception} \subseteq SlotValues(n) /\ i.kind = "switch"
  BY FetchedIs DEF MemoryOK, Switch
<1>2. CASE Skip(i)
  BY <1>2, SkipType
<1>3. CASE /\ key \in DOMAIN i.table
           /\ Answer(i, regs, Jump(target))
           /\ exception' = Num(target)
           /\ UNCHANGED <<arrays, fieldMaps, lastReturn>>
  <2>1. i.at + i.table[key] \in Int
    <3>. HIDE DEF key
    <3>1. i.table[key] \in Int /\ i.at \in Int
      BY <1>1, <1>3, SwitchIs
    <3>. QED BY <3>1
  <2>2. target \in Longs
    BY <2>1, UnsignedIsLong
  <2>3. Num(target) \in SlotValues(n)
    BY <2>2, NumIsNumber, ValuesAre
  <2>. HIDE DEF target
  <2>. QED BY <1>1, <1>3, <2>3, ResultsType
<1>4. CASE /\ Answer(i, regs, Continue)
           /\ lastReturn' = None
           /\ UNCHANGED <<arrays, fieldMaps, exception>>
  BY <1>1, <1>4, ValuesAre, ResultsType
<1>. QED BY <1>2, <1>3, <1>4 DEF Switch

\* A throw.
LEMMA ThrowType ==
    ASSUME OpTypeOK, NEW i \in Fetched, Throw(i)
    PROVE  OpTypeOK'
<1>1. i \in Instrs /\ exception \in SlotValues(Len(arrays)) /\ i.kind = "throw"
  BY FetchedIs DEF MemoryOK, Throw
<1>2. i.a \in Longs
  BY <1>1, ThrowIs, IntsAreLongs
<1>3. Num(i.a) \in SlotValues(Len(arrays)) /\ None \in SlotValues(Len(arrays))
  BY <1>2, NumIsNumber, ValuesAre
<1>4. /\ Answer(i, regs, Return) /\ UNCHANGED <<arrays, fieldMaps>>
      /\ lastReturn' \in SlotValues(Len(arrays)) /\ exception' \in SlotValues(Len(arrays))
  BY <1>1, <1>3 DEF Throw
<1>. QED BY <1>4, ResultsType

\* A return, with or without a value.
LEMMA ReturnValueType ==
    ASSUME OpTypeOK, NEW i \in Fetched, ReturnValue(i)
    PROVE  OpTypeOK'
<1>1. exception \in SlotValues(Len(arrays)) /\ regs \in Frames(Len(arrays))
  BY FetchedIs DEF MemoryOK
<1>2. None \in SlotValues(Len(arrays)) /\ Slot(i.a) \in SlotValues(Len(arrays))
  BY <1>1, FrameSlots, ValuesAre
<1>3. /\ Answer(i, regs, Return) /\ UNCHANGED <<arrays, fieldMaps>>
      /\ lastReturn' \in SlotValues(Len(arrays)) /\ exception' \in SlotValues(Len(arrays))
  BY <1>1, <1>2 DEF ReturnValue
<1>. QED BY <1>3, ResultsType

\* Every kind of move and constant writes one register.
LEMMA PlainType ==
    ASSUME OpTypeOK, NEW i \in Fetched,
           Move(i) \/ MoveResult(i) \/ Const(i) \/ NewInstance(i) \/ NoOp(i)
    PROVE  OpTypeOK'
<1>. DEFINE n == Len(arrays)
<1>1. /\ i \in Instrs /\ regs \in Frames(n)
      /\ lastReturn \in SlotValues(n)
  BY FetchedIs DEF MemoryOK
<1>2. Slot(i.b) \in SlotValues(n)
  BY <1>1, FrameSlots
<1>3. CASE Move(i)
  <2>1. Write(i, i.a, Slot(i.b))
    BY <1>3 DEF Move, Write
  <2>. QED BY <1>2, <2>1, WriteType
<1>4. CASE MoveResult(i)
  <2>1. Write(i, i.a, lastReturn)
    BY <1>4 DEF MoveResult, Write
  <2>. QED BY <1>1, <2>1, WriteType
<1>5. CASE Const(i)
  <2>1. i.value \in SlotValues(n)
    BY <1>1, <1>5, ConstIs, ValuesAre DEF Const
  <2>. QED BY <1>5, <2>1, WriteType DEF Const
<1>6. CASE NewInstance(i)
  <2>1. i.type \in SlotValues(n)
    BY <1>1, <1>6, NewInstanceIs, ValuesAre DEF NewInstance
  <2>2. Str(<<>>) \in SlotValues(n)
    <3>1. 0 \in UnsignedInts
      BY IntsFit DEF UnsignedInts
    <3>2. Str(<<>>) \in Strings
      BY <3>1 DEF Str, Strings
    <3>. QED BY <3>2, ValuesAre
  <2>. QED BY <1>6, <2>1, <2>2, WriteType DEF NewInstance
<1>7. CASE NoOp(i)
  BY <1>7, SkipType DEF NoOp
<1>. QED BY <1>3, <1>4, <1>5, <1>6, <1>7

-----------------------------------------------------------------------------
\* Arrays and fields.
LEMMA KindsAre ==
    ASSUME NEW n, NEW v \in SlotValues(n)
    PROVE  /\ v.k = "array" => v.id \in 1..n /\ v = Handle(v.id)
           /\ v.k = "bytes" => v.b \in Seq(0..2 ^ ByteBits - 1) /\ Len(v.b) \in UnsignedInts
           /\ v.k = "str" => v.chars \in Seq(UnsignedInts) /\ Len(v.chars) \in UnsignedInts
           /\ (v.k = "none") <=> (v = None)
           /\ v.k = "int" => v.n \in Longs /\ v = Num(v.n)
<1>1. CASE v \in Numbers
  BY <1>1 DEF Numbers, None, Num
<1>2. CASE v \in Strings
  BY <1>2 DEF Strings, None
<1>3. CASE v \in ByteVectors
  BY <1>3 DEF ByteVectors, None
<1>4. CASE v \in [k : {"array"}, id : 1..n]
  BY <1>4 DEF None, Handle
<1>5. CASE v \in {Null, Bool(TRUE), Bool(FALSE), None}
  BY <1>5 DEF Null, Bool, None
<1>. QED BY <1>1, <1>2, <1>3, <1>4, <1>5 DEF SlotValues, Values

\* Bytes and unsigned ints are longs.
LEMMA SmallRanges == UnsignedInts \subseteq Longs /\ 0..2 ^ ByteBits - 1 \subseteq Longs
<1>1. /\ 2 ^ IntBits \in Int /\ 8 <= 2 ^ IntBits
      /\ 2 ^ ByteBits \in Int /\ 2 ^ ByteBits <= 2 ^ IntBits
  <2>1. ByteBits \in Nat /\ IntBits \in Nat /\ ByteBits <= IntBits
    BY Widths
  <2>. QED BY <2>1, IntsFit, PowersDivide
<1>2. ASSUME NEW x \in Int, 0 <= x, x < 2 ^ IntBits PROVE x \in Longs
  BY <1>1, <1>2, SmallIsLong
<1>. QED BY <1>1, <1>2 DEF UnsignedInts

\* An array that has a handle has values, no more than MaxArray.
LEMMA ArraysAre ==
    ASSUME OpTypeOK, NEW id \in 1..Len(arrays)
    PROVE  /\ arrays[id] \in Seq(Values(Len(arrays))) /\ Len(arrays[id]) \in Longs
           /\ Len(arrays[id]) <= MaxArray /\ Len(arrays[id]) \in Nat
<1>1. arrays[id] \in Seq(Values(Len(arrays))) /\ Len(arrays[id]) <= MaxArray
  BY DEF OpTypeOK
<1>2. Len(arrays[id]) \in Nat
  BY <1>1
<1>3. /\ MaxArray \in Nat /\ MaxArray < 2 ^ (LongBits - 1)
      /\ 2 ^ (LongBits - 1) \in Int /\ LongBits \in Nat \ {0}
  BY OpcodesConstantsOK, Widths, Halves
<1>4. Len(arrays[id]) \in Longs
  BY <1>1, <1>2, <1>3 DEF Longs, MinLong
<1>. QED BY <1>1, <1>2, <1>4

\* The length array-length stores, of a Rust string in bytes.
LEMMA LengthOfIsLong ==
    ASSUME OpTypeOK, NEW v \in SlotValues(Len(arrays))
    PROVE  LengthOf(v) \in Longs
<1>1. CASE v.k = "array"
  BY <1>1, KindsAre, ArraysAre DEF LengthOf
<1>2. CASE v.k = "bytes"
  BY <1>2, KindsAre, SmallRanges DEF LengthOf
<1>3. CASE v.k = "str"
  <2>. DEFINE long == {n \in DOMAIN v.chars : v.chars[n] >= Utf8Limit}
  <2>1. v.chars \in Seq(UnsignedInts) /\ Len(v.chars) \in UnsignedInts
    BY <1>3, KindsAre
  <2>2. Len(v.chars) \in Nat /\ Len(v.chars) < 2 ^ IntBits /\ 2 ^ IntBits \in Int
    BY <2>1, IntsFit, SMTT(40) DEF UnsignedInts
  <2>3. IsFiniteSet(1..Len(v.chars)) /\ Cardinality(1..Len(v.chars)) = Len(v.chars)
    <3>. DEFINE m == Len(v.chars)
    <3>1. m \in Nat /\ 1 \in Int /\ m \in Int
      BY <2>2
    <3>. HIDE DEF m
    <3>2. /\ IsFiniteSet(1..m)
          /\ Cardinality(1..m) = IF 1 > m THEN 0 ELSE m - 1 + 1
      BY <3>1, FS_Interval
    <3>3. Cardinality(1..m) = m
      BY <3>1, <3>2
    <3>. QED BY <3>2, <3>3 DEF m
  <2>4. long \subseteq 1..Len(v.chars)
    BY <2>1
  <2>. HIDE DEF long
  <2>5. Cardinality(long) \in Nat /\ Cardinality(long) <= Len(v.chars)
    BY <2>3, <2>4, FS_Subset, FS_CardinalityType, ZenonT(60)
  <2>6. Len(v.chars) + Cardinality(long) \in Longs
    <3>1. /\ Len(v.chars) + Cardinality(long) \in Int
          /\ -(4 * 2 ^ IntBits) <= Len(v.chars) + Cardinality(long)
          /\ Len(v.chars) + Cardinality(long) < 4 * 2 ^ IntBits
      BY <2>2, <2>5, IntsFit, SMTT(40)
    <3>. QED BY <3>1, SmallIsLong
  <2>. QED BY <1>3, <2>6 DEF LengthOf, long
<1>4. CASE v.k \notin {"array", "bytes", "str"}
  BY <1>4, IntsAreLongs DEF LengthOf
<1>. QED BY <1>1, <1>2, <1>3, <1>4

\* An element, or none.
LEMMA ElementIsValue ==
    ASSUME OpTypeOK, NEW v \in SlotValues(Len(arrays)), NEW index \in Int
    PROVE  ElementOf(v, index) \in SlotValues(Len(arrays))
<1>. DEFINE n == Len(arrays)
<1>1. ASSUME NEW S, NEW s \in Seq(S), InRange(s, index) PROVE s[index + 1] \in S
  <2>1. index + 1 \in 1..Len(s)
    BY <1>1 DEF InRange
  <2>. QED BY <2>1
<1>2. CASE v.k = "array" /\ InRange(arrays[v.id], index)
  <2>1. arrays[v.id] \in Seq(Values(n))
    BY <1>2, KindsAre, ArraysAre
  <2>2. arrays[v.id][index + 1] \in Values(n)
    BY <1>1, <1>2, <2>1
  <2>. QED BY <1>2, <2>2, ValuesAre DEF ElementOf
<1>3. CASE v.k = "bytes" /\ InRange(v.b, index)
  <2>1. v.b[index + 1] \in 0..2 ^ ByteBits - 1
    BY <1>1, <1>3, KindsAre
  <2>2. Num(v.b[index + 1]) \in SlotValues(n)
    BY <2>1, SmallRanges, NumIsNumber, ValuesAre
  <2>. QED BY <1>3, <2>2 DEF ElementOf
<1>4. CASE v.k = "str" /\ InRange(v.chars, index)
  <2>1. v.chars[index + 1] \in UnsignedInts
    BY <1>1, <1>4, KindsAre
  <2>2. Num(v.chars[index + 1]) \in SlotValues(n)
    BY <2>1, SmallRanges, NumIsNumber, ValuesAre
  <2>. QED BY <1>4, <2>2 DEF ElementOf
<1>5. CASE ~ \/ v.k = "array" /\ InRange(arrays[v.id], index)
             \/ v.k = "bytes" /\ InRange(v.b, index)
             \/ v.k = "str" /\ InRange(v.chars, index)
  BY <1>5, ValuesAre DEF ElementOf
<1>. QED BY <1>2, <1>3, <1>4, <1>5

\* Writing one element, in range or not, keeps length and type.
LEMMA SetAtKeeps ==
    ASSUME NEW S, NEW s \in Seq(S), NEW index \in Int, NEW v \in S
    PROVE  SetAt(s, index, v) \in Seq(S) /\ Len(SetAt(s, index, v)) = Len(s)
<1>1. CASE InRange(s, index)
  <2>1. index + 1 \in 1..Len(s)
    BY <1>1 DEF InRange
  <2>2. SetAt(s, index, v) = [s EXCEPT ![index + 1] = v]
    BY <1>1 DEF SetAt
  <2>. QED BY <2>1, <2>2
<1>2. CASE ~ InRange(s, index)
  BY <1>2 DEF SetAt
<1>. QED BY <1>1, <1>2

\* An array written in place: the others, and everything that names one, stay.
LEMMA ArrayWrittenType ==
    ASSUME OpTypeOK, NEW i \in Fetched, NEW id \in 1..Len(arrays), NEW s,
           s \in Seq(Values(Len(arrays))), Len(s) <= MaxArray,
           arrays' = [arrays EXCEPT ![id] = s],
           Answer(i, regs, Continue), UNCHANGED <<fieldMaps, results>>
    PROVE  OpTypeOK'
<1>1. /\ Len(arrays) \in Nat /\ regs \in Frames(Len(arrays))
      /\ MemoryOK(arrays, statics, instances, lastReturn, exception)
  BY FetchedIs
<1>2. arrays \in Seq(Seq(Values(Len(arrays)))) /\ \A n \in DOMAIN arrays : Len(arrays[n]) <= MaxArray
  BY <1>1 DEF MemoryOK
<1>3. /\ arrays' \in Seq(Seq(Values(Len(arrays)))) /\ Len(arrays') = Len(arrays)
      /\ DOMAIN arrays' = DOMAIN arrays
  BY <1>2
<1>4. \A n \in DOMAIN arrays' : Len(arrays'[n]) <= MaxArray
  BY <1>2
<1>5. /\ statics' = statics /\ instances' = instances
      /\ lastReturn' = lastReturn /\ exception' = exception
  BY DEF fieldMaps, results
<1>6. MemoryOK(arrays', statics', instances', lastReturn', exception')
  BY <1>1, <1>3, <1>4, <1>5 DEF MemoryOK
<1>7. regs \in Frames(Len(arrays')) /\ Len(arrays) <= Len(arrays')
  BY <1>1, <1>3
<1>. QED BY <1>6, <1>7, AnswerType

\* array-length.
LEMMA ArrayLengthType ==
    ASSUME OpTypeOK, NEW i \in Fetched, ArrayLength(i)
    PROVE  OpTypeOK'
<1>1. Slot(i.b) \in SlotValues(Len(arrays))
  BY FetchedIs, FrameSlots
<1>2. LengthOf(Slot(i.b)) \in Longs
  BY <1>1, LengthOfIsLong
<1>. QED BY <1>2, WriteNumType DEF ArrayLength

\* new-array adds an array and a handle for it.
LEMMA NewArrayType ==
    ASSUME OpTypeOK, NEW i \in Fetched, NewArray(i)
    PROVE  OpTypeOK'
<1>. DEFINE wanted == IF Reg(i.b) < 0 THEN 0 ELSE Reg(i.b)
            length == IF wanted > MaxArray THEN MaxArray ELSE wanted
            filler == IF i.filled THEN Str(<<>>) ELSE IF faithful THEN Num(0) ELSE Null
            n == Len(arrays)
            added == [j \in 1..length |-> filler]
<1>1. /\ n \in Nat /\ regs \in Frames(n)
      /\ MemoryOK(arrays, statics, instances, lastReturn, exception)
  BY FetchedIs
<1>2. CASE Skip(i)
  BY <1>2, SkipType
<1>3. CASE /\ arrays' = Append(arrays, added)
           /\ Answer(i, Written(regs, i.a, Handle(Len(arrays'))), Continue)
           /\ UNCHANGED <<fieldMaps, results>>
  <2>1. length \in Nat /\ length <= MaxArray
    <3>1. Reg(i.b) \in Int /\ MaxArray \in Nat
      BY <1>1, FrameSlots, LongsAre, OpcodesConstantsOK
    <3>. QED BY <3>1
  <2>2. filler \in Values(n + 1)
    <3>1. 0 \in UnsignedInts /\ 0 \in Longs
      BY IntsFit, IntsAreLongs DEF UnsignedInts
    <3>2. Str(<<>>) \in Strings
      BY <3>1 DEF Str, Strings
    <3>. QED BY <3>1, <3>2, NumIsNumber, ValuesAre
  <2>. HIDE DEF length, filler
  <2>3. added \in Seq(Values(n + 1)) /\ Len(added) = length
    BY <2>1, <2>2
  <2>. HIDE DEF added
  <2>4. /\ arrays \in Seq(Seq(Values(n)))
        /\ \A j \in DOMAIN arrays : Len(arrays[j]) <= MaxArray
        /\ \A x \in DOMAIN statics : statics[x] \in Values(n)
        /\ \A x \in DOMAIN instances : instances[x] \in Numbers
        /\ {lastReturn, exception} \subseteq SlotValues(n)
    BY <1>1 DEF MemoryOK
  <2>5. Values(n) \subseteq Values(n + 1) /\ SlotValues(n) \subseteq SlotValues(n + 1)
    BY <1>1, ValuesGrow
  <2>6. arrays \in Seq(Seq(Values(n + 1)))
    <3>1. \A j \in 1..n : arrays[j] \in Seq(Values(n))
      BY <2>4
    <3>2. Seq(Values(n)) \subseteq Seq(Values(n + 1))
      BY <2>5
    <3>. QED BY <2>4, <3>1, <3>2
  <2>7. Len(arrays') = n + 1 /\ arrays' \in Seq(Seq(Values(n + 1)))
    BY <1>3, <2>3, <2>6
  <2>8. \A j \in DOMAIN arrays' : Len(arrays'[j]) <= MaxArray
    BY <1>3, <2>1, <2>3, <2>4
  <2>9. /\ statics' = statics /\ instances' = instances
        /\ lastReturn' = lastReturn /\ exception' = exception
    BY <1>3 DEF fieldMaps, results
  <2>10. MemoryOK(arrays', statics', instances', lastReturn', exception')
    BY <2>4, <2>5, <2>7, <2>8, <2>9 DEF MemoryOK
  <2>11. regs \in Frames(n + 1) /\ n <= n + 1
    BY <1>1, FramesGrow
  <2>12. Handle(n + 1) \in SlotValues(n + 1)
    BY <1>1, ValuesAre DEF Handle
  <2>13. /\ Written(regs, i.a, Handle(n + 1)) \in Frames(n + 1)
         /\ DOMAIN Written(regs, i.a, Handle(n + 1)) = DOMAIN regs
    BY <2>11, <2>12, WrittenFrame
  <2>. QED BY <1>1, <1>3, <2>7, <2>10, <2>13, AnswerType
<1>. QED BY <1>2, <1>3 DEF NewArray

\* aget.
LEMMA AgetType ==
    ASSUME OpTypeOK, NEW i \in Fetched, Aget(i)
    PROVE  OpTypeOK'
<1>1. Slot(i.b) \in SlotValues(Len(arrays)) /\ Reg(i.c) \in Int
  BY FetchedIs, FrameSlots, LongsAre
<1>2. OrNull(ElementOf(Slot(i.b), Reg(i.c))) \in SlotValues(Len(arrays))
  BY <1>1, ElementIsValue, OrNullIsValue, ValuesAre
<1>. QED BY <1>2, SkipType, WriteType DEF Aget

\* aput, through a handle or into the bytes of a register.
LEMMA AputType ==
    ASSUME OpTypeOK, NEW i \in Fetched, Aput(i)
    PROVE  OpTypeOK'
<1>. DEFINE value == OrNull(Slot(i.a))
            target == Slot(i.b)
            byte == Unsigned(ByteBits, AsInt(value))
            n == Len(arrays)
<1>1. /\ Slot(i.a) \in SlotValues(n) /\ target \in SlotValues(n)
      /\ Reg(i.c) \in Int
  BY FetchedIs, FrameSlots, LongsAre
<1>2. value \in Values(n) /\ value \in SlotValues(n)
  BY <1>1, OrNullIsValue, ValuesAre
<1>3. byte \in 0..2 ^ ByteBits - 1
  <2>. HIDE DEF value
  <2>1. AsInt(value) \in Int /\ ByteBits \in Nat
    BY <1>2, AsIntIsLong, LongsAre, Widths
  <2>2. 2 ^ ByteBits \in Int
    BY <2>1, PowersPositive
  <2>3. byte \in Int /\ 0 <= byte /\ byte < 2 ^ ByteBits
    BY <2>1, UnsignedRange
  <2>. HIDE DEF byte
  <2>. QED BY <2>2, <2>3
<1>. HIDE DEF value, target, byte
<1>4. \/ /\ target.k = "array"
         /\ arrays' = [arrays EXCEPT ![target.id] = SetAt(@, Reg(i.c), value)]
         /\ Answer(i, regs, Continue)
         /\ UNCHANGED <<fieldMaps, results>>
      \/ /\ target.k = "bytes"
         /\ Write(i, i.b, Bytes(SetAt(target.b, Reg(i.c), byte)))
      \/ Skip(i)
  BY DEF Aput, value, target, byte
<1>5. CASE /\ target.k = "array"
           /\ arrays' = [arrays EXCEPT ![target.id] = SetAt(@, Reg(i.c), value)]
           /\ Answer(i, regs, Continue)
           /\ UNCHANGED <<fieldMaps, results>>
  <2>1. target.id \in 1..n
    BY <1>1, <1>5, KindsAre
  <2>. DEFINE s == SetAt(arrays[target.id], Reg(i.c), value)
  <2>2. arrays[target.id] \in Seq(Values(n)) /\ Len(arrays[target.id]) <= MaxArray
    BY <2>1, ArraysAre
  <2>3. s \in Seq(Values(n)) /\ Len(s) = Len(arrays[target.id])
    BY <1>1, <1>2, <2>2, SetAtKeeps
  <2>4. arrays' = [arrays EXCEPT ![target.id] = s]
    BY <1>5
  <2>. HIDE DEF s
  <2>. QED BY <1>5, <2>1, <2>2, <2>3, <2>4, ArrayWrittenType
<1>6. CASE target.k = "bytes" /\ Write(i, i.b, Bytes(SetAt(target.b, Reg(i.c), byte)))
  <2>. DEFINE b == SetAt(target.b, Reg(i.c), byte)
  <2>1. target.b \in Seq(0..2 ^ ByteBits - 1) /\ Len(target.b) \in UnsignedInts
    BY <1>1, <1>6, KindsAre
  <2>2. b \in Seq(0..2 ^ ByteBits - 1) /\ Len(b) = Len(target.b)
    BY <1>1, <1>3, <2>1, SetAtKeeps, ZenonT(60)
  <2>. HIDE DEF b
  <2>3. Bytes(b) \in ByteVectors
    BY <2>1, <2>2 DEF Bytes, ByteVectors
  <2>4. Bytes(b) \in SlotValues(n)
    BY <2>3, ValuesAre
  <2>. QED BY <1>6, <2>4, WriteType DEF b
<1>. QED BY <1>4, <1>5, <1>6, SkipType

\* fill-array-data.
LEMMA FillArrayType ==
    ASSUME OpTypeOK, NEW i \in Fetched, FillArray(i)
    PROVE  OpTypeOK'
<1>. DEFINE target == Slot(i.a)
            cut == {j \in DOMAIN i.data : Len(i.data[j]) < i.width}
            filled(j) == j \in DOMAIN i.data /\ \A m \in cut : j < m
            n == Len(arrays)
            old == arrays[target.id]
            s == [j \in DOMAIN old |-> IF filled(j) THEN Num(Unpacked(i.data[j])) ELSE old[j]]
<1>1. /\ target \in SlotValues(n) /\ regs \in Frames(n) /\ i \in Instrs
  BY FetchedIs, FrameSlots
<1>2. i.kind = "fill-array" /\ Answer(i, regs, Continue) /\ UNCHANGED <<fieldMaps, results>>
  BY DEF FillArray
<1>3. CASE target.k # "array"
  <2>1. UNCHANGED memory
    BY <1>3 DEF FillArray, memory
  <2>. QED BY <1>1, <1>2, <2>1, SameMemoryType
<1>4. CASE target.k = "array"
  <2>1. target.id \in 1..n
    BY <1>1, <1>4, KindsAre
  <2>2. arrays' = [arrays EXCEPT ![target.id] = s]
    BY <1>4, <2>1 DEF FillArray, OpTypeOK
  <2>3. old \in Seq(Values(n)) /\ Len(old) <= MaxArray /\ Len(old) \in Nat
    BY <2>1, ArraysAre
  <2>4. ASSUME NEW j \in DOMAIN i.data PROVE Num(Unpacked(i.data[j])) \in Values(n)
    <3>. DEFINE base == 2 ^ ByteBits
                digits == i.data[j]
    <3>1. digits \in Seq(0..base - 1) /\ base \in Int /\ 0 < base
      <4>1. ByteBits \in Nat
        BY Widths
      <4>2. base \in Int /\ 0 < base
        BY <4>1, PowersPositive
      <4>. QED BY <1>1, <1>2, <2>4, <4>2, FillArrayIs
    <3>. HIDE DEF base, digits
    <3>2. digits \in Seq(Int) /\ base # 0
      BY <3>1
    <3>3. Number(base, digits) \in Int
      BY <3>1, <3>2, NumberIsInt
    <3>4. Unpacked(digits) \in Longs
      BY <3>3, LongsAre DEF Unpacked, base
    <3>. QED BY <3>4, NumIsNumber, ValuesAre DEF digits
  <2>. HIDE DEF target, old, cut
  <2>5. \A j \in DOMAIN old : (IF filled(j) THEN Num(Unpacked(i.data[j])) ELSE old[j]) \in Values(n)
    BY <2>3, <2>4
  <2>. HIDE DEF filled
  <2>6. s \in Seq(Values(n)) /\ Len(s) = Len(old)
    <3>1. DOMAIN old = 1..Len(old)
      BY <2>3
    <3>2. s \in [1..Len(old) -> Values(n)]
      BY <2>5, <3>1
    <3>. HIDE DEF s
    <3>. QED BY <2>3, <3>2
  <2>. HIDE DEF s
  <2>. QED BY <1>2, <2>1, <2>2, <2>3, <2>6, ArrayWrittenType
<1>. QED BY <1>3, <1>4

\* A field map with one field more.
LEMMA WithIs ==
    ASSUME NEW map, NEW key, NEW v, NEW S, NEW x \in DOMAIN With(map, key, v),
           v \in S, \A y \in DOMAIN map : map[y] \in S
    PROVE  With(map, key, v)[x] \in S
BY DEF With

\* A field, or none.
LEMMA FieldOfIs ==
    ASSUME NEW map, NEW key, NEW n, \A y \in DOMAIN map : map[y] \in Values(n)
    PROVE  FieldOf(map, key) \in SlotValues(n)
BY ValuesAre DEF FieldOf

\* A value put into a static field.
LEMMA StaticPutType ==
    ASSUME OpTypeOK, NEW i \in Fetched, NEW v \in Values(Len(arrays)),
           statics' = With(statics, i.field, v),
           Answer(i, regs, Continue), UNCHANGED <<arrays, instances, results>>
    PROVE  OpTypeOK'
<1>1. /\ Len(arrays) \in Nat /\ regs \in Frames(Len(arrays))
      /\ MemoryOK(arrays, statics, instances, lastReturn, exception)
  BY FetchedIs
<1>2. \A x \in DOMAIN statics' : statics'[x] \in Values(Len(arrays))
  <2>1. \A x \in DOMAIN statics : statics[x] \in Values(Len(arrays))
    BY <1>1 DEF MemoryOK
  <2>2. \A x \in DOMAIN With(statics, i.field, v) :
           With(statics, i.field, v)[x] \in Values(Len(arrays))
    BY <2>1, WithIs
  <2>. QED BY <2>2
<1>3. /\ arrays' = arrays /\ instances' = instances
      /\ lastReturn' = lastReturn /\ exception' = exception
  BY DEF results
<1>4. MemoryOK(arrays', statics', instances', lastReturn', exception')
  BY <1>1, <1>2, <1>3 DEF MemoryOK
<1>5. regs \in Frames(Len(arrays')) /\ Len(arrays) <= Len(arrays')
  BY <1>1, <1>3
<1>. QED BY <1>4, <1>5, AnswerType

\* A number put into an instance field.
LEMMA InstancePutType ==
    ASSUME OpTypeOK, NEW i \in Fetched, NEW result,
           \A x \in DOMAIN instances' : instances'[x] \in Numbers,
           Answer(i, regs, result), UNCHANGED <<arrays, statics, results>>
    PROVE  OpTypeOK'
<1>1. /\ Len(arrays) \in Nat /\ regs \in Frames(Len(arrays))
      /\ MemoryOK(arrays, statics, instances, lastReturn, exception)
  BY FetchedIs
<1>2. /\ arrays' = arrays /\ statics' = statics
      /\ lastReturn' = lastReturn /\ exception' = exception
  BY DEF results
<1>3. MemoryOK(arrays', statics', instances', lastReturn', exception')
  BY <1>1, <1>2 DEF MemoryOK
<1>4. regs \in Frames(Len(arrays')) /\ Len(arrays) <= Len(arrays')
  BY <1>1, <1>2
<1>. QED BY <1>3, <1>4, AnswerType

\* iput of faithful mode, which may panic between its two writes.
LEMMA FaithfulIPutType ==
    ASSUME OpTypeOK, NEW i \in Fetched, FaithfulIPut(i)
    PROVE  OpTypeOK'
<1>. DEFINE stored == IF i.wide THEN Shl(Reg(i.a), IntBits) ELSE Reg(i.a)
            high == With(instances, i.field, Num(stored))
            sum == AsInt(FieldOf(high, i.a)) + Reg(i.a + 1)
            final == IF i.wide THEN With(high, i.a, Num(Long(sum))) ELSE high
<1>1. regs \in Frames(Len(arrays)) /\ \A x \in DOMAIN instances : instances[x] \in Numbers
  BY FetchedIs DEF MemoryOK
<1>2. Reg(i.a) \in Longs /\ Reg(i.a + 1) \in Longs
  BY <1>1, FrameSlots
<1>3. stored \in Longs
  BY <1>2, LongsAre, Widths, Shifts
<1>. HIDE DEF stored
<1>4. \A x \in DOMAIN high : high[x] \in Numbers
  <2>1. Num(stored) \in Numbers
    BY <1>3, NumIsNumber
  <2>. QED BY <1>1, <2>1, WithIs
<1>. HIDE DEF high
<1>5. sum \in Int
  <2>1. \A y \in DOMAIN high : high[y] \in Values(0)
    BY <1>4, ValuesAre
  <2>2. AsInt(FieldOf(high, i.a)) \in Longs
    BY <2>1, FieldOfIs, AsIntIsLong
  <2>3. AsInt(FieldOf(high, i.a)) \in Int /\ Reg(i.a + 1) \in Int
    BY <1>2, <2>2, LongsAre
  <2>. QED BY <2>3
<1>. HIDE DEF sum
<1>6. \A x \in DOMAIN final : final[x] \in Numbers
  <2>1. Num(Long(sum)) \in Numbers
    BY <1>5, LongsAre, NumIsNumber
  <2>2. \A x \in DOMAIN With(high, i.a, Num(Long(sum))) :
           With(high, i.a, Num(Long(sum)))[x] \in Numbers
    BY <1>4, <2>1, WithIs
  <2>. QED BY <1>4, <2>2
<1>7. \/ /\ Answer(i, regs, Died)
         /\ instances' = high
         /\ UNCHANGED <<arrays, statics, results>>
      \/ /\ Answer(i, regs, Continue)
         /\ instances' = final
         /\ UNCHANGED <<arrays, statics, results>>
  <2>1. high = With(instances, i.field,
                    Num(IF i.wide THEN Shl(Reg(i.a), IntBits) ELSE Reg(i.a)))
    BY DEF high, stored
  <2>2. sum = AsInt(FieldOf(high, i.a)) + Reg(i.a + 1)
    BY DEF sum
  <2>. QED BY <2>1, <2>2 DEF FaithfulIPut
<1>. HIDE DEF final
<1>. QED BY <1>4, <1>6, <1>7, InstancePutType

\* Field accesses, in both modes.
LEMMA FieldType ==
    ASSUME OpTypeOK, NEW i \in Fetched, Field(i)
    PROVE  OpTypeOK'
<1>. DEFINE n == Len(arrays)
<1>1. /\ i \in Instrs /\ regs \in Frames(n) /\ n \in Nat
      /\ \A x \in DOMAIN statics : statics[x] \in Values(n)
      /\ \A x \in DOMAIN instances : instances[x] \in Values(n)
  BY FetchedIs, ValuesAre DEF MemoryOK
<1>2. \A r : Slot(r) \in SlotValues(n) /\ Reg(r) \in Longs
  BY <1>1, FrameSlots
<1>3. CASE InlineGet(i)
  <2>1. OrNull(FieldOf(statics, i.field)) \in SlotValues(n)
    BY <1>1, FieldOfIs, OrNullIsValue, ValuesAre
  <2>. QED BY <1>3, <2>1, WriteType DEF InlineGet
<1>4. CASE InlinePut(i)
  <2>1. OrNull(Slot(i.a)) \in Values(n)
    BY <1>2, OrNullIsValue
  <2>. QED BY <1>4, <2>1, StaticPutType DEF InlinePut
<1>5. CASE FaithfulIGet(i)
  <2>. DEFINE v == AsInt(FieldOf(instances, i.field))
  <2>1. v \in Longs
    BY <1>1, FieldOfIs, AsIntIsLong
  <2>. HIDE DEF v
  <2>2. Goes(i, WrittenPair(regs, i.a, v)) \/ Write(i, i.a, Num(v))
    BY <1>5 DEF FaithfulIGet, v
  <2>3. /\ WrittenPair(regs, i.a, v) \in Frames(n)
        /\ DOMAIN WrittenPair(regs, i.a, v) = DOMAIN regs
    BY <1>1, <2>1, WrittenPairFrame
  <2>. QED BY <2>1, <2>2, <2>3, GoesType, WriteNumType
<1>6. CASE i.kind = "sget" /\ FaithfulSGet(i)
  <2>. DEFINE v == FieldOf(statics, i.field)
              w == IF HasInt(v) THEN Num(AsInt(v)) ELSE v
              read == Written(regs, i.a, w)
              emptied == Written(read, i.a + 1, None)
              pair == WrittenPair(regs, i.a, AsInt(v))
  <2>1. v \in SlotValues(n)
    BY <1>1, FieldOfIs
  <2>2. AsInt(v) \in Longs
    BY <2>1, AsIntIsLong
  <2>3. w \in SlotValues(n) /\ None \in SlotValues(n)
    BY <2>1, <2>2, NumIsNumber, ValuesAre
  <2>4. read \in Frames(n) /\ DOMAIN read = DOMAIN regs
    BY <1>1, <2>3, WrittenFrame
  <2>5. pair \in Frames(n) /\ DOMAIN pair = DOMAIN regs
    BY <1>1, <2>2, WrittenPairFrame
  <2>6. emptied \in Frames(n) /\ DOMAIN emptied = DOMAIN regs
    <3>. HIDE DEF read
    <3>. QED BY <2>3, <2>4, WrittenFrame
  <2>7. i.wide \in BOOLEAN
    BY <1>1, <1>6, FieldOpIs
  <2>8. \/ Goes(i, read)
        \/ Goes(i, emptied)
        \/ Goes(i, pair)
    BY <1>6, <2>7 DEF FaithfulSGet
  <2>. HIDE DEF read, pair, emptied
  <2>. QED BY <2>4, <2>5, <2>6, <2>8, GoesType
<1>7. CASE FaithfulSPut(i)
  <2>. DEFINE v == OrNull(Slot(i.a))
              pair == IF HasInt(v) THEN Long(Shl(AsInt(v), IntBits) + Reg(i.a + 1)) ELSE 0
              w == IF i.wide THEN Num(pair) ELSE v
  <2>1. v \in Values(n) /\ v \in SlotValues(n)
    BY <1>2, OrNullIsValue, ValuesAre
  <2>2. pair \in Longs
    <3>1. AsInt(v) \in Int
      BY <2>1, AsIntIsLong, LongsAre
    <3>. HIDE DEF v
    <3>2. Shl(AsInt(v), IntBits) \in Int /\ Reg(i.a + 1) \in Int
      BY <1>2, <3>1, Widths, Shifts, LongsAre
    <3>3. Shl(AsInt(v), IntBits) + Reg(i.a + 1) \in Int
      BY <3>2
    <3>4. Long(Shl(AsInt(v), IntBits) + Reg(i.a + 1)) \in Longs
      BY <3>3, LongsAre
    <3>. QED BY <3>4, IntsAreLongs
  <2>3. w \in Values(n)
    <3>. HIDE DEF v, pair
    <3>. QED BY <2>1, <2>2, NumIsNumber, ValuesAre
  <2>4. statics' = With(statics, i.field, w)
    BY <1>7 DEF FaithfulSPut
  <2>5. Answer(i, regs, Continue) /\ UNCHANGED <<arrays, instances, results>>
    BY <1>7 DEF FaithfulSPut
  <2>. HIDE DEF w
  <2>. QED BY <2>3, <2>4, <2>5, StaticPutType
<1>8. CASE FaithfulIPut(i)
  BY <1>8, FaithfulIPutType
<1>. QED BY <1>3, <1>4, <1>5, <1>6, <1>7, <1>8 DEF Field

\* Programs start well typed.
LEMMA OpInitType == OpInit => OpTypeOK
<1>. SUFFICES ASSUME OpInit PROVE OpTypeOK
  OBVIOUS
<1>1. PICK start \in Cases : program = start.program /\ regs = start.regs /\ lastReturn = start.last
  BY DEF OpInit
<1>2. /\ arrays = <<>> /\ statics = <<>> /\ instances = <<>> /\ exception = None
      /\ before = regs /\ done = <<>> /\ faithful \in BOOLEAN
  BY DEF OpInit
<1>3. Len(arrays) = 0
  BY <1>2
<1>4. program \in Seq(Instrs)
  <2>. DEFINE n == Len(start.program)
  <2>1. n \in Nat /\ start.program = [k \in 1..n |-> start.program[k]]
    BY CasesOK
  <2>2. \A k \in 1..n : start.program[k] \in Instrs
    BY <2>1 DEF Instrs
  <2>. DEFINE f(k) == start.program[k]
  <2>3. start.program = [k \in 1..n |-> f(k)] /\ \A k \in 1..n : f(k) \in Instrs
    BY <2>1, <2>2
  <2>. HIDE DEF n, f
  <2>4. [k \in 1..n |-> f(k)] \in Seq(Instrs)
    BY <2>1, <2>3
  <2>. QED BY <1>1, <2>3, <2>4
<1>5. \E n \in RegNumbers : {regs, before} \subseteq [0..n - 1 -> SlotValues(0)]
  <2>1. PICK n \in RegNumbers : start.regs \in [0..n - 1 -> SlotValues(0)]
    BY CasesOK
  <2>. QED BY <1>1, <1>2, <2>1
<1>6. {lastReturn, exception} \subseteq SlotValues(0)
  BY <1>1, <1>2, CasesOK, ValuesAre
<1>7. /\ arrays \in Seq(Seq(Values(0))) /\ done \in Seq(Instrs)
      /\ \A n \in DOMAIN arrays : Len(arrays[n]) <= MaxArray
      /\ DOMAIN statics = {} /\ DOMAIN instances = {}
  BY <1>2
<1>. QED BY <1>2, <1>3, <1>4, <1>5, <1>6, <1>7 DEF OpTypeOK

\* Every instruction keeps the type invariant.
LEMMA OpStepType ==
    ASSUME OpTypeOK, [OpNext]_opVars
    PROVE  OpTypeOK'
<1>1. CASE UNCHANGED opVars
  BY <1>1 DEF opVars, memory, fieldMaps, results, OpTypeOK
<1>2. ASSUME NEW i \in Fetched, Binary(i) \/ Unary(i) \/ Cmp(i) PROVE OpTypeOK'
  BY <1>2, BinaryType, UnaryType, CmpType
<1>3. ASSUME NEW i \in Fetched, Goto(i) \/ If(i) \/ Switch(i) \/ Throw(i) \/ ReturnValue(i)
      PROVE  OpTypeOK'
  BY <1>3, JumpType, SwitchType, ThrowType, ReturnValueType
<1>4. ASSUME NEW i \in Fetched, Move(i) \/ MoveResult(i) \/ Const(i) \/ NewInstance(i) \/ NoOp(i)
      PROVE  OpTypeOK'
  BY <1>4, PlainType
<1>5. ASSUME NEW i \in Fetched,
             ArrayLength(i) \/ NewArray(i) \/ Aget(i) \/ Aput(i) \/ FillArray(i) \/ Field(i)
      PROVE  OpTypeOK'
  BY <1>5, ArrayLengthType, NewArrayType, AgetType, AputType, FillArrayType, FieldType
<1>. QED BY <1>1, <1>2, <1>3, <1>4, <1>5 DEF OpNext

\* Every register, array element and field holds a value that Value can be: numbers
\* stay within 64 bits whatever both interpreters compute, a handle names an array
\* that exists, and the instance fields of faithful mode are numbers.
THEOREM OpTypesAlways == OpSpec => []OpTypeOK
<1>1. OpInit => OpTypeOK
  BY OpInitType
<1>2. OpTypeOK /\ [OpNext]_opVars => OpTypeOK'
  BY OpStepType
<1>. QED BY <1>1, <1>2, PTL DEF OpSpec

-----------------------------------------------------------------------------
\* Arithmetic and jumps are right after every instruction: a binary instruction and
\* a branch say so of the one that has just been executed, the others say nothing.
LEMMA LatestIsNew ==
    ASSUME OpTypeOK, NEW i \in Fetched, NEW rs, NEW result, Answer(i, rs, result)
    PROVE  /\ Latest' = i /\ done' # <<>> /\ before' = regs /\ regs' = rs
           /\ outcome' = result /\ faithful' = faithful
           /\ \A kinds : LatestIs(kinds)' <=> i.kind \in kinds
           /\ \A r : BeforeReg(r)' = Reg(r) /\ BeforeSlot(r)' = Slot(r)
<1>1. i \in Instrs /\ done \in Seq(Instrs)
  BY FetchedIs DEF OpTypeOK
<1>2. /\ regs' = rs /\ before' = regs /\ done' = Append(done, i) /\ outcome' = result
      /\ faithful' = faithful
  BY DEF Answer
<1>3. done' # <<>> /\ done'[Len(done')] = i
  BY <1>1, <1>2
<1>4. Latest' = i
  BY <1>3 DEF Latest
<1>5. \A r : BeforeReg(r)' = Reg(r) /\ BeforeSlot(r)' = Slot(r)
  BY <1>2 DEF BeforeReg, BeforeSlot, Reg, Slot
<1>6. \A kinds : LatestIs(kinds)' <=> i.kind \in kinds
  BY <1>3, <1>4 DEF LatestIs
<1>. QED BY <1>2, <1>3, <1>4, <1>5, <1>6


\* What every way to end an instruction answers.
LEMMA GoesAnswers ==
    ASSUME NEW i, NEW rs, NEW r, NEW v
    PROVE  /\ Goes(i, rs) => Answer(i, rs, Continue)
           /\ Skip(i) => Answer(i, regs, Continue)
           /\ Write(i, r, v) => Answer(i, Written(regs, r, v), Continue)
           /\ Dies(i) => Answer(i, regs, Died)
BY DEF Goes, Skip, Write, Dies

Plain(i) ==
    /\ i.kind \notin {"binary", "goto", "if", "ifz"}
    /\ \E rs, result : Answer(i, rs, result)

\* Only arithmetic and branches are of interest to the next two theorems.
LEMMA OthersArePlain ==
    ASSUME OpTypeOK, NEW i \in Fetched,
           \/ Unary(i) \/ Cmp(i) \/ Switch(i) \/ Throw(i) \/ ReturnValue(i)
           \/ Move(i) \/ MoveResult(i) \/ Const(i) \/ NewInstance(i) \/ NoOp(i)
           \/ ArrayLength(i) \/ NewArray(i) \/ Aget(i) \/ Aput(i) \/ FillArray(i) \/ Field(i)
    PROVE  Plain(i)
<1>. DEFINE answers == \E rs, result : Answer(i, rs, result)
<1>1. ASSUME NEW rs, Goes(i, rs) PROVE answers
  BY <1>1, GoesAnswers
<1>2. ASSUME NEW r, NEW v, Write(i, r, v) PROVE answers
  BY <1>2, GoesAnswers
<1>3. Skip(i) => answers
  BY GoesAnswers
<1>4. ASSUME NEW rs, NEW result, Answer(i, rs, result) PROVE answers
  BY <1>4
<1>. HIDE DEF answers
<1>5. CASE Unary(i)
  <2>1. i.op \in Conversions
    BY <1>5, FetchedIs, UnaryIs DEF Unary
  <2>2. answers
    BY <1>1, <1>2, <1>3, <1>5, <2>1 DEF Unary, FaithfulUnary, InlineUnary, Conversions
  <2>. QED BY <1>5, <2>2 DEF Unary, Plain, answers
<1>6. CASE Cmp(i)
  <2>1. answers
    BY <1>2, <1>3, <1>6 DEF Cmp
  <2>. QED BY <1>6, <2>1 DEF Cmp, Plain, answers
<1>7. CASE Switch(i) \/ Throw(i) \/ ReturnValue(i)
  <2>1. answers
    BY <1>3, <1>4, <1>7 DEF Switch, Throw, ReturnValue
  <2>. QED BY <1>7, <2>1 DEF Switch, Throw, ReturnValue, Plain, answers
<1>8. CASE Move(i) \/ MoveResult(i) \/ Const(i) \/ NewInstance(i) \/ NoOp(i)
  <2>1. answers
    BY <1>1, <1>2, <1>3, <1>8 DEF Move, MoveResult, Const, NewInstance, NoOp
  <2>. QED BY <1>8, <2>1 DEF Move, MoveResult, Const, NewInstance, NoOp, Plain, answers
<1>9. CASE ArrayLength(i) \/ NewArray(i) \/ Aget(i) \/ Aput(i) \/ FillArray(i)
  <2>1. answers
    BY <1>2, <1>3, <1>4, <1>9 DEF ArrayLength, NewArray, Aget, Aput, FillArray
  <2>. QED BY <1>9, <2>1 DEF ArrayLength, NewArray, Aget, Aput, FillArray, Plain, answers
<1>10. CASE Field(i)
  <2>1. i.kind \in {"iget", "iput", "sget", "sput"}
    BY <1>10 DEF Field
  <2>2. CASE InlineGet(i) \/ InlinePut(i) \/ FaithfulIGet(i) \/ FaithfulIPut(i) \/ FaithfulSPut(i)
    <3>1. answers
      BY <1>1, <1>2, <1>4, <2>2 DEF InlineGet, InlinePut, FaithfulIGet, FaithfulIPut, FaithfulSPut
    <3>. QED BY <2>1, <3>1 DEF Plain, answers
  <2>3. CASE FaithfulSGet(i)
    <3>1. answers
      BY <1>1, <2>3 DEF FaithfulSGet
    <3>. QED BY <2>1, <3>1 DEF Plain, answers
  <2>. QED BY <1>10, <2>2, <2>3 DEF Field
<1>. QED BY <1>5, <1>6, <1>7, <1>8, <1>9, <1>10

\* A binary instruction leaves the right value in its register.
LEMMA BinaryRight ==
    ASSUME OpTypeOK, NEW i \in Fetched, Binary(i)
    PROVE  ArithmeticRight'
<1>1. i \in Instrs /\ regs \in Frames(Len(arrays)) /\ i.kind = "binary"
  BY FetchedIs DEF Binary
<1>2. /\ i.op \in IntOps
      /\ i.type \in {"int", "long", "float", "double"}
      /\ i.form \in {"23x", "2addr", "lit"}
      /\ i.form = "lit" => i.lit \in Longs
  BY <1>1, BinaryIs, IntsAreLongs
<1>3. \A r : Reg(r) \in Longs
  BY <1>1, FrameSlots
<1>. DEFINE b == Reg(IF i.form = "2addr" THEN i.a ELSE i.b)
            c == IF i.form = "lit" THEN i.lit ELSE Reg(IF i.form = "2addr" THEN i.b ELSE i.c)
            reversed == i.form = "lit" /\ i.op = "sub"
            x == IF reversed THEN c ELSE b
            y == IF reversed THEN b ELSE c
<1>4. x \in Longs /\ y \in Longs
  BY <1>2, <1>3
<1>5. ASSUME NEW rs, NEW result, Answer(i, rs, result)
      PROVE  /\ Operands'[1] = x /\ Operands'[2] = y
             /\ Latest' = i /\ regs' = rs /\ outcome' = result /\ faithful' = faithful
  <2>1. Latest' = i /\ before' = regs /\ regs' = rs /\ outcome' = result /\ faithful' = faithful
    BY <1>5, LatestIsNew
  <2>2. Operands' = <<x, y>>
    BY <2>1 DEF Operands, BeforeReg, BeforeSlot, Reg, Slot
  <2>. HIDE DEF x, y
  <2>. QED BY <2>1, <2>2
<1>6. ASSUME faithful PROVE ArithmeticRight'
  <2>. DEFINE V(o) == FaithfulAlu(i.op, "int", x, y, o)
  <2>1. CASE i.type = "int"
    <3>1. PICK o \in BOOLEAN : IF V(o) = Panic THEN Dies(i) ELSE Write(i, i.a, V(o))
      BY <1>6, <2>1 DEF Binary, FaithfulBinary
    <3>. DEFINE v == V(o)
                overflows == i.op \in {"div", "rem"} /\ DivisionOverflows(x, y)
                checked == i.op \in {"shr", "ushr"} /\ TruncRem(y, IntBits) < 0
    <3>2. v # Panic => v = Num(PyAlu(i.op, x, y))
      <4>. HIDE DEF x, y
      <4>. QED BY <1>2, <1>4, FaithfulAluRight
    <3>5. /\ overflows => v = Panic
          /\ v = Panic => overflows \/ checked
      <4>. HIDE DEF x, y
      <4>. QED BY <1>2, <1>4, FaithfulPanics
    <3>. HIDE DEF v, x, y
    <3>3. CASE v = Panic
      <4>1. Answer(i, regs, Died)
        BY <3>1, <3>3, GoesAnswers DEF v
      <4>2. /\ Operands'[1] = x /\ Operands'[2] = y
            /\ Latest' = i /\ outcome' = Died /\ faithful'
        BY <1>5, <1>6, <4>1
      <4>3. AluMatchesReference'
        BY <3>3, <3>5, <4>2 DEF AluMatchesReference
      <4>. QED BY <4>2, <4>3 DEF ArithmeticRight, InlineArithmeticRight
    <3>4. CASE v # Panic
      <4>1. Answer(i, Written(regs, i.a, v), Continue)
        BY <3>1, <3>4, GoesAnswers DEF v
      <4>2. /\ Operands'[1] = x /\ Operands'[2] = y
            /\ Latest' = i /\ regs' = Written(regs, i.a, v) /\ faithful'
            /\ outcome' = Continue
        BY <1>5, <1>6, <4>1
      <4>5. Continue # Died
        BY DEF Continue, Died
      <4>3. i.a \in DOMAIN regs' => regs'[i.a] = v
        BY <4>2 DEF Written
      <4>4. AluMatchesReference'
        BY <2>1, <3>2, <3>4, <3>5, <4>2, <4>3, <4>5 DEF AluMatchesReference
      <4>. QED BY <4>2, <4>4 DEF ArithmeticRight, InlineArithmeticRight
    <3>. QED BY <3>3, <3>4
  <2>2. CASE i.type # "int"
    <3>1. \E rs, result : Answer(i, rs, result)
      BY <1>6, <2>2, GoesAnswers DEF Binary, FaithfulBinary
    <3>2. Latest' = i /\ faithful'
      BY <1>5, <1>6, <3>1
    <3>. QED BY <2>2, <3>2 DEF ArithmeticRight, AluMatchesReference, InlineArithmeticRight
  <2>. QED BY <2>1, <2>2
<1>7. ASSUME ~ faithful PROVE ArithmeticRight'
  <2>. DEFINE z == InlineAlu(i.form, i.op, i.type, x, y)
  <2>1. CASE i.type \in {"int", "long"}
    <3>1. IF InlinePanics(i.op, x, y) THEN Dies(i) ELSE Write(i, i.a, Num(z))
      BY <1>7, <2>1 DEF Binary, InlineBinary
    <3>. DEFINE bits == IF i.type = "int" THEN IntBits ELSE LongBits
                arithmetic == i.type = "int" /\ i.op = "ushr" /\ i.form = "23x"
                op == IF arithmetic THEN "shr" ELSE i.op
                overflows == i.op \in {"div", "rem"} /\ DivisionOverflows(x, y)
    <3>2. Signed(bits, z) = DalvikAlu(bits, op, x, y)
      <4>. HIDE DEF x, y
      <4>1. ~ arithmetic => Signed(bits, z) = DalvikAlu(bits, i.op, x, y)
        BY <1>2, <1>4, <2>1, InlineAluRight, ZenonT(60)
      <4>2. arithmetic => Signed(bits, z) = DalvikAlu(bits, "shr", x, y)
        BY <1>4, WideUshrIsShr
      <4>. QED BY <4>1, <4>2
    <3>5. InlinePanics(i.op, x, y) <=> overflows
      BY DEF InlinePanics
    <3>. HIDE DEF x, y, z
    <3>3. CASE InlinePanics(i.op, x, y)
      <4>1. Answer(i, regs, Died)
        BY <3>1, <3>3, GoesAnswers
      <4>2. /\ Operands'[1] = x /\ Operands'[2] = y
            /\ Latest' = i /\ outcome' = Died /\ ~ faithful'
        BY <1>5, <1>7, <4>1
      <4>3. InlineArithmeticRight'
        BY <3>3, <3>5, <4>2 DEF InlineArithmeticRight
      <4>. QED BY <4>2, <4>3 DEF ArithmeticRight, AluMatchesReference
    <3>4. CASE ~ InlinePanics(i.op, x, y)
      <4>1. Answer(i, Written(regs, i.a, Num(z)), Continue)
        BY <3>1, <3>4, GoesAnswers
      <4>2. /\ Operands'[1] = x /\ Operands'[2] = y
            /\ Latest' = i /\ regs' = Written(regs, i.a, Num(z)) /\ ~ faithful'
            /\ outcome' = Continue
        BY <1>5, <1>7, <4>1
      <4>5. Continue # Died
        BY DEF Continue, Died
      <4>3. i.a \in DOMAIN regs' => regs'[i.a].n = z
        BY <4>2 DEF Written, Num
      <4>4. InlineArithmeticRight'
        <5>1. Signed(bits, regs[i.a].n)' = DalvikAlu(bits, op, x, y) \/ i.a \notin DOMAIN regs'
          BY <3>2, <4>3 DEF Signed, Unsigned
        <5>. HIDE DEF bits, op
        <5>2. outcome' # Died /\ ~ overflows
          BY <3>4, <3>5, <4>2, <4>5
        <5>. QED BY <4>2, <5>1, <5>2 DEF InlineArithmeticRight, bits, op
      <4>. QED BY <4>2, <4>4 DEF ArithmeticRight, AluMatchesReference
    <3>. QED BY <3>3, <3>4
  <2>2. CASE i.type \notin {"int", "long"}
    <3>1. \E rs, result : Answer(i, rs, result)
      BY <1>7, <2>2, GoesAnswers DEF Binary, InlineBinary
    <3>2. Latest' = i /\ ~ faithful'
      BY <1>5, <1>7, <3>1
    <3>. QED BY <2>2, <3>2 DEF ArithmeticRight, AluMatchesReference, InlineArithmeticRight
  <2>. QED BY <2>1, <2>2
<1>. QED BY <1>6, <1>7

\* What arithmetic leaves and when it kills the thread, on every operand, form and
\* width of either mode: the faithful one by the Python interpreter on unbounded
\* integers, the inline one by Dalvik's operation on as many bits as the type has.
THEOREM ArithmeticIsRight == OpSpec => []ArithmeticRight
<1>1. OpInit => ArithmeticRight
  BY DEF OpInit, ArithmeticRight, AluMatchesReference, InlineArithmeticRight, LatestIs
<1>2. ASSUME OpTypeOK, ArithmeticRight, [OpNext]_opVars
      PROVE  ArithmeticRight'
  <2>1. CASE UNCHANGED opVars
    <3>1. UNCHANGED <<faithful, regs, outcome, before, done>>
      BY <2>1 DEF opVars
    <3>2. Latest' = Latest /\ Operands' = Operands
          /\ LatestIs({"binary"})' = LatestIs({"binary"})
      BY <3>1 DEF LatestIs, Latest, Operands, BeforeReg, BeforeSlot
    <3>3. AluMatchesReference' = AluMatchesReference
      BY <3>1, <3>2 DEF AluMatchesReference
    <3>4. InlineArithmeticRight' = InlineArithmeticRight
      BY <3>1, <3>2 DEF InlineArithmeticRight
    <3>. QED BY <1>2, <3>3, <3>4 DEF ArithmeticRight
  <2>2. ASSUME NEW i \in Fetched, Binary(i) PROVE ArithmeticRight'
    BY <1>2, <2>2, BinaryRight
  <2>3. ASSUME NEW i \in Fetched, i.kind # "binary", \E rs, result : Answer(i, rs, result)
        PROVE  ArithmeticRight'
    <3>1. ~ LatestIs({"binary"})'
      BY <1>2, <2>3, LatestIsNew
    <3>. QED BY <3>1 DEF ArithmeticRight, AluMatchesReference, InlineArithmeticRight
  <2>4. ASSUME NEW i \in Fetched, Plain(i) PROVE ArithmeticRight'
    BY <2>3, <2>4 DEF Plain
  <2>5. ASSUME NEW i \in Fetched, Goto(i) \/ If(i) PROVE ArithmeticRight'
    <3>1. i.kind # "binary" /\ \E rs, result : Answer(i, rs, result)
      BY <2>5 DEF Goto, If
    <3>. QED BY <2>3, <3>1
  <2>6. CASE OpNext
    <3>1. PICK i \in Fetched : Binary(i) \/ Goto(i) \/ If(i) \/ Plain(i)
      BY <1>2, <2>6, OthersArePlain DEF OpNext
    <3>. QED BY <2>2, <2>4, <2>5, <3>1
  <2>. QED BY <1>2, <2>1, <2>6, SMTT(40)
<1>. QED BY <1>1, <1>2, OpTypesAlways, PTL DEF OpSpec

-----------------------------------------------------------------------------
\* Shifts and masks extend an offset alike.
LEMMA JumpByLands ==
    ASSUME NEW i, i.at \in Int, i.offset \in Int, NEW w \in {ByteBits, ShortBits, IntBits}
    PROVE  JumpBy(i, w) = Jump(Unsigned(IntBits, i.at + Signed(w, i.offset)))
<1>1. w \in Nat \ {0} /\ w <= LongBits /\ w < LongBits
  BY Widths
<1>2. SignExtendByShifts(i.offset, w) = Signed(w, i.offset)
  BY <1>1, ShiftsExtendSign
<1>3. SignExtend(i.offset, w) = Signed(w, i.offset)
  BY <1>1, MasksExtendSign
<1>. QED BY <1>2, <1>3 DEF JumpBy

\* A taken branch lands where its format says in both modes, whether the offset is
\* extended by shifting or by masking, for every width, place and offset.
THEOREM JumpsAlwaysLand == OpSpec => []JumpsLand
<1>1. OpInit => JumpsLand
  BY DEF OpInit, JumpsLand, LatestIs
<1>2. ASSUME OpTypeOK, JumpsLand, [OpNext]_opVars
      PROVE  JumpsLand'
  <2>1. CASE UNCHANGED opVars
    BY <1>2, <2>1 DEF opVars, JumpsLand, LatestIs, Latest
  <2>2. ASSUME NEW i \in Fetched, Goto(i) \/ If(i) PROVE JumpsLand'
    <3>1. i \in Instrs /\ i.kind \in {"goto", "if", "ifz"}
      BY <1>2, <2>2, FetchedIs DEF Goto, If
    <3>2. /\ i.at \in Int /\ i.offset \in Int
          /\ i.kind = "goto" => i.width \in {ByteBits, ShortBits, IntBits}
      BY <3>1, BranchIs
    <3>. DEFINE w == IF i.kind = "goto" THEN i.width ELSE ShortBits
                to == Unsigned(IntBits, i.at + Signed(w, i.offset))
    <3>3. w \in {ByteBits, ShortBits, IntBits}
      BY <3>2
    <3>4. PICK result \in {JumpBy(i, w), NotTaken} : Answer(i, regs, result)
      BY <2>2, <3>1 DEF Goto, If
    <3>. HIDE DEF w
    <3>5. JumpBy(i, w) = Jump(to)
      BY <3>2, <3>3, JumpByLands
    <3>6. outcome' \in {Jump(to), NotTaken} /\ Latest' = i
      BY <1>2, <3>4, <3>5, LatestIsNew
    <3>7. outcome'.r = "jump" => outcome'.to = to
      <4>. HIDE DEF to
      <4>. QED BY <3>6 DEF Jump, NotTaken
    <3>. QED BY <3>6, <3>7 DEF JumpsLand, w
  <2>3. ASSUME NEW i \in Fetched, i.kind \notin {"goto", "if", "ifz"},
               \E rs, result : Answer(i, rs, result)
        PROVE  JumpsLand'
    <3>1. ~ LatestIs({"goto", "if", "ifz"})'
      BY <1>2, <2>3, LatestIsNew
    <3>. QED BY <3>1 DEF JumpsLand
  <2>4. ASSUME NEW i \in Fetched, Plain(i) PROVE JumpsLand'
    BY <2>3, <2>4 DEF Plain
  <2>5. ASSUME NEW i \in Fetched, Binary(i) PROVE JumpsLand'
    <3>1. i.kind = "binary"
      BY <2>5 DEF Binary
    <3>2. \E rs, result : Answer(i, rs, result)
      BY <2>5, GoesAnswers DEF Binary, FaithfulBinary, InlineBinary
    <3>. QED BY <2>3, <3>1, <3>2
  <2>6. CASE OpNext
    <3>1. PICK i \in Fetched : Binary(i) \/ Goto(i) \/ If(i) \/ Plain(i)
      BY <1>2, <2>6, OthersArePlain DEF OpNext
    <3>. QED BY <2>2, <2>4, <2>5, <3>1
  <2>. QED BY <1>2, <2>1, <2>6
<1>. QED BY <1>1, <1>2, OpTypesAlways, PTL DEF OpSpec

-----------------------------------------------------------------------------
\* Programs of several instructions: what each of them leaves for the next.
LEMMA StepIs ==
    ASSUME OpTypeOK, OpNext
    PROVE  \E i \in Fetched :
             /\ \E rs, result : Answer(i, rs, result)
             /\ i.kind = "new-array" => NewArray(i)
             /\ i.kind = "aput" => Aput(i)
             /\ i.kind = "aget" => Aget(i)
             /\ i.kind \in {"sput", "sget"} => Field(i)
<1>1. PICK i \in Fetched :
        \/ Binary(i) \/ Unary(i) \/ Cmp(i)
        \/ Goto(i) \/ If(i) \/ Switch(i) \/ Throw(i) \/ ReturnValue(i)
        \/ Move(i) \/ MoveResult(i) \/ Const(i) \/ NewInstance(i) \/ NoOp(i)
        \/ ArrayLength(i) \/ NewArray(i) \/ Aget(i) \/ Aput(i) \/ FillArray(i) \/ Field(i)
  BY DEF OpNext
<1>2. \E rs, result : Answer(i, rs, result)
  <2>1. CASE Binary(i)
    BY <2>1, GoesAnswers DEF Binary, FaithfulBinary, InlineBinary
  <2>2. CASE Goto(i) \/ If(i)
    BY <2>2 DEF Goto, If
  <2>3. CASE ~ (Binary(i) \/ Goto(i) \/ If(i))
    BY <1>1, <2>3, OthersArePlain DEF Plain
  <2>. QED BY <2>1, <2>2, <2>3
<1>3. /\ Binary(i) => i.kind = "binary"
      /\ Unary(i) => i.kind = "unary"
      /\ Cmp(i) => i.kind = "cmp"
      /\ Goto(i) => i.kind = "goto"
      /\ If(i) => i.kind \in {"if", "ifz"}
      /\ Switch(i) => i.kind = "switch"
      /\ Throw(i) => i.kind = "throw"
      /\ ReturnValue(i) => i.kind = "return"
      /\ Move(i) => i.kind = "move"
      /\ MoveResult(i) => i.kind = "move-result"
  BY DEF Binary, Unary, Cmp, Goto, If, Switch, Throw, ReturnValue, Move, MoveResult
<1>4. /\ Const(i) => i.kind = "const"
      /\ NewInstance(i) => i.kind = "new-instance"
      /\ NoOp(i) => i.kind = "nop"
      /\ ArrayLength(i) => i.kind = "array-length"
      /\ NewArray(i) => i.kind = "new-array"
      /\ Aget(i) => i.kind = "aget"
      /\ Aput(i) => i.kind = "aput"
      /\ FillArray(i) => i.kind = "fill-array"
      /\ Field(i) => i.kind \in {"iget", "iput", "sget", "sput"}
  BY DEF Const, NewInstance, NoOp, ArrayLength, NewArray, Aget, Aput, FillArray, Field
<1>5. /\ i.kind = "new-array" => NewArray(i)
      /\ i.kind = "aput" => Aput(i)
      /\ i.kind = "aget" => Aget(i)
      /\ i.kind \in {"sput", "sget"} => Field(i)
  BY <1>1, <1>3, <1>4
<1>. QED BY <1>2, <1>5

\* done grows by the instruction, before is what it started on.
LEMMA StepHistory ==
    ASSUME OpTypeOK, [OpNext]_opVars, NEW i \in Fetched, NEW rs, NEW result, Answer(i, rs, result)
    PROVE  /\ i \in Instrs /\ Len(done) \in Nat
           /\ Len(done') = Len(done) + 1 /\ done'[Len(done')] = i
           /\ \A n \in 1..Len(done) : done'[n] = done[n]
           /\ before' = regs /\ regs' = rs /\ faithful' = faithful
           /\ DOMAIN regs' = DOMAIN regs
<1>1. i \in Instrs /\ done \in Seq(Instrs)
  BY FetchedIs DEF OpTypeOK
<1>2. regs' = rs /\ before' = regs /\ done' = Append(done, i) /\ faithful' = faithful
  BY DEF Answer
<1>3. DOMAIN before' = DOMAIN regs'
  <2>1. OpTypeOK'
    BY OpStepType
  <2>2. \E n \in RegNumbers : {regs', before'} \subseteq [0..n - 1 -> SlotValues(Len(arrays'))]
    BY <2>1 DEF OpTypeOK
  <2>. QED BY <2>2, FramesTogether
<1>. QED BY <1>1, <1>2, <1>3

\* What sput leaves in the field.
StoredBy(i) ==
    LET v == OrNull(Slot(i.a))
    IN  IF faithful /\ i.wide
        THEN Num(IF HasInt(v) THEN Long(Shl(AsInt(v), IntBits) + Reg(i.a + 1)) ELSE 0)
        ELSE v

PairStored ==
    (Len(done) = 1 /\ done[1].kind = "sput")
      => FieldOf(statics, done[1].field) = StoredBy(done[1])

\* sput stores StoredBy, and leaves registers and arrays alone.
LEMMA PutStores ==
    ASSUME OpTypeOK, NEW i \in Fetched, i.kind = "sput", Field(i)
    PROVE  /\ Answer(i, regs, Continue)
           /\ FieldOf(statics, i.field)' = StoredBy(i) /\ arrays' = arrays
           /\ FieldOf(statics, i.field)' = StoredBy(i)'
<1>1. /\ Answer(i, regs, Continue) /\ arrays' = arrays
      /\ statics' = With(statics, i.field, StoredBy(i))
  <2>1. i.wide \in BOOLEAN
    BY FetchedIs, FieldOpIs
  <2>2. CASE faithful
    BY <2>1, <2>2 DEF Field, FaithfulSPut, StoredBy
  <2>3. CASE ~ faithful
    BY <2>3 DEF Field, InlinePut, StoredBy
  <2>. QED BY <2>2, <2>3
<1>2. regs' = regs /\ faithful' = faithful
  BY <1>1 DEF Answer
<1>3. StoredBy(i)' = StoredBy(i)
  BY <1>2 DEF StoredBy, Slot, Reg
<1>4. FieldOf(statics, i.field)' = StoredBy(i)
  BY <1>1 DEF FieldOf, With
<1>. QED BY <1>1, <1>3, <1>4

\* After a put the field holds the pair of the registers.
LEMMA PairStoredStep ==
    ASSUME OpTypeOK, PairStored, [OpNext]_opVars
    PROVE  PairStored'
<1>1. CASE UNCHANGED opVars
  BY <1>1 DEF opVars, memory, fieldMaps, PairStored, FieldOf, StoredBy, Slot, Reg
<1>2. CASE OpNext
  <2>1. PICK i \in Fetched :
          /\ \E rs, result : Answer(i, rs, result)
          /\ i.kind \in {"sput", "sget"} => Field(i)
    BY <1>2, StepIs
  <2>2. PICK rs, result : Answer(i, rs, result)
    BY <2>1
  <2>3. Len(done') = Len(done) + 1 /\ done'[Len(done')] = i /\ Len(done) \in Nat
    BY <2>2, StepHistory
  <2>4. SUFFICES ASSUME Len(done') = 1, done'[1].kind = "sput"
                 PROVE  FieldOf(statics, done[1].field)' = StoredBy(done[1])'
    BY DEF PairStored
  <2>5. done'[1] = i
    BY <2>3, <2>4
  <2>6. FieldOf(statics, i.field)' = StoredBy(i)'
    BY <2>1, <2>4, <2>5, PutStores
  <2>. QED BY <2>5, <2>6 DEF FieldOf, StoredBy, Slot, Reg
<1>. QED BY <1>1, <1>2

\* Two halves in 64 bits come apart again.
LEMMA HalvesComeBack ==
    ASSUME NEW high \in Int, NEW low \in Int, IsInt(high), low = Unsigned(IntBits, low)
    PROVE  LET pair == Long(Shl(high, IntBits) + low)
           IN  Shr(pair, IntBits) = high /\ Unsigned(IntBits, pair) = low
<1>. DEFINE p == 2 ^ IntBits
            h == 2 ^ (IntBits - 1)
            m == p * high
            t == p * h
<1>1. /\ p \in Int /\ 8 <= p /\ h \in Int /\ p = 2 * h
      /\ 2 ^ (LongBits - 1) = t /\ IntBits \in Nat \ {0}
  BY IntsFit, Widths
<1>2. -h <= high /\ high < h
  BY <1>1, SignedRange DEF IsInt
<1>3. 0 <= low /\ low < p
  BY <1>1, UnsignedRange
<1>4. m \in Int /\ t \in Int /\ -t <= m /\ m + p <= t
  <2>. HIDE DEF p, h
  <2>1. -h <= high /\ high + 1 <= h /\ p \in Int /\ 0 <= p /\ h \in Int
    BY <1>1, <1>2
  <2>2. p * (-h) <= p * high /\ p * (high + 1) <= p * h
    BY <2>1
  <2>3. p * (-h) = -(p * h) /\ p * (high + 1) = p * high + p
    BY <2>1
  <2>4. p * high \in Int /\ p * h \in Int
    BY <2>1
  <2>. QED BY <2>2, <2>3, <2>4
<1>5. high * 2 ^ IntBits = m
  BY <1>1
<1>. HIDE DEF m, t
<1>6. Longs = -t..t - 1
  BY <1>1 DEF Longs, MinLong
<1>. HIDE DEF p, h
<1>7. m \in Longs /\ m + low \in Longs
  BY <1>1, <1>3, <1>4, <1>6
<1>8. Shl(high, IntBits) = m
  BY <1>5, <1>7, LongsAre DEF Shl
<1>9. Long(Shl(high, IntBits) + low) = m + low
  BY <1>7, <1>8, LongsAre
<1>10. (p * high + low) \div p = high /\ (p * high + low) % p = low
  <2>1. p \in Int /\ 0 < p /\ high \in Int /\ low \in Int /\ 0 <= low /\ low < p
    BY <1>1, <1>3
  <2>. QED BY <2>1, DivModUnique
<1>. QED BY <1>9, <1>10 DEF m, p, Shr, Unsigned

\* The last step of a put and a get.
LEMMA GetCarries ==
    ASSUME OpTypeOK, PairStored, OpNext
    PROVE  FieldCarriesPair'
<1>1. PICK i \in Fetched :
        /\ \E rs, result : Answer(i, rs, result)
        /\ i.kind \in {"sput", "sget"} => Field(i)
  BY StepIs
<1>2. PICK rs, result : Answer(i, rs, result)
  BY <1>1
<1>3. /\ i \in Instrs /\ Len(done) \in Nat
      /\ Len(done') = Len(done) + 1 /\ done'[Len(done')] = i
      /\ \A n \in 1..Len(done) : done'[n] = done[n]
      /\ before' = regs /\ faithful' = faithful /\ DOMAIN regs' = DOMAIN regs
  BY <1>2, StepHistory
<1>4. SUFFICES ASSUME Kinds' = <<"sput", "sget">> PROVE FieldCarriesPair'
  BY DEF FieldCarriesPair
<1>5. PICK s : s = done[1]
  OBVIOUS
<1>6. /\ Len(done) = 1 /\ done'[1] = s /\ done'[2] = i
      /\ s.kind = "sput" /\ i.kind = "sget" /\ s \in Instrs
  <2>1. done' \in Seq(Instrs)
    BY OpStepType DEF OpTypeOK
  <2>2. DOMAIN Kinds' = 1..Len(done') /\ \A n \in 1..Len(done') : Kinds'[n] = done'[n].kind
    BY <2>1 DEF Kinds
  <2>3. DOMAIN Kinds' = 1..2 /\ Kinds'[1] = "sput" /\ Kinds'[2] = "sget"
    BY <1>4
  <2>4. Len(done') = 2 /\ Len(done) = 1
    <3>. DEFINE n == Len(done')
    <3>1. n \in Nat /\ n = Len(done) + 1 /\ Len(done) \in Nat
      BY <1>3
    <3>2. 1..n = 1..2
      BY <2>2, <2>3
    <3>. HIDE DEF n
    <3>3. n \in 1..2 /\ 2 \in 1..n
      BY <3>1, <3>2
    <3>4. n = 2
      BY <3>1, <3>3
    <3>. DEFINE m == Len(done)
    <3>5. n = m + 1 /\ m \in Nat
      BY <3>1
    <3>. HIDE DEF m
    <3>6. m = 1
      BY <3>4, <3>5
    <3>. QED BY <3>4, <3>6 DEF n, m
  <2>5. Len(done) = 1 /\ done'[1] = s /\ done'[2] = i
    <3>1. done'[2] = i
      BY <1>3, <2>4
    <3>2. 1 \in 1..Len(done)
      BY <2>4
    <3>. QED BY <1>3, <1>5, <2>4, <3>1, <3>2
  <2>6. done'[1].kind = "sput" /\ done'[2].kind = "sget"
    BY <2>2, <2>3, <2>4
  <2>7. s \in Instrs
    BY <2>1, <2>4, <2>5
  <2>. QED BY <2>5, <2>6, <2>7
<1>7. FieldOf(statics, s.field) = StoredBy(s)
  BY <1>5, <1>6 DEF PairStored
<1>8. regs \in Frames(Len(arrays)) /\ Field(i)
  BY <1>1, <1>6, FetchedIs
<1>9. ASSUME s.wide, i.wide, s.field = i.field, i.a + 1 \in DOMAIN regs,
             IsInt(Reg(s.a)), Reg(s.a + 1) = Unsigned(IntBits, Reg(s.a + 1)), HasInt(Slot(s.a))
      PROVE  IF faithful THEN regs'[i.a] = Num(Reg(s.a)) /\ regs'[i.a + 1] = Num(Reg(s.a + 1))
                         ELSE regs'[i.a] = Slot(s.a)
  <2>1. i.a \in DOMAIN regs /\ i.a + 1 # i.a
    <3>1. i.a \in RegNumbers
      BY <1>3, <1>6, FieldOpIs
    <3>2. PICK n \in RegNumbers : regs \in [0..n - 1 -> SlotValues(Len(arrays))]
      BY <1>8 DEF Frames
    <3>3. i.a \in Int /\ 0 <= i.a /\ n \in Int
      BY <3>1, <3>2, IntsAreLongs, LongsAre DEF RegNumbers
    <3>. QED BY <1>9, <3>2, <3>3
  <2>2. OrNull(Slot(s.a)) = Slot(s.a) /\ OrNull(OrNull(Slot(s.a))) = Slot(s.a)
    BY <1>9 DEF OrNull, None, HasInt
  <2>3. CASE faithful
    <3>. DEFINE pair == Long(Shl(Reg(s.a), IntBits) + Reg(s.a + 1))
    <3>1. FieldOf(statics, i.field) = Num(pair)
      BY <1>7, <1>9, <2>2, <2>3 DEF StoredBy, Reg
    <3>2. Reg(s.a) \in Int /\ Reg(s.a + 1) \in Int
      BY <1>8, FrameSlots, LongsAre
    <3>3. Shr(pair, IntBits) = Reg(s.a) /\ Unsigned(IntBits, pair) = Reg(s.a + 1)
      BY <1>9, <3>2, HalvesComeBack
    <3>. HIDE DEF pair
    <3>4. Num(pair) # None /\ AsInt(Num(pair)) = pair
      BY DEF Num, None, AsInt
    <3>5. Goes(i, WrittenPair(regs, i.a, pair))
      BY <1>6, <1>8, <1>9, <2>3, <3>1, <3>4 DEF Field, FaithfulSGet
    <3>6. regs' = WrittenPair(regs, i.a, pair)
      BY <3>5 DEF Goes, Answer
    <3>7. regs' = [[regs EXCEPT ![i.a] = Num(Reg(s.a))] EXCEPT ![i.a + 1] = Num(Reg(s.a + 1))]
      BY <1>9, <2>1, <3>3, <3>6 DEF WrittenPair, Written
    <3>. QED BY <1>9, <2>1, <2>3, <3>7
  <2>4. CASE ~ faithful
    <3>1. FieldOf(statics, i.field) = OrNull(Slot(s.a))
      BY <1>7, <1>9, <2>4 DEF StoredBy
    <3>2. Goes(i, Written(regs, i.a, Slot(s.a)))
      BY <1>6, <1>8, <2>2, <2>4, <3>1 DEF Field, InlineGet, Write
    <3>3. regs' = Written(regs, i.a, Slot(s.a))
      BY <3>2 DEF Goes, Answer
    <3>4. regs'[i.a] = Slot(s.a)
      BY <2>1, <3>3 DEF Written
    <3>. QED BY <2>4, <3>4
  <2>. QED BY <2>3, <2>4
<1>10. \A r : BeforeSlot(r)' = Slot(r) /\ BeforeReg(r)' = Reg(r)
  BY <1>3 DEF BeforeSlot, BeforeReg, Slot, Reg
<1>11. /\ BeforeReg(done[1].a)' = Reg(s.a) /\ BeforeReg(done[1].a + 1)' = Reg(s.a + 1)
       /\ BeforeSlot(done[1].a)' = Slot(s.a)
  BY <1>3, <1>6 DEF BeforeSlot, BeforeReg, Slot, Reg
<1>. QED BY <1>3, <1>6, <1>9, <1>11 DEF FieldCarriesPair

\* A wide value comes back from a static field in both modes, whatever its halves.
THEOREM PairsComeBack == OpSpec => []FieldCarriesPair
<1>1. OpInit => PairStored /\ FieldCarriesPair
  <2>1. SUFFICES ASSUME OpInit PROVE PairStored /\ FieldCarriesPair
    OBVIOUS
  <2>2. done = <<>> /\ Len(done) # 1
    BY <2>1 DEF OpInit
  <2>3. Kinds # <<"sput", "sget">>
    <3>1. DOMAIN Kinds = {}
      BY <2>2 DEF Kinds
    <3>2. DOMAIN <<"sput", "sget">> = 1..2
      OBVIOUS
    <3>. QED BY <3>1, <3>2
  <2>. QED BY <2>2, <2>3 DEF PairStored, FieldCarriesPair
<1>2. OpTypeOK /\ PairStored /\ [OpNext]_opVars => PairStored'
  BY PairStoredStep
<1>3. ASSUME OpTypeOK, PairStored, FieldCarriesPair, [OpNext]_opVars PROVE FieldCarriesPair'
  <2>1. CASE UNCHANGED opVars
    BY <1>3, <2>1 DEF opVars, memory, FieldCarriesPair, Kinds, BeforeReg, BeforeSlot
  <2>. QED BY <1>3, <2>1, GetCarries
<1>. QED BY <1>1, <1>2, <1>3, OpTypesAlways, PTL DEF OpSpec

-----------------------------------------------------------------------------
\* An array on its way through a static field: made, put, written, got.
Made == done[1].kind = "new-array" /\ ~done[1].filled
Put == done[2].kind = "sput" /\ ~done[2].wide /\ done[1].a = done[2].a
Wrote == done[3].kind = "aput" /\ done[2].a = done[3].b
Got ==
    /\ done[4].kind = "sget" /\ ~done[4].wide /\ done[2].field = done[4].field
    /\ done[4].a \notin {done[3].a, done[3].c}

FieldHolds(x) == FieldOf(statics, x) = Handle(1)
ElementHolds(i) ==
    InRange(arrays[1], Reg(i.c)) => arrays[1][Reg(i.c) + 1] = OrNull(Slot(i.a))

Stage0 == Len(done) = 0 => arrays = <<>>
Stage1 ==
    (Len(done) = 1 /\ Made /\ done[1].a \in DOMAIN regs)
      => Len(arrays) = 1 /\ Slot(done[1].a) = Handle(1)
Stage2 ==
    (Len(done) = 2 /\ Made /\ Put /\ done[1].a \in DOMAIN regs)
      => Len(arrays) = 1 /\ Slot(done[1].a) = Handle(1) /\ FieldHolds(done[2].field)
Stage3 ==
    (Len(done) = 3 /\ Made /\ Put /\ Wrote /\ done[1].a \in DOMAIN regs)
      => Len(arrays) = 1 /\ FieldHolds(done[2].field) /\ ElementHolds(done[3])
Stage4 ==
    (/\ Len(done) = 4 /\ Made /\ Put /\ Wrote /\ Got
     /\ {done[1].a, done[4].a} \subseteq DOMAIN regs)
      => Len(arrays) = 1 /\ Slot(done[4].a) = Handle(1) /\ ElementHolds(done[3])
Stages == Stage0 /\ Stage1 /\ Stage2 /\ Stage3 /\ Stage4

\* The history after k + 1 instructions.
LEMMA DoneIs ==
    ASSUME OpTypeOK, [OpNext]_opVars, NEW i \in Fetched, NEW rs, NEW result, Answer(i, rs, result),
           NEW k \in Nat, Len(done') = k + 1
    PROVE  /\ Len(done) = k /\ done'[k + 1] = i /\ \A n \in 1..k : done'[n] = done[n]
           /\ before' = regs /\ regs' = rs /\ faithful' = faithful /\ DOMAIN regs' = DOMAIN regs
<1>1. /\ Len(done) \in Nat /\ Len(done') = Len(done) + 1 /\ done'[Len(done')] = i
      /\ \A n \in 1..Len(done) : done'[n] = done[n]
      /\ before' = regs /\ regs' = rs /\ faithful' = faithful
      /\ DOMAIN regs' = DOMAIN regs
  BY StepHistory
<1>. DEFINE m == Len(done)
<1>2. m \in Nat /\ m + 1 = k + 1
  BY <1>1
<1>. HIDE DEF m
<1>3. m = k
  BY <1>2
<1>. QED BY <1>1, <1>3 DEF m

\* new-array: the first array and its handle.
LEMMA Stage1Step ==
    ASSUME OpTypeOK, Stage0, OpNext
    PROVE  Stage0' /\ Stage1'
<1>1. PICK i \in Fetched :
        (\E rs, result : Answer(i, rs, result)) /\ (i.kind = "new-array" => NewArray(i))
  BY StepIs
<1>2. PICK rs, result : Answer(i, rs, result)
  BY <1>1
<1>3. Len(done') = Len(done) + 1 /\ Len(done) \in Nat
  BY <1>2, StepHistory
<1>4. Stage0'
  BY <1>3 DEF Stage0
<1>5. ASSUME Len(done') = 1, Made', done'[1].a \in DOMAIN regs'
      PROVE  Len(arrays') = 1 /\ Slot(done[1].a)' = Handle(1)
  <2>1. Len(done) = 0 /\ done'[1] = i
    <3>1. 0 \in Nat /\ Len(done') = 0 + 1
      BY <1>5
    <3>2. Len(done) = 0 /\ done'[0 + 1] = i
      BY <1>2, <3>1, DoneIs
    <3>. QED BY <3>2
  <2>2. arrays = <<>>
    BY <2>1 DEF Stage0
  <2>3. i.kind = "new-array" /\ ~i.filled
    BY <1>5, <2>1 DEF Made
  <2>4. /\ \E a : arrays' = Append(arrays, a)
        /\ Answer(i, Written(regs, i.a, Handle(Len(arrays'))), Continue)
    BY <1>1, <2>3 DEF NewArray
  <2>5. Len(arrays') = 1
    BY <2>2, <2>4
  <2>6. regs' = Written(regs, i.a, Handle(1))
    BY <2>4, <2>5 DEF Answer
  <2>7. i.a \in DOMAIN regs' => regs'[i.a] = Handle(1)
    BY <2>6 DEF Written
  <2>. QED BY <1>5, <2>1, <2>5, <2>7 DEF Slot
<1>. QED BY <1>4, <1>5 DEF Stage1

\* sput: the handle is in the field.
LEMMA Stage2Step ==
    ASSUME OpTypeOK, Stage1, OpNext
    PROVE  Stage2'
<1>1. PICK i \in Fetched :
        (\E rs, result : Answer(i, rs, result)) /\ (i.kind \in {"sput", "sget"} => Field(i))
  BY StepIs
<1>2. PICK rs, result : Answer(i, rs, result)
  BY <1>1
<1>3. ASSUME Len(done') = 2, Made', Put', done'[1].a \in DOMAIN regs'
      PROVE  Len(arrays') = 1 /\ Slot(done[1].a)' = Handle(1) /\ FieldHolds(done[2].field)'
  <2>1. PICK d : d = done[1]
    OBVIOUS
  <2>2. Len(done) = 1 /\ done'[2] = i /\ done'[1] = d /\ DOMAIN regs' = DOMAIN regs
    <3>1. 1 \in Nat /\ Len(done') = 1 + 1
      BY <1>3
    <3>2. /\ Len(done) = 1 /\ done'[1 + 1] = i /\ \A n \in 1..1 : done'[n] = done[n]
          /\ DOMAIN regs' = DOMAIN regs
      BY <1>2, <3>1, DoneIs
    <3>. QED BY <2>1, <3>2
  <2>3. i.kind = "sput" /\ ~i.wide /\ i.a = d.a /\ d.a \in DOMAIN regs
    BY <1>3, <2>2 DEF Put
  <2>4. Len(arrays) = 1 /\ Slot(d.a) = Handle(1)
    BY <1>3, <2>1, <2>2, <2>3 DEF Stage1, Made
  <2>5. /\ Answer(i, regs, Continue)
        /\ FieldOf(statics, i.field)' = StoredBy(i) /\ arrays' = arrays
    BY <1>1, <2>3, PutStores
  <2>6. StoredBy(i) = Handle(1)
    BY <2>3, <2>4 DEF StoredBy, OrNull, Handle, None
  <2>7. regs' = regs
    BY <2>5 DEF Answer
  <2>. QED BY <2>2, <2>4, <2>5, <2>6, <2>7 DEF Slot, FieldHolds, FieldOf
<1>. QED BY <1>3 DEF Stage2

\* aput: the element is written through the register.
LEMMA Stage3Step ==
    ASSUME OpTypeOK, Stage2, OpNext
    PROVE  Stage3'
<1>1. PICK i \in Fetched :
        (\E rs, result : Answer(i, rs, result)) /\ (i.kind = "aput" => Aput(i))
  BY StepIs
<1>2. PICK rs, result : Answer(i, rs, result)
  BY <1>1
<1>3. ASSUME Len(done') = 3, Made', Put', Wrote', done'[1].a \in DOMAIN regs'
      PROVE  Len(arrays') = 1 /\ FieldHolds(done[2].field)' /\ ElementHolds(done[3])'
  <2>1. PICK d, e : d = done[1] /\ e = done[2]
    OBVIOUS
  <2>2. /\ Len(done) = 2 /\ done'[3] = i /\ done'[1] = d /\ done'[2] = e
        /\ DOMAIN regs' = DOMAIN regs
    <3>1. 2 \in Nat /\ Len(done') = 2 + 1
      BY <1>3
    <3>2. /\ Len(done) = 2 /\ done'[2 + 1] = i /\ \A n \in 1..2 : done'[n] = done[n]
          /\ DOMAIN regs' = DOMAIN regs
      BY <1>2, <3>1, DoneIs
    <3>. QED BY <2>1, <3>2
  <2>3. i.kind = "aput" /\ i.b = e.a /\ d.a = e.a /\ d.a \in DOMAIN regs
    BY <1>3, <2>2 DEF Put, Wrote
  <2>4. Len(arrays) = 1 /\ Slot(i.b) = Handle(1) /\ FieldHolds(e.field)
    BY <1>3, <2>1, <2>2, <2>3 DEF Stage2, Made, Put
  <2>. DEFINE value == OrNull(Slot(i.a))
  <2>5. /\ arrays' = [arrays EXCEPT ![1] = SetAt(@, Reg(i.c), value)]
        /\ Answer(i, regs, Continue) /\ UNCHANGED <<fieldMaps, results>>
    BY <1>1, <2>3, <2>4 DEF Aput, Handle
  <2>6. regs' = regs /\ statics' = statics
    BY <2>5 DEF Answer, fieldMaps
  <2>7. Slot(i.a)' = Slot(i.a) /\ Reg(i.c)' = Reg(i.c) /\ Reg(i.c) \in Int
    BY <2>6, FetchedIs, FrameSlots, LongsAre DEF Slot, Reg
  <2>8. arrays[1] \in Seq(Values(1)) /\ 1 \in DOMAIN arrays
    <3>1. 1 \in 1..Len(arrays)
      BY <2>4
    <3>2. arrays[1] \in Seq(Values(Len(arrays))) /\ DOMAIN arrays = 1..Len(arrays)
      BY <3>1, ArraysAre DEF OpTypeOK
    <3>. QED BY <2>4, <3>1, <3>2
  <2>9. Len(arrays') = 1 /\ arrays'[1] = SetAt(arrays[1], Reg(i.c), value)
    BY <2>4, <2>5, <2>8 DEF OpTypeOK
  <2>10. InRange(arrays'[1], Reg(i.c)) => arrays'[1][Reg(i.c) + 1] = value
    <3>1. value \in Values(1)
      BY <2>4, FetchedIs, FrameSlots, OrNullIsValue
    <3>. HIDE DEF value
    <3>2. Len(arrays'[1]) = Len(arrays[1])
      BY <2>7, <2>8, <2>9, <3>1, SetAtKeeps
    <3>3. CASE InRange(arrays[1], Reg(i.c))
      <4>1. Reg(i.c) + 1 \in DOMAIN arrays[1]
        BY <2>7, <2>8, <3>3 DEF InRange
      <4>2. arrays'[1] = [arrays[1] EXCEPT ![Reg(i.c) + 1] = value]
        BY <2>9, <3>3 DEF SetAt
      <4>. QED BY <4>1, <4>2
    <3>4. CASE ~ InRange(arrays[1], Reg(i.c))
      BY <3>2, <3>4 DEF InRange
    <3>. QED BY <3>3, <3>4
  <2>11. FieldHolds(e.field)' /\ ElementHolds(i)'
    BY <2>4, <2>6, <2>7, <2>10 DEF FieldHolds, ElementHolds
  <2>. QED BY <2>2, <2>9, <2>11 DEF FieldHolds, ElementHolds, Slot, Reg
<1>. QED BY <1>3 DEF Stage3

\* sget: the handle is back in a register.
LEMMA Stage4Step ==
    ASSUME OpTypeOK, Stage3, OpNext
    PROVE  Stage4'
<1>1. PICK i \in Fetched :
        (\E rs, result : Answer(i, rs, result)) /\ (i.kind \in {"sput", "sget"} => Field(i))
  BY StepIs
<1>2. PICK rs, result : Answer(i, rs, result)
  BY <1>1
<1>3. ASSUME Len(done') = 4, Made', Put', Wrote', Got', {done'[1].a, done'[4].a} \subseteq DOMAIN regs'
      PROVE  Len(arrays') = 1 /\ Slot(done[4].a)' = Handle(1) /\ ElementHolds(done[3])'
  <2>1. PICK d, e, f : d = done[1] /\ e = done[2] /\ f = done[3]
    OBVIOUS
  <2>2. /\ Len(done) = 3 /\ done'[4] = i /\ done'[1] = d /\ done'[2] = e /\ done'[3] = f
        /\ DOMAIN regs' = DOMAIN regs
    <3>1. 3 \in Nat /\ Len(done') = 3 + 1
      BY <1>3
    <3>2. /\ Len(done) = 3 /\ done'[3 + 1] = i /\ \A n \in 1..3 : done'[n] = done[n]
          /\ DOMAIN regs' = DOMAIN regs
      BY <1>2, <3>1, DoneIs
    <3>. QED BY <2>1, <3>2
  <2>3. /\ i.kind = "sget" /\ ~i.wide /\ e.field = i.field /\ i.a \notin {f.a, f.c}
        /\ d.a \in DOMAIN regs /\ i.a \in DOMAIN regs
    BY <1>3, <2>2 DEF Got
  <2>4. Len(arrays) = 1 /\ FieldHolds(i.field) /\ ElementHolds(f)
    BY <1>3, <2>1, <2>2, <2>3 DEF Stage3, Made, Put, Wrote
  <2>5. FieldOf(statics, i.field) = Handle(1) /\ ~HasInt(Handle(1)) /\ OrNull(Handle(1)) = Handle(1)
    BY <2>4 DEF FieldHolds, HasInt, OrNull, Handle, None
  <2>6. Goes(i, Written(regs, i.a, Handle(1)))
    <3>1. CASE faithful
      BY <1>1, <2>3, <2>5, <3>1 DEF Field, FaithfulSGet
    <3>2. CASE ~ faithful
      BY <1>1, <2>3, <2>5, <3>2 DEF Field, InlineGet, Write
    <3>. QED BY <3>1, <3>2
  <2>7. regs' = [regs EXCEPT ![i.a] = Handle(1)] /\ arrays' = arrays
    BY <2>3, <2>6 DEF Goes, Answer, Written, memory
  <2>8. Slot(i.a)' = Handle(1) /\ Slot(f.a)' = Slot(f.a) /\ Reg(f.c)' = Reg(f.c)
    BY <2>3, <2>7 DEF Slot, Reg
  <2>9. ElementHolds(f)'
    BY <2>4, <2>7, <2>8 DEF ElementHolds
  <2>. QED BY <2>2, <2>4, <2>7, <2>8, <2>9 DEF ElementHolds, Slot, Reg
<1>. QED BY <1>3 DEF Stage4

\* The stages are inductive.
LEMMA StagesStep ==
    ASSUME OpTypeOK, Stages, [OpNext]_opVars
    PROVE  Stages'
<1>1. CASE UNCHANGED opVars
  BY <1>1
     DEF opVars, memory, fieldMaps, Stages, Stage0, Stage1, Stage2, Stage3, Stage4, Made, Put,
         Wrote, Got, FieldHolds, ElementHolds, Slot, Reg
<1>2. CASE OpNext
  BY <1>2, Stage1Step, Stage2Step, Stage3Step, Stage4Step DEF Stages
<1>. QED BY <1>1, <1>2

\* The last step: what is got from the field is the array that was written.
LEMMA AgetSees ==
    ASSUME OpTypeOK, Stage4, OpNext
    PROVE  AputSeenThroughField'
<1>1. PICK i \in Fetched :
        (\E rs, result : Answer(i, rs, result)) /\ (i.kind = "aget" => Aget(i))
  BY StepIs
<1>2. PICK rs, result : Answer(i, rs, result)
  BY <1>1
<1>3. SUFFICES ASSUME Kinds' = <<"new-array", "sput", "aput", "sget", "aget">>
               PROVE  AputSeenThroughField'
  BY DEF AputSeenThroughField
<1>4. PICK d, e, f, g : d = done[1] /\ e = done[2] /\ f = done[3] /\ g = done[4]
  OBVIOUS
<1>5. done' \in Seq(Instrs)
  BY OpStepType DEF OpTypeOK
<1>6. DOMAIN Kinds' = 1..Len(done') /\ \A n \in 1..Len(done') : Kinds'[n] = done'[n].kind
  BY <1>5 DEF Kinds
<1>7. /\ DOMAIN Kinds' = 1..5
      /\ Kinds'[1] = "new-array" /\ Kinds'[2] = "sput" /\ Kinds'[3] = "aput"
      /\ Kinds'[4] = "sget" /\ Kinds'[5] = "aget"
  BY <1>3
<1>8. Len(done') = 5
  <2>. DEFINE n == Len(done')
  <2>1. n \in Nat /\ 1..n = 1..5
    BY <1>5, <1>6, <1>7, SMTT(40)
  <2>. HIDE DEF n
  <2>2. 5 \in 1..n /\ n \in 1..5
    BY <2>1
  <2>3. n = 5
    BY <2>1, <2>2
  <2>. QED BY <2>3 DEF n
<1>9. /\ Len(done) = 4 /\ done'[5] = i
      /\ done'[1] = d /\ done'[2] = e /\ done'[3] = f /\ done'[4] = g
      /\ before' = regs /\ DOMAIN regs' = DOMAIN regs
  <2>1. 4 \in Nat /\ Len(done') = 4 + 1
    BY <1>8
  <2>2. /\ Len(done) = 4 /\ done'[4 + 1] = i /\ \A n \in 1..4 : done'[n] = done[n]
        /\ before' = regs /\ DOMAIN regs' = DOMAIN regs
    BY <1>2, <2>1, DoneIs
  <2>. QED BY <1>4, <2>2
<1>10. /\ d.kind = "new-array" /\ e.kind = "sput" /\ f.kind = "aput" /\ g.kind = "sget"
       /\ i.kind = "aget"
  BY <1>6, <1>7, <1>8, <1>9
<1>11. ASSUME ~d.filled, ~e.wide, ~g.wide, d.a = e.a, e.a = f.b, e.field = g.field,
              g.a = i.b, f.c = i.c, g.a \notin {f.a, f.c},
              {d.a, f.a, g.a, i.a} \subseteq DOMAIN regs, InRange(arrays'[1], Reg(i.c))
       PROVE  regs'[i.a] = OrNull(regs[f.a])
  <2>1. Len(arrays) = 1 /\ Slot(i.b) = Handle(1) /\ ElementHolds(f)
    BY <1>4, <1>9, <1>10, <1>11 DEF Stage4, Made, Put, Wrote, Got
  <2>. DEFINE element == ElementOf(Slot(i.b), Reg(i.c))
              value == OrNull(Slot(f.a))
  <2>2. Aget(i)
    BY <1>1, <1>10
  <2>3. arrays' = arrays
    BY <2>2 DEF Aget, Skip, Write, Goes, memory
  <2>4. InRange(arrays[1], Reg(i.c)) /\ arrays[1][Reg(i.c) + 1] = value
    BY <1>11, <2>1, <2>3 DEF ElementHolds
  <2>5. element = value
    BY <2>1, <2>4 DEF ElementOf, Handle
  <2>6. value # None /\ OrNull(value) = value
    BY DEF OrNull, None, Null
  <2>. HIDE DEF element, value
  <2>7. Write(i, i.a, value)
    BY <2>2, <2>5, <2>6 DEF Aget, element
  <2>8. regs' = [regs EXCEPT ![i.a] = value]
    BY <1>11, <2>7 DEF Write, Goes, Answer, Written
  <2>. QED BY <1>11, <2>8 DEF value, Slot
<1>12. BeforeReg(done[5].c)' = Reg(i.c)
  BY <1>9 DEF BeforeReg, BeforeSlot, Reg, Slot
<1>. QED BY <1>9, <1>11, <1>12 DEF AputSeenThroughField

\* Both clones of an array see each other's mutations: what is written through the
\* register is read back through the static field the array was put into.
THEOREM AputIsShared == OpSpec => []AputSeenThroughField
<1>1. OpInit => Stages /\ AputSeenThroughField
  <2>1. SUFFICES ASSUME OpInit PROVE Stages /\ AputSeenThroughField
    OBVIOUS
  <2>2. done = <<>> /\ Len(done) = 0 /\ arrays = <<>>
    BY <2>1 DEF OpInit
  <2>3. Kinds # <<"new-array", "sput", "aput", "sget", "aget">>
    <3>1. DOMAIN Kinds = {}
      BY <2>2 DEF Kinds
    <3>2. DOMAIN <<"new-array", "sput", "aput", "sget", "aget">> = 1..5
      OBVIOUS
    <3>. QED BY <3>1, <3>2
  <2>. QED BY <2>2, <2>3 DEF Stages, Stage0, Stage1, Stage2, Stage3, Stage4, AputSeenThroughField
<1>2. OpTypeOK /\ Stages /\ [OpNext]_opVars => Stages'
  BY StagesStep
<1>3. ASSUME OpTypeOK, Stages, AputSeenThroughField, [OpNext]_opVars PROVE AputSeenThroughField'
  <2>1. CASE UNCHANGED opVars
    BY <1>3, <2>1 DEF opVars, memory, AputSeenThroughField, Kinds, BeforeReg, BeforeSlot
  <2>. QED BY <1>3, <2>1, AgetSees DEF Stages
<1>. QED BY <1>1, <1>2, <1>3, OpTypesAlways, PTL DEF OpSpec
=============================================================================
