------------------------- MODULE SISParameterProofs -------------------------
(***************************************************************************)
(* Proofs about SISParameter: for every kind of attribute and whatever the *)
(* drive holds, what is shown is what the attribute says, what is typed is *)
(* what the drive gets, and the set-up of S-0-0393 leaves its bit set.     *)
(***************************************************************************)
EXTENDS SISParameter, ByteSumProofs

(* The three recursive definitions of the module, as facts about a         *)
(* function up to the number they are given.                               *)
IsBits(f, m) ==
  f = [n \in 0..m |-> IF n = 0 THEN 0 ELSE 10 * f[n \div 2] + (n % 2)]

IsDigits(f, m) ==
  f = [n \in 0..m |-> IF n < 10 THEN <<n>> ELSE Append(f[n \div 10], n % 10)]

IsBinary(f, digits, m) ==
  f = [i \in 0..m |->
         IF i = 0 THEN 0
         ELSE IF \E j \in 1..i : digits[j] > 1 THEN f[i - 1]
         ELSE 2 * f[i - 1] + digits[i]]

(* The bits of a number, read as decimal digits.                           *)
LEMMA BitsDef ==
  ASSUME NEW number \in Nat
  PROVE  \E f : IsBits(f, number) /\ BitsAsDigits(number) = f[number]
  <1> DEFINE S == {m \in Nat : \E f : IsBits(f, m)}
  <1>1. 0 \in S
    <2> DEFINE f == [n \in 0..0 |-> 0]
    <2>1. IsBits(f, 0)
      BY DEF IsBits
    <2> QED BY <2>1
  <1>2. ASSUME NEW m \in Nat, m \in S PROVE m + 1 \in S
    <2>1. PICK f : IsBits(f, m)
      BY <1>2
    <2> DEFINE g == [n \in 0..(m + 1) |->
                       IF n <= m THEN f[n] ELSE 10 * f[(m + 1) \div 2] + ((m + 1) % 2)]
    <2>2. ASSUME NEW n \in 0..(m + 1)
          PROVE  g[n] = IF n = 0 THEN 0 ELSE 10 * g[n \div 2] + (n % 2)
      <3>1. n # 0 => n \div 2 \in 0..m
        OBVIOUS
      <3>2. CASE n <= m
        BY <2>1, <3>1, <3>2 DEF IsBits
      <3>3. CASE n = m + 1
        BY <2>1, <3>1, <3>3 DEF IsBits
      <3> QED BY <3>2, <3>3
    <2>3. IsBits(g, m + 1)
      BY <2>2 DEF IsBits
    <2> HIDE DEF g
    <2> QED BY <2>3
  <1> HIDE DEF S
  <1>3. Nat \subseteq S
    BY <1>1, <1>2, Induction
  <1>4. \E f : IsBits(f, number)
    BY <1>3 DEF S
  <1> QED BY <1>4 DEF BitsAsDigits, IsBits

(* Ten is two modulo eight: the three lowest bits are kept.                *)
LEMMA LowBits ==
  ASSUME NEW number \in Nat
  PROVE  BitsAsDigits(number) \in Nat /\ BitsAsDigits(number) % 8 = number % 8
  <1>1. PICK f : IsBits(f, number) /\ BitsAsDigits(number) = f[number]
    BY BitsDef
  <1> DEFINE Good(n) == f[n] \in Nat /\ f[n] % 8 = n % 8
             S == {m \in 0..number : \A n \in 0..m : Good(n)}
  <1>2. 0 \in S
    <2>1. Good(0)
      BY <1>1 DEF IsBits
    <2>2. \A n \in 0..0 : n = 0
      OBVIOUS
    <2> HIDE DEF Good
    <2> QED BY <2>1, <2>2
  <1>3. ASSUME NEW m \in 0..(number - 1), m \in S PROVE m + 1 \in S
    <2> DEFINE h == (m + 1) \div 2
               b == (m + 1) % 2
               x == f[h]
    <2>1. h \in 0..m /\ b \in 0..1 /\ m + 1 = 2 * h + b /\ m + 1 \in 0..number
      OBVIOUS
    <2>2. x \in Nat /\ x % 8 = h % 8
      BY <1>3, <2>1
    <2>3. f[m + 1] = 10 * x + b
      BY <1>1, <2>1 DEF IsBits
    <2> HIDE DEF h, b, x
    <2>4. 10 * x + b \in Nat /\ (10 * x + b) % 8 = (2 * h + b) % 8
      BY <2>1, <2>2
    <2>5. Good(m + 1)
      BY <2>1, <2>3, <2>4
    <2>6. \A n \in 0..(m + 1) : n \in 0..m \/ n = m + 1
      OBVIOUS
    <2> HIDE DEF Good
    <2> QED BY <1>3, <2>1, <2>5, <2>6
  <1> HIDE DEF S
  <1>4. 0..number \subseteq S
    BY <1>2, <1>3, InductionUpTo
  <1>5. number \in S /\ number \in 0..number
    BY <1>4
  <1>6. Good(number)
    BY <1>5 DEF S
  <1> QED BY <1>1, <1>6

(* The decimal digits of a number.                                         *)
LEMMA DigitsDef ==
  ASSUME NEW number \in Nat
  PROVE  \E f : IsDigits(f, number) /\ Digits(number) = f[number]
  <1> DEFINE S == {m \in Nat : \E f : IsDigits(f, m)}
  <1>1. 0 \in S
    <2> DEFINE f == [n \in 0..0 |-> <<n>>]
    <2>1. IsDigits(f, 0)
      BY DEF IsDigits
    <2> QED BY <2>1
  <1>2. ASSUME NEW m \in Nat, m \in S PROVE m + 1 \in S
    <2>1. PICK f : IsDigits(f, m)
      BY <1>2
    <2> DEFINE last == IF m + 1 < 10 THEN <<m + 1>>
                       ELSE Append(f[(m + 1) \div 10], (m + 1) % 10)
               g == [n \in 0..(m + 1) |-> IF n <= m THEN f[n] ELSE last]
    <2>2. ASSUME NEW n \in 0..(m + 1)
          PROVE  g[n] = IF n < 10 THEN <<n>> ELSE Append(g[n \div 10], n % 10)
      <3>1. n >= 10 => n \div 10 \in 0..m /\ g[n \div 10] = f[n \div 10]
        OBVIOUS
      <3>2. CASE n <= m
        <4>1. g[n] = f[n]
          BY <3>2
        <4>2. n \in 0..m
          BY <3>2
        <4>3. f[n] = IF n < 10 THEN <<n>> ELSE Append(f[n \div 10], n % 10)
          BY <2>1, <4>2, Zenon DEF IsDigits
        <4> HIDE DEF g
        <4> QED BY <3>1, <4>1, <4>3
      <3>3. CASE n = m + 1
        <4>1. g[n] = last
          BY <3>3
        <4> HIDE DEF g
        <4> QED BY <3>1, <3>3, <4>1
      <3> QED BY <3>2, <3>3
    <2>3. IsDigits(g, m + 1)
      <3> HIDE DEF last
      <3>1. g = [n \in 0..(m + 1) |-> g[n]]
        OBVIOUS
      <3> HIDE DEF g
      <3> QED BY <2>2, <3>1, Zenon DEF IsDigits
    <2> HIDE DEF g
    <2> QED BY <2>3
  <1> HIDE DEF S
  <1>3. Nat \subseteq S
    BY <1>1, <1>2, Induction
  <1>4. \E f : IsDigits(f, number)
    BY <1>3 DEF S
  <1> QED BY <1>4 DEF Digits, IsDigits

LEMMA DigitsStep ==
  ASSUME NEW m, NEW f, IsDigits(f, m)
  PROVE  /\ \A n \in 0..m : n < 10 => f[n] = <<n>>
         /\ \A n \in 0..m : ~(n < 10) => f[n] = Append(f[n \div 10], n % 10)
  <1> DEFINE e(n) == IF n < 10 THEN <<n>> ELSE Append(f[n \div 10], n % 10)
  <1>1. f = [n \in 0..m |-> e(n)]
    BY Zenon DEF IsDigits
  <1>2. /\ \A n : n < 10 => e(n) = <<n>>
        /\ \A n : ~(n < 10) => e(n) = Append(f[n \div 10], n % 10)
    BY Zenon
  <1> HIDE DEF e
  <1>3. \A n \in 0..m : f[n] = e(n)
    BY <1>1, Zenon
  <1> QED BY <1>2, <1>3, Zenon

FiveDigitNumber == 0..99999

(* A number below 100000 has five digits.                                  *)
LEMMA FiveDigits ==
  ASSUME NEW number \in Nat, number \in FiveDigitNumber
  PROVE  Digits(number) \in Seq(Nat) /\ Len(Digits(number)) \in 0..5
  <1>1. PICK f : IsDigits(f, number) /\ Digits(number) = f[number]
    BY DigitsDef
  <1> DEFINE Has(n, k) == f[n] \in Seq(Nat) /\ Len(f[n]) \in 0..k
             All(w, k) == \A n \in 0..number : n < w => Has(n, k)
  <1>2. /\ \A n \in 0..number : n < 10 => f[n] = <<n>>
        /\ \A n \in 0..number : ~(n < 10) => f[n] = Append(f[n \div 10], n % 10)
    BY <1>1, DigitsStep, Zenon
  <1>3. ASSUME NEW n \in 0..number, n < 10 PROVE Has(n, 1)
    <2>1. f[n] = <<n>> /\ n \in Nat
      BY <1>2, <1>3
    <2> QED BY <2>1
  <1>4. ASSUME NEW w \in Nat, NEW k \in 1..4, All(w, k)
        PROVE  All(10 * w, k + 1)
    <2> SUFFICES ASSUME NEW n \in 0..number, n < 10 * w PROVE Has(n, k + 1)
      OBVIOUS
    <2>1. CASE n < 10
      <3>1. f[n] \in Seq(Nat) /\ Len(f[n]) \in 0..1
        BY <1>3, <2>1
      <3>2. \A j \in 0..1 : j \in 0..(k + 1)
        OBVIOUS
      <3> QED BY <3>1, <3>2, Zenon
    <2>2. CASE ~(n < 10)
      <3> DEFINE h == n \div 10
                 d == n % 10
      <3>1. h \in 0..number /\ h < w /\ d \in Nat
        OBVIOUS
      <3>2. Has(h, k)
        BY <1>4, <3>1
      <3>3. f[n] = Append(f[h], d)
        BY <1>2, <2>2
      <3> HIDE DEF h, d
      <3> QED BY <3>1, <3>2, <3>3
    <2> QED BY <2>1, <2>2
  <1>5. All(10, 1)
    BY <1>3
  <1> HIDE DEF All
  <1>6. All(100, 2)
    <2>1. All(10 * 10, 1 + 1)
      BY <1>4, <1>5
    <2> QED BY <2>1
  <1>7. All(1000, 3)
    <2>1. All(10 * 100, 2 + 1)
      BY <1>4, <1>6
    <2> QED BY <2>1
  <1>8. All(10000, 4)
    <2>1. All(10 * 1000, 3 + 1)
      BY <1>4, <1>7
    <2> QED BY <2>1
  <1>9. All(100000, 5)
    <2>1. All(10 * 10000, 4 + 1)
      BY <1>4, <1>8
    <2> QED BY <2>1
  <1>10. number \in 0..number /\ number < 100000
    BY DEF FiveDigitNumber
  <1>11. Has(number, 5)
    BY <1>9, <1>10 DEF All
  <1> QED BY <1>1, <1>11

(* The binary digits at the front of a decimal text, read as a number.     *)
LEMMA BinaryDef ==
  ASSUME NEW number, NEW digits, digits = Digits(number), Len(digits) \in Nat
  PROVE  \E f :
           IsBinary(f, digits, Len(digits)) /\ BinaryStringToDecimal(number) = f[Len(digits)]
  <1> DEFINE stop(i) == \E j \in 1..i : digits[j] > 1
             S == {m \in Nat : \E f : IsBinary(f, digits, m)}
  <1> HIDE DEF stop
  <1>1. 0 \in S
    <2> DEFINE f == [i \in 0..0 |-> 0]
    <2>1. IsBinary(f, digits, 0)
      BY DEF IsBinary
    <2> HIDE DEF f
    <2> QED BY <2>1
  <1>2. ASSUME NEW m \in Nat, m \in S PROVE m + 1 \in S
    <2>1. PICK f : IsBinary(f, digits, m)
      BY <1>2
    <2> DEFINE g == [i \in 0..(m + 1) |->
                       IF i <= m THEN f[i]
                       ELSE IF stop(m + 1) THEN f[m] ELSE 2 * f[m] + digits[m + 1]]
    <2>2. ASSUME NEW i \in 0..(m + 1)
          PROVE  g[i] = IF i = 0 THEN 0
                        ELSE IF stop(i) THEN g[i - 1] ELSE 2 * g[i - 1] + digits[i]
      <3>1. CASE i <= m
        BY <2>1, <3>1 DEF IsBinary, stop
      <3>2. CASE i = m + 1
        BY <3>2
      <3> QED BY <3>1, <3>2
    <2>3. IsBinary(g, digits, m + 1)
      BY <2>2 DEF IsBinary, stop
    <2> HIDE DEF g
    <2> QED BY <2>3
  <1> HIDE DEF S
  <1>3. Nat \subseteq S
    BY <1>1, <1>2, Induction
  <1>4. \E f : IsBinary(f, digits, Len(digits))
    BY <1>3 DEF S
  <1> QED BY <1>4 DEF BinaryStringToDecimal, IsBinary

BinaryAt(f, digits, k) ==
  f[k] = IF \E j \in 1..k : digits[j] > 1 THEN f[k - 1] ELSE 2 * f[k - 1] + digits[k]

LEMMA BinaryStep ==
  ASSUME NEW m \in Nat, NEW f, NEW digits, IsBinary(f, digits, m), NEW k \in 1..m
  PROVE  BinaryAt(f, digits, k)
  <1> DEFINE stop(i) == \E j \in 1..i : digits[j] > 1
             e(i) == IF i = 0 THEN 0
                     ELSE IF stop(i) THEN f[i - 1] ELSE 2 * f[i - 1] + digits[i]
  <1>1. f = [i \in 0..m |-> e(i)]
    BY Zenon DEF IsBinary
  <1>2. k # 0 /\ k \in 0..m
    OBVIOUS
  <1> HIDE DEF e
  <1>3. f[k] = e(k)
    BY <1>1, <1>2
  <1> HIDE DEF stop
  <1>4. f[k] = IF stop(k) THEN f[k - 1] ELSE 2 * f[k - 1] + digits[k]
    BY <1>2, <1>3 DEF e
  <1> QED BY <1>4 DEF stop, BinaryAt

(* Five binary digits are a number below 32.                               *)
LEMMA FiveBits ==
  ASSUME NEW number \in Nat, number \in FiveDigitNumber
  PROVE  BinaryStringToDecimal(number) \in 0..31
  <1> DEFINE digits == Digits(number)
             l == Len(digits)
  <1>1. digits \in Seq(Nat) /\ l \in 0..5 /\ \A i \in 1..l : digits[i] \in Nat
    BY FiveDigits
  <1> DEFINE stop(i) == \E j \in 1..i : digits[j] > 1
  <1>2. \A i \in 1..l : ~stop(i) => digits[i] \in 0..1
    BY <1>1
  <1>3. PICK f : IsBinary(f, digits, l) /\ BinaryStringToDecimal(number) = f[l]
    BY <1>1, BinaryDef
  <1> HIDE DEF digits, l, stop
  <1> DEFINE R(i, m) == i <= l => f[i] \in 0..m
  <1>4. R(0, 0)
    BY <1>1, <1>3 DEF IsBinary
  <1>5. ASSUME NEW i \in 0..4, NEW m \in Nat, R(i, m) PROVE R(i + 1, 2 * m + 1)
    <2> SUFFICES ASSUME i + 1 <= l PROVE f[i + 1] \in 0..(2 * m + 1)
      OBVIOUS
    <2>1. f[i + 1] = IF stop(i + 1) THEN f[i] ELSE 2 * f[i] + digits[i + 1]
      <3>1. i + 1 \in 1..l /\ (i + 1) - 1 = i
        BY <1>1
      <3>2. l \in Nat /\ IsBinary(f, digits, l)
        BY <1>1, <1>3
      <3> DEFINE k == i + 1
      <3>3. k \in 1..l /\ k - 1 = i
        BY <3>1
      <3> HIDE DEF k
      <3>4. BinaryAt(f, digits, k)
        BY <3>2, <3>3, BinaryStep
      <3>5. f[k] = IF stop(k) THEN f[k - 1] ELSE 2 * f[k - 1] + digits[k]
        BY <3>4, Zenon DEF stop, BinaryAt
      <3> QED BY <3>3, <3>5 DEF k
    <2>2. f[i] \in 0..m /\ (~stop(i + 1) => digits[i + 1] \in 0..1)
      BY <1>1, <1>2, <1>5
    <2> QED BY <2>1, <2>2
  <1> HIDE DEF R
  <1>6. R(1, 1)
    <2>1. R(0 + 1, 2 * 0 + 1)
      BY <1>4, <1>5
    <2> QED BY <2>1
  <1>7. R(2, 3)
    <2>1. R(1 + 1, 2 * 1 + 1)
      BY <1>5, <1>6
    <2> QED BY <2>1
  <1>8. R(3, 7)
    <2>1. R(2 + 1, 2 * 3 + 1)
      BY <1>5, <1>7
    <2> QED BY <2>1
  <1>9. R(4, 15)
    <2>1. R(3 + 1, 2 * 7 + 1)
      BY <1>5, <1>8
    <2> QED BY <2>1
  <1>10. R(5, 31)
    <2>1. R(4 + 1, 2 * 15 + 1)
      BY <1>5, <1>9
    <2> QED BY <2>1
  <1>11. l \in {0, 1, 2, 3, 4, 5}
    BY <1>1
  <1>12. f[l] \in 0..31
    BY <1>4, <1>6, <1>7, <1>8, <1>9, <1>10, <1>11 DEF R
  <1> QED BY <1>3, <1>12

(* The bits of a number below 32 are a decimal number of five digits.      *)
LEMMA FewBits ==
  ASSUME NEW number \in 0..31
  PROVE  BitsAsDigits(number) \in Nat /\ BitsAsDigits(number) <= 11111
  <1>1. PICK f : IsBits(f, number) /\ BitsAsDigits(number) = f[number]
    BY BitsDef
  <1> DEFINE All(w, k) == \A n \in 0..number : n < w => f[n] \in Nat /\ f[n] <= k
  <1>2. ASSUME NEW w \in Nat, NEW k \in Nat, All(w, k)
        PROVE  All(2 * w, 10 * k + 1)
    <2> SUFFICES ASSUME NEW n \in 0..number, n < 2 * w PROVE f[n] \in Nat /\ f[n] <= 10 * k + 1
      OBVIOUS
    <2>1. f[n] = IF n = 0 THEN 0 ELSE 10 * f[n \div 2] + (n % 2)
      BY <1>1, Zenon DEF IsBits
    <2>2. n \div 2 \in 0..number /\ n \div 2 < w /\ n % 2 \in 0..1
      OBVIOUS
    <2>3. f[n \div 2] \in Nat /\ f[n \div 2] <= k
      BY <1>2, <2>2
    <2> QED BY <2>1, <2>2, <2>3
  <1>3. All(1, 0)
    BY <1>1 DEF IsBits
  <1> HIDE DEF All
  <1>4. All(2, 1)
    <2>1. All(2 * 1, 10 * 0 + 1)
      BY <1>2, <1>3
    <2> QED BY <2>1
  <1>5. All(4, 11)
    <2>1. All(2 * 2, 10 * 1 + 1)
      BY <1>2, <1>4
    <2> QED BY <2>1
  <1>6. All(8, 111)
    <2>1. All(2 * 4, 10 * 11 + 1)
      BY <1>2, <1>5
    <2> QED BY <2>1
  <1>7. All(16, 1111)
    <2>1. All(2 * 8, 10 * 111 + 1)
      BY <1>2, <1>6
    <2> QED BY <2>1
  <1>8. All(32, 11111)
    <2>1. All(2 * 16, 10 * 1111 + 1)
      BY <1>2, <1>7
    <2> QED BY <2>1
  <1>9. number \in 0..number /\ number < 32
    OBVIOUS
  <1> QED BY <1>1, <1>8, <1>9 DEF All
-----------------------------------------------------------------------------
(* Numbers and their bytes.                                                *)

LEMMA Weights == Weight[1] = 1 /\ Weight[2] = 256
  BY DEF Weight

LEMMA HighWeights ==
  ASSUME NEW x \in Int
  PROVE  x * Weight[3] = 256 * (256 * x) /\ x * Weight[4] = 256 * (256 * (256 * x))
  <1>1. Weight[3] = 65536 /\ Weight[4] = 256 * 65536
    BY DEF Weight
  <1>2. x * 65536 = 256 * (256 * x)
    OBVIOUS
  <1>3. x * (256 * 65536) = 256 * (256 * (256 * x))
    OBVIOUS
  <1> QED BY <1>1, <1>2, <1>3

LEMMA BytesAreNumbers ==
  ASSUME NEW b \in Seq(Byte)
  PROVE  \A i \in 1..Len(b) : b[i] \in Int /\ 0 <= b[i] /\ b[i] < 256
  <1>1. \A i \in 1..Len(b) : b[i] \in Byte
    OBVIOUS
  <1> QED BY <1>1, Bytes

(* The bytes of a number are what is left over when it is divided by 256  *)
(* again and again.                                                        *)
HasBytes(n) ==
  /\ ByteOf(n, 1) = n % 256
  /\ ByteOf(n, 2) = (n \div 256) % 256
  /\ ByteOf(n, 3) = ((n \div 256) \div 256) % 256
  /\ ByteOf(n, 4) = (((n \div 256) \div 256) \div 256) % 256

LEMMA EachByte ==
  ASSUME NEW n \in Int
  PROVE  HasBytes(n)
  <1>1. Weight[1] = 1 /\ Weight[2] = 256 /\ Weight[3] = 65536 /\ Weight[4] = 256 * 65536
    BY DEF Weight
  <1>2. n \div 1 = n /\ n \div 65536 = (n \div 256) \div 256
    OBVIOUS
  <1>3. \A m \in Int : m \div (256 * 65536) = (m \div 65536) \div 256
    OBVIOUS
  <1> QED BY <1>1, <1>2, <1>3 DEF HasBytes, ByteOf

(* The value of one, two or four bytes; the most significant one counts    *)
(* from -128 in a signed number.                                           *)
ValueOf(b, k, top) == IF k = 1 THEN top ELSE IF k = 2 THEN 256 * top + b[1]
                      ELSE b[1] + 256 * (b[2] + 256 * (b[3] + 256 * top))
SignOf(top) == IF top >= 128 THEN top - 256 ELSE top

LEMMA SignedValue ==
  ASSUME NEW b \in Seq(Byte), NEW k \in {1, 2, 4}, k = Len(b)
  PROVE  /\ Signed(b) = ValueOf(b, k, SignOf(b[k]))
         /\ Signed(b) \in Int
  <1>1. \A i \in 1..k : b[i] \in Int /\ 0 <= b[i] /\ b[i] < 256
    BY BytesAreNumbers
  <1>2. SignOf(b[k]) \in Int /\ k \in 1..k
    BY <1>1 DEF SignOf
  <1> DEFINE t == SignOf(b[k])
  <1>3. Signed(b) = t * Weight[k] + Low(b)
    BY DEF Signed, Top, SignOf
  <1>7. t \in Int
    BY <1>2
  <1> HIDE DEF t
  <1>4. CASE k = 1
    <2>1. Signed(b) = t * 1 + 0
      BY <1>3, <1>4, Weights DEF Low
    <2> QED BY <1>2, <1>4, <2>1 DEF ValueOf, t
  <1>5. CASE k = 2
    <2>1. Signed(b) = t * 256 + b[1]
      BY <1>3, <1>5, Weights DEF Low
    <2>2. b[1] \in Int
      BY <1>1, <1>5
    <2> QED BY <1>2, <1>5, <2>1, <2>2 DEF ValueOf, t
  <1>6. CASE k = 4
    <2>3. Low(b) = b[1] + 256 * b[2] + 65536 * b[3]
      BY <1>6 DEF Low, Word
    <2>1. Signed(b) = 256 * (256 * (256 * t)) + (b[1] + 256 * b[2] + 65536 * b[3])
      <3>1. t * Weight[4] = 256 * (256 * (256 * t))
        BY <1>7, HighWeights
      <3> QED BY <1>3, <1>6, <2>3, <3>1
    <2>2. b[1] \in Int /\ b[2] \in Int /\ b[3] \in Int
      BY <1>1, <1>6
    <2>4. Signed(b) = b[1] + 256 * (b[2] + 256 * (b[3] + 256 * t))
      BY <1>7, <2>1, <2>2
    <2> QED BY <1>6, <1>7, <2>2, <2>4 DEF ValueOf, t
  <1> QED BY <1>4, <1>5, <1>6

IsSum(f, b, m) ==
  f = [i \in 0..m |-> IF i = 0 THEN 0 ELSE f[i - 1] + b[i] * Weight[i]]

LEMMA UnsignedValue ==
  ASSUME NEW b \in Seq(Byte), NEW k \in {1, 2, 4}, k = Len(b)
  PROVE  Unsigned(b) = ValueOf(b, k, b[k])
  <1>1. \A i \in 1..k : b[i] \in Int /\ 0 <= b[i] /\ b[i] < 256
    BY BytesAreNumbers
  <1> DEFINE w(i) == b[i] * Weight[i]
             e(f, i) == IF i = 0 THEN 0 ELSE f[i - 1] + w(i)
             g == [i \in 0..k |-> IF i = 0 THEN 0 ELSE IF i = 1 THEN 0 + w(1)
                                  ELSE IF i = 2 THEN 0 + w(1) + w(2)
                                  ELSE IF i = 3 THEN 0 + w(1) + w(2) + w(3)
                                  ELSE 0 + w(1) + w(2) + w(3) + w(4)]
  <1> HIDE DEF w
  <1>2. ASSUME NEW i \in 0..k PROVE g[i] = e(g, i)
    OBVIOUS
  <1>3. \E f : f = [i \in 0..k |-> e(f, i)]
    <2>1. g = [i \in 0..k |-> e(g, i)]
      BY <1>2
    <2> HIDE DEF g, e
    <2> QED BY <2>1
  <1>4. PICK f : f = [i \in 0..k |-> e(f, i)] /\ Unsigned(b) = f[k]
    BY <1>3 DEF Unsigned, w
  <1>5. f[0] = 0 /\ \A i \in 1..k : f[i] = f[i - 1] + w(i)
    BY <1>4
  <1>6. f[0] = 0 /\ f[1] = f[0] + w(1)
    BY <1>5
  <1>7. CASE k = 1
    <2>1. w(1) = b[1] /\ b[1] \in Int
      BY <1>1, <1>7, Weights DEF w
    <2> QED BY <1>4, <1>6, <1>7, <2>1 DEF ValueOf
  <1>8. CASE k = 2
    <2>1. w(1) = b[1] /\ b[1] \in Int /\ w(2) = 256 * b[2] /\ b[2] \in Int
      BY <1>1, <1>8, Weights DEF w
    <2>2. f[2] = f[1] + w(2)
      BY <1>5, <1>8
    <2> QED BY <1>4, <1>6, <1>8, <2>1, <2>2 DEF ValueOf
  <1>9. CASE k = 4
    <2>1. w(1) = b[1] /\ b[1] \in Int /\ w(2) = 256 * b[2] /\ b[2] \in Int
      BY <1>1, <1>9, Weights DEF w
    <2>2. /\ w(3) = 256 * (256 * b[3]) /\ b[3] \in Int
          /\ w(4) = 256 * (256 * (256 * b[4])) /\ b[4] \in Int
      <3>1. b[3] \in Int /\ b[4] \in Int
        BY <1>1, <1>9
      <3> QED BY <3>1, HighWeights DEF w
    <2>3. f[2] = f[1] + w(2) /\ f[3] = f[2] + w(3) /\ f[4] = f[3] + w(4)
      BY <1>5, <1>9
    <2>4. f[4] = 0 + b[1] + 256 * b[2] + 256 * (256 * b[3]) + 256 * (256 * (256 * b[4]))
      BY <1>6, <2>1, <2>2, <2>3
    <2> DEFINE x2 == b[2]
               x3 == b[3]
               x4 == b[4]
    <2>6. x2 \in Int /\ x3 \in Int /\ x4 \in Int
      BY <2>1, <2>2
    <2>7. f[4] = 0 + b[1] + 256 * x2 + 256 * (256 * x3) + 256 * (256 * (256 * x4))
      BY <2>4
    <2> HIDE DEF x2, x3, x4
    <2>8. f[4] = b[1] + 256 * (x2 + 256 * (x3 + 256 * x4))
      BY <2>1, <2>6, <2>7
    <2>5. f[4] = b[1] + 256 * (b[2] + 256 * (b[3] + 256 * b[4]))
      BY <2>8 DEF x2, x3, x4
    <2> QED BY <1>4, <1>9, <2>5 DEF ValueOf
  <1> QED BY <1>7, <1>8, <1>9

(* A signed number is its two's complement.                                *)
LEMMA SignedIsTwosComplement ==
  ASSUME NEW b \in Seq(Byte), NEW k \in {1, 2, 4}, k = Len(b)
  PROVE  Signed(b) = TwosComplement(b)
  <1> DEFINE c == [i \in DOMAIN b |-> 255 - b[i]]
  <1>1. \A i \in 1..k : b[i] \in Int /\ 0 <= b[i] /\ b[i] < 256
    BY BytesAreNumbers
  <1>2. c \in Seq(Byte) /\ Len(c) = k /\ \A i \in 1..k : c[i] = 255 - b[i]
    <2>1. DOMAIN b = 1..k /\ k \in Nat
      OBVIOUS
    <2>2. \A i \in 1..k : 255 - b[i] \in Byte
      BY <1>1, Bytes
    <2>3. c \in [1..k -> Byte]
      BY <2>1, <2>2
    <2> QED BY <2>1, <2>3
  <1>3. Unsigned(b) = ValueOf(b, k, b[k]) /\ Unsigned(c) = ValueOf(c, k, c[k])
    BY <1>2, UnsignedValue
  <1>4. Signed(b) = ValueOf(b, k, SignOf(b[k]))
    BY SignedValue
  <1>5. TwosComplement(b) = IF b[k] < 128 THEN Unsigned(b) ELSE -1 - Unsigned(c)
    BY DEF TwosComplement
  <1> HIDE DEF c
  <1>9. b[k] \in Int /\ b[k] < 256 /\ k \in 1..k
    BY <1>1
  <1>10. CASE b[k] < 128
    <2>1. SignOf(b[k]) = b[k]
      BY <1>9, <1>10 DEF SignOf
    <2> QED BY <1>3, <1>4, <1>5, <1>10, <2>1
  <1>11. CASE ~(b[k] < 128)
    <2>1. SignOf(b[k]) = b[k] - 256 /\ c[k] = 255 - b[k]
      BY <1>2, <1>9, <1>11 DEF SignOf
    <2>2. ValueOf(b, k, b[k] - 256) = -1 - ValueOf(c, k, 255 - b[k])
      <3>1. CASE k = 1
        BY <1>9, <3>1 DEF ValueOf
      <3>2. CASE k = 2
        <4>1. b[1] \in Int /\ c[1] = 255 - b[1]
          BY <1>1, <1>2, <3>2
        <4> QED BY <1>9, <3>2, <4>1 DEF ValueOf
      <3>3. CASE k = 4
        <4>1. /\ b[1] \in Int /\ c[1] = 255 - b[1] /\ b[2] \in Int /\ c[2] = 255 - b[2]
              /\ b[3] \in Int /\ c[3] = 255 - b[3]
          BY <1>1, <1>2, <3>3
        <4> DEFINE x1 == b[1]
                   x2 == b[2]
                   x3 == b[3]
                   x4 == b[4]
        <4>2. /\ ValueOf(b, k, b[k] - 256) = x1 + 256 * (x2 + 256 * (x3 + 256 * (x4 - 256)))
              /\ ValueOf(c, k, 255 - b[k]) =
                   (255 - x1) + 256 * ((255 - x2) + 256 * ((255 - x3) + 256 * (255 - x4)))
              /\ x1 \in Int /\ x2 \in Int /\ x3 \in Int /\ x4 \in Int
          BY <1>9, <3>3, <4>1 DEF ValueOf
        <4> HIDE DEF x1, x2, x3, x4
        <4> QED BY <4>2
      <3> QED BY <3>1, <3>2, <3>3
    <2> QED BY <1>3, <1>4, <1>5, <1>11, <2>1, <2>2
  <1> QED BY <1>10, <1>11

(* Below half its range an unsigned number is its signed one.              *)
LEMMA SignedIsUnsigned ==
  ASSUME NEW b \in Seq(Byte), NEW k \in {1, 2, 4}, k = Len(b), b[k] < 128
  PROVE  Signed(b) = Unsigned(b)
  <1>1. SignOf(b[k]) = b[k]
    <2>1. b[k] \in Int
      BY BytesAreNumbers
    <2> QED BY <2>1 DEF SignOf
  <1> QED BY <1>1, SignedValue, UnsignedValue

(* What is written of a number: as many bytes as the parameter has.        *)
IsWritten(x, k, n) ==
  /\ x \in Seq(Byte) /\ Len(x) = k
  /\ \A i \in 1..k : x[i] = ByteOf(n, i)

LEMMA WrittenBytes ==
  ASSUME NEW a, NEW n, n \in Int, a.size \in {1, 2, 4}
  PROVE  IsWritten(Written(a, n), a.size, n)
  <1>1. HasBytes(n)
    BY EachByte
  <1>2. /\ n \div 256 \in Int /\ (n \div 256) \div 256 \in Int
        /\ ((n \div 256) \div 256) \div 256 \in Int
    OBVIOUS
  <1>3. \A i \in 1..4 : ByteOf(n, i) \in Byte
    <2>1. ByteOf(n, 1) \in Byte /\ ByteOf(n, 2) \in Byte /\ ByteOf(n, 3) \in Byte /\ ByteOf(n, 4) \in Byte
      BY <1>1, <1>2, Bytes DEF HasBytes
    <2>2. \A i \in 1..4 : i = 1 \/ i = 2 \/ i = 3 \/ i = 4
      OBVIOUS
    <2> QED BY <2>1, <2>2
  <1>4. \A i \in 1..a.size : ByteOf(n, i) \in Byte
    <2>1. \A i \in 1..a.size : i \in 1..4
      OBVIOUS
    <2> QED BY <1>3, <2>1
  <1>5. Written(a, n) = [i \in 1..a.size |-> ByteOf(n, i)]
    BY DEF Written
  <1>6. Written(a, n) \in [1..a.size -> Byte] /\ a.size \in Nat
    BY <1>4, <1>5
  <1> QED BY <1>5, <1>6 DEF IsWritten

(* Writing the number that is shown writes the bytes it was shown for.     *)
LEMMA WrittenSigned ==
  ASSUME NEW a, NEW k \in {1, 2, 4}, a.size = k, NEW b \in Seq(Byte), k = Len(b)
  PROVE  Written(a, Signed(b)) = b
  <1> DEFINE n == Signed(b)
             t == SignOf(b[k])
  <1>1. \A i \in 1..k : b[i] \in Int /\ 0 <= b[i] /\ b[i] < 256
    BY BytesAreNumbers
  <1>2. n = ValueOf(b, k, t) /\ n \in Int
    BY SignedValue
  <1>3. t \in Int /\ t % 256 = b[k]
    <2>1. b[k] \in Int /\ 0 <= b[k] /\ b[k] < 256
      BY <1>1
    <2> QED BY <2>1 DEF SignOf
  <1> HIDE DEF n, t
  <1>4. IsWritten(Written(a, n), k, n)
    <2>1. a.size \in {1, 2, 4}
      OBVIOUS
    <2>2. IsWritten(Written(a, n), a.size, n)
      <3>1. n \in Int
        BY <1>2
      <3> QED BY <2>1, <3>1, WrittenBytes, Zenon
    <2> QED BY <2>2
  <1>8. /\ ByteOf(n, 1) = n % 256 /\ ByteOf(n, 2) = (n \div 256) % 256
        /\ ByteOf(n, 3) = ((n \div 256) \div 256) % 256
        /\ ByteOf(n, 4) = (((n \div 256) \div 256) \div 256) % 256
    <2>1. HasBytes(n)
      BY <1>2, EachByte
    <2> QED BY <2>1 DEF HasBytes
  <1>5. \A i \in 1..k : ByteOf(n, i) = b[i]
    <2>1. CASE k = 1
      <3>1. ByteOf(n, 1) = b[1]
        BY <1>2, <1>3, <1>8, <2>1 DEF ValueOf
      <3> QED BY <2>1, <3>1
    <2>2. CASE k = 2
      <3>1. n = 256 * t + b[1] /\ b[1] \in Int /\ 0 <= b[1] /\ b[1] < 256
        BY <1>1, <1>2, <2>2 DEF ValueOf
      <3> DEFINE x == b[1]
      <3>4. n = 256 * t + x /\ x \in Int /\ 0 <= x /\ x < 256
        BY <3>1
      <3> HIDE DEF x
      <3>2. n % 256 = x /\ n \div 256 = t
        BY <1>3, <3>4
      <3>3. ByteOf(n, 1) = b[1] /\ ByteOf(n, 2) = b[2]
        BY <1>3, <1>8, <2>2, <3>2 DEF x
      <3> QED BY <2>2, <3>3
    <2>3. CASE k = 4
      <3> DEFINE b1 == b[1]
                 b2 == b[2]
                 b3 == b[3]
                 m2 == b3 + 256 * t
                 m1 == b2 + 256 * m2
      <3>1. n = b1 + 256 * (b2 + 256 * (b3 + 256 * t))
        BY <1>2, <2>3 DEF ValueOf
      <3>2. /\ b1 \in Int /\ 0 <= b1 /\ b1 < 256
            /\ b2 \in Int /\ 0 <= b2 /\ b2 < 256
            /\ b3 \in Int /\ 0 <= b3 /\ b3 < 256
        BY <1>1, <2>3
      <3> HIDE DEF b1, b2, b3
      <3>3. m1 \in Int /\ m2 \in Int /\ n = 256 * m1 + b1
        BY <1>3, <3>1, <3>2
      <3>4. n % 256 = b1 /\ n \div 256 = m1 /\ m1 % 256 = b2 /\ m1 \div 256 = m2
        BY <1>3, <3>2, <3>3
      <3>5. m2 % 256 = b3 /\ m2 \div 256 = t
        BY <1>3, <3>2
      <3> HIDE DEF m1, m2
      <3>7. ByteOf(n, 1) = b1 /\ ByteOf(n, 2) = b2 /\ ByteOf(n, 3) = b3 /\ ByteOf(n, 4) = b[4]
        BY <1>3, <1>8, <2>3, <3>4, <3>5
      <3> QED BY <2>3, <3>7 DEF b1, b2, b3
    <2> QED BY <2>1, <2>2, <2>3
  <1> DEFINE x == Written(a, n)
  <1>6. x \in Seq(Byte) /\ Len(x) = Len(b) /\ \A i \in 1..Len(x) : x[i] = b[i]
    BY <1>4, <1>5 DEF IsWritten
  <1> HIDE DEF x
  <1>7. x = b
    BY <1>6, SeqEqual
  <1> QED BY <1>7 DEF x, n
-----------------------------------------------------------------------------
(* What is read from the drive's data.                                     *)

(* The operation data of a parameter with this attribute.                  *)
Fits(a, v) ==
  /\ v \in Seq(Byte) /\ Len(v) % a.size = 0 /\ Len(v) < 65536
  /\ ~a.list => Len(v) = a.size

LEMMA AttributeKinds ==
  ASSUME NEW a \in Attributes
  PROVE  /\ a.size \in {1, 2, 4} /\ a.list \in BOOLEAN /\ a.display \in Display
         /\ a.display = "idn" => a.size = 2
         /\ \A v \in Values(a) : Fits(a, v)
  BY ParameterAssumption DEF Fits

IsCut(b, s, skip, n, i) ==
  /\ b \in Seq(Byte) /\ Len(b) = n
  /\ \A j \in 1..n : b[j] = s[skip + ((i - 1) * n + j)]
  /\ \A j \in 1..n : (i - 1) * n + j \in 1..(i * n)

LEMMA ElementBytes ==
  ASSUME NEW s, NEW skip \in Nat, NEW n \in {1, 2, 4}, NEW i \in Nat, i >= 1,
         \A j \in 1..(i * n) : s[skip + j] \in Byte
  PROVE  IsCut(Element(s, skip, n, i), s, skip, n, i)
  <1> DEFINE o == (i - 1) * n
             m == skip + (i - 1) * n + 1
             l == skip + i * n
  <1>1. o \in Nat /\ i * n = o + n
    <2>1. CASE n = 1
      BY <2>1
    <2>2. CASE n = 2
      BY <2>2
    <2>3. CASE n = 4
      BY <2>3
    <2> QED BY <2>1, <2>2, <2>3
  <1>2. m = skip + o + 1 /\ l = skip + (i * n)
    OBVIOUS
  <1> DEFINE e == i * n
  <1>3. m \in Int /\ l \in Int /\ m <= l /\ l - m + 1 = n /\ e \in Nat
        /\ m = skip + o + 1 /\ l = skip + e /\ e = o + n
    <2> HIDE DEF o, e
    <2>1. o \in Nat /\ e = o + n
      BY <1>1 DEF e
    <2>2. m = skip + o + 1 /\ l = skip + e
      BY <1>2 DEF e
    <2> HIDE DEF m, l
    <2> QED BY <2>1, <2>2
  <1>4. Element(s, skip, n, i) = SubSeq(s, m, l)
    BY DEF Element
  <1>5. \A j \in 1..e : s[skip + j] \in Byte
    OBVIOUS
  <1>6. o \in Nat
    BY <1>1
  <1> HIDE DEF o, m, l, e
  <1>7. \A j \in m..l : s[j] \in Byte
    <2> SUFFICES ASSUME NEW j \in m..l PROVE s[j] \in Byte
      OBVIOUS
    <2>1. j - skip \in 1..e /\ skip + (j - skip) = j
      BY <1>3, <1>6
    <2>2. s[skip + (j - skip)] \in Byte
      BY <1>5, <2>1
    <2> QED BY <2>1, <2>2
  <1>8. /\ SubSeq(s, m, l) \in Seq(Byte)
        /\ Len(SubSeq(s, m, l)) = IF m <= l THEN l - m + 1 ELSE 0
        /\ \A j \in 1..(l - m + 1) : SubSeq(s, m, l)[j] = s[m + j - 1]
    BY <1>3, <1>7, SubSeqProperties
  <1>9. \A j \in 1..n : m + j - 1 = skip + (o + j) /\ o + j \in 1..e
    BY <1>3, <1>6
  <1>10. \A j \in 1..n : Element(s, skip, n, i)[j] = s[skip + (o + j)]
    BY <1>3, <1>4, <1>8, <1>9
  <1>11. Element(s, skip, n, i) \in Seq(Byte) /\ Len(Element(s, skip, n, i)) = n
    BY <1>3, <1>4, <1>8
  <1> QED BY <1>9, <1>10, <1>11 DEF o, e, IsCut

LEMMA PayloadBytes ==
  ASSUME NEW a \in Attributes, NEW v, Fits(a, v)
  PROVE  /\ \A j \in 1..Len(v) : Payload(a.list, v)[Prefix(a) + j] = v[j]
         /\ a.list => Word(Payload(a.list, v)[1], Payload(a.list, v)[2]) = Len(v)
  <1>1. v \in Seq(Byte) /\ Len(v) \in Nat
    BY DEF Fits
  <1>2. CASE a.list
    <2> DEFINE h == <<Len(v) % 256, Len(v) \div 256, 64, 0>>
    <2>1. Payload(a.list, v) = h \o v /\ Prefix(a) = 4
      BY <1>2 DEF Payload, Prefix
    <2>2. h \in Seq(Byte) /\ Len(h) = 4 /\ h[1] = Len(v) % 256 /\ h[2] = Len(v) \div 256
      <3>1. Len(v) % 256 \in Byte /\ Len(v) \div 256 \in Byte /\ 64 \in Byte /\ 0 \in Byte
        BY <1>1, Bytes DEF Fits
      <3> QED BY <3>1
    <2> HIDE DEF h
    <2>3. \A i \in 1..Len(h) : (h \o v)[i] = h[i]
      BY <1>1, <2>2, ConcatBytes
    <2>7. \A i \in 1..Len(v) : (h \o v)[Len(h) + i] = v[i]
      BY <1>1, <2>2, ConcatBytes
    <2>4. (h \o v)[1] = h[1] /\ (h \o v)[2] = h[2]
      <3>1. 1 \in 1..Len(h) /\ 2 \in 1..Len(h)
        BY <2>2
      <3> QED BY <2>3, <3>1
    <2>5. \A j \in 1..Len(v) : (h \o v)[4 + j] = v[j]
      BY <2>2, <2>7
    <2>6. (Len(v) % 256) + 256 * (Len(v) \div 256) = Len(v)
      BY <1>1
    <2> QED BY <2>1, <2>2, <2>4, <2>5, <2>6 DEF Word
  <1>3. CASE ~a.list
    <2>1. Payload(a.list, v) = v /\ Prefix(a) = 0
      BY <1>3 DEF Payload, Prefix
    <2> QED BY <1>1, <1>3, <2>1
  <1>4. a.list \in BOOLEAN
    BY AttributeKinds
  <1> QED BY <1>2, <1>3, <1>4

(* The number of elements, and where each of them is.                      *)
Count(a, v) == Len(v) \div a.size

IsElement(a, v, i, b) ==
  /\ b \in Seq(Byte) /\ Len(b) = a.size
  /\ \A j \in 1..a.size : b[j] = v[(i - 1) * a.size + j]
  /\ \A j \in 1..a.size : (i - 1) * a.size + j \in 1..Len(v)

ElementOf(a, v, i) == Element(Payload(a.list, v), Prefix(a), a.size, i)

LEMMA ElementFound ==
  ASSUME NEW a \in Attributes, NEW v, Fits(a, v), NEW i \in 1..Count(a, v)
  PROVE  IsElement(a, v, i, ElementOf(a, v, i))
  <1> DEFINE s == Payload(a.list, v)
             n == a.size
             e == i * n
  <1>1. n \in {1, 2, 4} /\ Len(v) \in Nat /\ v \in Seq(Byte) /\ i \in Nat /\ i >= 1
    BY AttributeKinds DEF Fits
  <1>2. i * n \in Nat /\ i * n <= Len(v)
    <2>1. i <= Len(v) \div n
      BY DEF Count
    <2>2. CASE n = 1
      BY <1>1, <2>1, <2>2
    <2>3. CASE n = 2
      BY <1>1, <2>1, <2>3
    <2>4. CASE n = 4
      BY <1>1, <2>1, <2>4
    <2> QED BY <1>1, <2>2, <2>3, <2>4
  <1>3. \A j \in 1..Len(v) : s[Prefix(a) + j] = v[j] /\ v[j] \in Byte
    BY <1>1, PayloadBytes
  <1>4. Prefix(a) \in Nat
    BY DEF Prefix
  <1>5. 1..(i * n) \subseteq 1..Len(v)
    <2> HIDE DEF n
    <2> DEFINE x == i * n
    <2>1. x \in Nat /\ x <= Len(v) /\ Len(v) \in Nat
      BY <1>1, <1>2
    <2> HIDE DEF x
    <2>2. 1..x \subseteq 1..Len(v)
      BY <2>1
    <2> QED BY <2>2 DEF x
  <1>6. \A j \in 1..(i * n) : s[Prefix(a) + j] \in Byte
    BY <1>3, <1>5, Zenon
  <1> HIDE DEF s, n
  <1>7. /\ Element(s, Prefix(a), n, i) \in Seq(Byte) /\ Len(Element(s, Prefix(a), n, i)) = n
        /\ \A j \in 1..n : Element(s, Prefix(a), n, i)[j] = s[Prefix(a) + ((i - 1) * n + j)]
        /\ \A j \in 1..n : (i - 1) * n + j \in 1..(i * n)
    <2>1. IsCut(Element(s, Prefix(a), n, i), s, Prefix(a), n, i)
      BY <1>1, <1>4, <1>6, ElementBytes
    <2> QED BY <2>1, Zenon DEF IsCut
  <1>8. \A j \in 1..n : (i - 1) * n + j \in 1..Len(v)
    BY <1>5, <1>7, Zenon
  <1>9. \A j \in 1..n : Element(s, Prefix(a), n, i)[j] = v[(i - 1) * n + j]
    BY <1>3, <1>7, <1>8, Zenon
  <1> QED BY <1>7, <1>8, <1>9, Zenon DEF IsElement, ElementOf, s, n

(* What the decoder makes of the data: one item for each element.          *)
LEMMA DecodedItems ==
  ASSUME NEW a \in Attributes, NEW v, Fits(a, v)
  PROVE  Decoded(a, Payload(a.list, v)) =
           Text(Format(a), [i \in 1..Count(a, v) |-> Item(a, ElementOf(a, v, i))])
  <1> DEFINE s == Payload(a.list, v)
  <1>1. (IF a.list THEN Word(s[1], s[2]) ELSE a.size) = Len(v)
    <2>1. a.list \in BOOLEAN
      BY AttributeKinds
    <2> QED BY <2>1, PayloadBytes DEF Fits
  <1> HIDE DEF s
  <1>2. Decoded(a, s) =
          Text(Format(a), [i \in 1..(Len(v) \div a.size) |->
                             Item(a, Element(s, Prefix(a), a.size, i))])
    BY <1>1, Zenon DEF Decoded
  <1> QED BY <1>2, Zenon DEF s, Count, ElementOf

(* An item is a number or the bytes, as its format says.                   *)
IsItem(a, x) ==
  IF a.display \in {"uint", "int", "idn"} THEN x \in Int ELSE x \in Seq(Byte)

LEMMA ItemKinds ==
  ASSUME NEW a \in Attributes, NEW b \in Seq(Byte), Len(b) = a.size
  PROVE  IsItem(a, Item(a, b))
  <1>1. a.size \in {1, 2, 4} /\ (a.display = "idn" => a.size = 2)
    BY AttributeKinds
  <1>2. \A i \in 1..Len(b) : b[i] \in Int
    BY BytesAreNumbers
  <1>3. CASE a.display = "idn"
    <2>1. b[1] \in Int /\ b[2] \in Int
      BY <1>1, <1>2, <1>3
    <2>2. Item(a, b) = b[1] + 256 * b[2]
      BY <1>3 DEF Item, Word
    <2> QED BY <1>3, <2>1, <2>2 DEF IsItem
  <1>4. CASE a.display \in {"uint", "int"}
    <2>1. b[1] \in Int
      BY <1>1, <1>2
    <2>2. Signed(b) \in Int
      BY <1>1, SignedValue
    <2>3. Item(a, b) = b[1] \/ Item(a, b) = Signed(b)
      BY <1>4 DEF Item
    <2> QED BY <1>4, <2>1, <2>2, <2>3 DEF IsItem
  <1>5. CASE a.display \notin {"uint", "int", "idn"}
    <2>1. Item(a, b) = b
      BY <1>5 DEF Item
    <2> QED BY <1>5, <2>1 DEF IsItem
  <1> QED BY <1>3, <1>4, <1>5

(* A text as TypeOK wants it.                                              *)
IsText(t) ==
  /\ t.fmt \in {"none", "undecoded", "bin", "binNoB", "dec", "fixed", "hex", "char", "idn"}
  /\ \A i \in DOMAIN t.items :
       IF t.fmt \in {"dec", "fixed", "idn"} THEN t.items[i] \in Int ELSE t.items[i] \in Seq(Byte)

LEMMA DecodedText ==
  ASSUME NEW a \in Attributes, NEW v, Fits(a, v)
  PROVE  IsText(Decoded(a, Payload(a.list, v)))
  <1> DEFINE f == [i \in 1..Count(a, v) |-> Item(a, ElementOf(a, v, i))]
             t == Decoded(a, Payload(a.list, v))
  <1>1. t.fmt = Format(a) /\ t.items = f
    <2>1. t = Text(Format(a), f)
      BY DecodedItems, Zenon
    <2> HIDE DEF f, t
    <2> QED BY <2>1 DEF Text
  <1>2. \A i \in DOMAIN f : IsItem(a, f[i])
    <2> SUFFICES ASSUME NEW i \in 1..Count(a, v) PROVE IsItem(a, f[i])
      OBVIOUS
    <2>1. IsElement(a, v, i, ElementOf(a, v, i))
      BY ElementFound
    <2>2. f[i] = Item(a, ElementOf(a, v, i))
      OBVIOUS
    <2> QED BY <2>1, <2>2, ItemKinds DEF IsElement
  <1>3. /\ a.display \in Display
        /\ a.display \in {"uint", "int"} => Format(a) \in {"dec", "fixed"}
        /\ a.display = "binary" => Format(a) \in {"bin", "binNoB"}
        /\ a.display \in {"hex", "char", "idn"} => Format(a) = a.display
    BY AttributeKinds DEF Format
  <1> HIDE DEF f, t
  <1>4. /\ Format(a) \in {"dec", "fixed", "idn"} <=> a.display \in {"uint", "int", "idn"}
        /\ Format(a) \in {"bin", "binNoB", "dec", "fixed", "hex", "char", "idn"}
    BY <1>3 DEF Display
  <1> QED BY <1>1, <1>2, <1>4 DEF IsText, IsItem, t

(* The default attribute makes a number of the first word of the data,     *)
(* whatever they are.                                                      *)
LEMMA DefaultText ==
  ASSUME NEW a \in Undescribed, NEW v, Fits(a, v)
  PROVE  IsText(Decoded(AttributeDefault, Payload(a.list, v)))
  <1> DEFINE s == Payload(a.list, v)
             b == Element(s, 0, 2, 1)
  <1>1. \A j \in 1..2 : s[0 + j] \in Byte
    <2>1. a \in Attributes /\ (a.list \/ a.size > 1) /\ a.size \in {1, 2, 4} /\ a.list \in BOOLEAN
      BY ParameterAssumption
    <2>2. v \in Seq(Byte) /\ Len(v) \in Nat /\ Len(v) < 65536
      BY DEF Fits
    <2>3. CASE a.list
      <3> DEFINE h == <<Len(v) % 256, Len(v) \div 256, 64, 0>>
      <3>1. Len(v) % 256 \in Byte /\ Len(v) \div 256 \in Byte /\ 64 \in Byte /\ 0 \in Byte
        BY <2>2, Bytes
      <3>2. s = h \o v
        BY <2>3 DEF Payload
      <3>3. h \in Seq(Byte) /\ Len(h) = 4 /\ h[1] \in Byte /\ h[2] \in Byte
        BY <3>1
      <3> HIDE DEF h, s
      <3>4. \A j \in 1..Len(h) : s[j] = h[j]
        <4>1. h \in Seq(Byte) /\ v \in Seq(Byte)
          BY <2>2, <3>3
        <4>2. \A j \in 1..Len(h) : (h \o v)[j] = h[j]
          BY <4>1, ConcatBytes, Zenon
        <4> QED BY <3>2, <4>2, Zenon
      <3>5. s[1] = h[1] /\ s[2] = h[2]
        BY <3>3, <3>4
      <3> QED BY <3>3, <3>5
    <2>4. CASE ~a.list
      <3>1. s = v /\ Len(v) >= 2
        BY <2>1, <2>4 DEF Payload, Fits
      <3> HIDE DEF s
      <3> QED BY <2>2, <3>1
    <2> QED BY <2>3, <2>4
  <1> HIDE DEF s
  <1>2. b \in Seq(Byte) /\ Len(b) = 2
    <2>1. IsCut(b, s, 0, 2, 1)
      <3>1. \A j \in 1..(1 * 2) : s[0 + j] \in Byte
        BY <1>1
      <3>2. 0 \in Nat /\ 2 \in {1, 2, 4} /\ 1 \in Nat /\ 1 >= 1
        OBVIOUS
      <3> QED BY <3>1, <3>2, ElementBytes, Zenon
    <2> QED BY <2>1 DEF IsCut
  <1>3. Signed(b) \in Int
    BY <1>2, SignedValue
  <1>4. Decoded(AttributeDefault, s) = Text("dec", [i \in 1..1 |-> Signed(Element(s, 0, 2, i))])
    <2>1. Format(AttributeDefault) = "dec" /\ Prefix(AttributeDefault) = 0
      BY DEF Format, Prefix, AttributeDefault
    <2>2. \A x : Item(AttributeDefault, x) = Signed(x)
      BY DEF Item, AttributeDefault
    <2>3. /\ AttributeDefault.size = 2 /\ AttributeDefault.list = FALSE
          /\ AttributeDefault.size \div AttributeDefault.size = 1
      BY DEF AttributeDefault
    <2> QED BY <2>1, <2>2, <2>3, Zenon DEF Decoded
  <1> HIDE DEF b
  <1> DEFINE f == [i \in 1..1 |-> Signed(Element(s, 0, 2, i))]
             t == Decoded(AttributeDefault, s)
  <1>5. DOMAIN f = 1..1 /\ f[1] = Signed(b)
    BY DEF b
  <1> HIDE DEF f, t
  <1>6. t.fmt = "dec" /\ t.items = f
    BY <1>4 DEF Text, f, t
  <1>7. IsText(t)
    BY <1>3, <1>5, <1>6 DEF IsText
  <1> QED BY <1>7 DEF t, s
-----------------------------------------------------------------------------
(* Every state.                                                            *)

Inv ==
  /\ attr \in Attributes
  /\ Fits(attr, value)
  /\ IsText(stored)
  /\ typed \in Seq(Byte) \cup {NotTyped}

LEMMA SingleItem ==
  ASSUME NEW a \in Attributes, a \notin Undescribed, ~a.list, NEW v, Fits(a, v)
  PROVE  /\ Decoded(a, v).fmt = Format(a)
         /\ Len(Decoded(a, v).items) = 1
         /\ Decoded(a, v).items[1] = Item(a, v)
  <1>1. v \in Seq(Byte) /\ Len(v) = a.size /\ a.size \in {1, 2, 4}
    BY AttributeKinds DEF Fits
  <1>2. Payload(a.list, v) = v
    BY DEF Payload
  <1>3. Count(a, v) = 1
    BY <1>1 DEF Count
  <1>4. ElementOf(a, v, 1) = v
    <2> DEFINE b == ElementOf(a, v, 1)
    <2>1. 1 \in 1..Count(a, v)
      BY <1>3
    <2>2. IsElement(a, v, 1, b)
      BY <2>1, ElementFound
    <2>3. b \in Seq(Byte) /\ Len(b) = a.size /\ \A j \in 1..a.size : b[j] = v[(1 - 1) * a.size + j]
      BY <2>2 DEF IsElement
    <2> HIDE DEF b
    <2>4. \A j \in 1..a.size : (1 - 1) * a.size + j = j
      BY <1>1
    <2>5. \A j \in 1..Len(b) : b[j] = v[j]
      BY <2>3, <2>4
    <2>6. b = v
      BY <1>1, <2>3, <2>5, SeqEqual
    <2> QED BY <2>6 DEF b
  <1> DEFINE f == [i \in 1..Count(a, v) |-> Item(a, ElementOf(a, v, i))]
  <1>5. Decoded(a, v) = Text(Format(a), f)
    BY <1>2, DecodedItems
  <1>6. Len(f) = 1 /\ f[1] = Item(a, ElementOf(a, v, 1))
    BY <1>3
  <1> HIDE DEF f
  <1> QED BY <1>4, <1>5, <1>6 DEF Text

LEMMA TypedNumber ==
  ASSUME NEW a \in MayEdit, NEW v \in Values(a)
  PROVE  /\ a \in Attributes /\ ~a.list /\ a \notin Undescribed /\ Fits(a, v)
         /\ StrToIntDef(Decoded(a, v)) \in Int
         /\ a.display \in {"uint", "int"} /\ a.decimals = 0 =>
              StrToIntDef(Decoded(a, v)) = Signed(v)
         /\ a.display = "uint" /\ a.decimals # 0 => StrToIntDef(Decoded(a, v)) = 0
  <1>1. a \in Attributes /\ ~a.list /\ a \notin Undescribed
    BY ParameterAssumption
  <1>2. Fits(a, v)
    BY <1>1, AttributeKinds
  <1> DEFINE t == Decoded(a, v)
  <1>3. t.fmt = Format(a) /\ Len(t.items) = 1 /\ t.items[1] = Item(a, v)
    BY <1>1, <1>2, SingleItem
  <1>4. v \in Seq(Byte) /\ Len(v) = a.size /\ a.size \in {1, 2, 4}
    BY <1>1, <1>2, AttributeKinds DEF Fits
  <1>5. IsItem(a, Item(a, v))
    BY <1>1, <1>4, ItemKinds
  <1> HIDE DEF t
  <1>6. CASE Format(a) = "dec"
    <2>1. a.display \in {"uint", "int"} /\ a.decimals = 0
      <3>1. a.display \in Display
        BY <1>1, AttributeKinds
      <3> QED BY <1>6, <3>1 DEF Format, Display
    <2>2. Item(a, v) = Signed(v)
      BY <1>1, <2>1 DEF Item
    <2>3. StrToIntDef(t) = t.items[1]
      BY <1>3, <1>6 DEF StrToIntDef
    <2> QED BY <1>1, <1>2, <1>3, <1>5, <2>1, <2>2, <2>3 DEF IsItem, t
  <1>7. CASE Format(a) = "binNoB"
    <2>1. a.display = "binary"
      <3>1. a.display \in Display
        BY <1>1, AttributeKinds
      <3> QED BY <1>7, <3>1 DEF Format, Display
    <2>2. Item(a, v) = v
      BY <2>1 DEF Item
    <2>3. StrToIntDef(t) = BitsAsDigits(v[1])
      BY <1>3, <1>7, <2>2 DEF StrToIntDef
    <2>4. v[1] \in Nat
      <3>1. 1 \in 1..Len(v)
        BY <1>4
      <3> QED BY <1>4, <3>1, BytesAreNumbers
    <2>5. BitsAsDigits(v[1]) \in Int
      BY <2>4, LowBits
    <2> QED BY <1>1, <1>2, <2>1, <2>3, <2>5 DEF t
  <1>8. CASE Format(a) \notin {"dec", "binNoB"}
    <2>1. StrToIntDef(t) = 0
      BY <1>3, <1>8 DEF StrToIntDef
    <2>2. ~(a.display \in {"uint", "int"} /\ a.decimals = 0)
      BY <1>8 DEF Format
    <2> QED BY <1>1, <1>2, <2>1, <2>2 DEF t
  <1> QED BY <1>6, <1>7, <1>8

(* What the set-up reads is a number of five bits without the one it is    *)
(* about to set.                                                           *)
LEMMA ModeRead ==
  ASSUME Inv, attr \in CommandMode, NEW raw \in CommandValueModes
  PROVE  raw \in 0..31
  <1>1. attr \in Attributes /\ attr \notin Undescribed /\ ~attr.list /\ Fits(attr, value)
        /\ attr.display = "uint" /\ attr.size = 2
    BY ParameterAssumption DEF Inv
  <1>2. Decoded(attr, value).items[1] = Signed(value)
    <2>1. Item(attr, value) = Signed(value)
      BY <1>1 DEF Item
    <2> QED BY <1>1, <2>1, SingleItem
  <1>3. value \in Seq(Byte) /\ Len(value) = 2
    BY <1>1 DEF Fits
  <1>4. Signed(value) \in Int /\ Signed(value) < 32768
    <2>1. Signed(value) = ValueOf(value, 2, SignOf(value[2])) /\ Signed(value) \in Int
      BY <1>3, SignedValue
    <2>2. value[1] \in Int /\ value[1] < 256 /\ value[2] \in Int /\ value[2] < 256
      BY <1>3, BytesAreNumbers
    <2>3. SignOf(value[2]) \in Int /\ SignOf(value[2]) < 128
      BY <2>2 DEF SignOf
    <2> QED BY <2>1, <2>2, <2>3 DEF ValueOf
  <1>5. raw = 0 \/ (~(Signed(value) < 0) /\ raw = BinaryStringToDecimal(Signed(value)))
    BY <1>2 DEF CommandValueModes
  <1>6. ~(Signed(value) < 0) => Signed(value) \in Nat /\ Signed(value) \in FiveDigitNumber
    <2> DEFINE n == Signed(value)
    <2>1. n \in Int /\ n < 32768
      BY <1>4
    <2> HIDE DEF n
    <2>2. ~(n < 0) => n \in Nat /\ n \in FiveDigitNumber
      BY <2>1 DEF FiveDigitNumber
    <2> QED BY <2>2 DEF n
  <1> QED BY <1>5, <1>6, FiveBits

LEMMA WrittenFits ==
  ASSUME NEW a \in Attributes, ~a.list, NEW n \in Int
  PROVE  Fits(a, Written(a, n))
  <1>1. a.size \in {1, 2, 4}
    BY AttributeKinds
  <1>2. Written(a, n) \in Seq(Byte) /\ Len(Written(a, n)) = a.size
    <2>1. IsWritten(Written(a, n), a.size, n)
      BY <1>1, WrittenBytes
    <2> QED BY <2>1 DEF IsWritten
  <1>3. a.size % a.size = 0 /\ a.size < 65536
    BY <1>1
  <1> QED BY <1>2, <1>3 DEF Fits

LEMMA NothingShown == IsText(NoText)
  <1>1. NoText.fmt = "none" /\ DOMAIN NoText.items = {}
    BY DEF NoText, Text
  <1> QED BY <1>1 DEF IsText

LEMMA SetupWrites ==
  ASSUME Inv, Setup
  PROVE  \E raw \in 0..27 :
           /\ (raw \div 4) % 2 = 0
           /\ value' = Written(attr, BitsAsDigits(raw + 4))
  <1>1. PICK raw \in CommandValueModes :
          TargetPosAfter(raw) = 0 /\ value' = Written(attr, BitsAsDigits(raw + 4))
    BY DEF Setup
  <1>2. raw \in 0..31
    BY ModeRead DEF Setup
  <1>3. (raw \div 4) % 2 = 0
    BY <1>1 DEF TargetPosAfter
  <1>4. raw \in 0..27
    BY <1>2, <1>3
  <1> QED BY <1>1, <1>3, <1>4

LEMMA InvStep ==
  ASSUME Inv, [Next]_vars
  PROVE  Inv'
  <1>1. CASE UNCHANGED vars
    BY <1>1 DEF vars, Inv, IsText, Fits
  <1>2. CASE ReadData
    <2>1. IsText(Decoded(attr, Payload(attr.list, value)))
      BY DecodedText DEF Inv
    <2>2. attr \in Undescribed => IsText(Decoded(AttributeDefault, Payload(attr.list, value)))
      BY DefaultText DEF Inv
    <2>3. IsText(Undecoded)
      BY DEF IsText, Undecoded, Text
    <2>4. IsText(stored')
      <3>1. stored' \in IF attr \in Undescribed
                       THEN {Undecoded, Decoded(AttributeDefault, Payload(attr.list, value))}
                       ELSE {Decoded(attr, Payload(attr.list, value))}
        BY <1>2, Zenon DEF ReadData
      <3> QED BY <2>1, <2>2, <2>3, <3>1
    <2>5. UNCHANGED <<attr, value, typed>>
      BY <1>2 DEF ReadData
    <2> QED BY <2>4, <2>5 DEF Inv, IsText, Fits
  <1>3. ASSUME NEW v \in Values(attr), Edit(v) PROVE Inv'
    <2>1. /\ attr \in MayEdit /\ attr' = attr /\ stored' = NoText /\ typed' = v
          /\ value' = Written(attr, StrToIntDef(Decoded(attr, v)))
      BY <1>3 DEF Edit
    <2>2. attr \in Attributes /\ ~attr.list /\ Fits(attr, v) /\ StrToIntDef(Decoded(attr, v)) \in Int
      BY <2>1, TypedNumber
    <2>3. Fits(attr, Written(attr, StrToIntDef(Decoded(attr, v))))
      BY <2>2, WrittenFits
    <2>4. v \in Seq(Byte)
      BY <2>2 DEF Fits
    <2> QED BY <2>1, <2>2, <2>3, <2>4, NothingShown DEF Inv, IsText, Fits
  <1>4. CASE Setup
    <2>1. PICK raw \in 0..27 : value' = Written(attr, BitsAsDigits(raw + 4))
      BY <1>4, SetupWrites
    <2>2. BitsAsDigits(raw + 4) \in Int
      <3>1. raw + 4 \in Nat
        OBVIOUS
      <3> QED BY <3>1, LowBits
    <2>3. attr \in Attributes /\ ~attr.list
      BY <1>4, ParameterAssumption DEF Setup
    <2>4. Fits(attr, value')
      BY <2>1, <2>2, <2>3, WrittenFits
    <2>5. attr' = attr /\ stored' = stored /\ typed' = NotTyped
      BY <1>4 DEF Setup
    <2> QED BY <2>4, <2>5 DEF Inv, IsText, Fits
  <1> QED BY <1>1, <1>2, <1>3, <1>4 DEF Next

LEMMA Invariance == Spec => []Inv
  <1>1. Init => Inv
    <2> SUFFICES ASSUME Init PROVE Inv
      OBVIOUS
    <2>1. attr \in Attributes /\ value \in Values(attr) /\ stored = NoText /\ typed = NotTyped
      BY DEF Init
    <2> QED BY <2>1, AttributeKinds, NothingShown DEF Inv
  <1>2. Inv /\ [Next]_vars => Inv'
    BY InvStep
  <1> QED BY <1>1, <1>2, PTL DEF Spec

(* Whatever the drive holds and whatever is read, edited and set up: the   *)
(* data keep the width of the attribute, and the store has a text of the   *)
(* right kind (sis.pas 1018-1201, 378-385).                                *)
THEOREM TypeCorrect == Spec => []TypeOK
  <1>1. Inv => TypeOK
    BY DEF Inv, IsText, Fits, TypeOK
  <1> QED BY <1>1, Invariance, PTL
-----------------------------------------------------------------------------
(* Editing.                                                                *)

(* The user edits whole numbers only: the other displays print what the    *)
(* code does not read back.                                                *)
EditsIntegers ==
  \A a \in MayEdit : a.display \in {"uint", "int"} /\ a.decimals = 0

(* "Edit value field to update data." (main.lfm 700): after a write the    *)
(* drive has the value whose text was typed, for whole numbers of every    *)
(* size (main.pas 3468-3497, sis.pas 378-385).                             *)
THEOREM WritesTakeEffect ==
  ASSUME EditsIntegers
  PROVE  Spec => []WriteTakesEffect
  <1>1. Init => WriteTakesEffect
    BY DEF Init, WriteTakesEffect
  <1>2. ASSUME Inv, WriteTakesEffect, [Next]_vars PROVE WriteTakesEffect'
    <2>1. CASE UNCHANGED vars
      BY <1>2, <2>1 DEF vars, WriteTakesEffect
    <2>2. CASE ReadData
      BY <1>2, <2>2 DEF ReadData, WriteTakesEffect
    <2>3. ASSUME NEW v \in Values(attr), Edit(v) PROVE WriteTakesEffect'
      <3>1. /\ attr \in MayEdit /\ typed' = v
            /\ value' = Written(attr, StrToIntDef(Decoded(attr, v)))
        BY <2>3 DEF Edit
      <3>2. /\ attr \in Attributes /\ ~attr.list /\ Fits(attr, v)
            /\ StrToIntDef(Decoded(attr, v)) = Signed(v)
        BY <3>1, TypedNumber DEF EditsIntegers
      <3>3. v \in Seq(Byte) /\ Len(v) = attr.size /\ attr.size \in {1, 2, 4}
        BY <3>2, AttributeKinds DEF Fits
      <3>4. Written(attr, Signed(v)) = v
        BY <3>3, WrittenSigned
      <3> QED BY <3>1, <3>2, <3>4 DEF WriteTakesEffect
    <2>4. CASE Setup
      BY <2>4 DEF Setup, WriteTakesEffect
    <2> QED BY <1>2, <2>1, <2>2, <2>3, <2>4 DEF Next
  <1>3. Inv /\ WriteTakesEffect /\ [Next]_vars => WriteTakesEffect'
    BY <1>2
  <1> QED BY <1>1, <1>3, Invariance, PTL DEF Spec
-----------------------------------------------------------------------------
(* The set-up of S-0-0393.                                                 *)

(* TargetPosAfter is set by the set-up, whatever the drive had: bits that  *)
(* are read and written as decimal digits keep the lowest three (main.pas  *)
(* 4606-4619: "We need TargetPosAfter = 1").                               *)
THEOREM TargetPosAfterSet == Spec => TargetPosAfterIsSet
  <1>1. ASSUME Inv, Setup PROVE TargetPosAfter(value'[1]) = 1
    <2>1. PICK raw \in 0..27 :
            (raw \div 4) % 2 = 0 /\ value' = Written(attr, BitsAsDigits(raw + 4))
      BY <1>1, SetupWrites
    <2> DEFINE n == BitsAsDigits(raw + 4)
    <2>2. n \in Nat /\ n % 8 = (raw + 4) % 8
      <3>1. raw + 4 \in Nat
        OBVIOUS
      <3> QED BY <3>1, LowBits
    <2>3. attr.size = 2
      BY <1>1, ParameterAssumption DEF Setup
    <2> HIDE DEF n
    <2>4. value'[1] = n % 256
      <3>1. IsWritten(Written(attr, n), attr.size, n) /\ HasBytes(n)
        BY <2>2, <2>3, WrittenBytes, EachByte
      <3>2. Written(attr, n)[1] = n % 256
        BY <2>3, <3>1 DEF IsWritten, HasBytes
      <3> QED BY <2>1, <3>2 DEF n
    <2>5. ((n % 256) \div 4) % 2 = 1
      BY <2>1, <2>2
    <2> QED BY <2>4, <2>5 DEF TargetPosAfter
  <1>2. Inv => [Setup => TargetPosAfter(value'[1]) = 1]_vars
    BY <1>1
  <1> QED BY <1>2, Invariance, PTL DEF TargetPosAfterIsSet, Spec
-----------------------------------------------------------------------------
(* What is shown.                                                          *)

(* The code prints the bytes of a list without a sign and every other      *)
(* number with one (sis.pas 1117-1181), whatever the attribute says.       *)
SignDiffers(a) ==
  IF a.list /\ a.size = 1 THEN a.display = "int" ELSE a.display = "uint"

(* Numbers of which the sign makes no difference.                          *)
InLowerHalf(a, v) ==
  SignDiffers(a) => \A i \in DOMAIN v : i % a.size = 0 => v[i] < 128

SignsAgree == \A a \in Attributes : \A v \in Values(a) : InLowerHalf(a, v)

(* One element, as the attribute says.                                     *)
Meant(a, b) ==
  CASE a.display = "int" -> TwosComplement(b)
    [] a.display \in {"uint", "idn"} -> Unsigned(b)
    [] OTHER -> b

LEMMA ItemIsMeant ==
  ASSUME NEW a \in Attributes, NEW b \in Seq(Byte), Len(b) = a.size,
         SignDiffers(a) => b[a.size] < 128
  PROVE  Item(a, b) = Meant(a, b)
  <1> DEFINE k == a.size
  <1>1. k \in {1, 2, 4} /\ (a.display = "idn" => k = 2) /\ k = Len(b)
    BY AttributeKinds
  <1>2. Unsigned(b) = ValueOf(b, k, b[k]) /\ Signed(b) = TwosComplement(b)
    BY <1>1, UnsignedValue, SignedIsTwosComplement
  <1>3. b[k] < 128 => Signed(b) = Unsigned(b)
    BY <1>1, SignedIsUnsigned
  <1>4. \A i \in 1..k : b[i] \in Int
    BY BytesAreNumbers
  <1> HIDE DEF k
  <1>5. CASE a.display = "idn"
    <2>1. Item(a, b) = b[1] + 256 * b[2] /\ Meant(a, b) = Unsigned(b)
      BY <1>5 DEF Item, Meant, Word
    <2>2. Unsigned(b) = 256 * b[2] + b[1] /\ b[1] \in Int /\ b[2] \in Int
      BY <1>1, <1>2, <1>4, <1>5 DEF ValueOf
    <2> QED BY <2>1, <2>2
  <1>6. CASE a.display \in {"uint", "int"} /\ a.list /\ k = 1
    <2>1. Item(a, b) = b[1]
      BY <1>6 DEF Item, k
    <2>2. Unsigned(b) = b[1]
      BY <1>2, <1>6 DEF ValueOf
    <2>3. a.display = "int" => TwosComplement(b) = Unsigned(b)
      BY <1>2, <1>3, <1>6 DEF SignDiffers, k
    <2> QED BY <1>6, <2>1, <2>2, <2>3 DEF Meant
  <1>7. CASE a.display \in {"uint", "int"} /\ ~(a.list /\ k = 1)
    <2>1. Item(a, b) = Signed(b)
      BY <1>7 DEF Item, k
    <2>2. a.display = "uint" => Signed(b) = Unsigned(b)
      BY <1>3, <1>7 DEF SignDiffers, k
    <2> QED BY <1>2, <1>7, <2>1, <2>2 DEF Meant
  <1>8. CASE a.display \notin {"uint", "int", "idn"}
    BY <1>8 DEF Item, Meant
  <1> QED BY <1>5, <1>6, <1>7, <1>8

LEMMA DecodedIsExpected ==
  ASSUME NEW a \in Attributes, NEW v, Fits(a, v), InLowerHalf(a, v)
  PROVE  Decoded(a, Payload(a.list, v)) = Expected(a, v)
  <1> DEFINE element(i) == [j \in 1..a.size |-> v[(i - 1) * a.size + j]]
             f == [i \in 1..Count(a, v) |-> Item(a, ElementOf(a, v, i))]
             g == [i \in 1..Count(a, v) |-> Meant(a, element(i))]
  <1>1. Decoded(a, Payload(a.list, v)) = Text(Format(a), f)
    BY DecodedItems
  <1>2. Expected(a, v) = Text(Format(a), g)
    BY Zenon DEF Expected, Count, Meant
  <1>3. a.size \in {1, 2, 4}
    BY AttributeKinds
  <1>4. ASSUME NEW i \in 1..Count(a, v)
        PROVE  Item(a, ElementOf(a, v, i)) = Meant(a, element(i))
    <2> DEFINE b == ElementOf(a, v, i)
               o == (i - 1) * a.size
    <2>1. IsElement(a, v, i, b)
      BY ElementFound
    <2> HIDE DEF b
    <2>2. /\ b \in Seq(Byte) /\ Len(b) = a.size
          /\ \A j \in 1..a.size : b[j] = v[o + j]
          /\ \A j \in 1..a.size : o + j \in 1..Len(v)
      BY <2>1 DEF IsElement
    <2>3. element(i) = b
      <3>1. element(i) = [j \in 1..a.size |-> b[j]]
        BY <2>2
      <3> HIDE DEF element
      <3>2. b = [j \in 1..a.size |-> b[j]]
        BY <1>3, <2>2
      <3> QED BY <3>1, <3>2
    <2>4. SignDiffers(a) => b[a.size] < 128
      <3>1. o % a.size = 0 /\ (o + a.size) % a.size = 0
        <4>1. i \in Int
          OBVIOUS
        <4>2. CASE a.size = 1
          BY <4>1, <4>2
        <4>3. CASE a.size = 2
          BY <4>1, <4>3
        <4>4. CASE a.size = 4
          BY <4>1, <4>4
        <4> QED BY <1>3, <4>2, <4>3, <4>4
      <3> HIDE DEF o
      <3>2. a.size \in 1..a.size
        BY <1>3
      <3>3. b[a.size] = v[o + a.size] /\ o + a.size \in 1..Len(v)
        BY <2>2, <3>2
      <3>4. DOMAIN v = 1..Len(v)
        BY DEF Fits
      <3> QED BY <3>1, <3>3, <3>4 DEF InLowerHalf
    <2>5. Item(a, b) = Meant(a, b)
      BY <2>2, <2>4, ItemIsMeant
    <2> HIDE DEF element
    <2> QED BY <2>3, <2>5 DEF b
  <1> HIDE DEF element
  <1>5. f = g
    BY <1>4
  <1> QED BY <1>1, <1>2, <1>5

LEMMA LowerHalfStep ==
  ASSUME SignsAgree, Inv, InLowerHalf(attr, value), [Next]_vars
  PROVE  InLowerHalf(attr, value)'
  <1>1. CASE UNCHANGED <<attr, value>>
    BY <1>1 DEF InLowerHalf
  <1>2. ASSUME NEW v \in Values(attr), Edit(v) PROVE InLowerHalf(attr, value)'
    <2>1. attr \in MayEdit /\ attr' = attr /\ value' = Written(attr, StrToIntDef(Decoded(attr, v)))
      BY <1>2 DEF Edit
    <2>2. /\ attr \in Attributes /\ ~attr.list /\ Fits(attr, v)
          /\ attr.display \in {"uint", "int"} /\ attr.decimals = 0 =>
               StrToIntDef(Decoded(attr, v)) = Signed(v)
          /\ attr.display = "uint" /\ attr.decimals # 0 => StrToIntDef(Decoded(attr, v)) = 0
      BY <2>1, TypedNumber
    <2>3. v \in Seq(Byte) /\ Len(v) = attr.size /\ attr.size \in {1, 2, 4}
      BY <2>2, AttributeKinds DEF Fits
    <2>4. CASE attr.display # "uint"
      BY <2>1, <2>2, <2>4 DEF InLowerHalf, SignDiffers
    <2>5. CASE attr.display = "uint" /\ attr.decimals = 0
      <3>1. value' = v
        BY <2>1, <2>2, <2>3, <2>5, WrittenSigned
      <3>2. InLowerHalf(attr, v)
        BY <2>2 DEF SignsAgree
      <3> QED BY <2>1, <3>1, <3>2 DEF InLowerHalf
    <2>6. CASE attr.display = "uint" /\ attr.decimals # 0
      <3>1. value' = Written(attr, 0)
        BY <2>1, <2>2, <2>6
      <3>2. /\ value' \in Seq(Byte) /\ Len(value') = attr.size
            /\ \A i \in 1..attr.size : value'[i] = ByteOf(0, i)
            /\ ByteOf(0, 1) = 0 /\ ByteOf(0, 2) = 0 /\ ByteOf(0, 3) = 0 /\ ByteOf(0, 4) = 0
        <4>1. IsWritten(Written(attr, 0), attr.size, 0) /\ HasBytes(0)
          BY <2>3, WrittenBytes, EachByte
        <4> QED BY <3>1, <4>1 DEF IsWritten, HasBytes
      <3>3. \A i \in 1..attr.size : i = 1 \/ i = 2 \/ i = 3 \/ i = 4
        BY <2>3
      <3>4. \A i \in DOMAIN value' : value'[i] = 0
        BY <3>2, <3>3
      <3> QED BY <2>1, <3>4 DEF InLowerHalf
    <2> QED BY <2>4, <2>5, <2>6
  <1>3. CASE Setup
    <2>1. PICK raw \in 0..27 :
            (raw \div 4) % 2 = 0 /\ value' = Written(attr, BitsAsDigits(raw + 4))
      BY <1>3, SetupWrites
    <2> DEFINE n == BitsAsDigits(raw + 4)
    <2>2. n \in Nat /\ n <= 11111
      <3>1. raw + 4 \in 0..31
        OBVIOUS
      <3> QED BY <3>1, FewBits
    <2>3. attr.size = 2 /\ attr' = attr
      BY <1>3, ParameterAssumption DEF Setup
    <2> HIDE DEF n
    <2>4. /\ Written(attr, n) \in Seq(Byte) /\ Len(Written(attr, n)) = 2
          /\ \A i \in 1..2 : Written(attr, n)[i] = ByteOf(n, i)
          /\ ByteOf(n, 2) = (n \div 256) % 256
      <3>1. IsWritten(Written(attr, n), attr.size, n) /\ HasBytes(n)
        BY <2>2, <2>3, WrittenBytes, EachByte
      <3> QED BY <2>3, <3>1 DEF IsWritten, HasBytes
    <2>5. (n \div 256) % 256 < 128
      BY <2>2
    <2>6. \A i \in DOMAIN value' : i % 2 = 0 => value'[i] < 128
      <3>1. value' = Written(attr, n) /\ DOMAIN Written(attr, n) = 1..2
        BY <2>1, <2>4 DEF n
      <3>2. \A i \in 1..2 : i % 2 = 0 => i = 2
        OBVIOUS
      <3> QED BY <2>4, <2>5, <3>1, <3>2
    <2> QED BY <2>3, <2>6 DEF InLowerHalf
  <1>4. vars' = vars \/ ReadData => UNCHANGED <<attr, value>>
    BY DEF vars, ReadData
  <1> QED BY <1>1, <1>2, <1>3, <1>4 DEF Next

(* Every read stores what the attribute says of the drive's data, for all  *)
(* displays, sizes and lists of any length, as long as no number is in the *)
(* half of its range where the sign the code prints is not the attribute's *)
(* (sis.pas 1029-1183 against common.pas 286-296).                         *)
THEOREM Shown ==
  ASSUME SignsAgree
  PROVE  Spec => ShownIsValue
  <1>1. Init => InLowerHalf(attr, value)
    BY DEF Init, SignsAgree
  <1>2. Inv /\ InLowerHalf(attr, value) /\ [Next]_vars => InLowerHalf(attr, value)'
    BY LowerHalfStep
  <1>3. ASSUME Inv, InLowerHalf(attr, value), ReadData, attr \notin Undescribed
        PROVE  stored' = Expected(attr, value)
    <2>1. stored' = Decoded(attr, Payload(attr.list, value))
      BY <1>3 DEF ReadData
    <2> QED BY <1>3, <2>1, DecodedIsExpected DEF Inv
  <1>4. Inv /\ InLowerHalf(attr, value) =>
          [ReadData /\ attr \notin Undescribed => stored' = Expected(attr, value)]_vars
    BY <1>3
  <1> QED BY <1>1, <1>2, <1>4, Invariance, PTL DEF ShownIsValue, Spec
=============================================================================
