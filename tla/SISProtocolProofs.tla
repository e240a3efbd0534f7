------------------------ MODULE SISProtocolProofs ------------------------
(***************************************************************************)
(* Proofs about SISProtocol, for any parameters, attributes, numbers and   *)
(* positions: the bytes of every command, what the drive holds after it,   *)
(* and what a reader gets.  The argument: a command that is sent is decoded *)
(* by the drive to the parameter, offset and bytes it was built from, and  *)
(* while a call is under way the drive holds what it held before, but for  *)
(* the length of a list that is about to be written (Inv).                 *)
(***************************************************************************)
EXTENDS SISProtocol, ByteSumProofs

-----------------------------------------------------------------------------
(* Numbers and bytes.                                                      *)

LEMMA ShiftedStep ==
  ASSUME NEW n \in Int
  PROVE  /\ Shifted(n)[1] = n
         /\ \A i \in 1..7 : Shifted(n)[i + 1] = Shifted(n)[i] \div 256
         /\ \A i \in 1..8 : Shifted(n)[i] \in Int
  <1> DEFINE d(x) == x \div 256
             f == [i \in 1..8 |->
                     IF i = 1 THEN n
                     ELSE IF i = 2 THEN d(n) ELSE IF i = 3 THEN d(d(n))
                     ELSE IF i = 4 THEN d(d(d(n))) ELSE IF i = 5 THEN d(d(d(d(n))))
                     ELSE IF i = 6 THEN d(d(d(d(d(n)))))
                     ELSE IF i = 7 THEN d(d(d(d(d(d(n))))))
                     ELSE d(d(d(d(d(d(d(n)))))))]
             s == Shifted(n)
  <1>1. \A x \in Int : d(x) \in Int
    OBVIOUS
  <1>2. f = [i \in 1..8 |-> IF i = 1 THEN n ELSE d(f[i - 1])]
    <2> HIDE DEF d
    <2> QED OBVIOUS
  <1>3. \E g : g = [i \in 1..8 |-> IF i = 1 THEN n ELSE g[i - 1] \div 256]
    <2> HIDE DEF f
    <2> QED BY <1>2
  <1>4. s = [i \in 1..8 |-> IF i = 1 THEN n ELSE s[i - 1] \div 256]
    BY <1>3 DEF Shifted
  <1> HIDE DEF s, d
  <1>5. s[1] = n
    BY <1>4
  <1>6. ASSUME NEW i \in 1..7 PROVE s[i + 1] = d(s[i])
    <2>1. i + 1 \in 1..8 /\ i + 1 # 1 /\ (i + 1) - 1 = i
      OBVIOUS
    <2> QED BY <1>4, <2>1 DEF d
  <1>7. \A i \in 1..8 : s[i] \in Int
    BY <1>1, <1>5, <1>6
  <1> QED BY <1>5, <1>6, <1>7 DEF s, d

(* Two's complement bytes.                                                 *)
LEMMA BytesOf ==
  ASSUME NEW n \in Int, NEW k \in 1..8
  PROVE  /\ ToBytes(n, k) \in Seq(Byte) /\ Len(ToBytes(n, k)) = k
         /\ \A i \in 1..k : ToBytes(n, k)[i] = Shifted(n)[i] % 256
         /\ Lowest(ToBytes(n, 8), k) = ToBytes(n, k)
  <1>1. ASSUME NEW i \in 1..8 PROVE Shifted(n)[i] % 256 \in Byte
    BY ShiftedStep, Bytes
  <1>2. ASSUME NEW j \in 1..8
        PROVE  /\ ToBytes(n, j) \in Seq(Byte) /\ Len(ToBytes(n, j)) = j
               /\ \A i \in 1..j : ToBytes(n, j)[i] = Shifted(n)[i] % 256
    <2>1. ToBytes(n, j) \in [1..j -> Byte]
      BY <1>1 DEF ToBytes
    <2> QED BY <2>1 DEF ToBytes
  <1>3. Lowest(ToBytes(n, 8), k) = [i \in 1..k |-> ToBytes(n, 8)[i]]
    <2>1. Len(ToBytes(n, 8)) = 8 /\ \A i \in 1..k : i <= 8
      BY <1>2
    <2> QED BY <2>1 DEF Lowest
  <1>4. [i \in 1..k |-> ToBytes(n, 8)[i]] = ToBytes(n, k)
    BY <1>2 DEF ToBytes
  <1> QED BY <1>2, <1>3, <1>4

(* A word of a command, and the number it stands for.                      *)
LEMMA WordOf ==
  ASSUME NEW n \in Nat
  PROVE  /\ ToBytes(n, 2) \in Seq(Byte) /\ Len(ToBytes(n, 2)) = 2
         /\ ToBytes(n, 2)[1] + 256 * ToBytes(n, 2)[2] = n % 65536
  <1>1. ToBytes(n, 2)[1] = n % 256 /\ ToBytes(n, 2)[2] = (n \div 256) % 256
    <2>1. Shifted(n)[1] = n /\ Shifted(n)[1 + 1] = Shifted(n)[1] \div 256
      BY ShiftedStep
    <2>2. ASSUME NEW k \in 1..8
          PROVE  \A i \in 1..k : ToBytes(n, k)[i] = Shifted(n)[i] % 256
      <3>1. n \in Int
        OBVIOUS
      <3> QED BY <3>1, BytesOf
    <2>3. 1 \in 1..2 /\ 2 \in 1..2 /\ 1 + 1 = 2
      OBVIOUS
    <2> QED BY <2>1, <2>2, <2>3
  <1>2. (n % 256) + 256 * ((n \div 256) % 256) = n % 65536
    OBVIOUS
  <1>3. ToBytes(n, 2) \in Seq(Byte) /\ Len(ToBytes(n, 2)) = 2
    BY BytesOf
  <1> QED BY <1>1, <1>2, <1>3

(* What is left of a number once it is 0 or -1 does not change.            *)
LEMMA Filled ==
  ASSUME NEW n \in Int, NEW j \in 2..8, Shifted(n)[j] \in {0, -1}
  PROVE  \A i \in j..8 : Shifted(n)[i] = Shifted(n)[j]
  <1> DEFINE s == Shifted(n)
             S == {d \in 0..(8 - j) : s[j + d] = s[j]}
  <1>1. \A i \in 1..7 : s[i + 1] = s[i] \div 256
    BY ShiftedStep
  <1>2. \A x \in {0, -1} : x \div 256 = x
    OBVIOUS
  <1> HIDE DEF s
  <1>3. 0 \in S
    BY SMT
  <1>4. ASSUME NEW d \in 0..((8 - j) - 1), d \in S PROVE d + 1 \in S
    <2>1. j + d \in 1..7 /\ (j + d) + 1 = j + (d + 1) /\ d + 1 \in 0..(8 - j)
      OBVIOUS
    <2>2. s[j] \in {0, -1}
      BY DEF s
    <2> QED BY <1>1, <1>2, <1>4, <2>1, <2>2
  <1>5. 0..(8 - j) \subseteq S
    <2> HIDE DEF S
    <2> QED BY <1>3, <1>4, InductionUpTo
  <1>6. ASSUME NEW i \in j..8 PROVE s[i] = s[j]
    <2>1. i - j \in 0..(8 - j) /\ j + (i - j) = i
      OBVIOUS
    <2> QED BY <1>5, <2>1
  <1> QED BY <1>6 DEF s

(* The highest byte of a number, with its sign.                            *)
Top(b, k) == IF b[k] >= 128 THEN b[k] - 256 ELSE b[k]

LEMMA Signs ==
  ASSUME NEW x \in 0..255
  PROVE  LET top == IF x >= 128 THEN x - 256 ELSE x
         IN  /\ top \in Int /\ top % 256 = x
             /\ top \div 256 = IF x >= 128 THEN -1 ELSE 0
  OBVIOUS

LEMMA SignFill ==
  ASSUME NEW x \in Int, NEW c \in 0..255, x = c \div 128 - c \div 128 - c \div 128
  PROVE  x % 256 = IF c >= 128 THEN 255 ELSE 0
  OBVIOUS

(* n has the k digits of b.                                                *)
Digits(b, k, n) ==
  /\ \A i \in 1..k : b[i] \in 0..255
  /\ k = 1 => n = Top(b, 1)
  /\ k = 2 => n = b[1] + 256 * Top(b, 2)
  /\ k = 4 => n = b[1] + 256 * (b[2] + 256 * (b[3] + 256 * Top(b, 4)))

(* What is left of a number of one, two or four bytes.                     *)
LEMMA SignedDigits ==
  ASSUME NEW b, NEW k \in {1, 2, 4}, NEW n \in Int, Digits(b, k, n)
  PROVE  \A i \in 1..8 : Shifted(n)[i] % 256 =
           IF i <= k THEN b[i] ELSE IF b[k] >= 128 THEN 255 ELSE 0
  <1> DEFINE s == Shifted(n)
             sign == IF b[k] >= 128 THEN -1 ELSE 0
  <1>1. /\ Top(b, k) \in Int /\ Top(b, k) % 256 = b[k] /\ Top(b, k) \div 256 = sign
        /\ b[k] \in 0..255
    <2>1. b[k] \in 0..255
      BY DEF Digits
    <2> QED BY <2>1, Signs DEF Top
  <1>2. /\ s[1] = n /\ \A i \in 1..7 : s[i + 1] = s[i] \div 256
        /\ s[2] = s[1] \div 256 /\ s[3] = s[2] \div 256 /\ s[4] = s[3] \div 256
    <2>1. s[1] = n /\ \A i \in 1..7 : s[i + 1] = s[i] \div 256
      BY ShiftedStep
    <2>2. s[1 + 1] = s[1] \div 256 /\ s[2 + 1] = s[2] \div 256 /\ s[3 + 1] = s[3] \div 256
      BY <2>1
    <2> QED BY <2>1, <2>2
  <1>3. s[k] = Top(b, k) /\ \A i \in 1..(k - 1) : s[i] % 256 = b[i]
    <2>1. CASE k = 1
      BY <1>2, <2>1 DEF Digits
    <2> DEFINE b1 == b[1]
               b2 == b[2]
               b3 == b[3]
               t == Top(b, k)
    <2>2. CASE k = 2
      <3>1. s[1] = b1 + 256 * t /\ b1 \in 0..255 /\ t \in Int
        BY <1>1, <1>2, <2>2 DEF Digits
      <3>2. s[2] = s[1] \div 256 /\ s[1] \in Int
        BY <1>2
      <3> HIDE DEF b1, t, s
      <3>3. s[1] % 256 = b1 /\ s[2] = t
        BY <3>1, <3>2
      <3> QED BY <2>2, <3>3 DEF b1, t
    <2>3. CASE k = 4
      <3>1. /\ s[1] = b1 + 256 * (b2 + 256 * (b3 + 256 * t))
            /\ b1 \in 0..255 /\ b2 \in 0..255 /\ b3 \in 0..255 /\ t \in Int
        BY <1>1, <1>2, <2>3 DEF Digits
      <3>2. /\ s[2] = s[1] \div 256 /\ s[3] = s[2] \div 256 /\ s[4] = s[3] \div 256
            /\ s[1] \in Int
        BY <1>2
      <3> HIDE DEF b1, b2, b3, t, s
      <3>3. s[1] % 256 = b1 /\ s[2] = b2 + 256 * (b3 + 256 * t)
        BY <3>1, <3>2
      <3>4. s[2] % 256 = b2 /\ s[3] = b3 + 256 * t
        BY <3>1, <3>2, <3>3
      <3>5. s[3] % 256 = b3 /\ s[4] = t
        BY <3>1, <3>2, <3>4
      <3> QED BY <2>3, <3>3, <3>4, <3>5 DEF b1, b2, b3, t
    <2> QED BY <2>1, <2>2, <2>3
  <1>4. s[k + 1] = sign
    BY <1>1, <1>2, <1>3
  <1>5. \A i \in (k + 1)..8 : s[i] = s[k + 1]
    <2>1. k + 1 \in 2..8 /\ s[k + 1] \in {0, -1}
      BY <1>4
    <2> QED BY <2>1, Filled
  <1>6. sign % 256 = IF b[k] >= 128 THEN 255 ELSE 0
    BY <1>1, SignFill
  <1> HIDE DEF s, sign
  <1>7. ASSUME NEW i \in 1..8
        PROVE  s[i] % 256 = IF i <= k THEN b[i] ELSE IF b[k] >= 128 THEN 255 ELSE 0
    <2>1. CASE i < k
      BY <1>3, <2>1
    <2>2. CASE i = k
      BY <1>1, <1>3, <2>2
    <2>3. CASE i > k
      <3>1. s[i] = s[k + 1]
        BY <1>5, <2>3
      <3> QED BY <1>4, <1>6, <2>3, <3>1
    <2> QED BY <2>1, <2>2, <2>3
  <1> QED BY <1>7 DEF s

(* The bytes of a signed number, extended to eight, are its eight bytes.   *)
LEMMA SignedBytes ==
  ASSUME NEW b \in Seq(Byte), Len(b) \in {1, 2, 4}
  PROVE  Signed(b) \in Int /\ ToBytes(Signed(b), 8) = SignExtended(b)
  <1> DEFINE n == Signed(b)
             k == Len(b)
  <1>1. \A i \in 1..k : b[i] \in 0..255
    <2>1. \A i \in 1..k : b[i] \in Byte
      OBVIOUS
    <2> QED BY <2>1 DEF Byte
  <1>2. /\ k = 1 => n = Top(b, 1)
        /\ k = 2 => n = b[1] + 256 * Top(b, 2)
        /\ k = 4 => n = b[1] + 256 * (b[2] + 256 * (b[3] + 256 * Top(b, 4)))
    BY DEF Signed, Top
  <1>3. SignExtended(b) = [i \in 1..8 |-> IF i <= k THEN b[i]
                                          ELSE IF b[k] >= 128 THEN 255 ELSE 0]
    BY DEF SignExtended
  <1>4. k \in {1, 2, 4}
    OBVIOUS
  <1> HIDE DEF n, k
  <1>5. n \in Int
    <2>1. b[k] \in 0..255
      BY <1>1, <1>4
    <2>2. Top(b, k) \in Int
      BY <2>1, Signs DEF Top
    <2> DEFINE b1 == b[1]
               b2 == b[2]
               b3 == b[3]
               t == Top(b, k)
    <2>3. CASE k = 1
      BY <1>2, <2>2, <2>3
    <2>4. CASE k = 2
      <3>1. b1 \in 0..255 /\ t \in Int /\ n = b1 + 256 * t
        BY <1>1, <1>2, <2>2, <2>4
      <3> HIDE DEF b1, t
      <3> QED BY <3>1
    <2>5. CASE k = 4
      <3>1. /\ b1 \in 0..255 /\ b2 \in 0..255 /\ b3 \in 0..255 /\ t \in Int
            /\ n = b1 + 256 * (b2 + 256 * (b3 + 256 * t))
        BY <1>1, <1>2, <2>2, <2>5
      <3> HIDE DEF b1, b2, b3, t
      <3> QED BY <3>1
    <2> QED BY <1>4, <2>3, <2>4, <2>5
  <1>6. \A i \in 1..8 : Shifted(n)[i] % 256 =
          IF i <= k THEN b[i] ELSE IF b[k] >= 128 THEN 255 ELSE 0
    <2>1. Digits(b, k, n)
      BY <1>1, <1>2 DEF Digits
    <2> QED BY <1>4, <1>5, <2>1, SignedDigits
  <1>7. ToBytes(n, 8) = SignExtended(b)
    BY <1>3, <1>6 DEF ToBytes
  <1> QED BY <1>5, <1>7 DEF n
-----------------------------------------------------------------------------
(* The conversions of the class.                                           *)

LEMMA PowerOf ==
  ASSUME NEW d \in 0..15
  PROVE  Power[d] \in Nat \ {0}
  <1> DEFINE Powers(f, n) == f = [i \in 0..n |-> IF i = 0 THEN 1 ELSE 10 * f[i - 1]]
             S == {n \in 0..15 : \E f : Powers(f, n)}
  <1>1. 0 \in S
    <2> DEFINE f == [i \in 0..0 |-> 1]
    <2>1. Powers(f, 0)
      OBVIOUS
    <2>2. 0 \in 0..15
      OBVIOUS
    <2> HIDE DEF f, Powers
    <2>3. \E g : Powers(g, 0)
      BY <2>1
    <2> QED BY <2>2, <2>3
  <1>2. ASSUME NEW n \in 0..(15 - 1), n \in S PROVE n + 1 \in S
    <2>1. PICK f : Powers(f, n)
      BY <1>2
    <2> DEFINE g == [i \in 0..(n + 1) |-> IF i <= n THEN f[i] ELSE 10 * f[n]]
    <2>2. ASSUME NEW i \in 0..(n + 1)
          PROVE  g[i] = IF i = 0 THEN 1 ELSE 10 * g[i - 1]
      BY <2>1
    <2>3. Powers(g, n + 1)
      BY <2>2
    <2> HIDE DEF g
    <2> QED BY <2>3
  <1> HIDE DEF S
  <1>3. 0..15 \subseteq S
    BY <1>1, <1>2, InductionUpTo
  <1>4. \E f : f = [i \in 0..15 |-> IF i = 0 THEN 1 ELSE 10 * f[i - 1]]
    BY <1>3 DEF S
  <1>5. Power = [i \in 0..15 |-> IF i = 0 THEN 1 ELSE 10 * Power[i - 1]]
    BY <1>4 DEF Power
  <1> DEFINE T == {i \in 0..15 : Power[i] \in Nat \ {0}}
  <1>6. 0 \in T
    BY <1>5
  <1>7. ASSUME NEW n \in 0..(15 - 1), n \in T PROVE n + 1 \in T
    <2>1. n + 1 \in 0..15 /\ n + 1 # 0 /\ (n + 1) - 1 = n
      OBVIOUS
    <2>2. Power[n + 1] = 10 * Power[n]
      BY <1>5, <2>1
    <2> QED BY <1>7, <2>1, <2>2
  <1>8. 0..15 \subseteq T
    <2> HIDE DEF T
    <2> QED BY <1>6, <1>7, InductionUpTo
  <1> QED BY <1>8

(* A number scaled and cut is an integer, and not negative if it was not.  *)
LEMMA ScaledOf ==
  ASSUME NEW v, v.num \in Int, v.dec \in 0..15, NEW scale \in 0..15
  PROVE  Scaled(v, scale) \in Int /\ (v.num >= 0 => Scaled(v, scale) >= 0)
  <1>1. ASSUME NEW a \in Int, NEW b \in Nat, NEW c \in Nat \ {0}
        PROVE  /\ (a * b) \div c \in Int
               /\ a >= 0 => (a * b) \div c >= 0
    <2>1. a * b \in Int /\ (a >= 0 => a * b >= 0)
      OBVIOUS
    <2>2. ASSUME NEW x \in Int PROVE x \div c \in Int /\ (x >= 0 => x \div c >= 0)
      OBVIOUS
    <2> QED BY <2>1, <2>2
  <1>2. Power[scale] \in Nat /\ Power[v.dec] \in Nat \ {0}
    BY PowerOf
  <1> QED BY <1>1, <1>2 DEF Scaled

LEMMA ConvertedOf ==
  ASSUME NEW v \in [num : Int, dec : 0..15], NEW scale \in 0..15,
         NEW u \in Converted(v, scale)
  PROVE  /\ u \in Seq(Byte) /\ Len(u) = 8
         /\ v.num >= 0 =>
              \E m \in {Scaled(v, scale)} \cup
                       (IF v.num % Power[v.dec] # 0 /\ scale > 1
                          THEN {Scaled(v, scale) - 1} ELSE {}) :
                /\ m \in Int /\ 0 <= m /\ m <= Scaled(v, scale)
                /\ u = ToBytes(m, 8)
  <1>1. ASSUME NEW n \in Int PROVE ToBytes(n, 8) \in Seq(Byte) /\ Len(ToBytes(n, 8)) = 8
    <2>1. 8 \in 1..8
      OBVIOUS
    <2> QED BY <2>1, BytesOf
  <1>2. v.num \in Int /\ v.dec \in 0..15 /\ v = [num |-> v.num, dec |-> v.dec]
    OBVIOUS
  <1>3. CASE v.num < 0
    <2> DEFINE w == [v EXCEPT !.num = -v.num]
    <2>1. w.num \in Int /\ w.dec \in 0..15
      BY <1>2
    <2>2. Scaled(w, scale) \in Int
      BY <2>1, ScaledOf
    <2>3. u \in {ToBytes(-Scaled(w, scale), 8), <<0, 0, 0, 0, 0, 0, 0, 128>>}
      BY <1>3 DEF Converted
    <2>4. <<0, 0, 0, 0, 0, 0, 0, 128>> \in Seq(Byte) /\ Len(<<0, 0, 0, 0, 0, 0, 0, 128>>) = 8
      <3>1. 0 \in Byte /\ 128 \in Byte
        BY Bytes
      <3> QED BY <3>1
    <2> HIDE DEF w
    <2>5. -Scaled(w, scale) \in Int
      BY <2>2
    <2>6. u \in Seq(Byte) /\ Len(u) = 8
      BY <1>1, <2>3, <2>4, <2>5
    <2> QED BY <1>2, <1>3, <2>6
  <1>4. CASE ~(v.num < 0)
    <2> DEFINE n == Scaled(v, scale)
    <2>1. n \in Int /\ n >= 0
      BY <1>2, <1>4, ScaledOf
    <2>2. u \in {ToBytes(n, 8)} \cup
               (IF scale > 1 /\ v.num % Power[v.dec] # 0 /\ n > 0
                  THEN {ToBytes(n - 1, 8)} ELSE {})
      BY <1>4 DEF Converted
    <2> HIDE DEF n
    <2>3. CASE u = ToBytes(n, 8)
      BY <1>1, <2>1, <2>3 DEF n
    <2>4. CASE u # ToBytes(n, 8)
      <3>1. scale > 1 /\ v.num % Power[v.dec] # 0 /\ n > 0 /\ u = ToBytes(n - 1, 8)
        BY <2>2, <2>4
      <3>2. n - 1 \in Int /\ 0 <= n - 1 /\ n - 1 <= n
        BY <2>1, <3>1
      <3> QED BY <1>1, <3>1, <3>2 DEF n
    <2> QED BY <2>3, <2>4
  <1> QED BY <1>2, <1>3, <1>4

(* A number below 2^48 leaves nothing in the two highest of eight bytes.   *)
LEMMA BelowExact ==
  ASSUME NEW n \in Int, NEW m \in Int, 0 <= m, m <= n, Shifted(n)[7] = 0
  PROVE  ToBytes(m, 8)[8] = 0
  <1> DEFINE s == Shifted(n)
             r == Shifted(m)
             S == {d \in 0..6 : 0 <= r[d + 1] /\ r[d + 1] <= s[d + 1]}
  <1>1. /\ s[1] = n /\ \A i \in 1..7 : s[i + 1] = s[i] \div 256
        /\ \A i \in 1..8 : s[i] \in Int
    BY ShiftedStep
  <1>2. /\ r[1] = m /\ \A i \in 1..7 : r[i + 1] = r[i] \div 256
        /\ \A i \in 1..8 : r[i] \in Int
    BY ShiftedStep
  <1>3. s[7] = 0
    OBVIOUS
  <1> HIDE DEF s, r
  <1>4. \A x, y \in Int : 0 <= x /\ x <= y => 0 <= x \div 256 /\ x \div 256 <= y \div 256
    OBVIOUS
  <1>5. 0 \in S
    BY <1>1, <1>2
  <1>6. ASSUME NEW d \in 0..(6 - 1), d \in S PROVE d + 1 \in S
    <2>1. d + 1 \in 1..7 /\ d + 1 \in 1..8 /\ d + 1 \in 0..6
      OBVIOUS
    <2>2. /\ s[(d + 1) + 1] = s[d + 1] \div 256 /\ r[(d + 1) + 1] = r[d + 1] \div 256
          /\ s[d + 1] \in Int /\ r[d + 1] \in Int
      BY <1>1, <1>2, <2>1
    <2> QED BY <1>4, <1>6, <2>1, <2>2
  <1>7. 0..6 \subseteq S
    <2> HIDE DEF S
    <2> QED BY <1>5, <1>6, InductionUpTo
  <1>8. r[7] = 0
    <2>1. 6 \in S
      BY <1>7
    <2>2. r[7] \in Int
      BY <1>2
    <2> QED BY <1>3, <2>1, <2>2
  <1>9. r[7 + 1] = r[7] \div 256
    BY <1>2
  <1>10. r[8] % 256 = 0
    BY <1>8, <1>9
  <1> QED BY <1>10, BytesOf DEF r

(* The bytes that are written, in the width of the parameter.              *)
LEMMA SizedFor ==
  ASSUME NEW k \in {1, 2, 4, 8}, NEW u \in Seq(Byte), Len(u) = 8
  PROVE  /\ set_sized_data(k, u) \in Seq(Byte) /\ Len(set_sized_data(k, u)) = k
         /\ k < 8 \/ u[8] = 0 => set_sized_data(k, u) = Lowest(u, k)
  <1>1. \A j \in 1..8 : Lowest(u, j) = [i \in 1..j |-> u[i]]
    BY DEF Lowest
  <1>2. ASSUME NEW j \in 1..8 PROVE Lowest(u, j) \in Seq(Byte) /\ Len(Lowest(u, j)) = j
    <2>1. [i \in 1..j |-> u[i]] \in [1..j -> Byte]
      <3>1. ASSUME NEW i \in 1..j PROVE u[i] \in Byte
        <4>1. i \in 1..Len(u)
          OBVIOUS
        <4> QED BY <4>1
      <3> QED BY <3>1
    <2>2. Lowest(u, j) \in [1..j -> Byte]
      BY <1>1, <2>1
    <2> QED BY <2>2
  <1>3. CASE k < 8
    <2>1. set_sized_data(k, u) = Lowest(u, k)
      BY <1>3 DEF set_sized_data, Data8, Data16, Data32
    <2>2. k \in 1..8
      OBVIOUS
    <2> QED BY <1>2, <2>1, <2>2
  <1>4. CASE k = 8
    <2> DEFINE l == Lowest(u, 7)
               b == (u[8] * 4) % 256
    <2>1. l \in Seq(Byte) /\ Len(l) = 7 /\ \A i \in 1..7 : l[i] = u[i]
      BY <1>1, <1>2
    <2>2. b \in Byte /\ (u[8] = 0 => b = 0)
      <3>1. u[8] \in Byte
        OBVIOUS
      <3>2. u[8] \in Int
        BY <3>1, Bytes
      <3> QED BY <3>2, Bytes
    <2>3. set_sized_data(k, u) = Append(l, b)
      BY <1>4 DEF set_sized_data, Data64
    <2> HIDE DEF l, b
    <2>4. /\ Append(l, b) \in Seq(Byte) /\ Len(Append(l, b)) = 8
          /\ \A i \in 1..8 : Append(l, b)[i] = IF i <= 7 THEN l[i] ELSE b
      <3>1. ASSUME NEW s \in Seq(Byte), NEW x \in Byte
            PROVE  /\ Append(s, x) \in Seq(Byte) /\ Len(Append(s, x)) = Len(s) + 1
                   /\ \A i \in 1..Len(s) : Append(s, x)[i] = s[i]
                   /\ Append(s, x)[Len(s) + 1] = x
        OBVIOUS
      <3>2. /\ Append(l, b) \in Seq(Byte) /\ Len(Append(l, b)) = Len(l) + 1
            /\ \A i \in 1..Len(l) : Append(l, b)[i] = l[i]
            /\ Append(l, b)[Len(l) + 1] = b
        BY <2>1, <2>2, <3>1
      <3> DEFINE a == Append(l, b)
      <3>3. a \in Seq(Byte) /\ Len(a) = 8 /\ a[8] = b /\ \A i \in 1..7 : a[i] = l[i]
        BY <2>1, <3>2
      <3> HIDE DEF a
      <3>4. \A i \in 1..8 : a[i] = IF i <= 7 THEN l[i] ELSE b
        BY <3>3
      <3> QED BY <3>3, <3>4 DEF a
    <2>5. ASSUME u[8] = 0 PROVE Append(l, b) = Lowest(u, 8)
      <3>1. Lowest(u, 8) \in Seq(Byte) /\ Len(Lowest(u, 8)) = 8
        BY <1>2
      <3>2. \A i \in 1..8 : Append(l, b)[i] = Lowest(u, 8)[i]
        BY <1>1, <2>1, <2>2, <2>4, <2>5
      <3> QED BY <2>4, <3>1, <3>2, SeqEqual
    <2>6. set_sized_data(k, u) \in Seq(Byte) /\ Len(set_sized_data(k, u)) = k
      BY <1>4, <2>3, <2>4
    <2>7. k < 8 \/ u[8] = 0 => set_sized_data(k, u) = Lowest(u, k)
      BY <1>4, <2>3, <2>5
    <2> QED BY <2>6, <2>7
  <1> QED BY <1>3, <1>4
-----------------------------------------------------------------------------
(* Commands: what is sent, and what the drive makes of it.                 *)

(* A telegram built from a service and a payload sums up to zero, has the  *)
(* length it says, and carries both.                                       *)
LEMMA CommandBytes ==
  ASSUME NEW service \in Byte, NEW payload \in Seq(Byte), Len(payload) <= 240,
         NEW t, t = calc_checksum(Map(service, payload))
  PROVE  /\ t \in Seq(Byte) /\ Len(t) = 8 + Len(payload) /\ Accepts(t)
         /\ t[6] = service /\ Load(t) = payload
  <1> DEFINE n == Len(payload)
             h == Header(service, payload)
             m == h \o payload
             c == (256 - Total(m)) % 256
  <1>1. n \in Nat /\ n <= 240 /\ n % 256 = n
    OBVIOUS
  <1>2. /\ h \in Seq(Byte) /\ Len(h) = 8
        /\ h[2] = 0 /\ h[3] = n /\ h[6] = service
    <2>1. h = <<2, 0, n, n, 0, service, 0, 1>>
      BY <1>1 DEF Header, HeaderControl, TypeCommand, SIS_ADDR_MASTER, SIS_ADDR_SLAVE
    <2>2. 2 \in Byte /\ 0 \in Byte /\ 1 \in Byte /\ n \in Byte
      BY <1>1, Bytes
    <2> HIDE DEF n, h
    <2> QED BY <2>1, <2>2
  <1> HIDE DEF n, h
  <1>3. /\ m \in Seq(Byte) /\ Len(m) = 8 + n
        /\ \A i \in 1..8 : m[i] = h[i]
        /\ \A i \in 1..n : m[8 + i] = payload[i]
    <2>1. /\ m \in Seq(Byte) /\ Len(m) = Len(h) + Len(payload)
          /\ \A i \in 1..Len(h) : m[i] = h[i]
          /\ \A i \in 1..Len(payload) : m[Len(h) + i] = payload[i]
      BY <1>2, ConcatBytes
    <2> HIDE DEF m
    <2> QED BY <1>2, <2>1 DEF n
  <1> HIDE DEF m
  <1>4. m[2] = 0 /\ m[3] = n /\ m[6] = service
    BY <1>2, <1>3
  <1>5. c \in Byte
    <2>1. Total(m) \in Int
      BY <1>3, TotalIsByte, Bytes
    <2> QED BY <2>1, Bytes
  <1>6. t = [m EXCEPT ![2] = c]
    BY DEF calc_checksum, Map, m, h
  <1>7. 2 \in 1..Len(m)
    BY <1>1, <1>3
  <1>8. Total(t) = 0
    <2>1. Total([m EXCEPT ![2] = (256 - Total(m)) % 256]) = 0
      BY <1>3, <1>4, <1>7, ChecksumExists
    <2> QED BY <1>6, <2>1
  <1> HIDE DEF c
  <1>9. /\ t \in Seq(Byte) /\ Len(t) = 8 + n
        /\ \A i \in 1..Len(m) : i # 2 => t[i] = m[i]
    BY <1>3, <1>5, <1>6, <1>7
  <1>10. t[3] = n /\ t[6] = service
    BY <1>1, <1>3, <1>4, <1>9
  <1>11. Load(t) = payload
    <2>1. /\ SubSeq(t, 9, 8 + n) \in Seq(Byte) /\ Len(SubSeq(t, 9, 8 + n)) = n
          /\ \A i \in 1..n : SubSeq(t, 9, 8 + n)[i] = t[8 + i]
      BY <1>1, <1>9
    <2>2. \A i \in 1..n : t[8 + i] = payload[i]
      BY <1>1, <1>3, <1>9
    <2> DEFINE l == SubSeq(t, 9, 8 + n)
    <2>3. l \in Seq(Byte) /\ Len(l) = n /\ \A i \in 1..n : l[i] = payload[i]
      BY <2>1, <2>2
    <2> HIDE DEF l
    <2>4. l = payload
      BY <2>3, SeqEqual DEF n
    <2> QED BY <1>9, <2>4 DEF Load, l
  <1> QED BY <1>8, <1>9, <1>10, <1>11 DEF Accepts, n

(* c is s and then t.                                                      *)
Joins(c, s, t) ==
  /\ c \in Seq(Byte) /\ Len(c) = Len(s) + Len(t)
  /\ \A i \in 1..Len(s) : c[i] = s[i]
  /\ \A i \in 1..Len(t) : c[Len(s) + i] = t[i]

LEMMA ConcatJoins ==
  ASSUME NEW s \in Seq(Byte), NEW t \in Seq(Byte)
  PROVE  Joins(s \o t, s, t)
  BY ConcatBytes DEF Joins

(* The parameter's number, in the bytes both kinds of payload begin with.  *)
LEMMA IdentBytes ==
  ASSUME NEW p \in Parameter, NEW block \in {3, 7}
  PROVE  LET a == <<SercosParamControl(block), SIS_ADDR_SLAVE, 0>>
             b == ToBytes(SercosParamIdent(p[1], p[2]), 2)
         IN  /\ a \o b \in Seq(Byte) /\ Len(a \o b) = 5
             /\ \A load : (\A i \in 1..5 : load[i] = (a \o b)[i]) =>
                  Addressed(load) = p /\ load[1] \div 8 = block
  <1> DEFINE n == SercosParamIdent(p[1], p[2])
             a == <<SercosParamControl(block), SIS_ADDR_SLAVE, 0>>
             b == ToBytes(n, 2)
  <1>1. p = <<p[1], p[2]>> /\ p[1] \in {"S", "P"} /\ p[2] \in 0..4095
    BY ParameterAssumption DEF SercosParamVar
  <1>2. /\ n \in Nat /\ n < 65536 /\ n % 65536 = n /\ n % 4096 = p[2]
        /\ (n >= 32768 <=> p[1] = "P")
    <2> DEFINE x == p[2]
    <2>1. x \in 0..4095
      BY <1>1
    <2>2. n = (x % 4096) + (IF p[1] = "P" THEN 32768 ELSE 0)
      BY DEF SercosParamIdent
    <2> HIDE DEF x, n
    <2>3. CASE p[1] = "P"
      <3>1. n = x + 32768
        BY <2>1, <2>2, <2>3
      <3>2. n \in Nat /\ n % 4096 = x /\ n >= 32768 /\ n < 65536
        BY <2>1, <3>1
      <3>3. n % 65536 = n
        BY <3>2
      <3> QED BY <2>3, <3>2, <3>3 DEF x
    <2>4. CASE p[1] # "P"
      <3>1. n = x
        BY <2>1, <2>2, <2>4
      <3>2. n \in Nat /\ n % 4096 = x /\ ~(n >= 32768) /\ n < 65536
        BY <2>1, <3>1
      <3>3. n % 65536 = n
        BY <3>2
      <3> QED BY <2>4, <3>2, <3>3 DEF x
    <2> QED BY <2>3, <2>4
  <1>3. /\ a \in Seq(Byte) /\ Len(a) = 3 /\ a[1] = 4 + block * 8
        /\ a[1] \div 8 = block
    <2>1. 28 \in Byte /\ 60 \in Byte /\ 0 \in Byte /\ 1 \in Byte
      BY Bytes
    <2>2. 4 + block * 8 \in {28, 60} /\ (4 + block * 8) \div 8 = block
      OBVIOUS
    <2> QED BY <2>1, <2>2 DEF SercosParamControl, SIS_ADDR_SLAVE
  <1> HIDE DEF n
  <1>4. b \in Seq(Byte) /\ Len(b) = 2 /\ b[1] + 256 * b[2] = n
    BY <1>2, WordOf
  <1> HIDE DEF a, b
  <1>5. /\ a \o b \in Seq(Byte) /\ Len(a \o b) = 5
        /\ (a \o b)[1] = a[1] /\ (a \o b)[4] = b[1] /\ (a \o b)[5] = b[2]
    <2> DEFINE ab == a \o b
    <2>1. Joins(ab, a, b)
      BY <1>3, <1>4, ConcatJoins
    <2> HIDE DEF ab
    <2>2. /\ ab \in Seq(Byte) /\ Len(ab) = 5 /\ ab[1] = a[1]
          /\ ab[3 + 1] = b[1] /\ ab[3 + 2] = b[2]
      BY <1>3, <1>4, <2>1 DEF Joins
    <2>3. ab \in Seq(Byte) /\ Len(ab) = 5 /\ ab[1] = a[1] /\ ab[4] = b[1] /\ ab[5] = b[2]
      BY <2>2
    <2> QED BY <2>3 DEF ab
  <1>6. ASSUME NEW load, \A i \in 1..5 : load[i] = (a \o b)[i]
        PROVE  Addressed(load) = p /\ load[1] \div 8 = block
    <2>1. load[1] = a[1] /\ load[4] = b[1] /\ load[5] = b[2]
      BY <1>5, <1>6
    <2>2. Word(load, 4) = n
      <3>1. 4 + 1 = 5
        OBVIOUS
      <3> QED BY <1>4, <2>1, <3>1 DEF Word
    <2>3. Addressed(load) = <<p[1], p[2]>>
      BY <1>1, <1>2, <2>2 DEF Addressed
    <2> QED BY <1>1, <1>3, <2>1, <2>3
  <1> QED BY <1>5, <1>6 DEF a, b, n

(* transceive_param: a command about a parameter.                          *)
IsParamPayload(load, p, block, data) ==
  /\ load \in Seq(Byte) /\ Len(load) = 5 + Len(data)
  /\ Addressed(load) = p /\ load[1] \div 8 = block
  /\ SubSeq(load, 6, Len(load)) = data

LEMMA ParamPayload ==
  ASSUME NEW p \in Parameter, NEW block \in {3, 7}, NEW data \in Seq(Byte)
  PROVE  IsParamPayload(SercosParam(block, p[1], p[2], data), p, block, data)
  <1> DEFINE load == SercosParam(block, p[1], p[2], data)
             ab == <<SercosParamControl(block), SIS_ADDR_SLAVE, 0>>
                     \o ToBytes(SercosParamIdent(p[1], p[2]), 2)
  <1>1. /\ ab \in Seq(Byte) /\ Len(ab) = 5
        /\ \A l : (\A i \in 1..5 : l[i] = ab[i]) => Addressed(l) = p /\ l[1] \div 8 = block
    BY IdentBytes
  <1>2. load = ab \o data
    BY DEF SercosParam
  <1> HIDE DEF ab, load
  <1>3. /\ load \in Seq(Byte) /\ Len(load) = 5 + Len(data)
        /\ \A i \in 1..5 : load[i] = ab[i]
        /\ \A i \in 1..Len(data) : load[5 + i] = data[i]
    <2>2. Joins(load, ab, data)
      BY <1>1, <1>2, ConcatJoins
    <2> QED BY <1>1, <2>2 DEF Joins
  <1>4. SubSeq(load, 6, Len(load)) = data
    <2> DEFINE l == SubSeq(load, 6, Len(load))
    <2>1. Len(data) \in Nat
      OBVIOUS
    <2>2. /\ l \in Seq(Byte) /\ Len(l) = Len(data)
          /\ \A i \in 1..Len(data) : l[i] = load[5 + i]
      BY <1>3, <2>1
    <2> HIDE DEF l
    <2>3. l = data
      BY <1>3, <2>2, SeqEqual
    <2> QED BY <2>3 DEF l
  <1> QED BY <1>1, <1>3, <1>4 DEF load, IsParamPayload

LEMMA Services ==
  /\ Service.PARAM_READ = 16 /\ Service.PARAM_WRITE = 31
  /\ Service.LIST_READ = 17 /\ Service.LIST_WRITE = 30
  /\ Datablock_Attribute = 3 /\ Datablock_OperationData = 7
  BY DEF Service, Datablock_Attribute, Datablock_OperationData

LEMMA ParamCommand ==
  ASSUME call.par \in Parameter, NEW service \in {16, 31}, NEW block \in {3, 7},
         NEW data \in Seq(Byte), Len(data) <= 8,
         NEW t, t = ParamTelegram(service, block, data)
  PROVE  /\ t \in Seq(Byte) /\ Len(t) <= 254 /\ Accepts(t) /\ Carries(t)
         /\ service = 16 /\ block = 3 =>
              Reacts(t) = [data |-> AttributeBytes(call.par), drive |-> drive]
         /\ service = 16 /\ block = 7 =>
              Reacts(t) = [data |-> drive[call.par], drive |-> drive]
         /\ service = 31 =>
              Reacts(t) = [data |-> <<>>, drive |-> [drive EXCEPT ![call.par] = data]]
  <1> DEFINE load == SercosParam(block, call.par[1], call.par[2], data)
  <1>1. /\ load \in Seq(Byte) /\ Len(load) = 5 + Len(data)
        /\ Addressed(load) = call.par /\ load[1] \div 8 = block
        /\ SubSeq(load, 6, Len(load)) = data
    <2>1. IsParamPayload(load, call.par, block, data)
      BY ParamPayload
    <2> HIDE DEF load
    <2> QED BY <2>1 DEF IsParamPayload
  <1>2. t = calc_checksum(Map(service, load))
    BY DEF ParamTelegram
  <1> HIDE DEF load
  <1>3. service \in Byte /\ Len(load) <= 240 /\ Len(data) \in Nat
    BY <1>1, Bytes
  <1>4. /\ t \in Seq(Byte) /\ Len(t) = 8 + Len(load) /\ Accepts(t)
        /\ t[6] = service /\ Load(t) = load
    BY <1>1, <1>2, <1>3, CommandBytes
  <1>5. Len(t) <= 254
    BY <1>1, <1>3, <1>4
  <1>6. Carries(t)
    BY <1>4, Services DEF Carries
  <1>7. ASSUME service = 16, block = 3
        PROVE  Reacts(t) = [data |-> AttributeBytes(call.par), drive |-> drive]
    BY <1>1, <1>4, <1>7, Services DEF Reacts
  <1>8. ASSUME service = 16, block = 7
        PROVE  Reacts(t) = [data |-> drive[call.par], drive |-> drive]
    BY <1>1, <1>4, <1>8, Services DEF Reacts
  <1>9. ASSUME service = 31
        PROVE  Reacts(t) = [data |-> <<>>, drive |-> [drive EXCEPT ![call.par] = data]]
    <2>1. Reacts(t) = [data |-> <<>>,
                       drive |-> [drive EXCEPT ![Addressed(Load(t))] =
                                    SubSeq(Load(t), 6, Len(Load(t)))]]
      BY <1>4, <1>9, Services DEF Reacts
    <2> QED BY <1>1, <1>4, <2>1
  <1> QED BY <1>4, <1>5, <1>6, <1>7, <1>8, <1>9

(* transceive_list: a command about some bytes of a list.                  *)
IsListPayload(load, p, offset, size, data) ==
  /\ load \in Seq(Byte) /\ Len(load) = 9 + Len(data)
  /\ Addressed(load) = p
  /\ OffsetIn(load) = offset % 65536 /\ SizeIn(load) = size
  /\ SubSeq(load, 10, Len(load)) = data

LEMMA ListPayload ==
  ASSUME NEW p \in Parameter, NEW offset \in Nat, NEW size \in {1, 2, 4, 8},
         NEW data \in Seq(Byte)
  PROVE  IsListPayload(SercosList(7, p[1], p[2], offset, size, data),
                       p, offset, size, data)
  <1> DEFINE load == SercosList(7, p[1], p[2], offset, size, data)
             ab == <<SercosParamControl(7), SIS_ADDR_SLAVE, 0>>
                     \o ToBytes(SercosParamIdent(p[1], p[2]), 2)
             o == ToBytes(offset, 2)
             z == ToBytes(size, 2)
             abo == ab \o o
             aboz == abo \o z
  <1>1. /\ ab \in Seq(Byte) /\ Len(ab) = 5
        /\ \A l : (\A i \in 1..5 : l[i] = ab[i]) => Addressed(l) = p /\ l[1] \div 8 = 7
    BY IdentBytes
  <1>2. load = aboz \o data
    BY DEF SercosList
  <1>3. /\ o \in Seq(Byte) /\ Len(o) = 2 /\ o[1] + 256 * o[2] = offset % 65536
        /\ z \in Seq(Byte) /\ Len(z) = 2 /\ z[1] + 256 * z[2] = size
    <2>1. size \in Nat /\ size % 65536 = size
      OBVIOUS
    <2>2. o \in Seq(Byte) /\ Len(o) = 2 /\ o[1] + 256 * o[2] = offset % 65536
      BY WordOf
    <2>3. z \in Seq(Byte) /\ Len(z) = 2 /\ z[1] + 256 * z[2] = size % 65536
      BY <2>1, WordOf
    <2> QED BY <2>1, <2>2, <2>3
  <1>10. abo = ab \o o /\ aboz = abo \o z
    OBVIOUS
  <1> HIDE DEF ab, o, z, abo, aboz, load
  <1>4. /\ abo \in Seq(Byte) /\ Len(abo) = 7
        /\ \A i \in 1..5 : abo[i] = ab[i]
        /\ \A i \in 1..2 : abo[5 + i] = o[i]
    <2>1. Joins(abo, ab, o)
      BY <1>1, <1>3, <1>10, ConcatJoins
    <2> QED BY <1>1, <1>3, <2>1 DEF Joins
  <1>5. /\ aboz \in Seq(Byte) /\ Len(aboz) = 9
        /\ \A i \in 1..7 : aboz[i] = abo[i]
        /\ \A i \in 1..2 : aboz[7 + i] = z[i]
    <2>1. Joins(aboz, abo, z)
      <3>1. aboz = abo \o z /\ abo \in Seq(Byte) /\ z \in Seq(Byte)
        BY <1>3, <1>4, <1>10
      <3> QED BY <3>1, ConcatJoins
    <2> QED BY <1>3, <1>4, <2>1 DEF Joins
  <1>6. /\ load \in Seq(Byte) /\ Len(load) = 9 + Len(data)
        /\ \A i \in 1..9 : load[i] = aboz[i]
        /\ \A i \in 1..Len(data) : load[9 + i] = data[i]
    <2>1. Joins(load, aboz, data)
      BY <1>2, <1>5, ConcatJoins
    <2> QED BY <1>5, <2>1 DEF Joins
  <1>7. /\ \A i \in 1..5 : load[i] = ab[i]
        /\ load[6] = o[1] /\ load[7] = o[2] /\ load[8] = z[1] /\ load[9] = z[2]
    <2>1. abo[5 + 1] = o[1] /\ abo[5 + 2] = o[2] /\ aboz[7 + 1] = z[1] /\ aboz[7 + 2] = z[2]
      BY <1>4, <1>5
    <2>2. \A i \in 1..7 : load[i] = abo[i]
      BY <1>5, <1>6
    <2>3. load[8] = aboz[8] /\ load[9] = aboz[9]
      BY <1>6
    <2> QED BY <1>4, <2>1, <2>2, <2>3
  <1>8. OffsetIn(load) = offset % 65536 /\ SizeIn(load) = size
    <2>1. 6 + 1 = 7 /\ 8 + 1 = 9
      OBVIOUS
    <2> QED BY <1>3, <1>7, <2>1 DEF OffsetIn, SizeIn, Word
  <1>9. SubSeq(load, 10, Len(load)) = data
    <2> DEFINE l == SubSeq(load, 10, Len(load))
    <2>1. Len(data) \in Nat
      OBVIOUS
    <2>2. /\ l \in Seq(Byte) /\ Len(l) = Len(data)
          /\ \A i \in 1..Len(data) : l[i] = load[9 + i]
      BY <1>6, <2>1
    <2> HIDE DEF l
    <2>3. l = data
      BY <1>6, <2>2, SeqEqual
    <2> QED BY <2>3 DEF l
  <1>11. Addressed(load) = p
    BY <1>1, <1>7
  <1> QED BY <1>6, <1>8, <1>9, <1>11 DEF load, IsListPayload

LEMMA AnswerFields ==
  ASSUME NEW x, NEW a, NEW b, x = [data |-> a, drive |-> b]
  PROVE  x.data = a /\ x.drive = b
  OBVIOUS

(* Whether and how a list's bytes are read or written by a step's command. *)
Reads(t, p, offset) ==
  /\ Len(t) <= 254 /\ Accepts(t)
  /\ Carries(t) => (offset % 65536) + local.datalen <= Len(drive[p])
  /\ Reacts(t) = [data |-> SubSeq(drive[p], (offset % 65536) + 1,
                                  (offset % 65536) + local.datalen),
                  drive |-> drive]

Stores(t, p, offset, data) ==
  /\ Len(t) <= 254 /\ Accepts(t)
  /\ Carries(t) => (offset % 65536) + local.datalen <= Len(drive[p])
  /\ Reacts(t) = [data |-> <<>>,
                  drive |-> [drive EXCEPT ![p] = ListAfter(drive[p], offset % 65536, data)]]

LEMMA ListCommand ==
  ASSUME call.par \in Parameter, local.datalen \in {1, 2, 4, 8},
         NEW service \in {17, 30}, NEW offset \in Nat,
         NEW data \in Seq(Byte), Len(data) <= 8,
         NEW t, t = ListTelegram(service, offset, data)
  PROVE  /\ service = 17 => Reads(t, call.par, offset)
         /\ service = 30 => Stores(t, call.par, offset, data)
  <1> DEFINE load == SercosList(7, call.par[1], call.par[2], offset, local.datalen, data)
             o == offset % 65536
  <1>1. /\ load \in Seq(Byte) /\ Len(load) = 9 + Len(data)
        /\ Addressed(load) = call.par
        /\ OffsetIn(load) = o /\ SizeIn(load) = local.datalen
        /\ SubSeq(load, 10, Len(load)) = data
    <2>1. IsListPayload(load, call.par, offset, local.datalen, data)
      BY ListPayload
    <2> HIDE DEF load
    <2> QED BY <2>1 DEF IsListPayload
  <1>2. t = calc_checksum(Map(service, load))
    BY Services DEF ListTelegram
  <1> HIDE DEF load, o
  <1>3. service \in Byte /\ Len(load) <= 240 /\ Len(data) \in Nat
    BY <1>1, Bytes
  <1>4. /\ t \in Seq(Byte) /\ Len(t) = 8 + Len(load) /\ Accepts(t)
        /\ t[6] = service /\ Load(t) = load
    BY <1>1, <1>2, <1>3, CommandBytes
  <1>5. Len(t) <= 254
    BY <1>1, <1>3, <1>4
  <1>6. Carries(t) => o + local.datalen <= Len(drive[call.par])
    BY <1>1, <1>4, Services DEF Carries
  <1>7. ASSUME service = 17
        PROVE  Reacts(t) = [data |-> SubSeq(drive[call.par], o + 1, o + local.datalen),
                            drive |-> drive]
    <2>1. Reacts(t) = [data |-> SubSeq(drive[Addressed(Load(t))], OffsetIn(Load(t)) + 1,
                                       OffsetIn(Load(t)) + SizeIn(Load(t))),
                       drive |-> drive]
      BY <1>4, <1>7, Services DEF Reacts
    <2> QED BY <1>1, <1>4, <2>1
  <1>8. ASSUME service = 30
        PROVE  Reacts(t) = [data |-> <<>>,
                            drive |-> [drive EXCEPT ![call.par] =
                                         ListAfter(drive[call.par], o, data)]]
    <2>1. Reacts(t) = [data |-> <<>>,
                       drive |-> [drive EXCEPT ![Addressed(Load(t))] =
                                    ListAfter(drive[Addressed(Load(t))], OffsetIn(Load(t)),
                                              SubSeq(Load(t), 10, Len(Load(t))))]]
      BY <1>4, <1>8, Services DEF Reacts
    <2> QED BY <1>1, <1>4, <2>1
  <1> QED BY <1>4, <1>5, <1>6, <1>7, <1>8 DEF o, Reads, Stores
-----------------------------------------------------------------------------
(* What a reader makes of the bytes it gets.                               *)

LEMMA LowestOf ==
  ASSUME NEW b \in Seq(Byte), NEW k \in 1..8, k <= Len(b)
  PROVE  /\ Lowest(b, k) = [i \in 1..k |-> b[i]]
         /\ Lowest(b, k) \in Seq(Byte) /\ Len(Lowest(b, k)) = k
         /\ \A i \in 1..k : Lowest(b, k)[i] = b[i]
  <1>1. \A i \in 1..k : i <= Len(b) /\ b[i] \in Byte
    <2>1. ASSUME NEW i \in 1..k PROVE i <= Len(b) /\ b[i] \in Byte
      <3>1. i \in 1..Len(b)
        OBVIOUS
      <3> QED BY <3>1
    <2> QED BY <2>1
  <1>2. Lowest(b, k) = [i \in 1..k |-> b[i]]
    BY <1>1 DEF Lowest
  <1>3. Lowest(b, k) \in [1..k -> Byte]
    BY <1>1, <1>2
  <1> QED BY <1>2, <1>3

LEMMA BytesOfFunction ==
  ASSUME NEW k \in Nat, NEW f \in [1..k -> Byte]
  PROVE  f \in Seq(Byte) /\ Len(f) = k
  OBVIOUS

LEMMA SignExtendedOf ==
  ASSUME NEW b \in Seq(Byte), Len(b) # 0
  PROVE  SignExtended(b) \in Seq(Byte) /\ Len(SignExtended(b)) = 8
  <1>1. 255 \in Byte /\ 0 \in Byte
    BY Bytes
  <1>2. ASSUME NEW i \in 1..8
        PROVE  (IF i <= Len(b) THEN b[i]
                ELSE IF b[Len(b)] >= 128 THEN 255 ELSE 0) \in Byte
    BY <1>1
  <1>3. SignExtended(b) \in [1..8 -> Byte]
    BY <1>2 DEF SignExtended
  <1>4. 8 \in Nat
    OBVIOUS
  <1> QED BY <1>3, <1>4, BytesOfFunction

LEMMA BitOrOf ==
  ASSUME NEW a \in 0..255, NEW b \in 0..255
  PROVE  BitOr(a, b) \in 0..255 /\ BitOr(a, 0) = a
  <1> DEFINE bit(w) == IF (a \div w) % 2 = 1 \/ (b \div w) % 2 = 1 THEN w ELSE 0
             own(w) == IF (a \div w) % 2 = 1 \/ (0 \div w) % 2 = 1 THEN w ELSE 0
  <1>1. /\ BitOr(a, b) = bit(1) + bit(2) + bit(4) + bit(8) + bit(16) + bit(32) + bit(64) + bit(128)
        /\ BitOr(a, 0) = own(1) + own(2) + own(4) + own(8) + own(16) + own(32) + own(64) + own(128)
    BY DEF BitOr
  <1>2. \A w \in Nat : bit(w) \in {0, w}
    OBVIOUS
  <1>3. /\ own(1) = a % 2 /\ own(2) = 2 * ((a \div 2) % 2)
        /\ own(4) = 4 * ((a \div 4) % 2) /\ own(8) = 8 * ((a \div 8) % 2)
        /\ own(16) = 16 * ((a \div 16) % 2) /\ own(32) = 32 * ((a \div 32) % 2)
        /\ own(64) = 64 * ((a \div 64) % 2) /\ own(128) = 128 * ((a \div 128) % 2)
    OBVIOUS
  <1>4. a = (a % 2) + 2 * ((a \div 2) % 2) + 4 * ((a \div 4) % 2) + 8 * ((a \div 8) % 2)
              + 16 * ((a \div 16) % 2) + 32 * ((a \div 32) % 2)
              + 64 * ((a \div 64) % 2) + 128 * ((a \div 128) % 2)
    OBVIOUS
  <1> HIDE DEF bit, own
  <1>5. /\ bit(1) \in {0, 1} /\ bit(2) \in {0, 2} /\ bit(4) \in {0, 4} /\ bit(8) \in {0, 8}
        /\ bit(16) \in {0, 16} /\ bit(32) \in {0, 32} /\ bit(64) \in {0, 64}
        /\ bit(128) \in {0, 128}
    BY <1>2
  <1>6. BitOr(a, b) \in 0..255
    BY <1>1, <1>5
  <1>7. BitOr(a, 0) = a
    BY <1>1, <1>3, <1>4
  <1> QED BY <1>6, <1>7

(* toUINT64 gives one of two numbers, the same one if the upper half is 0. *)
LEMMA HalvesOf ==
  ASSUME NEW data \in Seq(Byte), Len(data) = 8, NEW r \in toUINT64(data)
  PROVE  \E low \in Seq(Byte) :
           /\ Len(low) = 4 /\ r = SignExtended(low)
           /\ (\A i \in 5..8 : data[i] = 0) => low = Lowest(data, 4)
  <1> DEFINE b == Lowest(data, 8)
             low == [i \in 1..4 |-> BitOr(b[i], b[i + 4])]
  <1>1. b = data
    <2>1. b \in Seq(Byte) /\ Len(b) = 8 /\ \A i \in 1..8 : b[i] = data[i]
      <3>1. 8 \in 1..8 /\ 8 <= Len(data)
        OBVIOUS
      <3> QED BY <3>1, LowestOf
    <2> HIDE DEF b
    <2> QED BY <2>1, SeqEqual
  <1>2. \A i \in 1..8 : data[i] \in 0..255
    <2>1. ASSUME NEW i \in 1..Len(data) PROVE data[i] \in Byte
      <3>1. data \in Seq(Byte) /\ i \in 1..Len(data)
        OBVIOUS
      <3> QED BY <3>1, ElementOfSeq
    <2> QED BY <2>1 DEF Byte
  <1>3. r = SignExtended(low) \/ r = SignExtended(Lowest(b, 4))
    BY DEF toUINT64
  <1> HIDE DEF b
  <1>4. low \in Seq(Byte) /\ Len(low) = 4
    <2>1. ASSUME NEW i \in 1..4 PROVE BitOr(b[i], b[i + 4]) \in Byte
      <3>1. i \in 1..8 /\ i + 4 \in 1..8
        OBVIOUS
      <3>2. b[i] \in 0..255 /\ b[i + 4] \in 0..255
        BY <1>1, <1>2, <3>1
      <3> QED BY <3>2, BitOrOf DEF Byte
    <2>2. low \in [1..4 -> Byte]
      BY <2>1
    <2> QED BY <2>2
  <1>5. Lowest(b, 4) \in Seq(Byte) /\ Len(Lowest(b, 4)) = 4
    <2>1. 4 \in 1..8 /\ 4 <= Len(data)
      OBVIOUS
    <2> QED BY <1>1, <2>1, LowestOf
  <1>6. ASSUME \A i \in 5..8 : data[i] = 0
        PROVE  low = Lowest(data, 4)
    <2>1. ASSUME NEW i \in 1..4 PROVE BitOr(b[i], b[i + 4]) = b[i]
      <3>1. i \in 1..8 /\ i + 4 \in 5..8
        OBVIOUS
      <3>2. data[i] \in 0..255 /\ data[i + 4] = 0
        BY <1>2, <1>6, <3>1
      <3>3. 0 \in 0..255
        OBVIOUS
      <3> QED BY <1>1, <3>2, <3>3, BitOrOf
    <2>2. low = [i \in 1..4 |-> b[i]]
      BY <2>1
    <2>3. Lowest(data, 4) = [i \in 1..4 |-> data[i]]
      <3>1. 4 \in 1..8 /\ 4 <= Len(data)
        OBVIOUS
      <3> QED BY <3>1, LowestOf
    <2> QED BY <1>1, <2>2, <2>3
  <1> HIDE DEF low
  <1> QED BY <1>1, <1>3, <1>4, <1>5, <1>6

(* The width of a number of at most four bytes, and of what toUINT64 keeps *)
(* of a longer one.                                                        *)
Kept(data) == Lowest(data, IF Len(data) < 4 THEN Len(data) ELSE 4)

LEMMA SizedData ==
  ASSUME NEW k \in {1, 2, 4, 8}, NEW data \in Seq(Byte), Len(data) = k,
         NEW r \in get_sized_data(data, k)
  PROVE  /\ r \in Seq(Byte) /\ Len(r) = 8
         /\ Signed(Kept(data)) \in Int
         /\ Narrow(data) => r = ToBytes(Signed(Kept(data)), 8)
  <1> DEFINE w == IF k < 4 THEN k ELSE 4
             low == Lowest(data, w)
  <1>1. w \in {1, 2, 4} /\ w \in 1..8 /\ w <= k
    OBVIOUS
  <1>2. low \in Seq(Byte) /\ Len(low) = w
    BY <1>1, LowestOf
  <1>3. Kept(data) = low
    BY DEF Kept
  <1> HIDE DEF low
  <1>4. Signed(low) \in Int /\ ToBytes(Signed(low), 8) = SignExtended(low)
    BY <1>1, <1>2, SignedBytes
  <1>5. SignExtended(low) \in Seq(Byte) /\ Len(SignExtended(low)) = 8
    <2>1. Len(low) # 0
      BY <1>1, <1>2
    <2> QED BY <1>2, <2>1, SignExtendedOf
  <1>6. CASE k # 8
    <2>1. r = SignExtended(low)
      BY <1>6 DEF get_sized_data, toUINT8, toUINT16, toUINT32, low
    <2> QED BY <1>3, <1>4, <1>5, <2>1
  <1>7. CASE k = 8
    <2>1. r \in toUINT64(data)
      BY <1>7 DEF get_sized_data
    <2>2. PICK half \in Seq(Byte) :
            /\ Len(half) = 4 /\ r = SignExtended(half)
            /\ (\A i \in 5..8 : data[i] = 0) => half = Lowest(data, 4)
      BY <1>7, <2>1, HalvesOf
    <2>3. r \in Seq(Byte) /\ Len(r) = 8
      <3>1. Len(half) # 0
        BY <2>2
      <3> QED BY <2>2, <3>1, SignExtendedOf
    <2>4. ASSUME Narrow(data) PROVE r = SignExtended(low)
      <3>1. \A i \in 5..8 : data[i] = 0
        BY <1>7, <2>4 DEF Narrow
      <3> QED BY <1>7, <2>2, <3>1 DEF low
    <2> QED BY <1>3, <1>4, <2>3, <2>4
  <1> QED BY <1>6, <1>7
-----------------------------------------------------------------------------
(* The invariant.                                                          *)

NumberTypes == {"UINT32", "UINT64", "DOUBLE"}

(* The call that is under way or ended last has the arguments of its kind. *)
CallOK ==
  /\ call.of \in {"none", "read_parameter", "read_listelm", "write_parameter",
                  "write_listelm", "set_baudrate"}
  /\ call.of = "none" => call = Idle
  /\ call.of = "read_parameter" =>
       /\ call.par \in Parameter /\ call.type \in NumberTypes \cup {"text"}
       /\ call.par \in Lists <=> call.type = "text"
  /\ call.of = "read_listelm" =>
       call.par \in Lists /\ call.pos \in Positions /\ call.type \in NumberTypes
  /\ call.of = "write_parameter" => call.par \in Scalars /\ call.value \in Numbers
  /\ call.of = "write_listelm" =>
       call.par \in Lists /\ call.pos \in Positions /\ call.value \in Numbers
  /\ call.of = "set_baudrate" => call.mask \in {0, 1, 2, 4, 8}

(* The chain of exchanges each call goes through.                          *)
StepOK ==
  /\ step \in {"idle", "attributes", "header", "resize", "data", "baudrate"}
  /\ step = "attributes" =>
       call.of \in {"read_parameter", "read_listelm", "write_parameter", "write_listelm"}
  /\ step = "attributes" /\ call.of = "read_parameter" => call.type # "text"
  /\ step \in {"header", "resize"} => call.of = "write_listelm"
  /\ step = "data" =>
       call.of \in {"read_parameter", "read_listelm", "write_parameter", "write_listelm"}
  /\ step = "baudrate" => call.of = "set_baudrate"

KindsOK ==
  /\ local \in [datalen : {1, 2, 4, 8}, scale : 0..15, header : Seq(Byte)]
  /\ Len(local.header) <= 8
  /\ out \in [ended : {"none", "returned"} \cup Faults, value : Seq(Byte), dec : 0..15]

(* What the drive holds keeps its width, whatever is written to it.        *)
DriveOK ==
  /\ drive \in [Parameter -> Seq(Byte)] /\ before \in [Parameter -> Seq(Byte)]
  /\ \A p \in Parameter :
       /\ Len(drive[p]) = Len(before[p])
       /\ p \in Lists => Len(before[p]) >= 4
       /\ p \notin Lists => Len(before[p]) = LengthOf(p)

(* A number is converted with the length and the decimals of its parameter.*)
Fetched ==
  step \in {"header", "resize", "data"}
    /\ (call.of # "read_parameter" \/ call.type # "text") =>
      local.datalen = LengthOf(call.par) /\ local.scale = Attribute[call.par].scale

(* A list whose header was given another length.                           *)
Resized(bytes, length) ==
  [i \in DOMAIN bytes |-> IF i \in {1, 2} THEN ToBytes(length, 2)[i] ELSE bytes[i]]

(* Until its last exchange a call has changed nothing, but for the length  *)
(* of a list it is about to write to.                                      *)
Held ==
  /\ step \in {"attributes", "header", "resize", "baudrate"} => drive = before
  /\ call.of \notin {"write_parameter", "write_listelm"} => drive = before
  /\ step = "data" /\ call.of = "write_parameter" => drive = before
  /\ step = "resize" =>
       /\ LengthOf(call.par) = 4 /\ NewLength < CapacityOf(before[call.par])
       /\ local.header = ToBytes(NewLength, 2) \o SubSeq(before[call.par], 3, 4)
  /\ step = "data" /\ call.of = "write_listelm" =>
       \/ /\ drive = before
          /\ LengthOf(call.par) = 4 => NewLength >= CapacityOf(before[call.par])
       \/ /\ LengthOf(call.par) = 4 /\ NewLength < CapacityOf(before[call.par])
          /\ drive = [before EXCEPT ![call.par] = Resized(before[call.par], NewLength)]

Inv == CallOK /\ StepOK /\ KindsOK /\ DriveOK /\ Fetched /\ Held

LEMMA Lengths ==
  ASSUME NEW p \in Parameter
  PROVE  /\ LengthOf(p) \in {1, 2, 4, 8}
         /\ p \in Lists => LengthOf(p) \in {1, 2, 4}
         /\ Attribute[p].scale \in 0..15
         /\ Datalen[Attribute[p].datalen] \in 0..6
         /\ LengthByCode(Datalen[Attribute[p].datalen]) = LengthOf(p)
  <1>1. /\ Attribute[p].datalen \in {"res1", "param2", "param4", "param8",
                                     "list1", "list2", "list4"}
        /\ Attribute[p].scale \in 0..15
    BY AttributeAssumption DEF Datalen
  <1>2. /\ Datalen.res1 = 0 /\ Datalen.param2 = 1 /\ Datalen.param4 = 2
        /\ Datalen.param8 = 3 /\ Datalen.list1 = 4 /\ Datalen.list2 = 5
        /\ Datalen.list4 = 6 /\ Datalen.list8 = 7
    BY DEF Datalen
  <1>3. /\ Datalen["res1"] = 0 /\ Datalen["param2"] = 1 /\ Datalen["param4"] = 2
        /\ Datalen["param8"] = 3 /\ Datalen["list1"] = 4 /\ Datalen["list2"] = 5
        /\ Datalen["list4"] = 6
    BY DEF Datalen
  <1>4. p \in Lists <=> Attribute[p].datalen \in {"list1", "list2", "list4"}
    BY DEF Lists
  <1>5. LengthOf(p) =
          CASE Attribute[p].datalen \in {"res1", "list1"} -> 1
            [] Attribute[p].datalen \in {"param2", "list2"} -> 2
            [] Attribute[p].datalen \in {"param4", "list4"} -> 4
            [] OTHER -> 8
    BY DEF LengthOf
  <1>6. \A code : LengthByCode(code) =
          IF code \in {5, 1} THEN 2 ELSE IF code \in {6, 2} THEN 4
          ELSE IF code \in {7, 3} THEN 8 ELSE 1
    BY <1>2 DEF LengthByCode
  <1>7. CASE Attribute[p].datalen \in {"res1", "list1"}
    BY <1>1, <1>3, <1>4, <1>5, <1>6, <1>7
  <1>8. CASE Attribute[p].datalen \in {"param2", "list2"}
    BY <1>1, <1>3, <1>4, <1>5, <1>6, <1>8
  <1>9. CASE Attribute[p].datalen \in {"param4", "list4"}
    BY <1>1, <1>3, <1>4, <1>5, <1>6, <1>9
  <1>10. CASE Attribute[p].datalen = "param8"
    BY <1>1, <1>3, <1>4, <1>5, <1>6, <1>10
  <1> QED BY <1>1, <1>7, <1>8, <1>9, <1>10

(* The number that is written, as its parameter's bytes.                   *)
LEMMA NumberBytes ==
  ASSUME CallOK, KindsOK, call.of \in {"write_parameter", "write_listelm"},
         NEW u \in Converted(call.value, local.scale)
  PROVE  /\ set_sized_data(local.datalen, u) \in Seq(Byte)
         /\ Len(set_sized_data(local.datalen, u)) = local.datalen
         /\ Len(set_sized_data(local.datalen, u)) <= 8
  <1>1. call.value \in [num : Int, dec : 0..15]
    BY NumberAssumption DEF CallOK
  <1>2. local.scale \in 0..15 /\ local.datalen \in {1, 2, 4, 8}
    BY DEF KindsOK
  <1>3. u \in Seq(Byte) /\ Len(u) = 8
    BY <1>1, <1>2, ConvertedOf
  <1>4. /\ set_sized_data(local.datalen, u) \in Seq(Byte)
        /\ Len(set_sized_data(local.datalen, u)) = local.datalen
    BY <1>2, <1>3, SizedFor
  <1> QED BY <1>2, <1>4

(* The command of each step, and what it does.                             *)
LEMMA AttributesSent ==
  ASSUME CallOK, StepOK, step = "attributes"
  PROVE  /\ call.par \in Parameter
         /\ Len(AttributesTelegram) <= 254
         /\ Accepts(AttributesTelegram)
         /\ Reacts(AttributesTelegram) = [data |-> AttributeBytes(call.par), drive |-> drive]
  <1>1. call.par \in Parameter
    BY DEF CallOK, StepOK, Lists, Scalars
  <1>2. <<>> \in Seq(Byte) /\ Len(<<>>) <= 8
    OBVIOUS
  <1>3. AttributesTelegram = ParamTelegram(16, 3, <<>>)
    BY Services DEF AttributesTelegram
  <1>4. 16 \in {16, 31} /\ 3 \in {3, 7}
    OBVIOUS
  <1> QED BY <1>1, <1>2, <1>3, <1>4, ParamCommand

LEMMA ListReadCommand ==
  ASSUME call.par \in Parameter, local.datalen \in {1, 2, 4, 8}, NEW offset \in Nat
  PROVE  Reads(ListTelegram(Service.LIST_READ, offset, <<>>), call.par, offset)
  <1>1. <<>> \in Seq(Byte) /\ Len(<<>>) <= 8
    OBVIOUS
  <1>2. 17 \in {17, 30} /\ Service.LIST_READ = 17 /\ 17 # 30
    BY Services
  <1> QED BY <1>1, <1>2, ListCommand

LEMMA ListWriteCommand ==
  ASSUME call.par \in Parameter, local.datalen \in {1, 2, 4, 8}, NEW offset \in Nat,
         NEW data \in Seq(Byte), Len(data) <= 8
  PROVE  Stores(ListTelegram(Service.LIST_WRITE, offset, data), call.par, offset, data)
  <1>1. 30 \in {17, 30} /\ Service.LIST_WRITE = 30 /\ 30 # 17
    BY Services
  <1> QED BY <1>1, ListCommand

LEMMA OffsetOf ==
  ASSUME CallOK, KindsOK, call.of \in {"read_listelm", "write_listelm"}
  PROVE  ListOffset \in Nat
  <1>1. call.pos \in Nat
    BY PositionAssumption DEF CallOK
  <1>2. local.datalen \in Nat
    BY DEF KindsOK
  <1> QED BY <1>1, <1>2 DEF ListOffset

LEMMA HeaderSent ==
  ASSUME CallOK, StepOK, KindsOK, step = "header", NEW t \in Telegrams
  PROVE  call.par \in Lists /\ Reads(t, call.par, 0)
  <1>1. call.par \in Lists /\ call.par \in Parameter /\ local.datalen \in {1, 2, 4, 8}
    BY DEF CallOK, StepOK, KindsOK, Lists
  <1>2. t = ListTelegram(Service.LIST_READ, 0, <<>>)
    BY DEF Telegrams
  <1>3. 0 \in Nat
    OBVIOUS
  <1> QED BY <1>1, <1>2, <1>3, ListReadCommand

LEMMA ResizeSent ==
  ASSUME CallOK, StepOK, KindsOK, step = "resize", NEW t \in Telegrams
  PROVE  call.par \in Lists /\ Stores(t, call.par, 0, local.header)
  <1>1. /\ call.par \in Lists /\ call.par \in Parameter
        /\ local.datalen \in {1, 2, 4, 8}
        /\ local.header \in Seq(Byte) /\ Len(local.header) <= 8
    BY DEF CallOK, StepOK, KindsOK, Lists
  <1>2. t = ListTelegram(Service.LIST_WRITE, 0, local.header)
    BY DEF Telegrams
  <1>3. 0 \in Nat
    OBVIOUS
  <1> QED BY <1>1, <1>2, <1>3, ListWriteCommand

LEMMA ReadParameterSent ==
  ASSUME CallOK, step = "data", call.of = "read_parameter", NEW t \in Telegrams
  PROVE  /\ call.par \in Parameter
         /\ Len(t) <= 254 /\ Accepts(t)
         /\ Reacts(t) = [data |-> drive[call.par], drive |-> drive]
  <1>1. call.par \in Parameter
    BY DEF CallOK
  <1>2. t = ParamTelegram(16, 7, <<>>)
    BY Services DEF Telegrams, DataTelegrams
  <1>3. <<>> \in Seq(Byte) /\ Len(<<>>) <= 8 /\ 16 \in {16, 31} /\ 7 \in {3, 7}
    OBVIOUS
  <1> QED BY <1>1, <1>2, <1>3, ParamCommand

LEMMA ReadListelmSent ==
  ASSUME CallOK, KindsOK, step = "data", call.of = "read_listelm", NEW t \in Telegrams
  PROVE  call.par \in Lists /\ Reads(t, call.par, ListOffset)
  <1>1. call.par \in Lists /\ call.par \in Parameter /\ local.datalen \in {1, 2, 4, 8}
    BY DEF CallOK, KindsOK, Lists
  <1>2. t = ListTelegram(Service.LIST_READ, ListOffset, <<>>)
    BY DEF Telegrams, DataTelegrams
  <1> QED BY <1>1, <1>2, OffsetOf, ListReadCommand

LEMMA WriteParameterSent ==
  ASSUME CallOK, KindsOK, step = "data", call.of = "write_parameter", NEW t \in Telegrams
  PROVE  /\ call.par \in Scalars
         /\ Len(t) <= 254 /\ Accepts(t)
         /\ \E u \in Converted(call.value, local.scale) :
              Reacts(t) = [data |-> <<>>,
                           drive |-> [drive EXCEPT ![call.par] =
                                        set_sized_data(local.datalen, u)]]
  <1>1. call.par \in Scalars /\ call.par \in Parameter
    BY DEF CallOK, Scalars
  <1>2. PICK u \in Converted(call.value, local.scale) :
          t = ParamTelegram(31, 7, set_sized_data(local.datalen, u))
    BY Services DEF Telegrams, DataTelegrams
  <1> DEFINE data == set_sized_data(local.datalen, u)
  <1>3. data \in Seq(Byte) /\ Len(data) <= 8
    BY NumberBytes
  <1>4. t = ParamTelegram(31, 7, data)
    BY <1>2
  <1>5. 31 \in {16, 31} /\ 7 \in {3, 7} /\ 31 # 16
    OBVIOUS
  <1> HIDE DEF data
  <1>6. /\ Len(t) <= 254 /\ Accepts(t)
        /\ Reacts(t) = [data |-> <<>>, drive |-> [drive EXCEPT ![call.par] = data]]
    BY <1>1, <1>3, <1>4, <1>5, ParamCommand
  <1> QED BY <1>1, <1>6 DEF data

LEMMA WriteListelmSent ==
  ASSUME CallOK, KindsOK, step = "data", call.of = "write_listelm", NEW t \in Telegrams
  PROVE  /\ call.par \in Lists
         /\ \E u \in Converted(call.value, local.scale) :
              Stores(t, call.par, ListOffset, set_sized_data(local.datalen, u))
  <1>1. call.par \in Lists /\ call.par \in Parameter /\ local.datalen \in {1, 2, 4, 8}
    BY DEF CallOK, KindsOK, Lists
  <1>2. PICK u \in Converted(call.value, local.scale) :
          t = ListTelegram(Service.LIST_WRITE, ListOffset, set_sized_data(local.datalen, u))
    BY DEF Telegrams, DataTelegrams
  <1>3. /\ set_sized_data(local.datalen, u) \in Seq(Byte)
        /\ Len(set_sized_data(local.datalen, u)) <= 8
    BY NumberBytes
  <1>4. Stores(t, call.par, ListOffset, set_sized_data(local.datalen, u))
    BY <1>1, <1>2, <1>3, OffsetOf, ListWriteCommand
  <1> QED BY <1>1, <1>4

LEMMA BaudrateSent ==
  ASSUME CallOK, StepOK, step = "baudrate", NEW t \in Telegrams
  PROVE  Len(t) <= 254
  <1> DEFINE mask == call.mask
             s == Subservice(1, 7, <<mask>>)
             h == Header(3, s)
  <1>1. mask \in Byte /\ 1 \in Byte /\ 7 \in Byte /\ 0 \in Byte /\ 2 \in Byte /\ 3 \in Byte
    <2>1. mask \in {0, 1, 2, 4, 8}
      BY DEF CallOK, StepOK
    <2> QED BY <2>1, Bytes
  <1>2. t = h \o s
    BY DEF Telegrams, BaudrateTelegram, Map, Service, SIS_ADDR_UNIT
  <1> HIDE DEF mask
  <1>3. s = <<1, 7>> \o <<mask>>
    BY DEF Subservice
  <1> HIDE DEF s
  <1>4. Len(s) = 3 /\ s \in Seq(Byte)
    <2> DEFINE a == <<1, 7>>
               b == <<mask>>
    <2>1. a \in Seq(Byte) /\ b \in Seq(Byte) /\ Len(a) = 2 /\ Len(b) = 1
      BY <1>1
    <2>2. s = a \o b
      BY <1>3
    <2> HIDE DEF a, b
    <2>3. Joins(s, a, b)
      BY <2>1, <2>2, ConcatJoins
    <2> QED BY <2>1, <2>3 DEF Joins
  <1>5. h = <<2, 0, 3 % 256, 3 % 256, 0, 3, 0, 1>>
    BY <1>4 DEF Header, HeaderControl, TypeCommand, SIS_ADDR_MASTER, SIS_ADDR_SLAVE
  <1>6. Len(h) = 8 /\ h \in Seq(Byte)
    <2>1. 3 % 256 = 3
      OBVIOUS
    <2> HIDE DEF h
    <2> QED BY <1>1, <1>5, <2>1
  <1> HIDE DEF h
  <1>7. Joins(t, h, s)
    BY <1>2, <1>4, <1>6, ConcatJoins
  <1> QED BY <1>4, <1>6, <1>7 DEF Joins

(* Every command fits the port's buffer, and all but one are accepted.     *)
LEMMA CommandsFit ==
  ASSUME CallOK, StepOK, KindsOK, NEW t \in Telegrams
  PROVE  Len(t) <= 254 /\ (step # "baudrate" => Accepts(t))
  <1>1. CASE step = "idle"
    BY <1>1 DEF Telegrams
  <1>2. CASE step = "attributes"
    <2>1. t = AttributesTelegram
      BY <1>2 DEF Telegrams
    <2> QED BY <1>2, <2>1, AttributesSent
  <1>3. CASE step = "header"
    BY <1>3, HeaderSent DEF Reads
  <1>4. CASE step = "resize"
    BY <1>4, ResizeSent DEF Stores
  <1>5. CASE step = "baudrate"
    BY <1>5, BaudrateSent
  <1>6. CASE step = "data"
    <2>1. CASE call.of = "read_parameter"
      BY <1>6, <2>1, ReadParameterSent
    <2>2. CASE call.of = "read_listelm"
      BY <1>6, <2>2, ReadListelmSent DEF Reads
    <2>3. CASE call.of = "write_parameter"
      BY <1>6, <2>3, WriteParameterSent
    <2>4. CASE call.of = "write_listelm"
      BY <1>6, <2>4, WriteListelmSent DEF Stores
    <2> QED BY <1>6, <2>1, <2>2, <2>3, <2>4 DEF StepOK
  <1> QED BY <1>1, <1>2, <1>3, <1>4, <1>5, <1>6 DEF StepOK
-----------------------------------------------------------------------------
(* Lists.                                                                  *)

IsListAfter(f, old, offset, data) ==
  /\ f \in Seq(Byte) /\ Len(f) = Len(old)
  /\ \A i \in 1..Len(old) :
       f[i] = IF i \in {3, 4} \/ i \notin offset + 1 .. offset + Len(data)
              THEN old[i] ELSE data[i - offset]

LEMMA ListAfterOf ==
  ASSUME NEW old \in Seq(Byte), NEW offset \in Nat, NEW data \in Seq(Byte)
  PROVE  IsListAfter(ListAfter(old, offset, data), old, offset, data)
  <1> DEFINE f == ListAfter(old, offset, data)
  <1>1. DOMAIN old = 1..Len(old) /\ Len(old) \in Nat /\ Len(data) \in Nat
    OBVIOUS
  <1>2. f = [i \in 1..Len(old) |->
               IF i \in {3, 4} \/ i \notin offset + 1 .. offset + Len(data)
               THEN old[i] ELSE data[i - offset]]
    BY <1>1 DEF ListAfter
  <1>3. ASSUME NEW i \in 1..Len(old), i \in offset + 1 .. offset + Len(data)
        PROVE  data[i - offset] \in Byte
    <2>1. i - offset \in 1..Len(data)
      BY <1>1, <1>3
    <2> QED BY <2>1, ElementOfSeq
  <1>4. ASSUME NEW i \in 1..Len(old) PROVE old[i] \in Byte
    BY <1>4, ElementOfSeq
  <1> HIDE DEF f
  <1>5. f \in [1..Len(old) -> Byte]
    BY <1>2, <1>3, <1>4
  <1>6. f \in Seq(Byte) /\ Len(f) = Len(old)
    BY <1>1, <1>5, BytesOfFunction
  <1> QED BY <1>2, <1>6 DEF f, IsListAfter

(* Writing a header changes the length of a list, and nothing else.        *)
IsResized(r, old, n) ==
  /\ r \in Seq(Byte) /\ Len(r) = Len(old)
  /\ \A i \in 1..Len(old) : r[i] = IF i \in {1, 2} THEN ToBytes(n, 2)[i] ELSE old[i]

LEMMA ResizedOf ==
  ASSUME NEW old \in Seq(Byte), Len(old) >= 4, NEW n \in Nat,
         NEW header, header = ToBytes(n, 2) \o SubSeq(old, 3, 4)
  PROVE  /\ header \in Seq(Byte) /\ Len(header) = 4
         /\ ListAfter(old, 0, header) = Resized(old, n)
         /\ IsResized(Resized(old, n), old, n)
  <1> DEFINE w == ToBytes(n, 2)
             c == SubSeq(old, 3, 4)
             r == Resized(old, n)
             l == ListAfter(old, 0, header)
  <1>1. w \in Seq(Byte) /\ Len(w) = 2
    BY WordOf
  <1>2. c \in Seq(Byte) /\ Len(c) = 2
    <2>1. ASSUME NEW i \in 3..4 PROVE old[i] \in Byte
      <3>1. i \in 1..Len(old)
        OBVIOUS
      <3> QED BY <3>1, ElementOfSeq
    <2> QED BY <2>1, SubSeqProperties
  <1>3. header = w \o c
    OBVIOUS
  <1> HIDE DEF w, c
  <1>4. Joins(header, w, c)
    BY <1>1, <1>2, <1>3, ConcatJoins
  <1>5. header \in Seq(Byte) /\ Len(header) = 4 /\ \A i \in 1..2 : header[i] = w[i]
    BY <1>1, <1>2, <1>4 DEF Joins
  <1>6. IsListAfter(l, old, 0, header)
    <2>1. 0 \in Nat
      OBVIOUS
    <2> QED BY <1>5, <2>1, ListAfterOf
  <1> HIDE DEF l
  <1>7. ASSUME NEW i \in 1..Len(old)
        PROVE  l[i] = IF i \in {1, 2} THEN w[i] ELSE old[i]
    <2>1. l[i] = IF i \in {3, 4} \/ i \notin 1..4 THEN old[i] ELSE header[i]
      BY <1>5, <1>6 DEF IsListAfter
    <2> QED BY <1>5, <2>1
  <1>8. r = [i \in 1..Len(old) |-> IF i \in {1, 2} THEN w[i] ELSE old[i]]
    <2>1. DOMAIN old = 1..Len(old)
      OBVIOUS
    <2> QED BY <2>1 DEF Resized, w
  <1> HIDE DEF r
  <1>9. l = [i \in 1..Len(old) |-> IF i \in {1, 2} THEN w[i] ELSE old[i]]
    <2>1. l = [i \in 1..Len(old) |-> l[i]]
      BY <1>6 DEF IsListAfter
    <2> QED BY <1>7, <2>1
  <1>10. r = l
    BY <1>8, <1>9
  <1> QED BY <1>5, <1>6, <1>7, <1>10 DEF l, r, w, IsListAfter, IsResized

(* The header of a list, as get_parameter_listsize reads it: of elements   *)
(* of less than four bytes it gets no capacity.                            *)
LEMMA HeaderOf ==
  ASSUME NEW bytes \in Seq(Byte), Len(bytes) >= 4, NEW k \in {1, 2, 4},
         NEW header, header = toUINT32(SubSeq(bytes, 1, k))
  PROVE  /\ k = 4 => header[3] + 256 * header[4] = CapacityOf(bytes)
         /\ k = 4 => SubSeq(header, 3, 4) = SubSeq(bytes, 3, 4)
         /\ k # 4 => header[3] + 256 * header[4] = 0
  <1> DEFINE s == SubSeq(bytes, 1, k)
  <1>1. Len(s) = k /\ \A i \in 1..k : s[i] = bytes[i]
    BY SubSeqProperties
  <1>2. header = [i \in 1..4 |-> IF i <= Len(s) THEN s[i] ELSE 0]
    BY DEF toUINT32, Lowest
  <1> HIDE DEF s
  <1>3. ASSUME k = 4
        PROVE  header[3] + 256 * header[4] = CapacityOf(bytes)
               /\ SubSeq(header, 3, 4) = SubSeq(bytes, 3, 4)
    <2>1. header[3] = bytes[3] /\ header[4] = bytes[4]
      BY <1>1, <1>2, <1>3
    <2>2. /\ SubSeq(header, 3, 4) = [i \in 1..2 |-> header[3 + i - 1]]
          /\ SubSeq(bytes, 3, 4) = [i \in 1..2 |-> bytes[3 + i - 1]]
      OBVIOUS
    <2>3. \A i \in 1..2 : header[3 + i - 1] = bytes[3 + i - 1]
      BY <2>1
    <2> QED BY <2>1, <2>2, <2>3 DEF CapacityOf
  <1>4. ASSUME k # 4 PROVE header[3] = 0 /\ header[4] = 0
    BY <1>1, <1>2, <1>4
  <1> QED BY <1>3, <1>4
-----------------------------------------------------------------------------
(* What the drive may hold after the command of a step.                    *)

ParameterWritten(after, u) ==
  after = [before EXCEPT ![call.par] = set_sized_data(LengthOf(call.par), u)]

ListWritten(after, u) ==
  /\ (ListOffset % 65536) + LengthOf(call.par) <= Len(drive[call.par])
  /\ after = [drive EXCEPT ![call.par] =
                ListAfter(drive[call.par], ListOffset % 65536,
                          set_sized_data(LengthOf(call.par), u))]

KeepsWidths(after) ==
  /\ after \in [Parameter -> Seq(Byte)]
  /\ \A p \in Parameter : Len(after[p]) = Len(drive[p])

Reached(after) ==
  /\ KeepsWidths(after)
  /\ call.of \in {"read_parameter", "read_listelm"} => after = drive
  /\ step = "resize" =>
       after = [before EXCEPT ![call.par] = Resized(before[call.par], NewLength)]
  /\ step = "data" /\ call.of = "write_parameter" =>
       \E u \in Converted(call.value, Attribute[call.par].scale) : ParameterWritten(after, u)
  /\ step = "data" /\ call.of = "write_listelm" =>
       \E u \in Converted(call.value, Attribute[call.par].scale) : ListWritten(after, u)

LEMMA NewLengthOf ==
  ASSUME CallOK, KindsOK, call.of = "write_listelm"
  PROVE  NewLength \in Nat /\ NewLength < 65536
  <1>1. call.pos \in Nat
    BY PositionAssumption DEF CallOK
  <1>2. local.datalen \in Nat
    BY DEF KindsOK
  <1>3. call.pos * local.datalen \in Nat
    BY <1>1, <1>2
  <1> QED BY <1>3 DEF NewLength

LEMMA OneReplaced ==
  ASSUME DriveOK, NEW p \in Parameter, NEW x \in Seq(Byte), Len(x) = Len(drive[p]),
         NEW after, after = [drive EXCEPT ![p] = x]
  PROVE  KeepsWidths(after)
  BY DEF DriveOK, KeepsWidths

LEMMA ReactionReached ==
  ASSUME Inv, step \in {"resize", "data"}, NEW t \in Telegrams, Carries(t)
  PROVE  Reached(Reacts(t).drive)
  <1> DEFINE after == Reacts(t).drive
             p == call.par
  <1>1. CallOK /\ StepOK /\ KindsOK /\ DriveOK /\ Fetched /\ Held
    BY DEF Inv
  <1>2. CASE step = "data" /\ call.of = "read_parameter"
    <2>1. after = drive
      BY <1>1, <1>2, ReadParameterSent
    <2> QED BY <1>1, <1>2, <2>1 DEF Reached, KeepsWidths, DriveOK
  <1>3. CASE step = "data" /\ call.of = "read_listelm"
    <2>1. after = drive
      BY <1>1, <1>3, ReadListelmSent DEF Reads
    <2> QED BY <1>1, <1>3, <2>1 DEF Reached, KeepsWidths, DriveOK
  <1>4. CASE step = "resize"
    <2>1. p \in Lists /\ p \in Parameter /\ Stores(t, p, 0, local.header)
      BY <1>1, <1>4, ResizeSent DEF Lists
    <2>2. after = [drive EXCEPT ![p] = ListAfter(drive[p], 0, local.header)]
      <3>1. 0 % 65536 = 0
        OBVIOUS
      <3> QED BY <2>1, <3>1 DEF Stores
    <2>3. drive = before /\ call.of = "write_listelm"
          /\ local.header = ToBytes(NewLength, 2) \o SubSeq(before[p], 3, 4)
      BY <1>1, <1>4 DEF Held, StepOK
    <2>4. /\ before[p] \in Seq(Byte) /\ Len(before[p]) >= 4 /\ NewLength \in Nat
      BY <1>1, <2>1, <2>3, NewLengthOf DEF DriveOK
    <2>5. /\ ListAfter(before[p], 0, local.header) = Resized(before[p], NewLength)
          /\ Resized(before[p], NewLength) \in Seq(Byte)
          /\ Len(Resized(before[p], NewLength)) = Len(before[p])
      <3>1. /\ ListAfter(before[p], 0, local.header) = Resized(before[p], NewLength)
            /\ IsResized(Resized(before[p], NewLength), before[p], NewLength)
        BY <2>3, <2>4, ResizedOf
      <3> QED BY <3>1 DEF IsResized
    <2>6. after = [drive EXCEPT ![p] = Resized(before[p], NewLength)]
      BY <2>2, <2>3, <2>5
    <2> HIDE DEF after
    <2>7. KeepsWidths(after)
      BY <1>1, <2>1, <2>3, <2>5, <2>6, OneReplaced
    <2> QED BY <1>4, <2>3, <2>6, <2>7 DEF Reached, after
  <1>5. CASE step = "data" /\ call.of = "write_parameter"
    <2>1. PICK u \in Converted(call.value, local.scale) :
            Reacts(t) = [data |-> <<>>,
                         drive |-> [drive EXCEPT ![p] = set_sized_data(local.datalen, u)]]
      BY <1>1, <1>5, WriteParameterSent
    <2>2. p \in Parameter /\ p \notin Lists
      BY <1>1, <1>5 DEF CallOK, Scalars
    <2>3. local.datalen = LengthOf(p) /\ local.scale = Attribute[p].scale /\ drive = before
      BY <1>1, <1>5 DEF Fetched, Held
    <2> DEFINE x == set_sized_data(LengthOf(p), u)
    <2>4. after = [drive EXCEPT ![p] = x]
      BY <2>1, <2>3
    <2>5. x \in Seq(Byte) /\ Len(x) = LengthOf(p)
      BY <1>1, <1>5, <2>3, NumberBytes
    <2>6. Len(x) = Len(drive[p])
      BY <1>1, <2>2, <2>5 DEF DriveOK
    <2> HIDE DEF after, x
    <2>7. KeepsWidths(after)
      BY <1>1, <2>2, <2>4, <2>5, <2>6, OneReplaced
    <2>8. ParameterWritten(after, u) /\ u \in Converted(call.value, Attribute[p].scale)
      BY <2>3, <2>4 DEF x, ParameterWritten
    <2>9. Reached(after)
      BY <1>5, <2>7, <2>8 DEF Reached
    <2> QED BY <2>9 DEF after
  <1>6. CASE step = "data" /\ call.of = "write_listelm"
    <2>1. PICK u \in Converted(call.value, local.scale) :
            Stores(t, p, ListOffset, set_sized_data(local.datalen, u))
      BY <1>1, <1>6, WriteListelmSent
    <2>2. p \in Parameter /\ p \in Lists
      BY <1>1, <1>6 DEF CallOK, Lists
    <2>3. local.datalen = LengthOf(p) /\ local.scale = Attribute[p].scale
      BY <1>1, <1>6 DEF Fetched
    <2> DEFINE o == ListOffset % 65536
               d == set_sized_data(LengthOf(p), u)
               x == ListAfter(drive[p], o, d)
    <2>4. after = [drive EXCEPT ![p] = x] /\ o + LengthOf(p) <= Len(drive[p])
      BY <2>1, <2>3 DEF Stores
    <2>5. d \in Seq(Byte)
      BY <1>1, <1>6, <2>3, NumberBytes
    <2>6. o \in Nat
      <3>1. ListOffset \in Nat
        BY <1>1, <1>6, OffsetOf
      <3> QED BY <3>1
    <2>7. drive[p] \in Seq(Byte)
      BY <1>1, <2>2 DEF DriveOK
    <2>8. x \in Seq(Byte) /\ Len(x) = Len(drive[p])
      <3> HIDE DEF o, d, x
      <3>1. IsListAfter(ListAfter(drive[p], o, d), drive[p], o, d)
        BY <2>5, <2>6, <2>7, ListAfterOf
      <3> QED BY <3>1 DEF IsListAfter, x
    <2> HIDE DEF after, x, o
    <2>9. KeepsWidths(after)
      BY <1>1, <2>2, <2>4, <2>8, OneReplaced
    <2>10. ListWritten(after, u) /\ u \in Converted(call.value, Attribute[p].scale)
      BY <2>3, <2>4 DEF x, o, ListWritten
    <2>11. Reached(after)
      BY <1>6, <2>9, <2>10 DEF Reached
    <2> QED BY <2>11 DEF after
  <1> QED BY <1>1, <1>2, <1>3, <1>4, <1>5, <1>6 DEF StepOK
-----------------------------------------------------------------------------
(* Each step keeps the invariant.                                          *)

LEMMA InitInv ==
  ASSUME Init
  PROVE  Inv
  <1>1. CallOK /\ StepOK
    BY DEF Init, Idle, CallOK, StepOK
  <1>2. KindsOK
    <2>1. <<>> \in Seq(Byte) /\ Len(<<>>) <= 8
      OBVIOUS
    <2> QED BY <2>1 DEF Init, NoLocal, KindsOK
  <1>3. DriveOK
    <2>1. drive \in [Parameter -> Seq(Byte)] /\ before = drive
      BY InitialAssumption DEF Init
    <2>2. ASSUME NEW p \in Parameter
          PROVE  /\ p \in Lists => Len(drive[p]) >= 4
                 /\ p \notin Lists => Len(drive[p]) = LengthOf(p)
      BY InitialAssumption DEF Init
    <2> QED BY <2>1, <2>2 DEF DriveOK
  <1>4. Fetched /\ Held
    BY DEF Init, Idle, Fetched, Held
  <1> QED BY <1>1, <1>2, <1>3, <1>4 DEF Inv

LEMMA BeginKeeps ==
  ASSUME Inv, NEW c, NEW first, Begin(c, first)
  PROVE  /\ call' = c /\ step' = first /\ drive' = drive /\ before' = drive'
         /\ KindsOK' /\ DriveOK' /\ out'.ended = "none"
  <1>1. KindsOK'
    <2>1. <<>> \in Seq(Byte) /\ Len(<<>>) <= 8
      OBVIOUS
    <2>2. /\ local' = [datalen |-> 1, scale |-> 0, header |-> <<>>]
          /\ out' = [ended |-> "none", value |-> <<>>, dec |-> 0]
      BY DEF Begin, NoLocal
    <2> QED BY <2>1, <2>2 DEF KindsOK
  <1>2. DriveOK'
    BY DEF Begin, Inv, DriveOK
  <1> QED BY <1>1, <1>2 DEF Begin

LEMMA CallReadParameterKeeps ==
  ASSUME Inv, CallReadParameter
  PROVE  Inv' /\ out'.ended = "none" /\ drive' = before'
  <1>1. PICK p \in Parameter, type \in {"UINT32", "UINT64", "DOUBLE", "text"} :
          /\ (p \in Lists) = (type = "text")
          /\ Begin([of |-> "read_parameter", par |-> p, type |-> type],
                   IF type = "text" THEN "data" ELSE "attributes")
    BY DEF CallReadParameter
  <1>2. /\ call' = [of |-> "read_parameter", par |-> p, type |-> type]
        /\ step' = IF type = "text" THEN "data" ELSE "attributes"
        /\ drive' = drive /\ before' = drive' /\ KindsOK' /\ DriveOK'
        /\ out'.ended = "none"
    BY <1>1, BeginKeeps
  <1>3. CallOK'
    BY <1>1, <1>2 DEF CallOK, NumberTypes, Lists
  <1>4. StepOK'
    BY <1>1, <1>2 DEF StepOK
  <1>5. Fetched' /\ Held'
    BY <1>1, <1>2 DEF Fetched, Held
  <1> QED BY <1>2, <1>3, <1>4, <1>5 DEF Inv

LEMMA CallReadListelmKeeps ==
  ASSUME Inv, CallReadListelm
  PROVE  Inv' /\ out'.ended = "none" /\ drive' = before'
  <1>1. PICK p \in Lists, pos \in Positions, type \in {"UINT32", "UINT64", "DOUBLE"} :
          Begin([of |-> "read_listelm", par |-> p, pos |-> pos, type |-> type], "attributes")
    BY DEF CallReadListelm
  <1>2. /\ call' = [of |-> "read_listelm", par |-> p, pos |-> pos, type |-> type]
        /\ step' = "attributes"
        /\ drive' = drive /\ before' = drive' /\ KindsOK' /\ DriveOK'
        /\ out'.ended = "none"
    BY <1>1, BeginKeeps
  <1>3. CallOK'
    BY <1>1, <1>2 DEF CallOK, NumberTypes, Lists
  <1>4. StepOK' /\ Fetched' /\ Held'
    BY <1>2 DEF StepOK, Fetched, Held
  <1> QED BY <1>2, <1>3, <1>4 DEF Inv

LEMMA CallWriteParameterKeeps ==
  ASSUME Inv, CallWriteParameter
  PROVE  Inv' /\ out'.ended = "none" /\ drive' = before'
  <1>1. PICK p \in Scalars, v \in Numbers :
          Begin([of |-> "write_parameter", par |-> p, value |-> v], "attributes")
    BY DEF CallWriteParameter
  <1>2. /\ call' = [of |-> "write_parameter", par |-> p, value |-> v]
        /\ step' = "attributes"
        /\ drive' = drive /\ before' = drive' /\ KindsOK' /\ DriveOK'
        /\ out'.ended = "none"
    BY <1>1, BeginKeeps
  <1>3. CallOK'
    BY <1>1, <1>2 DEF CallOK, Scalars, Lists
  <1>4. StepOK' /\ Fetched' /\ Held'
    BY <1>2 DEF StepOK, Fetched, Held
  <1> QED BY <1>2, <1>3, <1>4 DEF Inv

LEMMA CallWriteListelmKeeps ==
  ASSUME Inv, CallWriteListelm
  PROVE  Inv' /\ out'.ended = "none" /\ drive' = before'
  <1>1. PICK p \in Lists, pos \in Positions, v \in Numbers :
          Begin([of |-> "write_listelm", par |-> p, pos |-> pos, value |-> v], "attributes")
    BY DEF CallWriteListelm
  <1>2. /\ call' = [of |-> "write_listelm", par |-> p, pos |-> pos, value |-> v]
        /\ step' = "attributes"
        /\ drive' = drive /\ before' = drive' /\ KindsOK' /\ DriveOK'
        /\ out'.ended = "none"
    BY <1>1, BeginKeeps
  <1>3. CallOK'
    BY <1>1, <1>2 DEF CallOK, Lists
  <1>4. StepOK' /\ Fetched' /\ Held'
    BY <1>2 DEF StepOK, Fetched, Held
  <1> QED BY <1>2, <1>3, <1>4 DEF Inv

LEMMA CallSetBaudrateKeeps ==
  ASSUME Inv, CallSetBaudrate
  PROVE  Inv' /\ out'.ended = "none" /\ drive' = before'
  <1>1. PICK mask \in {0, 1, 2, 4, 8} :
          Begin([of |-> "set_baudrate", mask |-> mask], "baudrate")
    BY DEF CallSetBaudrate
  <1>2. /\ call' = [of |-> "set_baudrate", mask |-> mask] /\ step' = "baudrate"
        /\ drive' = drive /\ before' = drive' /\ KindsOK' /\ DriveOK'
        /\ out'.ended = "none"
    BY <1>1, BeginKeeps
  <1>3. CallOK'
    BY <1>1, <1>2 DEF CallOK
  <1>4. StepOK' /\ Fetched' /\ Held'
    BY <1>2 DEF StepOK, Fetched, Held
  <1> QED BY <1>2, <1>3, <1>4 DEF Inv

LEMMA GetAttributesKeeps ==
  ASSUME Inv, GetAttributes
  PROVE  Inv' /\ out' = out /\ step' # "idle"
  <1> DEFINE p == call.par
             attr == toUINT32(Reacts(AttributesTelegram).data)
  <1>1. CallOK /\ StepOK /\ KindsOK /\ DriveOK /\ Held /\ step = "attributes"
    BY DEF Inv, GetAttributes
  <1>2. p \in Parameter /\ Reacts(AttributesTelegram).data = AttributeBytes(p)
    BY <1>1, AttributesSent
  <1>3. DataLen(attr) = Datalen[Attribute[p].datalen] /\ ScaleFactor(attr) = Attribute[p].scale
    <2> DEFINE b == AttributeBytes(p)
    <2>1. Len(b) = 4 /\ b[3] = Datalen[Attribute[p].datalen] /\ b[4] = Attribute[p].scale
      BY DEF AttributeBytes
    <2> HIDE DEF b
    <2>2. attr[3] = b[3] /\ attr[4] = b[4]
      BY <1>2, <2>1 DEF toUINT32, Lowest, b
    <2>3. Datalen[Attribute[p].datalen] \in 0..6 /\ Attribute[p].scale \in 0..15
      BY <1>2, Lengths
    <2> HIDE DEF attr
    <2>4. \A n \in 0..6 : n % 8 = n
      OBVIOUS
    <2>5. \A n \in 0..15 : n % 16 = n
      OBVIOUS
    <2> QED BY <2>1, <2>2, <2>3, <2>4, <2>5 DEF DataLen, ScaleFactor
  <1>4. /\ local' = [local EXCEPT !.datalen = LengthOf(p), !.scale = Attribute[p].scale]
        /\ step' = (IF call.of = "write_listelm" THEN "header" ELSE "data")
        /\ UNCHANGED <<call, out, drive, before>>
    BY <1>2, <1>3, Lengths DEF GetAttributes
  <1>5. LengthOf(p) \in {1, 2, 4, 8} /\ Attribute[p].scale \in 0..15
    BY <1>2, Lengths
  <1>6. KindsOK' /\ local'.datalen = LengthOf(p) /\ local'.scale = Attribute[p].scale
    BY <1>1, <1>4, <1>5 DEF KindsOK
  <1>7. CallOK' /\ DriveOK'
    BY <1>1, <1>4 DEF CallOK, DriveOK
  <1>8. StepOK' /\ Fetched'
    BY <1>1, <1>4, <1>6 DEF StepOK, Fetched
  <1>9. Held'
    <2>1. drive' = before' /\ step' \in {"header", "data"} /\ call' = call
          /\ (step' = "data" => call.of # "write_listelm")
      BY <1>1, <1>4 DEF Held
    <2> QED BY <2>1 DEF Held
  <1> QED BY <1>4, <1>6, <1>7, <1>8, <1>9 DEF Inv

(* A read is answered with the parameter's bytes, or the element's.        *)
DataRead ==
  IF call.of = "read_parameter" THEN drive[call.par]
  ELSE SubSeq(drive[call.par], (ListOffset % 65536) + 1,
              (ListOffset % 65536) + local.datalen)

LEMMA ReadData ==
  ASSUME Inv, step = "data", call.of \in {"read_parameter", "read_listelm"},
         NEW t \in Telegrams, Carries(t)
  PROVE  /\ Reacts(t).data = DataRead /\ DataRead \in Seq(Byte)
         /\ call.type # "text" => Len(DataRead) = local.datalen
  <1>1. CallOK /\ StepOK /\ KindsOK /\ DriveOK /\ Fetched
    BY DEF Inv
  <1>2. CASE call.of = "read_parameter"
    <2>1. call.par \in Parameter /\ Reacts(t).data = drive[call.par]
      BY <1>1, <1>2, ReadParameterSent
    <2>2. drive[call.par] \in Seq(Byte)
      BY <1>1, <2>1 DEF DriveOK
    <2>3. ASSUME call.type # "text" PROVE Len(drive[call.par]) = local.datalen
      <3>1. call.par \notin Lists
        BY <1>1, <1>2, <2>3 DEF CallOK
      <3>2. local.datalen = LengthOf(call.par)
        BY <1>1, <2>3 DEF Fetched
      <3> QED BY <1>1, <2>1, <3>1, <3>2 DEF DriveOK
    <2> QED BY <1>2, <2>1, <2>2, <2>3 DEF DataRead
  <1>3. CASE call.of = "read_listelm"
    <2> DEFINE o == ListOffset % 65536
               k == local.datalen
               b == drive[call.par]
    <2>1. call.par \in Parameter /\ Reads(t, call.par, ListOffset)
      BY <1>1, <1>3, ReadListelmSent DEF Lists
    <2>2. Reacts(t).data = SubSeq(b, o + 1, o + k) /\ o + k <= Len(b)
      <3>1. Carries(t) => o + k <= Len(b)
        BY <2>1 DEF Reads
      <3>2. Reacts(t) = [data |-> SubSeq(b, o + 1, o + k), drive |-> drive]
        BY <2>1 DEF Reads
      <3> HIDE DEF o, k, b
      <3>3. o + k <= Len(b)
        BY <3>1
      <3>4. Reacts(t).data = SubSeq(b, o + 1, o + k)
        BY <3>2, AnswerFields
      <3> QED BY <3>3, <3>4
    <2>3. o \in Nat
      <3>1. ListOffset \in Nat
        BY <1>1, <1>3, OffsetOf
      <3> QED BY <3>1
    <2>4. k \in Nat /\ k > 0
      BY <1>1 DEF KindsOK
    <2>5. b \in Seq(Byte)
      BY <1>1, <2>1 DEF DriveOK
    <2> HIDE DEF o, k, b
    <2>6. ASSUME NEW i \in (o + 1)..(o + k) PROVE b[i] \in Byte
      <3>1. i \in 1..Len(b)
        BY <2>2, <2>3, <2>4, <2>5
      <3> QED BY <2>5, <3>1, ElementOfSeq
    <2>7. SubSeq(b, o + 1, o + k) \in Seq(Byte) /\ Len(SubSeq(b, o + 1, o + k)) = k
      <3>1. o + 1 \in Int /\ o + k \in Int /\ o + 1 <= o + k /\ (o + k) - (o + 1) + 1 = k
        BY <2>3, <2>4
      <3> QED BY <2>6, <3>1, SubSeqProperties
    <2>8. DataRead = SubSeq(b, o + 1, o + k)
      BY <1>3 DEF DataRead, o, k, b
    <2> QED BY <2>2, <2>7, <2>8 DEF k
  <1> QED BY <1>2, <1>3

LEMMA ReadKeeps ==
  ASSUME Inv, Read
  PROVE  /\ Inv' /\ step' = "idle" /\ UNCHANGED <<call, local, drive, before>>
         /\ call.of \in {"read_parameter", "read_listelm"}
         /\ call.type # "text" =>
              \E r \in get_sized_data(DataRead, local.datalen) :
                out'.value = Result(r).value /\ out'.dec = Result(r).dec
  <1>1. CallOK /\ StepOK /\ KindsOK /\ DriveOK /\ Held
    BY DEF Inv
  <1>2. /\ step = "data" /\ call.of \in {"read_parameter", "read_listelm"}
        /\ step' = "idle" /\ UNCHANGED <<call, local, drive, before>>
    BY DEF Read, Return
  <1>3. PICK t \in Telegrams :
          /\ Carries(t)
          /\ IF call.type = "text" THEN Return(Reacts(t).data, 0)
             ELSE \E r \in get_sized_data(Reacts(t).data, local.datalen) :
                    Return(Result(r).value, Result(r).dec)
    BY DEF Read
  <1>4. /\ Reacts(t).data = DataRead /\ DataRead \in Seq(Byte)
        /\ call.type # "text" => Len(DataRead) = local.datalen
    BY <1>2, <1>3, ReadData
  <1>5. CallOK' /\ StepOK' /\ DriveOK' /\ Fetched' /\ Held'
    BY <1>1, <1>2 DEF CallOK, StepOK, DriveOK, Fetched, Held
  <1>6. CASE call.type = "text"
    <2>1. out' = [ended |-> "returned", value |-> DataRead, dec |-> 0]
      BY <1>3, <1>4, <1>6 DEF Return
    <2>2. KindsOK'
      BY <1>1, <1>2, <1>4, <2>1 DEF KindsOK
    <2> QED BY <1>2, <1>5, <1>6, <2>2 DEF Inv
  <1>7. CASE call.type # "text"
    <2>1. PICK r \in get_sized_data(DataRead, local.datalen) :
            Return(Result(r).value, Result(r).dec)
      BY <1>3, <1>4, <1>7
    <2>2. out' = [ended |-> "returned", value |-> Result(r).value, dec |-> Result(r).dec]
      BY <2>1 DEF Return
    <2>3. local.datalen \in {1, 2, 4, 8} /\ local.scale \in 0..15
      BY <1>1 DEF KindsOK
    <2>4. r \in Seq(Byte) /\ Len(r) = 8
      BY <1>4, <1>7, <2>3, SizedData
    <2>5. Result(r).value \in Seq(Byte) /\ Result(r).dec \in 0..15
      <3>1. Lowest(r, 4) \in Seq(Byte)
        <4>1. 4 \in 1..8 /\ 4 <= Len(r)
          BY <2>4
        <4> QED BY <2>4, <4>1, LowestOf
      <3>2. call.type \in {"UINT32", "UINT64", "DOUBLE"}
        BY <1>1, <1>2, <1>7 DEF CallOK, NumberTypes
      <3>3. /\ call.type = "UINT32" => Result(r) = [value |-> Lowest(r, 4), dec |-> 0]
            /\ call.type = "UINT64" => Result(r) = [value |-> r, dec |-> 0]
            /\ call.type = "DOUBLE" => Result(r) = [value |-> r, dec |-> local.scale]
        BY DEF Result
      <3> QED BY <2>3, <2>4, <3>1, <3>2, <3>3
    <2>6. KindsOK'
      BY <1>1, <1>2, <2>2, <2>5 DEF KindsOK
    <2>7. out'.value = Result(r).value /\ out'.dec = Result(r).dec
      BY <2>2
    <2> QED BY <1>2, <1>5, <2>6, <2>7 DEF Inv
  <1> QED BY <1>6, <1>7

LEMMA FirstBytes ==
  ASSUME NEW t, NEW p, Reads(t, p, 0), local.datalen \in Int
  PROVE  Reacts(t).data = SubSeq(drive[p], 1, local.datalen)
  <1> DEFINE k == local.datalen
             o == 0 % 65536
             b == SubSeq(drive[p], o + 1, o + k)
  <1>1. o + 1 = 1 /\ o + k = k
    OBVIOUS
  <1>2. b = SubSeq(drive[p], 1, k)
    <2> HIDE DEF o, k
    <2> QED BY <1>1
  <1>3. Reacts(t) = [data |-> b, drive |-> drive]
    BY DEF Reads
  <1> HIDE DEF b
  <1>4. Reacts(t).data = b
    BY <1>3, AnswerFields
  <1> QED BY <1>2, <1>4

LEMMA GetListsizeKeeps ==
  ASSUME Inv, GetListsize
  PROVE  Inv' /\ out' = out /\ step' # "idle"
  <1> DEFINE p == call.par
  <1>1. CallOK /\ StepOK /\ KindsOK /\ DriveOK /\ Fetched /\ Held /\ step = "header"
        /\ UNCHANGED <<call, out, drive, before, calls>>
    BY DEF Inv, GetListsize
  <1>2. call.of = "write_listelm" /\ p \in Lists /\ p \in Parameter
        /\ drive = before /\ local.datalen = LengthOf(p)
        /\ local.scale = Attribute[p].scale
    BY <1>1 DEF StepOK, CallOK, Fetched, Held, Lists
  <1>3. /\ LengthOf(p) \in {1, 2, 4} /\ drive[p] \in Seq(Byte) /\ Len(drive[p]) >= 4
        /\ NewLength \in Nat
    BY <1>1, <1>2, Lengths, NewLengthOf DEF DriveOK
  <1>4. PICK t \in Telegrams :
          LET header == toUINT32(Reacts(t).data)
              max == header[3] + 256 * header[4]
          IN  /\ Carries(t)
              /\ IF NewLength >= max
                   THEN step' = "data" /\ UNCHANGED local
                   ELSE /\ step' = "resize"
                        /\ local' = [local EXCEPT !.header =
                                       ToBytes(NewLength, 2) \o SubSeq(header, 3, 4)]
    BY DEF GetListsize
  <1> DEFINE header == toUINT32(Reacts(t).data)
             max == header[3] + 256 * header[4]
  <1>5. Reacts(t).data = SubSeq(drive[p], 1, LengthOf(p))
    <2>1. Reads(t, p, 0)
      BY <1>1, HeaderSent
    <2>2. Reacts(t).data = SubSeq(drive[p], 1, local.datalen)
      <3>1. local.datalen \in Int
        BY <1>2, <1>3
      <3> QED BY <2>1, <3>1, FirstBytes
    <2> QED BY <1>2, <2>2
  <1>6. /\ LengthOf(p) = 4 => max = CapacityOf(drive[p])
        /\ LengthOf(p) = 4 => SubSeq(header, 3, 4) = SubSeq(drive[p], 3, 4)
        /\ LengthOf(p) # 4 => max = 0
    BY <1>3, <1>5, HeaderOf
  <1>7. /\ NewLength >= max => step' = "data" /\ UNCHANGED local
        /\ ~(NewLength >= max) =>
             /\ step' = "resize"
             /\ local' = [local EXCEPT !.header =
                            ToBytes(NewLength, 2) \o SubSeq(header, 3, 4)]
    BY <1>4
  <1> HIDE DEF max, header
  <1>8. CallOK' /\ DriveOK'
    BY <1>1 DEF CallOK, DriveOK
  <1>9. CASE NewLength >= max
    <2>1. step' = "data" /\ local' = local /\ out' = out /\ call' = call
      BY <1>1, <1>7, <1>9
    <2>2. StepOK' /\ KindsOK' /\ Fetched'
      BY <1>1, <1>2, <2>1 DEF StepOK, KindsOK, Fetched
    <2>3. Held'
      <3>1. LengthOf(p) = 4 => NewLength >= CapacityOf(before[p])
        BY <1>2, <1>6, <1>9
      <3>2. NewLength' = NewLength /\ drive' = drive /\ before' = before
        BY <1>1, <2>1 DEF NewLength
      <3> QED BY <1>2, <2>1, <3>1, <3>2 DEF Held
    <2> QED BY <1>8, <2>1, <2>2, <2>3 DEF Inv
  <1>10. CASE ~(NewLength >= max)
    <2>1. LengthOf(p) = 4 /\ max = CapacityOf(drive[p])
      BY <1>3, <1>6, <1>10
    <2>2. max \in Int
      <3>1. drive[p][3] \in Byte /\ drive[p][4] \in Byte
        <4>1. 3 \in 1..Len(drive[p]) /\ 4 \in 1..Len(drive[p])
          BY <1>3
        <4> QED BY <1>3, <4>1, ElementOfSeq
      <3>2. drive[p][3] \in Int /\ drive[p][4] \in Int
        BY <3>1, Bytes
      <3> QED BY <2>1, <3>2 DEF CapacityOf
    <2>3. NewLength < CapacityOf(before[p])
      BY <1>2, <1>3, <1>10, <2>1, <2>2
    <2> DEFINE h == ToBytes(NewLength, 2) \o SubSeq(before[p], 3, 4)
    <2>4. /\ step' = "resize" /\ out' = out /\ call' = call
          /\ local' = [local EXCEPT !.header = h]
      BY <1>1, <1>2, <1>6, <1>7, <1>10, <2>1
    <2>5. h \in Seq(Byte) /\ Len(h) = 4
      <3>1. ASSUME NEW g, g = ToBytes(NewLength, 2) \o SubSeq(before[p], 3, 4)
            PROVE  g \in Seq(Byte) /\ Len(g) = 4
        BY <1>2, <1>3, <3>1, ResizedOf
      <3> QED BY <3>1
    <2> HIDE DEF h
    <2>6. StepOK' /\ KindsOK' /\ Fetched'
      <3>1. StepOK'
        BY <1>2, <2>4 DEF StepOK
      <3>2. /\ local' \in [datalen : {1, 2, 4, 8}, scale : 0..15, header : Seq(Byte)]
            /\ local'.header = h /\ local'.datalen = local.datalen
            /\ local'.scale = local.scale
        BY <1>1, <2>4, <2>5 DEF KindsOK
      <3>3. KindsOK'
        <4>1. out' \in [ended : {"none", "returned"} \cup Faults, value : Seq(Byte), dec : 0..15]
          BY <1>1, <2>4 DEF KindsOK
        <4>2. local'.header = h
          BY <3>2
        <4>3. Len(local'.header) <= 8
          BY <2>5, <4>2
        <4> QED BY <3>2, <4>1, <4>3 DEF KindsOK
      <3>4. Fetched'
        BY <1>2, <2>4, <3>2 DEF Fetched
      <3> QED BY <3>1, <3>3, <3>4
    <2>7. Held'
      <3>1. NewLength' = NewLength /\ drive' = drive /\ before' = before
            /\ local'.header = h
        BY <1>1, <2>4 DEF NewLength, KindsOK
      <3> QED BY <1>2, <2>1, <2>3, <2>4, <3>1 DEF Held, h
    <2> QED BY <1>8, <2>4, <2>6, <2>7 DEF Inv
  <1> QED BY <1>9, <1>10

LEMMA SetListsizeKeeps ==
  ASSUME Inv, SetListsize
  PROVE  /\ Inv' /\ out' = out /\ step' # "idle"
         /\ Reached(drive') /\ UNCHANGED <<call, local, before>>
  <1>1. CallOK /\ StepOK /\ KindsOK /\ DriveOK /\ Fetched /\ Held /\ step = "resize"
        /\ step' = "data" /\ UNCHANGED <<call, local, out, before, calls>>
    BY DEF Inv, SetListsize
  <1>2. PICK t \in Telegrams : Carries(t) /\ drive' = Reacts(t).drive
    BY DEF SetListsize
  <1>3. Reached(drive')
    BY <1>1, <1>2, ReactionReached
  <1>4. CallOK' /\ StepOK' /\ KindsOK' /\ Fetched'
    BY <1>1 DEF CallOK, StepOK, KindsOK, Fetched
  <1>5. DriveOK'
    BY <1>1, <1>3 DEF DriveOK, Reached, KeepsWidths
  <1>6. Held'
    <2>1. call.of = "write_listelm" /\ LengthOf(call.par) = 4
          /\ NewLength < CapacityOf(before[call.par])
          /\ drive' = [before EXCEPT ![call.par] = Resized(before[call.par], NewLength)]
      BY <1>1, <1>3 DEF StepOK, Held, Reached
    <2>2. NewLength' = NewLength
      BY <1>1 DEF NewLength
    <2> QED BY <1>1, <2>1, <2>2 DEF Held
  <1> QED BY <1>1, <1>3, <1>4, <1>5, <1>6 DEF Inv

LEMMA WriteKeeps ==
  ASSUME Inv, Write
  PROVE  /\ Inv' /\ step = "data" /\ step' = "idle"
         /\ call.of \in {"write_parameter", "write_listelm"}
         /\ Reached(drive') /\ UNCHANGED <<call, local, before>>
  <1>1. /\ CallOK /\ StepOK /\ KindsOK /\ DriveOK /\ Fetched /\ Held
        /\ step = "data" /\ call.of \in {"write_parameter", "write_listelm"}
        /\ step' = "idle" /\ UNCHANGED <<call, local, before, calls>>
        /\ out' = [ended |-> "returned", value |-> <<>>, dec |-> 0]
    BY DEF Inv, Write, Return
  <1>2. PICK t \in Telegrams : Carries(t) /\ drive' = Reacts(t).drive
    BY DEF Write
  <1>3. Reached(drive')
    BY <1>1, <1>2, ReactionReached
  <1>4. CallOK' /\ StepOK' /\ Fetched' /\ Held'
    BY <1>1 DEF CallOK, StepOK, Fetched, Held
  <1>5. KindsOK'
    <2>1. <<>> \in Seq(Byte)
      OBVIOUS
    <2> QED BY <1>1, <2>1 DEF KindsOK
  <1>6. DriveOK'
    BY <1>1, <1>3 DEF DriveOK, Reached, KeepsWidths
  <1> QED BY <1>1, <1>3, <1>4, <1>5, <1>6 DEF Inv

LEMMA ThrowsKeeps ==
  ASSUME Inv, Throws
  PROVE  /\ Inv' /\ step' = "idle" /\ out'.ended # "returned"
         /\ UNCHANGED <<call, local, before>>
         /\ drive' = drive \/ (step \in {"resize", "data"} /\ Reached(drive'))
  <1>1. /\ CallOK /\ StepOK /\ KindsOK /\ DriveOK /\ Fetched /\ Held
        /\ step # "idle" /\ step' = "idle" /\ UNCHANGED <<call, local, before, calls>>
    BY DEF Inv, Throws
  <1>2. PICK kind \in Faults :
          /\ out' = [ended |-> kind, value |-> <<>>, dec |-> 0]
          /\ \/ UNCHANGED drive
             \/ /\ kind = "serial" /\ step \in {"resize", "data"}
                /\ \E t \in Telegrams : Carries(t) /\ drive' = Reacts(t).drive
    BY DEF Throws
  <1>3. drive' = drive \/ (step \in {"resize", "data"} /\ Reached(drive'))
    BY <1>2, ReactionReached
  <1>4. CallOK' /\ StepOK' /\ Fetched'
    BY <1>1 DEF CallOK, StepOK, Fetched
  <1>5. KindsOK' /\ out'.ended # "returned"
    <2>1. <<>> \in Seq(Byte) /\ kind \in {"refused", "serial"}
      BY FaultAssumption
    <2> QED BY <1>1, <1>2, <2>1 DEF KindsOK
  <1>6. DriveOK'
    BY <1>1, <1>3 DEF DriveOK, Reached, KeepsWidths
  <1>7. Held'
    <2>1. call.of \notin {"write_parameter", "write_listelm"} => drive' = before'
      BY <1>1, <1>3 DEF Held, Reached, StepOK
    <2> QED BY <1>1, <2>1 DEF Held
  <1> QED BY <1>1, <1>3, <1>4, <1>5, <1>6, <1>7 DEF Inv

LEMMA NextInv ==
  ASSUME Inv, [Next]_vars
  PROVE  Inv'
  <1>1. CASE UNCHANGED vars
    <2>1. /\ NewLength' = NewLength
          /\ UNCHANGED <<call, step, local, out, drive, before, calls>>
      BY <1>1 DEF vars, NewLength
    <2>2. CallOK' /\ StepOK' /\ KindsOK' /\ DriveOK' /\ Fetched'
      BY <2>1 DEF Inv, CallOK, StepOK, KindsOK, DriveOK, Fetched
    <2>3. Held'
      BY <2>1 DEF Inv, Held
    <2> QED BY <2>2, <2>3 DEF Inv
  <1>2. CASE Next
    BY <1>2, CallReadParameterKeeps, CallReadListelmKeeps, CallWriteParameterKeeps,
       CallWriteListelmKeeps, CallSetBaudrateKeeps, GetAttributesKeeps, ReadKeeps,
       GetListsizeKeeps, SetListsizeKeeps, WriteKeeps, ThrowsKeeps DEF Next
  <1> QED BY <1>1, <1>2

LEMMA Invariance == Spec => []Inv
  BY InitInv, NextInv, PTL DEF Spec
-----------------------------------------------------------------------------
(* What a call that returns has done.                                      *)

LEMMA WhenReturned ==
  ASSUME Inv, [Next]_vars, step' = "idle", out'.ended = "returned"
  PROVE  UNCHANGED vars \/ Read \/ Write
  <1>1. CASE CallReadParameter
    BY <1>1, CallReadParameterKeeps
  <1>2. CASE CallReadListelm
    BY <1>2, CallReadListelmKeeps
  <1>3. CASE CallWriteParameter
    BY <1>3, CallWriteParameterKeeps
  <1>4. CASE CallWriteListelm
    BY <1>4, CallWriteListelmKeeps
  <1>5. CASE CallSetBaudrate
    BY <1>5, CallSetBaudrateKeeps
  <1>6. CASE GetAttributes \/ GetListsize \/ SetListsize
    BY <1>6, GetAttributesKeeps, GetListsizeKeeps, SetListsizeKeeps
  <1>7. CASE Throws
    BY <1>7, ThrowsKeeps
  <1> QED BY <1>1, <1>2, <1>3, <1>4, <1>5, <1>6, <1>7 DEF Next

(* The bytes a number becomes are those of the number, or of the next      *)
(* lower one if it is a fraction and scaled by 100 or more.                *)
Meant(v, scale) ==
  {Scaled(v, scale)} \cup
  (IF v.num % Power[v.dec] # 0 /\ scale > 1 THEN {Scaled(v, scale) - 1} ELSE {})

LEMMA WrittenBytes ==
  ASSUME NEW v \in [num : Int, dec : 0..15], NEW scale \in 0..15,
         NEW k \in {1, 2, 4, 8}, Exact(v, scale), NEW u \in Converted(v, scale)
  PROVE  \E m \in Meant(v, scale) :
           set_sized_data(k, u) = ToBytes(m, k) /\ Len(ToBytes(m, k)) = k
  <1>1. v.num >= 0 /\ Shifted(Scaled(v, scale))[7] = 0
    BY DEF Exact
  <1>2. Scaled(v, scale) \in Int
    <2>1. v.num \in Int /\ v.dec \in 0..15
      OBVIOUS
    <2> QED BY <2>1, ScaledOf
  <1>3. u \in Seq(Byte) /\ Len(u) = 8
    BY ConvertedOf
  <1>4. PICK m \in Meant(v, scale) :
          m \in Int /\ 0 <= m /\ m <= Scaled(v, scale) /\ u = ToBytes(m, 8)
    BY <1>1, ConvertedOf DEF Meant
  <1>5. u[8] = 0
    BY <1>1, <1>2, <1>4, BelowExact
  <1>6. set_sized_data(k, u) = Lowest(u, k)
    BY <1>3, <1>5, SizedFor
  <1>7. k \in 1..8
    OBVIOUS
  <1>8. Lowest(u, k) = ToBytes(m, k) /\ Len(ToBytes(m, k)) = k
    BY <1>4, <1>7, BytesOf
  <1> QED BY <1>6, <1>8

LEMMA WrittenStep ==
  ASSUME Inv, WrittenIsHeld, [Next]_vars
  PROVE  WrittenIsHeld'
  <1> DEFINE p == call.par
             v == call.value
             scale == Attribute[p].scale
  <1>1. CASE ~(step' = "idle" /\ out'.ended = "returned")
    BY <1>1 DEF WrittenIsHeld, Returned
  <1>2. CASE UNCHANGED vars
    BY <1>2 DEF vars, WrittenIsHeld, Returned
  <1>3. CASE Read
    BY <1>3, ReadKeeps DEF WrittenIsHeld, Returned
  <1>4. CASE Write
    <2>1. /\ step = "data" /\ Reached(drive') /\ call' = call /\ before' = before
          /\ CallOK
      BY <1>4, WriteKeeps DEF Inv
    <2>2. SUFFICES ASSUME call.of = "write_parameter", Exact(v, scale)
                   PROVE  \E m \in Meant(v, scale) :
                            drive' = [before EXCEPT ![p] = ToBytes(m, LengthOf(p))]
      BY <2>1 DEF WrittenIsHeld, Returned, Meant
    <2>3. p \in Parameter /\ v \in [num : Int, dec : 0..15]
      BY <2>1, <2>2, NumberAssumption DEF CallOK, Scalars
    <2>4. PICK u \in Converted(v, scale) : ParameterWritten(drive', u)
      BY <2>1, <2>2 DEF Reached
    <2>5. scale \in 0..15 /\ LengthOf(p) \in {1, 2, 4, 8}
      BY <2>3, Lengths
    <2>6. PICK m \in Meant(v, scale) :
            set_sized_data(LengthOf(p), u) = ToBytes(m, LengthOf(p))
      BY <2>2, <2>3, <2>5, WrittenBytes
    <2>7. drive' = [before EXCEPT ![p] = ToBytes(m, LengthOf(p))]
      BY <2>4, <2>6 DEF ParameterWritten
    <2> QED BY <2>7
  <1> QED BY <1>1, <1>2, <1>3, <1>4, WhenReturned

(* The offset of an element, which a telegram has 16 bits for.             *)
OffsetsFit ==
  \A p \in Lists, pos \in Positions : pos * LengthOf(p) < 65536

LEMMA ElementBounds ==
  ASSUME NEW pos \in Nat, NEW k \in {1, 2, 4}
  PROVE  /\ pos * k \in Nat /\ (pos + 1) * k = pos * k + k
         /\ pos * k < 65536 => (pos * k) % 65536 = pos * k
         /\ pos # 0 => pos * k >= k
  <1>1. CASE k = 1
    BY <1>1
  <1>2. CASE k = 2
    BY <1>2
  <1>3. CASE k = 4
    BY <1>3
  <1> QED BY <1>1, <1>2, <1>3

LEMMA ReadStep ==
  ASSUME OffsetsFit, Inv, ReadIsHeld, [Next]_vars
  PROVE  ReadIsHeld'
  <1> DEFINE p == call.par
             k == LengthOf(p)
             bytes == IF call.of = "read_parameter" THEN drive[p]
                      ELSE SubSeq(drive[p], call.pos * k + 1, (call.pos + 1) * k)
  <1>1. CASE ~(step' = "idle" /\ out'.ended = "returned")
    BY <1>1 DEF ReadIsHeld, Returned
  <1>2. CASE UNCHANGED vars
    BY <1>2 DEF vars, ReadIsHeld, Returned
  <1>3. CASE Write
    BY <1>3, WriteKeeps DEF ReadIsHeld, Returned
  <1>4. CASE Read
    <2>1. /\ call.of \in {"read_parameter", "read_listelm"}
          /\ UNCHANGED <<call, local, drive, before>>
          /\ CallOK /\ KindsOK /\ Fetched /\ step = "data"
      BY <1>4, ReadKeeps DEF Inv, Read
    <2>2. SUFFICES ASSUME call.type # "text", Narrow(bytes)
                   PROVE  /\ out'.value = ToBytes(Signed(Kept(bytes)),
                                                  IF call.type = "UINT32" THEN 4 ELSE 8)
                          /\ out'.dec = IF call.type = "DOUBLE" THEN Attribute[p].scale ELSE 0
      BY <2>1 DEF ReadIsHeld, Returned, Kept
    <2>3. /\ local.datalen = k /\ local.scale = Attribute[p].scale
          /\ k \in {1, 2, 4, 8} /\ call.type \in NumberTypes
      BY <2>1, <2>2 DEF Fetched, CallOK, KindsOK
    <2>4. DataRead = bytes
      <3>1. CASE call.of = "read_parameter"
        BY <3>1 DEF DataRead
      <3>2. CASE call.of = "read_listelm"
        <4>1. p \in Lists /\ p \in Parameter /\ call.pos \in Positions
          BY <2>1, <3>2 DEF CallOK, Lists
        <4>2. call.pos \in Nat /\ k \in {1, 2, 4} /\ call.pos * k < 65536
          <5>1. call.pos \in Nat
            BY <4>1, PositionAssumption
          <5>2. k \in {1, 2, 4}
            BY <4>1, Lengths
          <5>3. call.pos * k < 65536
            BY <4>1 DEF OffsetsFit
          <5> QED BY <5>1, <5>2, <5>3
        <4> DEFINE o == call.pos * k
                   e == (call.pos + 1) * k
        <4>3. o % 65536 = o /\ e = o + k
          BY <4>2, ElementBounds
        <4>4. DataRead = SubSeq(drive[p], (o % 65536) + 1, (o % 65536) + k)
          BY <2>3, <3>2 DEF DataRead, ListOffset
        <4>5. bytes = SubSeq(drive[p], o + 1, e)
          BY <3>2
        <4> DEFINE o1 == (o % 65536) + 1
                   e1 == (o % 65536) + k
                   o2 == o + 1
        <4>6. o1 = o2 /\ e1 = e
          BY <4>3
        <4> HIDE DEF o, k, e, bytes
        <4>7. DataRead = SubSeq(drive[p], o1, e1)
          BY <4>4
        <4>8. bytes = SubSeq(drive[p], o2, e)
          BY <4>5
        <4> HIDE DEF o1, e1, o2
        <4> QED BY <4>6, <4>7, <4>8
      <3> QED BY <2>1, <3>1, <3>2
    <2>5. DataRead \in Seq(Byte) /\ Len(DataRead) = local.datalen
      <3>1. PICK t \in Telegrams : Carries(t)
        BY <1>4 DEF Read
      <3> QED BY <2>1, <2>2, <3>1, ReadData
    <2>6. PICK r \in get_sized_data(DataRead, local.datalen) :
            out'.value = Result(r).value /\ out'.dec = Result(r).dec
      BY <1>4, <2>2, ReadKeeps
    <2> HIDE DEF bytes, k
    <2> DEFINE n == Signed(Kept(bytes))
    <2>7. n \in Int /\ r = ToBytes(n, 8)
      BY <2>2, <2>3, <2>4, <2>5, <2>6, SizedData
    <2> HIDE DEF n
    <2>8. Lowest(r, 4) = ToBytes(n, 4)
      <3>1. 4 \in 1..8
        OBVIOUS
      <3> QED BY <2>7, <3>1, BytesOf
    <2>9. /\ call.type = "UINT32" => Result(r) = [value |-> Lowest(r, 4), dec |-> 0]
          /\ call.type = "UINT64" => Result(r) = [value |-> r, dec |-> 0]
          /\ call.type = "DOUBLE" => Result(r) = [value |-> r, dec |-> local.scale]
      BY DEF Result
    <2>10. /\ out'.value = ToBytes(n, IF call.type = "UINT32" THEN 4 ELSE 8)
           /\ out'.dec = IF call.type = "DOUBLE" THEN Attribute[p].scale ELSE 0
      BY <2>3, <2>6, <2>7, <2>8, <2>9 DEF NumberTypes
    <2> QED BY <2>10 DEF n
  <1> QED BY <1>1, <1>2, <1>3, <1>4, WhenReturned

(* The list a call of write_listelm leaves.                                *)
HoldsElement(after, p, o, data, k) ==
  /\ data \in Seq(Byte) /\ Len(data) = k /\ o + k <= Len(drive[p])
  /\ after = [drive EXCEPT ![p] = ListAfter(drive[p], o, data)]
  /\ IsListAfter(ListAfter(drive[p], o, data), drive[p], o, data)

LEMMA ListWrittenOf ==
  ASSUME Inv, Write, call.of = "write_listelm", call.pos * LengthOf(call.par) < 65536
  PROVE  \E u \in Converted(call.value, Attribute[call.par].scale) :
           HoldsElement(drive', call.par, call.pos * LengthOf(call.par),
                        set_sized_data(LengthOf(call.par), u), LengthOf(call.par))
  <1> DEFINE p == call.par
             k == LengthOf(p)
             o == call.pos * k
  <1>1. /\ CallOK /\ KindsOK /\ DriveOK /\ Fetched
        /\ step = "data" /\ Reached(drive')
    BY WriteKeeps DEF Inv
  <1>2. p \in Lists /\ p \in Parameter /\ call.pos \in Nat
    <2>1. p \in Lists /\ call.pos \in Positions
      BY <1>1 DEF CallOK
    <2>2. p \in Parameter
      BY <2>1 DEF Lists
    <2>3. \A i \in Positions : i \in Nat
      BY PositionAssumption
    <2> QED BY <2>1, <2>2, <2>3
  <1>3. k \in {1, 2, 4} /\ local.datalen = k /\ local.scale = Attribute[p].scale
    BY <1>1, <1>2, Lengths DEF Fetched
  <1>4. o \in Nat /\ o % 65536 = o
    BY <1>2, <1>3, ElementBounds
  <1>5. PICK u \in Converted(call.value, Attribute[p].scale) : ListWritten(drive', u)
    BY <1>1 DEF Reached
  <1> DEFINE data == set_sized_data(k, u)
  <1>6. data \in Seq(Byte) /\ Len(data) = k
    BY <1>1, <1>3, NumberBytes
  <1>7. ListOffset = o
    BY <1>3 DEF ListOffset
  <1>8. /\ o + k <= Len(drive[p])
        /\ drive' = [drive EXCEPT ![p] = ListAfter(drive[p], o, data)]
    <2> DEFINE o1 == ListOffset % 65536
    <2>1. o1 = o
      BY <1>4, <1>7
    <2>2. /\ o1 + k <= Len(drive[p])
          /\ drive' = [drive EXCEPT ![p] = ListAfter(drive[p], o1, data)]
      BY <1>5 DEF ListWritten
    <2> HIDE DEF o1, o, k, data
    <2> QED BY <2>1, <2>2
  <1>9. drive[p] \in Seq(Byte)
    BY <1>1, <1>2 DEF DriveOK
  <1>10. IsListAfter(ListAfter(drive[p], o, data), drive[p], o, data)
    <2> HIDE DEF data, o
    <2> QED BY <1>4, <1>6, <1>9, ListAfterOf
  <1>11. HoldsElement(drive', p, o, data, k)
    <2> HIDE DEF p, o, data, k
    <2> QED BY <1>6, <1>8, <1>10 DEF HoldsElement
  <1> QED BY <1>11

\* A list of four bytes is given another length, and its last element.
LEMMA ListResized ==
  ASSUME Inv, Write, call.of = "write_listelm", LengthOf(call.par) = 4,
         call.pos * 4 < CapacityOf(drive'[call.par])
  PROVE  LET list == Elements(drive'[call.par])
             v == call.value
             scale == Attribute[call.par].scale
         IN  /\ Len(list) = call.pos
             /\ Exact(v, scale) => \E m \in Meant(v, scale) : Last(list) = ToBytes(m, 4)
  <1> DEFINE p == call.par
             v == call.value
             scale == Attribute[p].scale
             pos == call.pos
  <1>1. /\ step = "data" /\ Reached(drive') /\ call' = call /\ before' = before
        /\ CallOK /\ KindsOK /\ DriveOK /\ Fetched /\ Held
    BY WriteKeeps DEF Inv
  <1> DEFINE new == drive'[p]
  <1>2. call.of = "write_listelm" /\ LengthOf(p) = 4 /\ pos * 4 < CapacityOf(new)
    OBVIOUS
  <1>3. /\ p \in Lists /\ p \in Parameter /\ v \in [num : Int, dec : 0..15]
        /\ pos \in Nat /\ pos # 0
    BY <1>1, <1>2, NumberAssumption, PositionAssumption DEF CallOK, Lists
  <1>4. scale \in 0..15
    BY <1>3, Lengths
  <1> DEFINE o == pos * 4
  <1>5. new \in Seq(Byte) /\ Len(new) = Len(drive[p]) /\ Len(drive[p]) >= 4
    BY <1>1, <1>3 DEF Reached, KeepsWidths, DriveOK
  <1>6. o \in Nat /\ o >= 4 /\ o < 65536 /\ ~(o >= CapacityOf(new))
    <2>1. o \in Nat /\ o >= 4
      BY <1>3, ElementBounds
    <2>2. CapacityOf(new) \in Int /\ CapacityOf(new) < 65536
      <3>1. 3 \in 1..Len(new) /\ 4 \in 1..Len(new)
        BY <1>5
      <3>2. new[3] \in Byte /\ new[4] \in Byte
        BY <1>5, <3>1, ElementOfSeq
      <3> HIDE DEF new
      <3>3. /\ new[3] \in Int /\ new[4] \in Int /\ new[3] < 256 /\ new[4] < 256
        BY <3>2, Bytes
      <3> QED BY <3>3 DEF CapacityOf
    <2> HIDE DEF new, o
    <2>3. o < CapacityOf(new)
      BY <1>2 DEF o
    <2> QED BY <2>1, <2>2, <2>3
  <1>7. PICK u \in Converted(v, scale) :
          HoldsElement(drive', p, o, set_sized_data(4, u), 4)
    <2>1. call.pos * LengthOf(call.par) < 65536
      BY <1>2, <1>6
    <2> QED BY <2>1, ListWrittenOf
  <1> DEFINE data == set_sized_data(4, u)
             old == drive[p]
  <1>8. new = ListAfter(old, o, data)
    BY <1>1, <1>3, <1>7 DEF DriveOK, HoldsElement
  <1>9. /\ IsListAfter(new, old, o, data) /\ data \in Seq(Byte) /\ Len(data) = 4
        /\ o + 4 <= Len(old)
    BY <1>7, <1>8 DEF HoldsElement
  <1> HIDE DEF data, new
  <1>10. /\ new[1] = old[1] /\ new[2] = old[2] /\ new[3] = old[3] /\ new[4] = old[4]
         /\ new[o + 1] = data[1] /\ new[o + 2] = data[2]
         /\ new[o + 3] = data[3] /\ new[o + 4] = data[4]
    <2> HIDE DEF o, old
    <2>1. Len(new) = Len(old) /\ Len(old) \in Nat /\ o + 4 <= Len(old)
          /\ \A i \in 1..Len(old) :
               new[i] = IF i \in {3, 4} \/ i \notin o + 1 .. o + 4
                        THEN old[i] ELSE data[i - o]
      <3>1. Len(old) \in Nat
        BY <1>1, <1>3 DEF DriveOK, old
      <3>2. \A i \in 1..Len(old) :
              new[i] = IF i \in {3, 4} \/ i \notin o + 1 .. o + Len(data)
                       THEN old[i] ELSE data[i - o]
        BY <1>9 DEF IsListAfter
      <3> QED BY <1>9, <3>1, <3>2 DEF IsListAfter
    <2>2. ASSUME NEW j \in 1..4 PROVE new[j] = old[j] /\ new[o + j] = data[j]
      <3>1. j \in 1..Len(old) /\ o + j \in 1..Len(old) /\ o + j \notin {3, 4}
            /\ j \notin o + 1 .. o + 4 /\ o + j \in o + 1 .. o + 4 /\ (o + j) - o = j
        BY <1>6, <2>1
      <3> QED BY <2>1, <3>1
    <2> QED BY <2>2
  <1>11. CapacityOf(new) = CapacityOf(old)
    BY <1>10 DEF CapacityOf
  <1>12. NewLength = o
    <2>1. local.datalen = 4
      BY <1>1, <1>2 DEF Fetched
    <2>2. o % 65536 = o
      BY <1>6
    <2> QED BY <2>1, <2>2 DEF NewLength
  <1>13. drive = [before EXCEPT ![p] = Resized(before[p], o)]
    <2>1. ASSUME drive = before PROVE ~(NewLength >= CapacityOf(before[p]))
      BY <1>6, <1>11, <1>12, <2>1
    <2> QED BY <1>1, <1>2, <1>12, <2>1 DEF Held
  <1>14. old = Resized(before[p], o)
    BY <1>1, <1>3, <1>13 DEF DriveOK
  <1>15. old[1] + 256 * old[2] = o
    <2>1. Len(before[p]) >= 4 /\ before[p] \in Seq(Byte)
      BY <1>1, <1>3 DEF DriveOK
    <2>2. 1 \in DOMAIN before[p] /\ 2 \in DOMAIN before[p]
      BY <2>1
    <2> HIDE DEF o, old
    <2>3. old[1] = ToBytes(o, 2)[1] /\ old[2] = ToBytes(o, 2)[2]
      BY <1>14, <2>2 DEF Resized
    <2>4. ToBytes(o, 2)[1] + 256 * ToBytes(o, 2)[2] = o % 65536
      BY <1>6, WordOf
    <2>5. o % 65536 = o
      BY <1>6
    <2> QED BY <2>3, <2>4, <2>5
  <1>16. Elements(new) = [i \in 1..pos |-> SubSeq(new, 4 * i + 1, 4 * i + 4)]
    <2>1. (new[1] + 256 * new[2]) \div 4 = pos
      <3>1. o \div 4 = pos
        BY <1>3
      <3> QED BY <1>10, <1>15, <3>1
    <2> QED BY <2>1 DEF Elements, ListLength
  <1> DEFINE list == Elements(new)
  <1>17. Len(list) = pos /\ Last(list) = SubSeq(new, o + 1, o + 4)
    <2>1. Len(list) = pos
      BY <1>3, <1>16
    <2>2. pos \in 1..pos /\ 4 * pos = o
      BY <1>3
    <2>3. list[pos] = SubSeq(new, 4 * pos + 1, 4 * pos + 4)
      BY <1>16, <2>2
    <2> HIDE DEF list
    <2> QED BY <2>1, <2>2, <2>3 DEF Last
  <1>18. SubSeq(new, o + 1, o + 4) = data
    <2> DEFINE s == SubSeq(new, o + 1, o + 4)
    <2>1. data \in Seq(Byte) /\ Len(data) = 4
      BY <1>9
    <2> HIDE DEF o, old
    <2>2. ASSUME NEW j \in 1..4 PROVE data[j] \in Byte
      <3>1. j \in 1..Len(data)
        BY <2>1
      <3> QED BY <2>1, <3>1, ElementOfSeq
    <2>3. ASSUME NEW i \in (o + 1)..(o + 4) PROVE new[i] \in Byte
      <3>1. i = o + 1 \/ i = o + 2 \/ i = o + 3 \/ i = o + 4
        BY <1>6
      <3> QED BY <1>10, <2>2, <3>1
    <2>4. /\ s \in Seq(Byte) /\ Len(s) = 4
          /\ \A j \in 1..4 : s[j] = new[o + 1 + j - 1]
      <3>1. o + 1 \in Int /\ o + 4 \in Int /\ o + 1 <= o + 4
            /\ (o + 4) - (o + 1) + 1 = 4
        BY <1>6
      <3> QED BY <2>3, <3>1, SubSeqProperties
    <2>5. \A j \in 1..4 : o + 1 + j - 1 = o + j
      BY <1>6
    <2>6. \A j \in 1..4 : new[o + j] = data[j]
      BY <1>10
    <2>7. \A j \in 1..4 : s[j] = data[j]
      BY <2>4, <2>5, <2>6
    <2> HIDE DEF s
    <2> QED BY <2>1, <2>4, <2>7, SeqEqual DEF s
  <1>19. Exact(v, scale) => \E m \in Meant(v, scale) : data = ToBytes(m, 4)
    BY <1>2, <1>3, <1>4, WrittenBytes DEF data
  <1>20. /\ Len(list) = pos
         /\ Exact(v, scale) => \E m \in Meant(v, scale) : Last(list) = ToBytes(m, 4)
    <2> HIDE DEF list, v, scale
    <2> QED BY <1>17, <1>18, <1>19
  <1> QED BY <1>20 DEF new

\* Any other list keeps its length.
LEMMA ListNotResized ==
  ASSUME Inv, Write, call.of = "write_listelm",
         call.pos * LengthOf(call.par) >= 4, call.pos * LengthOf(call.par) < 65536,
         LengthOf(call.par) = 4 => ~(call.pos * 4 < CapacityOf(drive'[call.par]))
  PROVE  ListLength(drive'[call.par]) = ListLength(before[call.par])
  <1> DEFINE p == call.par
             k == LengthOf(p)
             o == call.pos * k
             new == drive'[p]
             old == drive[p]
  <1>1. /\ step = "data" /\ Reached(drive')
        /\ CallOK /\ KindsOK /\ DriveOK /\ Fetched /\ Held
    BY WriteKeeps DEF Inv
  <1>2. p \in Lists /\ p \in Parameter /\ k \in {1, 2, 4}
    BY <1>1, Lengths DEF CallOK, Lists
  <1>3. o \in Nat /\ o >= 4 /\ o < 65536
    <2>1. call.pos \in Positions
      BY <1>1 DEF CallOK
    <2>2. \A i \in Positions : i \in Nat
      BY PositionAssumption
    <2> QED BY <1>2, <2>1, <2>2, ElementBounds
  <1>4. PICK u \in Converted(call.value, Attribute[p].scale) :
          HoldsElement(drive', p, o, set_sized_data(k, u), k)
    BY <1>3, ListWrittenOf
  <1> DEFINE data == set_sized_data(k, u)
  <1>5. IsListAfter(new, old, o, data) /\ Len(data) = k
    BY <1>1, <1>2, <1>4 DEF DriveOK, HoldsElement
  <1>6. old \in Seq(Byte) /\ Len(old) \in Nat /\ Len(old) >= 4
        /\ before[p] \in Seq(Byte)
    BY <1>1, <1>2 DEF DriveOK
  <1> HIDE DEF data, new, old, o, k
  <1>7. new[1] = old[1] /\ new[2] = old[2] /\ new[3] = old[3] /\ new[4] = old[4]
    <2>1. ASSUME NEW j \in 1..4 PROVE new[j] = old[j]
      <3>1. j \in 1..Len(old) /\ j \notin o + 1 .. o + Len(data)
        BY <1>2, <1>3, <1>5, <1>6
      <3> QED BY <1>5, <3>1 DEF IsListAfter
    <2> QED BY <2>1
  <1>8. drive = before
    <2>1. SUFFICES ASSUME drive # before PROVE FALSE
      OBVIOUS
    <2>2. /\ k = 4 /\ NewLength < CapacityOf(before[p])
          /\ drive = [before EXCEPT ![p] = Resized(before[p], NewLength)]
      BY <1>1, <2>1 DEF Held, k
    <2>3. old = Resized(before[p], NewLength)
      BY <1>1, <1>2, <2>2 DEF DriveOK, old
    <2>4. CapacityOf(old) = CapacityOf(before[p])
      <3>1. 3 \in DOMAIN before[p] /\ 4 \in DOMAIN before[p]
        BY <1>1, <1>2, <1>6 DEF DriveOK
      <3>2. old[3] = before[p][3] /\ old[4] = before[p][4]
        BY <2>3, <3>1 DEF Resized
      <3> QED BY <3>2 DEF CapacityOf
    <2>5. CapacityOf(new) = CapacityOf(old)
      BY <1>7 DEF CapacityOf
    <2>6. NewLength = o
      <3>1. local.datalen = k
        BY <1>1 DEF Fetched, k
      <3>2. call.pos * local.datalen = o
        BY <3>1 DEF o
      <3>3. o % 65536 = o
        BY <1>3
      <3> QED BY <3>2, <3>3 DEF NewLength
    <2>7. o < CapacityOf(new)
      BY <2>2, <2>4, <2>5, <2>6
    <2>8. ~(o < CapacityOf(new))
      BY <2>2 DEF o, k, new
    <2> QED BY <2>7, <2>8
  <1>9. new[1] = before[p][1] /\ new[2] = before[p][2]
    BY <1>7, <1>8 DEF old
  <1> QED BY <1>9 DEF ListLength, new

LEMMA ListEndsStep ==
  ASSUME Inv, ListEndsWithWritten, [Next]_vars
  PROVE  ListEndsWithWritten'
  <1>1. CASE ~(step' = "idle" /\ out'.ended = "returned")
    BY <1>1 DEF ListEndsWithWritten, Returned
  <1>2. CASE UNCHANGED vars
    BY <1>2 DEF vars, ListEndsWithWritten, Returned
  <1>3. CASE Read
    BY <1>3, ReadKeeps DEF ListEndsWithWritten, Returned
  <1>4. CASE Write
    <2> DEFINE p == call.par
               v == call.value
               scale == Attribute[p].scale
               n == Scaled(v, scale)
    <2>1. call' = call /\ before' = before
      BY <1>4, WriteKeeps
    <2>2. SUFFICES ASSUME call.of = "write_listelm"
                   PROVE  IF LengthOf(p) = 4 /\ call.pos * LengthOf(p) < CapacityOf(drive'[p])
                            THEN /\ Len(Elements(drive'[p])) = call.pos
                                 /\ Exact(v, scale) =>
                                      \E m \in {n} \cup (IF scale > 1 THEN {n - 1} ELSE {}) :
                                        Last(Elements(drive'[p])) = ToBytes(m, 4)
                            ELSE call.pos * LengthOf(p) >= 4 /\ call.pos * LengthOf(p) < 65536 =>
                                   ListLength(drive'[p]) = ListLength(before[p])
      BY <2>1 DEF ListEndsWithWritten, Returned
    <2>3. CASE LengthOf(p) = 4 /\ call.pos * 4 < CapacityOf(drive'[p])
      BY <1>4, <2>2, <2>3, ListResized DEF Meant
    <2>4. CASE ~(LengthOf(p) = 4 /\ call.pos * 4 < CapacityOf(drive'[p]))
      <3>1. call.pos * LengthOf(p) >= 4 /\ call.pos * LengthOf(p) < 65536 => ListLength(drive'[p]) = ListLength(before[p])
        BY <1>4, <2>2, <2>4, ListNotResized
      <3> QED BY <2>4, <3>1
    <2> QED BY <2>3, <2>4
  <1> QED BY <1>1, <1>2, <1>3, <1>4, WhenReturned

(* Of a list, a step changes the length in its header and the element.     *)
LEMMA ElsewhereTheSame ==
  ASSUME OffsetsFit, Inv, step \in {"resize", "data"}, call.of = "write_listelm",
         NEW after, Reached(after)
  PROVE  LET p == call.par
             k == LengthOf(p)
         IN  /\ \A q \in Parameter : q # p => after[q] = before[q]
             /\ \A i \in 1..Len(before[p]) :
                  (i \notin {1, 2} \/ k # 4) /\ i \notin call.pos * k + 1 .. (call.pos + 1) * k =>
                    after[p][i] = before[p][i]
  <1> DEFINE p == call.par
             k == LengthOf(p)
             o == call.pos * k
             e == (call.pos + 1) * k
  <1>1. CallOK /\ KindsOK /\ DriveOK /\ Fetched /\ Held
    BY DEF Inv
  <1>2. p \in Lists /\ call.pos \in Positions /\ call.value \in [num : Int, dec : 0..15]
    BY <1>1, NumberAssumption DEF CallOK
  <1>3. p \in Parameter /\ call.pos \in Nat /\ k \in {1, 2, 4} /\ o < 65536
        /\ Attribute[p].scale \in 0..15
    <2>1. p \in Parameter
      BY <1>2 DEF Lists
    <2>2. call.pos \in Nat
      BY <1>2, PositionAssumption
    <2>3. k \in {1, 2, 4} /\ Attribute[p].scale \in 0..15
      BY <1>2, <2>1, Lengths
    <2>4. o < 65536
      BY <1>2 DEF OffsetsFit
    <2> QED BY <2>1, <2>2, <2>3, <2>4
  <1>4. o \in Nat /\ o % 65536 = o /\ e = o + k
    BY <1>3, ElementBounds
  <1>5. /\ before \in [Parameter -> Seq(Byte)] /\ drive \in [Parameter -> Seq(Byte)]
        /\ before[p] \in Seq(Byte) /\ Len(before[p]) >= 4 /\ Len(before[p]) \in Nat
        /\ drive[p] \in Seq(Byte) /\ Len(drive[p]) = Len(before[p])
    BY <1>1, <1>2, <1>3 DEF DriveOK
  <1> DEFINE r == Resized(before[p], NewLength)
  <1>6. \A i \in 1..Len(before[p]) : i \notin {1, 2} => r[i] = before[p][i]
    <2>1. DOMAIN before[p] = 1..Len(before[p])
      BY <1>5
    <2> QED BY <2>1 DEF Resized
  <1> HIDE DEF o, e, k, r
  <1>7. CASE step = "resize"
    <2>1. after = [before EXCEPT ![p] = r] /\ k = 4
      BY <1>1, <1>7 DEF Reached, Held, r, k
    <2> QED BY <1>3, <1>5, <1>6, <2>1 DEF k
  <1>8. CASE step = "data"
    <2>1. drive = before \/ (k = 4 /\ drive = [before EXCEPT ![p] = r])
      BY <1>1, <1>8 DEF Held, r, k
    <2>2. /\ \A q \in Parameter : q # p => drive[q] = before[q]
          /\ \A i \in 1..Len(before[p]) : i \notin {1, 2} \/ k # 4 => drive[p][i] = before[p][i]
      <3>1. CASE drive = before
        BY <3>1, Zenon
      <3>2. CASE k = 4 /\ drive = [before EXCEPT ![p] = r]
        <4> HIDE DEF p
        <4>1. drive[p] = r
          BY <1>3, <1>5, <3>2
        <4>2. \A q \in Parameter : q # p => drive[q] = before[q]
          BY <1>5, <3>2
        <4>3. \A i \in 1..Len(before[p]) : i \notin {1, 2} => drive[p][i] = before[p][i]
          BY <1>6, <4>1, Zenon
        <4> QED BY <3>2, <4>2, <4>3, Zenon
      <3> QED BY <2>1, <3>1, <3>2, Zenon
    <2>3. PICK u \in Converted(call.value, Attribute[p].scale) : ListWritten(after, u)
      BY <1>8 DEF Reached
    <2> DEFINE data == set_sized_data(k, u)
               new == ListAfter(drive[p], o, data)
    <2>4. data \in Seq(Byte) /\ Len(data) = k
      <3>1. local.datalen = k /\ local.scale = Attribute[p].scale
        BY <1>1, <1>8 DEF Fetched, k
      <3> QED BY <1>1, <3>1, NumberBytes
    <2>5. after = [drive EXCEPT ![p] = new]
      <3> DEFINE o1 == ListOffset % 65536
      <3>1. o1 = o
        <4>1. local.datalen = k
          BY <1>1, <1>8 DEF Fetched, k
        <4>2. ListOffset = o
          BY <4>1 DEF ListOffset, o
        <4> QED BY <1>4, <4>2
      <3>2. after = [drive EXCEPT ![p] = ListAfter(drive[p], o1, data)]
        BY <2>3 DEF ListWritten, k
      <3> HIDE DEF o1, data
      <3> QED BY <3>1, <3>2
    <2>6. IsListAfter(new, drive[p], o, data)
      <3> HIDE DEF data
      <3> QED BY <1>4, <1>5, <2>4, ListAfterOf
    <2> HIDE DEF data, new
    <2>7. ASSUME NEW i \in 1..Len(before[p]), i \notin o + 1 .. e
          PROVE  new[i] = drive[p][i]
      <3>1. i \in 1..Len(drive[p])
        BY <1>5
      <3>2. new[i] = IF i \in {3, 4} \/ i \notin o + 1 .. o + Len(data)
                     THEN drive[p][i] ELSE data[i - o]
        BY <2>6, <3>1 DEF IsListAfter
      <3>3. i \notin o + 1 .. o + Len(data)
        BY <1>4, <2>4, <2>7
      <3> QED BY <3>2, <3>3
    <2>8. after[p] = new /\ \A q \in Parameter : q # p => after[q] = drive[q]
      BY <1>3, <1>5, <2>5
    <2>9. \A q \in Parameter : q # p => after[q] = before[q]
      BY <2>2, <2>8
    <2>10. ASSUME NEW i \in 1..Len(before[p]), i \notin {1, 2} \/ k # 4, i \notin o + 1 .. e
           PROVE  after[p][i] = before[p][i]
      BY <2>2, <2>7, <2>8, <2>10
    <2> QED BY <2>9, <2>10 DEF o, e, k
  <1> QED BY <1>7, <1>8

LEMMA NothingElseStep ==
  ASSUME OffsetsFit, Inv, NothingElseChanged, [Next]_vars
  PROVE  NothingElseChanged'
  <1> DEFINE Only(after) ==
               \A p \in Parameter :
                 /\ call.of \notin {"write_parameter", "write_listelm"} \/ p # call.par =>
                      after[p] = before[p]
                 /\ p \in Lists /\ call.of = "write_listelm" =>
                      \A i \in (DOMAIN after[p]) \ (IF LengthOf(p) = 4 THEN {1, 2} ELSE {}) :
                        i \notin call.pos * LengthOf(p) + 1 .. (call.pos + 1) * LengthOf(p) =>
                          after[p][i] = before[p][i]
  <1>0. CallOK /\ StepOK /\ DriveOK /\ Held
    BY DEF Inv
  <1>1. CASE drive' = before'
    BY <1>1 DEF NothingElseChanged
  <1>2. CASE drive' = drive /\ call' = call /\ before' = before
    BY <1>2 DEF NothingElseChanged
  <1>3. ASSUME Reached(drive'), step \in {"resize", "data"}, call' = call, before' = before
        PROVE  NothingElseChanged'
    <2>1. CASE call.of = "write_parameter"
      <3>1. PICK u : drive' = [before EXCEPT ![call.par] = set_sized_data(LengthOf(call.par), u)]
        BY <1>0, <1>3, <2>1 DEF Reached, ParameterWritten, StepOK
      <3>2. before \in [Parameter -> Seq(Byte)]
        BY <1>0 DEF DriveOK
      <3>3. \A p \in Parameter : p # call.par => drive'[p] = before[p]
        BY <3>1, <3>2
      <3> QED BY <1>3, <2>1, <3>3 DEF NothingElseChanged
    <2>2. CASE call.of = "write_listelm"
      <3> DEFINE p == call.par
                 k == LengthOf(p)
      <3>1. /\ \A q \in Parameter : q # p => drive'[q] = before[q]
            /\ \A i \in 1..Len(before[p]) :
                 (i \notin {1, 2} \/ k # 4) /\ i \notin call.pos * k + 1 .. (call.pos + 1) * k =>
                   drive'[p][i] = before[p][i]
        BY <1>3, <2>2, ElsewhereTheSame
      <3>2. ASSUME NEW q \in Parameter
            PROVE  DOMAIN drive'[q] = 1..Len(before[q])
        BY <1>0, <1>3 DEF Reached, KeepsWidths, DriveOK
      <3>3. ASSUME NEW q \in Parameter,
                   NEW i \in (DOMAIN drive'[q]) \ (IF LengthOf(q) = 4 THEN {1, 2} ELSE {}),
                   i \notin call.pos * LengthOf(q) + 1 .. (call.pos + 1) * LengthOf(q)
            PROVE  drive'[q][i] = before[q][i]
        <4>1. CASE q = p
          <5>1. i \in 1..Len(before[p]) /\ (i \notin {1, 2} \/ k # 4)
            BY <3>2, <3>3, <4>1
          <5> QED BY <3>1, <3>3, <4>1, <5>1
        <4>2. CASE q # p
          BY <3>1, <4>2
        <4> QED BY <4>1, <4>2
      <3> QED BY <1>3, <2>2, <3>1, <3>3 DEF NothingElseChanged
    <2>3. CASE call.of \in {"read_parameter", "read_listelm"}
      <3>1. drive' = before
        BY <1>0, <1>3, <2>3 DEF Reached, Held
      <3> QED BY <1>1, <1>3, <3>1
    <2> QED BY <1>0, <1>3, <2>1, <2>2, <2>3 DEF StepOK
  <1>4. CASE UNCHANGED vars
    BY <1>2, <1>4 DEF vars
  <1>5. CASE CallReadParameter \/ CallReadListelm \/ CallWriteParameter
               \/ CallWriteListelm \/ CallSetBaudrate
    BY <1>1, <1>5, CallReadParameterKeeps, CallReadListelmKeeps, CallWriteParameterKeeps,
       CallWriteListelmKeeps, CallSetBaudrateKeeps
  <1>6. CASE GetAttributes \/ GetListsize
    BY <1>2, <1>6 DEF GetAttributes, GetListsize
  <1>7. CASE Read
    BY <1>2, <1>7, ReadKeeps
  <1>8. CASE SetListsize
    <2>1. step = "resize"
      BY <1>8 DEF SetListsize
    <2> QED BY <1>3, <1>8, <2>1, SetListsizeKeeps
  <1>9. CASE Write
    BY <1>3, <1>9, WriteKeeps
  <1>10. CASE Throws
    BY <1>2, <1>3, <1>10, ThrowsKeeps
  <1> QED BY <1>4, <1>5, <1>6, <1>7, <1>8, <1>9, <1>10 DEF Next
-----------------------------------------------------------------------------
(* The theorems.                                                           *)

(* Every variable has a value of its kind, the bytes of every parameter    *)
(* keep their number, and no command is longer than the port's buffer      *)
(* (check_boundaries, line 657).                                           *)
THEOREM TypeCorrect == Spec => []TypeOK
  <1>1. Inv => TypeOK
    <2> SUFFICES ASSUME Inv PROVE TypeOK
      OBVIOUS
    <2>1. CallOK /\ StepOK /\ KindsOK /\ DriveOK
      BY DEF Inv
    <2>2. \A t \in Telegrams : Len(t) <= 254
      BY <2>1, CommandsFit
    <2>3. /\ step \in {"idle", "attributes", "header", "resize", "data", "baudrate"}
          /\ local.datalen \in {1, 2, 4, 8} /\ local.scale \in 0..15
          /\ local.header \in Seq(Byte) /\ out.value \in Seq(Byte)
          /\ out.ended \in {"none", "returned"} \cup Faults
      BY <2>1 DEF StepOK, KindsOK
    <2>4. DOMAIN drive = Parameter
          /\ \A p \in Parameter : drive[p] \in Seq(Byte) /\ Len(drive[p]) = Len(before[p])
      BY <2>1 DEF DriveOK
    <2> QED BY <2>2, <2>3, <2>4 DEF TypeOK
  <1> QED BY <1>1, Invariance, PTL

(* Every command but set_baudrate's sums up to zero and names its length,  *)
(* so that the drive answers to it (Telegrams.h 282-284, 384-402).         *)
THEOREM Sent == Spec => []CommandsAccepted
  <1>1. Inv => CommandsAccepted
    BY CommandsFit DEF Inv, CommandsAccepted
  <1> QED BY <1>1, Invariance, PTL

(* A call of write_parameter that returns has put the number it was given, *)
(* in the parameter's width and scale, into the parameter it names and     *)
(* into no other (SISProtocol.cpp 259-294).                                *)
THEOREM Written == Spec => []WrittenIsHeld
  <1>1. Init => WrittenIsHeld
    BY DEF Init, Idle, WrittenIsHeld, Returned
  <1>2. Inv /\ WrittenIsHeld /\ [Next]_vars => WrittenIsHeld'
    BY WrittenStep
  <1> QED BY <1>1, <1>2, Invariance, PTL DEF Spec

(* A read that returns delivers the number the drive holds, with its sign  *)
(* and its decimals (lines 88-256), as long as the offset of an element    *)
(* fits the 16 bits a command has for it.                                  *)
THEOREM Delivered ==
  ASSUME OffsetsFit
  PROVE  Spec => []ReadIsHeld
  <1>1. Init => ReadIsHeld
    BY DEF Init, Idle, ReadIsHeld, Returned
  <1>2. Inv /\ ReadIsHeld /\ [Next]_vars => ReadIsHeld'
    BY ReadStep
  <1> QED BY <1>1, <1>2, Invariance, PTL DEF Spec

(* A call of write_listelm that returns leaves a list of four bytes that   *)
(* ends with the element it was given, and any other list, or one that it  *)
(* fills, as long as it was (lines 297-339, 458-525).                      *)
THEOREM ListEnds == Spec => []ListEndsWithWritten
  <1>1. Init => ListEndsWithWritten
    BY DEF Init, Idle, ListEndsWithWritten, Returned
  <1>2. Inv /\ ListEndsWithWritten /\ [Next]_vars => ListEndsWithWritten'
    BY ListEndsStep
  <1> QED BY <1>1, <1>2, Invariance, PTL DEF Spec

(* Whatever call is under way and however it ends, no other parameter and  *)
(* no other element of a list changes (lines 259-339, 458-525), as long as *)
(* the offset of an element fits the 16 bits a command has for it.         *)
THEOREM NothingElse ==
  ASSUME OffsetsFit
  PROVE  Spec => []NothingElseChanged
  <1>1. Init => NothingElseChanged
    BY DEF Init, NothingElseChanged
  <1>2. Inv /\ NothingElseChanged /\ [Next]_vars => NothingElseChanged'
    BY NothingElseStep
  <1> QED BY <1>1, <1>2, Invariance, PTL DEF Spec
=============================================================================
