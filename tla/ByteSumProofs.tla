---------------------------- MODULE ByteSumProofs ----------------------------
(***************************************************************************)
(* What a checksum is worth: it exists for every telegram, and no single   *)
(* wrong byte passes it.  The sum is defined by recursion over the bytes,  *)
(* so the lemmas begin with induction: a set of natural numbers that has a *)
(* member has a smallest one.                                              *)
(***************************************************************************)
EXTENDS ByteSum, SequenceTheorems, WellFoundedInduction, TLAPS

(* Every set of natural numbers that is not empty has a smallest member.   *)
LEMMA Smallest ==
  ASSUME NEW T, T \subseteq Nat, T # {}
  PROVE  \E m \in T : \A k \in T : m <= k
  <1> DEFINE R == {ss \in Nat \X Nat : ss[1] < ss[2]}
  <1>1. IsWellFoundedOn(R, Nat)
    BY NatLessThanWellFounded DEF OpToRel
  <1>2. \A x, y \in Nat : y < x => <<y, x>> \in R
    OBVIOUS
  <1> HIDE DEF R
  <1>3. PICK x \in T : \A y \in T : <<y, x>> \notin R
    BY <1>1, WFMin
  <1>4. ASSUME NEW y \in T PROVE x <= y
    <2>1. x \in Nat /\ y \in Nat /\ ~(y < x)
      BY <1>2, <1>3
    <2> QED BY <2>1
  <1> QED BY <1>4

(* Induction, said of a set: one that has 0 and with every number the next *)
(* has all numbers.                                                        *)
LEMMA Induction ==
  ASSUME NEW S, 0 \in S, \A n \in Nat : n \in S => n + 1 \in S
  PROVE  Nat \subseteq S
  <1> SUFFICES ASSUME Nat \ S # {} PROVE FALSE
    OBVIOUS
  <1>1. PICK m \in Nat \ S : \A k \in Nat \ S : m <= k
    BY Smallest
  <1>2. m # 0 /\ m - 1 \in Nat
    BY <1>1
  <1>3. m - 1 \in S
    BY <1>1, <1>2
  <1> QED BY <1>1, <1>2, <1>3

(* The same up to a bound.                                                 *)
LEMMA InductionUpTo ==
  ASSUME NEW m \in Nat, NEW S, 0 \in S, \A n \in 0..(m - 1) : n \in S => n + 1 \in S
  PROVE  0..m \subseteq S
  <1> DEFINE U == {n \in Nat : n <= m => n \in S}
  <1>1. 0 \in U
    OBVIOUS
  <1>2. \A n \in Nat : n \in U => n + 1 \in U
    OBVIOUS
  <1> HIDE DEF U
  <1>3. Nat \subseteq U
    BY <1>1, <1>2, Induction
  <1> QED BY <1>3 DEF U
-----------------------------------------------------------------------------
(* What is left of a number modulo 256 is a byte, and bytes are numbers.   *)
LEMMA Bytes ==
  /\ \A b \in Byte : b \in Int /\ 0 <= b /\ b < 256
  /\ \A n \in Int : n % 256 \in Byte
  /\ \A n \in Int : 0 <= n /\ n < 256 => n \in Byte
  <1>1. \A n \in Int : n % 256 \in Int /\ 0 <= n % 256 /\ n % 256 < 256
    OBVIOUS
  <1> QED BY <1>1 DEF Byte

(* The bytes of two sequences put together.                                *)
LEMMA ConcatBytes ==
  ASSUME NEW s \in Seq(Byte), NEW t \in Seq(Byte)
  PROVE  /\ s \o t \in Seq(Byte) /\ Len(s \o t) = Len(s) + Len(t)
         /\ \A i \in 1..Len(s) : (s \o t)[i] = s[i]
         /\ \A i \in 1..Len(t) : (s \o t)[Len(s) + i] = t[i]
         /\ \A i \in 1..(Len(s) + Len(t)) :
              (s \o t)[i] = IF i <= Len(s) THEN s[i] ELSE t[i - Len(s)]
  <1>1. /\ s \o t \in Seq(Byte) /\ Len(s \o t) = Len(s) + Len(t)
        /\ \A i \in 1..(Len(s) + Len(t)) :
             (s \o t)[i] = IF i <= Len(s) THEN s[i] ELSE t[i - Len(s)]
    BY ConcatProperties
  <1>2. Len(s) \in Nat /\ Len(t) \in Nat
    OBVIOUS
  <1>3. ASSUME NEW i \in 1..Len(t) PROVE (s \o t)[Len(s) + i] = t[i]
    <2>1. /\ Len(s) + i \in 1..(Len(s) + Len(t)) /\ ~(Len(s) + i <= Len(s))
          /\ Len(s) + i - Len(s) = i
      BY <1>2
    <2> QED BY <1>1, <2>1
  <1> QED BY <1>1, <1>2, <1>3

(* The recursive definition defines: there is a function that does what it *)
(* says, and PartialSums is one.                                           *)
LEMMA PartialSumsDef ==
  ASSUME NEW t, Len(t) \in Nat
  PROVE  PartialSums(t) =
           [i \in 0..Len(t) |->
              IF i = 0 THEN 0 ELSE (PartialSums(t)[i - 1] + t[i]) % 256]
  <1> DEFINE Sums(f, n) ==
               f = [i \in 0..n |-> IF i = 0 THEN 0 ELSE (f[i - 1] + t[i]) % 256]
             S == {n \in Nat : \E f : Sums(f, n)}
  <1>1. 0 \in S
    <2> DEFINE f == [i \in 0..0 |-> 0]
    <2>1. Sums(f, 0)
      OBVIOUS
    <2> QED BY <2>1
  <1>2. ASSUME NEW n \in Nat, n \in S PROVE n + 1 \in S
    <2>1. PICK f : Sums(f, n)
      BY <1>2
    <2> DEFINE g == [i \in 0..(n + 1) |->
                       IF i <= n THEN f[i] ELSE (f[n] + t[n + 1]) % 256]
    <2>2. ASSUME NEW i \in 0..(n + 1)
          PROVE  g[i] = IF i = 0 THEN 0 ELSE (g[i - 1] + t[i]) % 256
      BY <2>1
    <2>3. Sums(g, n + 1)
      BY <2>2
    <2> HIDE DEF g
    <2> QED BY <2>3
  <1> HIDE DEF S
  <1>3. Nat \subseteq S
    BY <1>1, <1>2, Induction
  <1>4. \E f : f = [i \in 0..Len(t) |-> IF i = 0 THEN 0 ELSE (f[i - 1] + t[i]) % 256]
    BY <1>3 DEF S
  <1> QED BY <1>4 DEF PartialSums

LEMMA PartialSumStep ==
  ASSUME NEW t \in Seq(Byte)
  PROVE  /\ PartialSums(t)[0] = 0
         /\ \A i \in 0..(Len(t) - 1) :
              PartialSums(t)[i + 1] = (PartialSums(t)[i] + t[i + 1]) % 256
         /\ \A i \in 0..Len(t) : PartialSums(t)[i] \in Byte
  <1>1. Len(t) \in Nat
    OBVIOUS
  <1> DEFINE p == PartialSums(t)
  <1>2. p = [i \in 0..Len(t) |-> IF i = 0 THEN 0 ELSE (p[i - 1] + t[i]) % 256]
    BY <1>1, PartialSumsDef
  <1> HIDE DEF p
  <1>3. p[0] = 0
    BY <1>1, <1>2
  <1>4. \A i \in 0..(Len(t) - 1) : p[i + 1] = (p[i] + t[i + 1]) % 256
    BY <1>1, <1>2
  <1> DEFINE S == {i \in 0..Len(t) : p[i] \in Byte}
  <1>5. 0 \in S
    BY <1>1, <1>3 DEF Byte
  <1>6. ASSUME NEW i \in 0..(Len(t) - 1), i \in S PROVE i + 1 \in S
    <2>1. p[i] \in Byte /\ t[i + 1] \in Byte
      BY <1>1, <1>6
    <2>2. (p[i] + t[i + 1]) % 256 \in Byte
      BY <2>1, Bytes
    <2> QED BY <1>1, <1>4, <1>6, <2>2
  <1> HIDE DEF S
  <1>7. 0..Len(t) \subseteq S
    BY <1>1, <1>5, <1>6, InductionUpTo
  <1>8. \A i \in 0..Len(t) : p[i] \in Byte
    BY <1>7 DEF S
  <1> QED BY <1>3, <1>4, <1>8 DEF p

(* The sum is a byte.                                                      *)
LEMMA TotalIsByte ==
  ASSUME NEW t \in Seq(Byte)
  PROVE  Total(t) \in Byte
  <1>1. Len(t) \in 0..Len(t)
    OBVIOUS
  <1> QED BY <1>1, PartialSumStep DEF Total

(* When one byte is replaced by another, the sum changes by the difference.*)
LEMMA TotalExcept ==
  ASSUME NEW t \in Seq(Byte), NEW k \in 1..Len(t), NEW b \in Byte
  PROVE  Total([t EXCEPT ![k] = b]) = (Total(t) + (b - t[k])) % 256
  <1> DEFINE u == [t EXCEPT ![k] = b]
             p == PartialSums(t)
             q == PartialSums(u)
             S == {i \in 0..Len(t) :
                     q[i] = IF i < k THEN p[i] ELSE (p[i] + (b - t[k])) % 256}
  <1>1. /\ u \in Seq(Byte) /\ Len(u) = Len(t) /\ Len(t) \in Nat /\ t[k] \in Byte
        /\ \A i \in 1..Len(t) : u[i] = IF i = k THEN b ELSE t[i]
    OBVIOUS
  <1> HIDE DEF u
  <1>2. /\ p[0] = 0 /\ q[0] = 0
        /\ \A i \in 0..(Len(t) - 1) : p[i + 1] = (p[i] + t[i + 1]) % 256
        /\ \A i \in 0..(Len(t) - 1) : q[i + 1] = (q[i] + u[i + 1]) % 256
        /\ \A i \in 0..Len(t) : p[i] \in Byte /\ q[i] \in Byte
    BY <1>1, PartialSumStep
  <1> HIDE DEF p, q
  <1>3. 0 \in S
    BY <1>1, <1>2
  <1>4. ASSUME NEW i \in 0..(Len(t) - 1), i \in S PROVE i + 1 \in S
    <2>1. /\ p[i] \in Int /\ q[i] \in Int /\ t[i + 1] \in Int /\ t[k] \in Int /\ b \in Int
          /\ 0 <= p[i] /\ p[i] < 256
      <3>1. i \in 0..Len(t) /\ i + 1 \in 1..Len(t)
        BY <1>1, <1>4
      <3>2. p[i] \in Byte /\ q[i] \in Byte
        BY <1>2, <3>1
      <3>3. t[i + 1] \in Byte /\ t[k] \in Byte
        BY <3>1
      <3> QED BY <3>2, <3>3, Bytes
    <2>2. p[i + 1] = (p[i] + t[i + 1]) % 256 /\ q[i + 1] = (q[i] + u[i + 1]) % 256
      BY <1>1, <1>2, <1>4
    <2>3. q[i] = IF i < k THEN p[i] ELSE (p[i] + (b - t[k])) % 256
      BY <1>4
    <2>4. CASE i + 1 < k
      BY <1>1, <1>4, <2>2, <2>3, <2>4
    <2>5. CASE i + 1 = k
      <3>1. q[i + 1] = (p[i] + b) % 256 /\ p[i + 1] = (p[i] + t[k]) % 256
        BY <1>1, <1>4, <2>2, <2>3, <2>5
      <3>2. (p[i] + b) % 256 = (((p[i] + t[k]) % 256) + (b - t[k])) % 256
        BY <2>1
      <3> QED BY <1>1, <1>4, <2>5, <3>1, <3>2
    <2>6. CASE i + 1 > k
      <3>1. /\ q[i + 1] = (((p[i] + (b - t[k])) % 256) + t[i + 1]) % 256
            /\ p[i + 1] = (p[i] + t[i + 1]) % 256
        BY <1>1, <1>4, <2>2, <2>3, <2>6
      <3>2. (((p[i] + (b - t[k])) % 256) + t[i + 1]) % 256
              = (((p[i] + t[i + 1]) % 256) + (b - t[k])) % 256
        BY <2>1
      <3> QED BY <1>1, <1>4, <2>6, <3>1, <3>2
    <2> QED BY <1>1, <1>4, <2>4, <2>5, <2>6
  <1> HIDE DEF S
  <1>5. 0..Len(t) \subseteq S
    BY <1>1, <1>3, <1>4, InductionUpTo
  <1>6. q[Len(t)] = (p[Len(t)] + (b - t[k])) % 256
    BY <1>1, <1>5 DEF S
  <1> QED BY <1>1, <1>6 DEF Total, p, q, u
-----------------------------------------------------------------------------
(* Whatever the other bytes are: with the complement of their sum for one  *)
(* of them the sum is zero (sis.pas 413-427; Telegrams.h 384-402).         *)
THEOREM ChecksumExists ==
  ASSUME NEW t \in Seq(Byte), NEW k \in 1..Len(t), t[k] = 0
  PROVE  Total([t EXCEPT ![k] = (256 - Total(t)) % 256]) = 0
  <1>1. Total(t) \in Int /\ 0 <= Total(t) /\ Total(t) < 256
    BY TotalIsByte, Bytes
  <1>2. (256 - Total(t)) % 256 \in Byte
    BY <1>1, Bytes
  <1>3. Total([t EXCEPT ![k] = (256 - Total(t)) % 256])
          = (Total(t) + (((256 - Total(t)) % 256) - 0)) % 256
    BY <1>2, TotalExcept
  <1>4. (Total(t) + (((256 - Total(t)) % 256) - 0)) % 256 = 0
    BY <1>1
  <1> QED BY <1>3, <1>4

(* The same, said of a header and what follows it.                         *)
LEMMA ChecksumInHeader ==
  ASSUME NEW h \in Seq(Byte), NEW user \in Seq(Byte), NEW k \in 1..Len(h), h[k] = 0
  PROVE  Total([h EXCEPT ![k] = (256 - Total(h \o user)) % 256] \o user) = 0
  <1> DEFINE t == h \o user
             c == (256 - Total(t)) % 256
             g == [h EXCEPT ![k] = c]
  <1>1. /\ t \in Seq(Byte) /\ Len(t) = Len(h) + Len(user)
        /\ \A i \in 1..(Len(h) + Len(user)) :
             t[i] = IF i <= Len(h) THEN h[i] ELSE user[i - Len(h)]
    BY ConcatProperties
  <1>2. Len(h) \in Nat /\ Len(user) \in Nat /\ k \in Nat /\ 1 <= k /\ k <= Len(h)
    OBVIOUS
  <1>3. k \in 1..Len(t) /\ t[k] = 0
    BY <1>1, <1>2
  <1> HIDE DEF t
  <1>4. c \in Byte
    <2>1. Total(t) \in Int
      BY <1>1, TotalIsByte, Bytes
    <2> QED BY <2>1, Bytes
  <1>5. Total([t EXCEPT ![k] = c]) = 0
    BY <1>1, <1>3, ChecksumExists
  <1> HIDE DEF c
  <1>6. /\ g \in Seq(Byte) /\ Len(g) = Len(h)
        /\ \A i \in 1..Len(h) : g[i] = IF i = k THEN c ELSE h[i]
    BY <1>4
  <1> HIDE DEF g
  <1>7. /\ g \o user \in Seq(Byte) /\ Len(g \o user) = Len(t)
        /\ \A i \in 1..(Len(h) + Len(user)) :
             (g \o user)[i] = IF i <= Len(h) THEN g[i] ELSE user[i - Len(h)]
    <2>1. /\ g \o user \in Seq(Byte) /\ Len(g \o user) = Len(g) + Len(user)
          /\ \A i \in 1..(Len(g) + Len(user)) :
               (g \o user)[i] = IF i <= Len(g) THEN g[i] ELSE user[i - Len(g)]
      <3>1. g \in Seq(Byte)
        BY <1>6
      <3> QED BY <3>1, ConcatBytes
    <2> QED BY <1>1, <1>6, <2>1
  <1>8. /\ [t EXCEPT ![k] = c] \in Seq(Byte) /\ Len([t EXCEPT ![k] = c]) = Len(t)
        /\ \A i \in 1..Len(t) : [t EXCEPT ![k] = c][i] = IF i = k THEN c ELSE t[i]
    BY <1>1, <1>3, <1>4
  <1>9. ASSUME NEW i \in 1..Len(t) PROVE (g \o user)[i] = [t EXCEPT ![k] = c][i]
    BY <1>1, <1>2, <1>6, <1>7, <1>8
  <1>10. g \o user = [t EXCEPT ![k] = c]
    BY <1>7, <1>8, <1>9, SeqEqual
  <1> QED BY <1>5, <1>10 DEF t, c, g

(* A telegram whose sum is zero and of which any one byte is wrong is      *)
(* found out (commworker.pas 287; SISProtocol.cpp 620).                    *)
THEOREM OneWrongByteIsFound ==
  ASSUME NEW t \in Seq(Byte), Total(t) = 0, NEW k \in 1..Len(t), NEW b \in Byte,
         b # t[k]
  PROVE  Total([t EXCEPT ![k] = b]) # 0
  <1>1. t[k] \in Byte
    OBVIOUS
  <1>2. /\ t[k] \in Int /\ 0 <= t[k] /\ t[k] < 256
        /\ b \in Int /\ 0 <= b /\ b < 256
    BY <1>1, Bytes
  <1>3. (0 + (b - t[k])) % 256 # 0
    BY <1>2
  <1> QED BY <1>3, TotalExcept
=============================================================================
