------------------------- MODULE SISExchangeProofs -------------------------
(***************************************************************************)
(* Proofs about SISExchange, for any requests, drives and segments.  Types *)
(* are right whoever uses the port and whatever the line does.  For one    *)
(* client, on a line that loses reactions, or bytes of them, or damages    *)
(* any byte but the length: what an exchange accepts is the answer, and    *)
(* nothing is left in the port for the next one to read.  The argument: a  *)
(* telegram that arrives is the reaction that was sent, or its sum is      *)
(* wrong, or it is shorter than the length in it announces (Arrived).      *)
(***************************************************************************)
EXTENDS SISExchange, ByteSumProofs

(* A telegram that is as long as a reaction can be.                        *)
Announced(t) ==
  /\ t \in Seq(Byte)
  /\ Len(t) >= HeaderLength /\ DataLen(t) \in Nat \ {0}
  /\ Len(t) <= HeaderLength + DataLen(t)

(* What comes of the reaction for segment i of request r.                  *)
Arrived(r, i, t) ==
  /\ Announced(t)
  /\ Len(t) = HeaderLength + DataLen(t) => t = Reaction(r, i) \/ Total(t) # 0

(* A reaction as the drive sends it: two copies of its length, and status, *)
(* control and address before the data.                                    *)
Whole(t) ==
  /\ t \in Seq(Byte) /\ Total(t) = 0
  /\ DataLen(t) \in Nat /\ DataLen(t) >= UserHeaderLength /\ t[4] = DataLen(t)
  /\ Len(t) = HeaderLength + DataLen(t)

(* Where the bytes of a reaction may be while client c waits for them.     *)
AtHeader(c) ==
  \/ line = << >> /\ FBuffer = << >>
  \/ line = << >> /\ Arrived(request[c], segment[c], FBuffer)
  \/ /\ \E t : line = <<t>> /\ Arrived(request[c], segment[c], t)
     /\ FBuffer = << >>

AtData(c) ==
  /\ line = << >>
  /\ Arrived(request[c], segment[c], header[c] \o FBuffer)

Place(c) ==
  /\ pc[c] \in {"idle", "send"} => line = << >> /\ FBuffer = << >>
  /\ pc[c] = "header" => AtHeader(c)
  /\ pc[c] = "data" => AtData(c)

(* The data of the segments before the i-th.                               *)
Before(r, i) == IF r \in Refused THEN << >> ELSE Joined(Segments[r])[i - 1]

Collected(c) ==
  /\ pc[c] # "idle" => /\ DATA[c] = Before(request[c], segment[c])
                       /\ request[c] \in Refused => segment[c] = 1
  /\ Over(c) =>
       /\ IsPrefix(DATA[c], Answer(request[c]))
       /\ success[c] => DATA[c] = Answer(request[c])

(* What TypeOK leaves open: who is under way has a request, and a header   *)
(* when it waits for what that announces.                                  *)
TypeInv ==
  /\ TypeOK
  /\ \A c \in Client :
       /\ pc[c] # "idle" => request[c] \in Request
       /\ pc[c] = "data" => Len(header[c]) = HeaderLength

Inv == TypeInv /\ \A c \in Client : Place(c) /\ Collected(c)

(* The worker alone, or the UI thread alone, uses the port.                *)
Alone == \E c : Client = {c}
-----------------------------------------------------------------------------
(* Sequences.                                                              *)

(* A sequence whose elements are the first ones of another is a prefix.    *)
LEMMA PrefixByElement ==
  ASSUME NEW S, NEW s \in Seq(S), NEW t \in Seq(S), Len(s) <= Len(t),
         \A k \in 1..Len(s) : s[k] = t[k]
  PROVE  IsPrefix(s, t)
  <1>1. SubSeq(s, 1, Len(s)) = SubSeq(t, 1, Len(s))
    BY SubSeqProperties
  <1> QED BY <1>1 DEF IsPrefix

LEMMA PrefixElements ==
  ASSUME NEW S, NEW s \in Seq(S), NEW t \in Seq(S), IsPrefix(s, t)
  PROVE  Len(s) <= Len(t) /\ \A k \in 1..Len(s) : s[k] = t[k]
  <1>1. Len(s) <= Len(t) /\ SubSeq(s, 1, Len(s)) = SubSeq(t, 1, Len(s))
    BY DEF IsPrefix
  <1>2. ASSUME NEW k \in 1..Len(s) PROVE s[k] = t[k]
    <2>1. SubSeq(s, 1, Len(s))[k] = s[k]
      BY <1>2
    <2>2. SubSeq(t, 1, Len(s))[k] = t[k]
      BY <1>1, <1>2
    <2> QED BY <1>1, <2>1, <2>2
  <1> QED BY <1>1, <1>2

LEMMA PrefixOfConcat ==
  ASSUME NEW S, NEW s \in Seq(S), NEW t \in Seq(S), NEW u \in Seq(S), IsPrefix(s, t)
  PROVE  IsPrefix(s, t \o u)
  <1>1. Len(s) <= Len(t) /\ \A k \in 1..Len(s) : s[k] = t[k]
    BY PrefixElements
  <1>2. /\ t \o u \in Seq(S) /\ Len(s) <= Len(t \o u)
        /\ \A k \in 1..Len(s) : (t \o u)[k] = t[k]
    BY <1>1, ConcatProperties
  <1> QED BY <1>1, <1>2, PrefixByElement

(* A concatenation determines its parts when the first ones are as long.   *)
LEMMA SameParts ==
  ASSUME NEW S, NEW s \in Seq(S), NEW t \in Seq(S), NEW u \in Seq(S), NEW v \in Seq(S),
         Len(s) = Len(u), s \o t = u \o v
  PROVE  s = u /\ t = v
  <1>1. /\ Len(s \o t) = Len(s) + Len(t) /\ Len(u \o v) = Len(u) + Len(v)
        /\ \A i \in 1..Len(s) + Len(t) :
             (s \o t)[i] = IF i <= Len(s) THEN s[i] ELSE t[i - Len(s)]
        /\ \A i \in 1..Len(u) + Len(v) :
             (u \o v)[i] = IF i <= Len(u) THEN u[i] ELSE v[i - Len(u)]
    BY ConcatProperties
  <1>2. Len(t) = Len(v)
    BY <1>1
  <1>3. ASSUME NEW i \in 1..Len(s) PROVE s[i] = u[i]
    BY <1>1, <1>3
  <1>4. ASSUME NEW i \in 1..Len(t) PROVE t[i] = v[i]
    <2>1. /\ Len(s) + i \in 1..Len(s) + Len(t) /\ ~(Len(s) + i <= Len(s))
          /\ Len(s) + i - Len(s) = i
      BY <1>4
    <2> QED BY <1>1, <1>2, <2>1
  <1> QED BY <1>2, <1>3, <1>4, SeqEqual

(* The recursion over the segments.                                        *)
LEMMA JoinedDef ==
  ASSUME NEW q, Len(q) \in Nat
  PROVE  /\ Joined(q)[0] = << >>
         /\ \A i \in 0..(Len(q) - 1) : Joined(q)[i + 1] = Joined(q)[i] \o q[i + 1]
  <1> DEFINE Ext(x, i) == x \o q[i]
             Joins(f, n) ==
               f = [i \in 0..n |-> IF i = 0 THEN << >> ELSE Ext(f[i - 1], i)]
             S == {n \in Nat : \E f : Joins(f, n)}
  <1> HIDE DEF Ext
  <1>1. 0 \in S
    <2> DEFINE f == [i \in 0..0 |-> << >>]
    <2>1. Joins(f, 0)
      OBVIOUS
    <2> QED BY <2>1
  <1>2. ASSUME NEW n \in Nat, n \in S PROVE n + 1 \in S
    <2>1. PICK f : Joins(f, n)
      BY <1>2
    <2> DEFINE g == [i \in 0..(n + 1) |-> IF i <= n THEN f[i] ELSE Ext(f[n], n + 1)]
    <2>2. ASSUME NEW i \in 0..(n + 1)
          PROVE  g[i] = IF i = 0 THEN << >> ELSE Ext(g[i - 1], i)
      BY <2>1
    <2>3. Joins(g, n + 1)
      BY <2>2
    <2> HIDE DEF g
    <2> QED BY <2>3
  <1> HIDE DEF S
  <1>3. Nat \subseteq S
    BY <1>1, <1>2, Induction
  <1>4. \E f : f = [i \in 0..Len(q) |-> IF i = 0 THEN << >> ELSE Ext(f[i - 1], i)]
    BY <1>3 DEF S
  <1> DEFINE j == Joined(q)
  <1>5. j = [i \in 0..Len(q) |-> IF i = 0 THEN << >> ELSE Ext(j[i - 1], i)]
    BY <1>4 DEF Joined, Ext
  <1> HIDE DEF j
  <1>6. j[0] = << >>
    BY <1>5
  <1>7. ASSUME NEW i \in 0..(Len(q) - 1) PROVE j[i + 1] = Ext(j[i], i + 1)
    <2>1. i + 1 \in 0..Len(q) /\ i + 1 # 0 /\ (i + 1) - 1 = i
      OBVIOUS
    <2> QED BY <1>5, <2>1
  <1> QED BY <1>6, <1>7 DEF Ext, j

(* The segments of an answer, one by one.                                  *)
LEMMA JoinedStep ==
  ASSUME NEW r \in Request
  PROVE  /\ Len(Segments[r]) \in Nat \ {0} /\ DOMAIN Segments[r] = 1..Len(Segments[r])
         /\ \A i \in DOMAIN Segments[r] : Segments[r][i] \in Seq(Byte)
         /\ Joined(Segments[r])[0] = << >>
         /\ \A i \in 0..(Len(Segments[r]) - 1) :
              Joined(Segments[r])[i + 1] = Joined(Segments[r])[i] \o Segments[r][i + 1]
         /\ \A i \in 0..Len(Segments[r]) : Joined(Segments[r])[i] \in Seq(Byte)
  <1> DEFINE q == Segments[r]
             j == Joined(q)
  <1>1. q \in Seq(Seq(Byte)) /\ q # << >>
    BY ExchangeAssumption
  <1> HIDE DEF q
  <1>2. /\ Len(q) \in Nat \ {0} /\ DOMAIN q = 1..Len(q)
        /\ \A i \in 1..Len(q) : q[i] \in Seq(Byte)
    BY <1>1
  <1>4. j[0] = << >> /\ \A i \in 0..(Len(q) - 1) : j[i + 1] = j[i] \o q[i + 1]
    BY <1>2, JoinedDef
  <1> HIDE DEF j
  <1> DEFINE S == {i \in 0..Len(q) : j[i] \in Seq(Byte)}
  <1>5. 0 \in S
    <2>1. << >> \in Seq(Byte)
      OBVIOUS
    <2>2. j[0] \in Seq(Byte)
      BY <1>4, <2>1
    <2>3. 0 \in 0..Len(q)
      BY <1>2
    <2> QED BY <2>2, <2>3
  <1>6. ASSUME NEW n \in 0..(Len(q) - 1), n \in S PROVE n + 1 \in S
    <2>1. n + 1 \in 1..Len(q) /\ n + 1 \in 0..Len(q)
      BY <1>2, <1>6
    <2>2. j[n] \in Seq(Byte) /\ q[n + 1] \in Seq(Byte)
      BY <1>2, <1>6, <2>1
    <2>3. j[n] \o q[n + 1] \in Seq(Byte)
      BY <2>2, ConcatProperties
    <2>4. j[n + 1] = j[n] \o q[n + 1]
      BY <1>4
    <2> QED BY <2>1, <2>3, <2>4
  <1> HIDE DEF S
  <1>7. 0..Len(q) \subseteq S
    BY <1>2, <1>5, <1>6, InductionUpTo
  <1>8. \A i \in 0..Len(q) : j[i] \in Seq(Byte)
    BY <1>7 DEF S
  <1> QED BY <1>2, <1>4, <1>8 DEF q, j

(* The segments that have come are a prefix of the answer.                 *)
LEMMA JoinedPrefix ==
  ASSUME NEW r \in Request, NEW k \in 0..Len(Segments[r])
  PROVE  IsPrefix(Joined(Segments[r])[k], Joined(Segments[r])[Len(Segments[r])])
  <1> DEFINE j == Joined(Segments[r])
             n == Len(Segments[r])
             S == {i \in 0..n : k <= i => IsPrefix(j[k], j[i])}
  <1>1. /\ n \in Nat \ {0} /\ j[0] = << >>
        /\ \A i \in 1..n : Segments[r][i] \in Seq(Byte)
        /\ \A i \in 0..(n - 1) : j[i + 1] = j[i] \o Segments[r][i + 1]
        /\ \A i \in 0..n : j[i] \in Seq(Byte)
    BY JoinedStep
  <1> HIDE DEF j
  <1>2. IsPrefix(j[k], j[k])
    BY <1>1, PrefixByElement
  <1>3. 0 \in S
    BY <1>1, <1>2
  <1>4. ASSUME NEW i \in 0..(n - 1), i \in S PROVE i + 1 \in S
    <2>1. i \in 0..n /\ i + 1 \in 1..n /\ i + 1 \in 0..n
      BY <1>1
    <2>2. j[i + 1] = j[i] \o Segments[r][i + 1] /\ Segments[r][i + 1] \in Seq(Byte)
      BY <1>1, <2>1
    <2>3. CASE k <= i
      <3>1. IsPrefix(j[k], j[i]) /\ j[k] \in Seq(Byte) /\ j[i] \in Seq(Byte)
        BY <1>1, <1>4, <2>1, <2>3
      <3>2. IsPrefix(j[k], j[i + 1])
        BY <2>2, <3>1, PrefixOfConcat
      <3> QED BY <2>1, <3>2
    <2>4. CASE ~(k <= i)
      BY <1>1, <1>2, <2>1, <2>4
    <2> QED BY <2>3, <2>4
  <1>5. 0..n \subseteq S
    <2> HIDE DEF S
    <2> QED BY <1>1, <1>3, <1>4, InductionUpTo
  <1> QED BY <1>1, <1>5 DEF j
-----------------------------------------------------------------------------
(* What the drive sends.                                                   *)

(* The header of a telegram.                                               *)
TelegramHeader(control, service, sender, recv, user) ==
  <<STX, (256 - Total(<<STX, 0, Len(user), Len(user), control, service, sender, recv>>
                        \o user)) % 256,
    Len(user), Len(user), control, service, sender, recv>>

(* The sum of the header and the user data is zero, that is of a telegram. *)
LEMMA TelegramParts ==
  ASSUME NEW control \in Byte, NEW service \in Byte, NEW sender \in Byte, NEW recv \in Byte,
         NEW user \in Seq(Byte), Len(user) \in Byte
  PROVE  LET f == TelegramHeader(control, service, sender, recv, user)
         IN  /\ Total(f \o user) = 0
             /\ f \in Seq(Byte) /\ Len(f) = HeaderLength
             /\ f[3] = Len(user) /\ f[4] = Len(user) /\ f[6] = service
  <1> DEFINE h == <<STX, 0, Len(user), Len(user), control, service, sender, recv>>
             c == (256 - Total(h \o user)) % 256
             front == <<STX, c, Len(user), Len(user), control, service, sender, recv>>
  <1>1. 0 \in Byte /\ STX \in Byte
    BY Bytes DEF STX
  <1>2. h \in Seq(Byte) /\ Len(h) = 8 /\ h[2] = 0
    BY <1>1
  <1>3. c \in Byte
    <2>1. h \o user \in Seq(Byte)
      <3> HIDE DEF h
      <3> QED BY <1>2, ConcatProperties
    <2>2. Total(h \o user) \in Int
      BY <2>1, TotalIsByte, Bytes
    <2> QED BY <2>2, Bytes
  <1>4. front = [h EXCEPT ![2] = c]
    <2> HIDE DEF c
    <2> QED BY <1>1, <1>3
  <1>5. Total([h EXCEPT ![2] = c] \o user) = 0
    <2> HIDE DEF h
    <2>1. 2 \in 1..Len(h)
      BY <1>2
    <2> QED BY <1>2, <2>1, ChecksumInHeader
  <1>7. /\ front \in Seq(Byte) /\ Len(front) = 8
        /\ front[3] = Len(user) /\ front[4] = Len(user) /\ front[6] = service
    <2> HIDE DEF c
    <2> QED BY <1>1, <1>3
  <1>8. TelegramHeader(control, service, sender, recv, user) = front
    BY DEF TelegramHeader
  <1> HIDE DEF front, h, c
  <1> QED BY <1>4, <1>5, <1>7, <1>8 DEF HeaderLength

(* The user data of a reaction, and what is left of it without its header. *)
UserOf(r, i) ==
  IF r \in Refused THEN <<1, 4, r.setid>> \o RefusalCode
  ELSE <<0, IF i = Len(Segments[r]) THEN 4 ELSE 0, r.setid>> \o Segments[r][i]

LEMMA UserOfParts ==
  ASSUME NEW r \in Request, NEW i \in DOMAIN Segments[r]
  PROVE  /\ UserOf(r, i) \in Seq(Byte) /\ Len(UserOf(r, i)) \in Byte
         /\ Len(UserOf(r, i)) >= UserHeaderLength
         /\ UserOf(r, i)[2] = IF r \in Refused \/ i = Len(Segments[r]) THEN 4 ELSE 0
         /\ SubSeq(UserOf(r, i), UserHeaderLength + 1, Len(UserOf(r, i)))
              = IF r \in Refused THEN RefusalCode ELSE Segments[r][i]
  <1>1. /\ r.setid \in Byte /\ {0, 1, 4, 9, 112} \subseteq Byte
        /\ Segments[r][i] \in Seq(Byte) /\ Len(Segments[r][i]) < 240
    BY ExchangeAssumption, Bytes
  <1>2. ASSUME NEW a \in Byte, NEW b \in Byte, NEW d \in Seq(Byte), Len(d) < 240
        PROVE  LET u == <<a, b, r.setid>> \o d
               IN  /\ u \in Seq(Byte) /\ Len(u) \in Byte /\ Len(u) >= 3
                   /\ u[2] = b /\ SubSeq(u, 4, Len(u)) = d
    <2> DEFINE h == <<a, b, r.setid>>
               u == h \o d
    <2>1. h \in Seq(Byte) /\ Len(h) = 3 /\ h[2] = b
      BY <1>1
    <2> HIDE DEF h
    <2>2. /\ u \in Seq(Byte) /\ Len(u) = 3 + Len(d) /\ Len(d) \in Nat
          /\ \A k \in 1..(3 + Len(d)) : u[k] = IF k <= 3 THEN h[k] ELSE d[k - 3]
      BY <2>1, ConcatProperties
    <2> HIDE DEF u
    <2>3. Len(u) \in Byte
      BY <1>2, <2>2, Bytes
    <2>4. u[2] = b
      BY <2>1, <2>2
    <2>5. SubSeq(u, 4, Len(u)) = d
      <3>1. /\ SubSeq(u, 4, Len(u)) \in Seq(Byte) /\ Len(SubSeq(u, 4, Len(u))) = Len(d)
            /\ \A k \in 1..Len(d) : SubSeq(u, 4, Len(u))[k] = u[k + 3]
        BY <2>2
      <3>2. \A k \in 1..Len(d) : u[k + 3] = d[k]
        <4>1. ASSUME NEW k \in 1..Len(d) PROVE u[k + 3] = d[k]
          <5>1. k + 3 \in 1..(3 + Len(d)) /\ ~(k + 3 <= 3) /\ (k + 3) - 3 = k
            BY <2>2
          <5> QED BY <2>2, <5>1
        <4> QED BY <4>1
      <3> QED BY <3>1, <3>2, SeqEqual
    <2> QED BY <2>2, <2>3, <2>4, <2>5 DEF u, h
  <1>3. RefusalCode \in Seq(Byte) /\ Len(RefusalCode) = 2
    BY <1>1 DEF RefusalCode
  <1>4. CASE r \in Refused
    <2>1. UserOf(r, i) = <<1, 4, r.setid>> \o RefusalCode
      BY <1>4 DEF UserOf
    <2>2. /\ UserOf(r, i) \in Seq(Byte) /\ Len(UserOf(r, i)) \in Byte
          /\ Len(UserOf(r, i)) >= 3 /\ UserOf(r, i)[2] = 4
          /\ SubSeq(UserOf(r, i), 4, Len(UserOf(r, i))) = RefusalCode
      <3>1. 1 \in Byte /\ 4 \in Byte /\ Len(RefusalCode) < 240
        BY <1>1, <1>3
      <3> DEFINE u == <<1, 4, r.setid>> \o RefusalCode
      <3>2. /\ u \in Seq(Byte) /\ Len(u) \in Byte /\ Len(u) >= 3
            /\ u[2] = 4 /\ SubSeq(u, 4, Len(u)) = RefusalCode
        BY <1>2, <1>3, <3>1
      <3> QED BY <2>1, <3>2
    <2> QED BY <1>4, <2>2 DEF UserHeaderLength
  <1>5. CASE r \notin Refused
    <2> DEFINE b == IF i = Len(Segments[r]) THEN 4 ELSE 0
    <2>1. UserOf(r, i) = <<0, b, r.setid>> \o Segments[r][i] /\ b \in Byte
      BY <1>1, <1>5 DEF UserOf
    <2> HIDE DEF b
    <2>2. /\ UserOf(r, i) \in Seq(Byte) /\ Len(UserOf(r, i)) \in Byte
          /\ Len(UserOf(r, i)) >= 3 /\ UserOf(r, i)[2] = b
          /\ SubSeq(UserOf(r, i), 4, Len(UserOf(r, i))) = Segments[r][i]
      BY <1>1, <1>2, <2>1
    <2> QED BY <1>5, <2>2 DEF UserHeaderLength, b
  <1> QED BY <1>4, <1>5

HeaderOf(r, i) == TelegramHeader(16, 128, r.setid, 0, UserOf(r, i))

LEMMA ReactionParts ==
  ASSUME NEW r \in Request, NEW i \in DOMAIN Segments[r]
  PROVE  /\ Whole(Reaction(r, i))
         /\ Reaction(r, i) = HeaderOf(r, i) \o UserOf(r, i)
         /\ HeaderOf(r, i) \in Seq(Byte)
         /\ Len(HeaderOf(r, i)) = HeaderLength /\ Service(HeaderOf(r, i)) = 128
  <1> DEFINE user == UserOf(r, i)
             front == HeaderOf(r, i)
             t == front \o user
  <1>1. user \in Seq(Byte) /\ Len(user) \in Byte /\ Len(user) >= UserHeaderLength
    BY UserOfParts
  <1>2. r.setid \in Byte /\ 16 \in Byte /\ 128 \in Byte /\ 0 \in Byte
    BY ExchangeAssumption, Bytes
  <1>3. ASSUME NEW x \in Byte
        PROVE  LET f == TelegramHeader(16, 128, x, 0, user)
               IN  /\ Total(f \o user) = 0
                   /\ f \in Seq(Byte) /\ Len(f) = HeaderLength
                   /\ f[3] = Len(user) /\ f[4] = Len(user) /\ f[6] = 128
    <2>1. ASSUME NEW u \in Seq(Byte), Len(u) \in Byte
          PROVE  LET f == TelegramHeader(16, 128, x, 0, u)
                 IN  /\ Total(f \o u) = 0
                     /\ f \in Seq(Byte) /\ Len(f) = HeaderLength
                     /\ f[3] = Len(u) /\ f[4] = Len(u) /\ f[6] = 128
      BY <1>2, <1>3, <2>1, TelegramParts
    <2> HIDE DEF user
    <2> QED BY <1>1, <2>1
  <1>4. Reaction(r, i) = t
    BY DEF Reaction, UserOf, HeaderOf, TelegramHeader, Telegram
  <1> HIDE DEF user
  <1>5. /\ Total(t) = 0
        /\ front \in Seq(Byte) /\ Len(front) = HeaderLength
        /\ front[3] = Len(user) /\ front[4] = Len(user) /\ front[6] = 128
    BY <1>2, <1>3 DEF HeaderOf, user
  <1> HIDE DEF front
  <1>6. /\ t \in Seq(Byte) /\ Len(t) = HeaderLength + Len(user)
        /\ t[3] = Len(user) /\ t[4] = Len(user)
    <2>1. Len(front) = 8 /\ Len(user) \in Nat
      BY <1>1, <1>5 DEF HeaderLength
    <2>2. /\ t \in Seq(Byte) /\ Len(t) = Len(front) + Len(user)
          /\ \A k \in 1..Len(front) : t[k] = front[k]
      BY <1>1, <1>5, ConcatBytes
    <2> QED BY <1>5, <2>1, <2>2 DEF HeaderLength
  <1> HIDE DEF t
  <1>7. Whole(t)
    BY <1>1, <1>5, <1>6 DEF Whole, DataLen
  <1> QED BY <1>4, <1>5, <1>7 DEF user, front, t, Service
-----------------------------------------------------------------------------
(* What arrives of it.                                                     *)

\* One wrong byte that is not the length leaves the length as it was, and the
\* sum tells.
LEMMA DamagedArrives ==
  ASSUME 3 \notin DamageAt, NEW r, NEW i, Whole(Reaction(r, i)),
         NEW d \in Damaged(Reaction(r, i))
  PROVE  Arrived(r, i, d)
  <1> DEFINE t == Reaction(r, i)
  <1>1. PICK k \in DamageAt \cap DOMAIN t : \E b \in Byte : d = [t EXCEPT ![k] = b]
    <2>1. {0, 1, 254, 255} \subseteq Byte
      BY DEF Byte
    <2>2. ASSUME NEW k \in DOMAIN t PROVE (t[k] + 255) % 256 \in Byte
      <3>1. t[k] \in Byte
        BY DEF Whole
      <3> QED BY <3>1, Bytes
    <2> HIDE DEF t
    <2> QED BY <2>1, <2>2 DEF Damaged, t
  <1>2. PICK b \in Byte : d = [t EXCEPT ![k] = b]
    BY <1>1
  <1> HIDE DEF t
  <1>3. Whole(t)
    BY DEF t
  <1>4. t \in Seq(Byte) /\ k \in 1..Len(t) /\ k # 3 /\ 3 \in 1..Len(t)
    BY <1>1, <1>3 DEF Whole, HeaderLength, UserHeaderLength
  <1>5. d \in Seq(Byte) /\ Len(d) = Len(t) /\ d[3] = t[3]
    BY <1>2, <1>4
  <1>6. CASE b = t[k]
    <2>1. d = t
      BY <1>2, <1>4, <1>6
    <2> QED BY <1>3, <2>1
      DEF Whole, Arrived, Announced, HeaderLength, UserHeaderLength, t
  <1>7. CASE b # t[k]
    <2>1. Total(d) # 0
      BY <1>2, <1>3, <1>4, <1>7, OneWrongByteIsFound DEF Whole
    <2> QED BY <1>3, <1>5, <2>1
      DEF Whole, Arrived, Announced, DataLen, HeaderLength, UserHeaderLength
  <1> QED BY <1>6, <1>7

\* A byte that is missing before the second copy of the length moves that copy
\* to the place of the first; a byte short of what is announced is too short.
LEMMA DroppedArrives ==
  ASSUME NEW r, NEW i, Whole(Reaction(r, i)), NEW j \in DOMAIN Reaction(r, i)
  PROVE  Arrived(r, i, RemoveAt(Reaction(r, i), j))
  <1> DEFINE t == Reaction(r, i)
  <1>1. Whole(t)
    OBVIOUS
  <1> HIDE DEF t
  <1>2. /\ t \in Seq(Byte) /\ t[4] = t[3] /\ t[3] \in Nat /\ t[3] >= 3
        /\ Len(t) = 8 + t[3]
    BY <1>1 DEF Whole, DataLen, HeaderLength, UserHeaderLength
  <1>3. j \in 1..Len(t) /\ Len(t) \in Nat /\ Len(t) >= 11
    BY <1>2 DEF t
  <1> DEFINE a == SubSeq(t, 1, j - 1)
             b == SubSeq(t, j + 1, Len(t))
  <1>4. a \in Seq(Byte) /\ Len(a) = j - 1 /\ \A k \in 1..(j - 1) : a[k] = t[k]
    BY <1>2, <1>3
  <1>5. b \in Seq(Byte) /\ Len(b) = Len(t) - j /\ \A k \in 1..(Len(t) - j) : b[k] = t[k + j]
    BY <1>2, <1>3
  <1> HIDE DEF a, b
  <1>6. a \o b \in Seq(Byte) /\ Len(a \o b) = Len(t) - 1
    BY <1>3, <1>4, <1>5
  <1>7. (a \o b)[3] \in {t[3], t[4]}
    <2>1. CASE j > 3
      <3>1. (a \o b)[3] = a[3]
        BY <1>3, <1>4, <1>5, <2>1
      <3> QED BY <1>3, <1>4, <2>1, <3>1
    <2>2. CASE ~(j > 3)
      <3>1. 4 - j \in 1..Len(b) /\ Len(a) + (4 - j) = 3
        BY <1>3, <1>4, <1>5, <2>2
      <3>2. (a \o b)[3] = b[4 - j]
        <4>1. \A k \in 1..(Len(a) + Len(b)) :
                (a \o b)[k] = IF k <= Len(a) THEN a[k] ELSE b[k - Len(a)]
          BY <1>4, <1>5, ConcatProperties
        <4>2. 3 \in 1..(Len(a) + Len(b)) /\ ~(3 <= Len(a)) /\ 3 - Len(a) = 4 - j
          BY <1>3, <1>4, <1>5, <2>2
        <4> QED BY <4>1, <4>2
      <3>3. b[4 - j] = t[(4 - j) + j] /\ (4 - j) + j = 4
        BY <1>3, <1>5, <3>1
      <3> QED BY <3>2, <3>3
    <2> QED BY <2>1, <2>2
  <1>8. RemoveAt(t, j) = a \o b
    BY DEF RemoveAt, a, b
  <1>9. (a \o b)[3] = t[3]
    BY <1>2, <1>7
  <1>10. Arrived(r, i, a \o b)
    BY <1>2, <1>6, <1>9 DEF Arrived, Announced, HeaderLength, DataLen
  <1> QED BY <1>8, <1>10 DEF t

LEMMA Deliveries ==
  ASSUME 3 \notin DamageAt, NEW r \in Request, NEW i \in DOMAIN Segments[r],
         NEW d \in Delivered[r][i]
  PROVE  d = << >> \/ \E t : d = <<t>> /\ Arrived(r, i, t)
  <1>1. Delivered[r][i] =
          IF r.setid \in Drive THEN Arrivals(Reaction(r, i)) ELSE {<< >>}
    BY DEF Delivered
  <1>2. Whole(Reaction(r, i))
    BY ReactionParts
  <1>3. Arrived(r, i, Reaction(r, i))
    BY <1>2 DEF Whole, Arrived, Announced, HeaderLength, UserHeaderLength
  <1> QED BY <1>1, <1>2, <1>3, DamagedArrives, DroppedArrives DEF Arrivals
-----------------------------------------------------------------------------
(* Types, whoever uses the port and whatever happens on the line.          *)

LEMMA FirstSegment ==
  ASSUME NEW r \in Request
  PROVE  1 \in DOMAIN Segments[r]
  <1>1. Len(Segments[r]) \in Nat \ {0} /\ DOMAIN Segments[r] = 1..Len(Segments[r])
    BY JoinedStep
  <1> QED BY <1>1

LEMMA DeliveryBytes ==
  ASSUME NEW r \in Request, NEW i \in DOMAIN Segments[r], NEW d \in Delivered[r][i]
  PROVE  d = << >> \/ \E t \in Seq(Byte) : d = <<t>>
  <1> DEFINE t == Reaction(r, i)
  <1>1. Delivered[r][i] = IF r.setid \in Drive THEN Arrivals(t) ELSE {<< >>}
    BY DEF Delivered
  <1>2. t \in Seq(Byte)
    BY ReactionParts DEF Whole
  <1> HIDE DEF t
  <1>3. Damaged(t) \subseteq Seq(Byte)
    <2>1. {0, 1, 254, 255} \subseteq Byte
      BY Bytes
    <2>2. ASSUME NEW k \in DOMAIN t PROVE (t[k] + 255) % 256 \in Byte
      <3>1. t[k] \in Byte
        BY <1>2
      <3>2. t[k] \in Int
        BY <3>1, Bytes
      <3> QED BY <3>2, Bytes
    <2>3. ASSUME NEW k \in DOMAIN t, NEW b \in Byte PROVE [t EXCEPT ![k] = b] \in Seq(Byte)
      BY <1>2
    <2>4. ASSUME NEW k \in DamageAt \cap DOMAIN t PROVE [t EXCEPT ![k] = (@ + 255) % 256] \in Seq(Byte)
      BY <2>2, <2>3
    <2> QED BY <2>1, <2>3, <2>4 DEF Damaged
  <1>4. ASSUME NEW j \in DOMAIN t PROVE RemoveAt(t, j) \in Seq(Byte)
    <2>1. SubSeq(t, 1, j - 1) \in Seq(Byte) /\ SubSeq(t, j + 1, Len(t)) \in Seq(Byte)
      BY <1>2
    <2>2. SubSeq(t, 1, j - 1) \o SubSeq(t, j + 1, Len(t)) \in Seq(Byte)
      BY <2>1, ConcatProperties
    <2> QED BY <2>2 DEF RemoveAt
  <1> QED BY <1>1, <1>2, <1>3, <1>4 DEF Arrivals

LEMMA TypeSend ==
  ASSUME TypeInv, NEW c \in Client, Send(c)
  PROVE  TypeInv'
  <1>1. request[c] \in Request /\ segment[c] \in DOMAIN Segments[request[c]]
    BY ExchangeAssumption DEF Send, TypeInv, TypeOK
  <1>2. PICK d \in Delivered[request[c]][segment[c]] : line' = line \o d
    BY DEF Send
  <1>3. d \in Seq(Seq(Byte))
    <2>1. d = << >> \/ \E t \in Seq(Byte) : d = <<t>>
      BY <1>1, DeliveryBytes
    <2>2. << >> \in Seq(Seq(Byte)) /\ \A t \in Seq(Byte) : <<t>> \in Seq(Seq(Byte))
      OBVIOUS
    <2> QED BY <2>1, <2>2
  <1>4. line' \in Seq(Seq(Byte))
    <2>1. line \in Seq(Seq(Byte))
      BY DEF TypeInv, TypeOK
    <2> QED BY <1>2, <1>3, <2>1, ConcatProperties
  <1>5. /\ pc' = [pc EXCEPT ![c] = "header"]
        /\ UNCHANGED <<request, segment, header, DATA, success, FBuffer>>
    BY DEF Send
  <1> QED BY <1>1, <1>4, <1>5 DEF TypeInv, TypeOK

LEMMA TypeCall ==
  ASSUME TypeInv, NEW c \in Client, NEW r \in Request, Call(c, r)
  PROVE  TypeInv'
  <1>1. 1 \in DOMAIN Segments[r]
    BY FirstSegment
  <1>2. << >> \in Seq(Byte)
    OBVIOUS
  <1> QED BY <1>1, <1>2 DEF Call, TypeInv, TypeOK

LEMMA TypeHeader ==
  ASSUME TypeInv, NEW c \in Client, RecvHeader(c)
  PROVE  TypeInv'
  <1> DEFINE h == SubSeq(FBuffer, 1, HeaderLength)
  <1>1. FBuffer \in Seq(Byte) /\ Len(FBuffer) >= HeaderLength
    BY DEF TypeInv, TypeOK, RecvHeader, Receive
  <1>2. h \in Seq(Byte) /\ Len(h) = HeaderLength
    BY <1>1 DEF HeaderLength
  <1>3. FBuffer' \in Seq(Byte)
    <2>1. FBuffer' = SubSeq(FBuffer, HeaderLength + 1, Len(FBuffer))
      BY DEF RecvHeader, Receive
    <2> QED BY <1>1, <2>1 DEF HeaderLength
  <1> HIDE DEF h
  <1>4. /\ header' = [header EXCEPT ![c] = h]
        /\ UNCHANGED <<request, segment, DATA, line>>
        /\ \/ pc' = [pc EXCEPT ![c] = "idle"] /\ success' = [success EXCEPT ![c] = TRUE]
           \/ pc' = [pc EXCEPT ![c] = "data"] /\ UNCHANGED success
        /\ pc[c] = "header"
    BY DEF RecvHeader, Finish, h
  <1>5. header' \in [Client -> Seq(Byte)] /\ header'[c] = h
    BY <1>2, <1>4 DEF TypeInv, TypeOK
  <1>6. ASSUME NEW x \in Client
        PROVE  /\ pc'[x] # "idle" => request'[x] \in Request
               /\ pc'[x] = "data" => Len(header'[x]) = HeaderLength
    <2>1. CASE x = c
      BY <1>2, <1>4, <1>5, <2>1 DEF TypeInv, TypeOK
    <2>2. CASE x # c
      <3>1. pc'[x] = pc[x] /\ header'[x] = header[x]
        BY <1>4, <2>2 DEF TypeInv, TypeOK
      <3> QED BY <1>4, <3>1 DEF TypeInv
    <2> QED BY <2>1, <2>2
  <1>7. pc' \in [Client -> {"idle", "send", "header", "data"}] /\ success' \in [Client -> BOOLEAN]
    BY <1>4 DEF TypeInv, TypeOK
  <1>8. TypeOK'
    BY <1>3, <1>4, <1>5, <1>7 DEF TypeInv, TypeOK
  <1> QED BY <1>6, <1>8 DEF TypeInv

LEMMA TypeData ==
  ASSUME TypeInv, NEW c \in Client, RecvData(c)
  PROVE  TypeInv'
  <1> DEFINE user == SubSeq(FBuffer, 1, DataLen(header[c]))
  <1>1. FBuffer \in Seq(Byte) /\ Len(FBuffer) >= DataLen(header[c])
    BY DEF TypeInv, TypeOK, RecvData, Receive
  <1>2. DataLen(header[c]) \in Nat
    <2>1. header[c] \in Seq(Byte) /\ Len(header[c]) = 8
      BY DEF TypeInv, TypeOK, RecvData, HeaderLength
    <2>2. header[c][3] \in Byte
      BY <2>1
    <2> QED BY <2>2, Bytes DEF DataLen
  <1>3. user \in Seq(Byte)
    BY <1>1, <1>2
  <1>4. FBuffer' \in Seq(Byte)
    <2>1. FBuffer' = SubSeq(FBuffer, DataLen(header[c]) + 1, Len(FBuffer))
      BY DEF RecvData, Receive
    <2> QED BY <1>1, <1>2, <2>1
  <1> HIDE DEF user
  <1>5. Extended(DATA[c], user) \in Seq(Byte)
    <2>1. SubSeq(user, UserHeaderLength + 1, Len(user)) \in Seq(Byte)
      BY <1>3 DEF UserHeaderLength
    <2>2. DATA[c] \in Seq(Byte)
      BY DEF TypeInv, TypeOK
    <2> QED BY <2>1, <2>2, ConcatProperties DEF Extended
  <1>6. /\ pc[c] = "data" /\ UNCHANGED <<request, header, line>>
        /\ DATA' = [DATA EXCEPT ![c] = Extended(@, user)] \/ UNCHANGED DATA
        /\ segment' = [segment EXCEPT ![c] = NextSegment(c)] \/ UNCHANGED segment
        /\ \/ /\ pc' = [pc EXCEPT ![c] = "idle"]
              /\ \E b \in BOOLEAN : success' = [success EXCEPT ![c] = b]
           \/ pc' = [pc EXCEPT ![c] = "send"] /\ UNCHANGED success
    BY DEF RecvData, Finish, user
  <1>7. DATA' \in [Client -> Seq(Byte)]
    BY <1>5, <1>6 DEF TypeInv, TypeOK
  <1>8. /\ segment' \in [Client -> Nat \ {0}]
        /\ \A x \in Client : request[x] # NoRequest => segment'[x] \in DOMAIN Segments[request[x]]
    <2>1. request[c] \in Request /\ segment[c] \in Nat \ {0}
      BY <1>6 DEF TypeInv, TypeOK
    <2>2. Len(Segments[request[c]]) \in Nat \ {0}
          /\ DOMAIN Segments[request[c]] = 1..Len(Segments[request[c]])
      BY <2>1, JoinedStep
    <2>3. NextSegment(c) \in 1..Len(Segments[request[c]]) /\ NextSegment(c) \in Nat \ {0}
      BY <2>1, <2>2 DEF NextSegment
    <2> QED BY <1>6, <2>2, <2>3 DEF TypeInv, TypeOK
  <1>9. pc' \in [Client -> {"idle", "send", "header", "data"}] /\ success' \in [Client -> BOOLEAN]
    BY <1>6 DEF TypeInv, TypeOK
  <1>10. TypeOK'
    BY <1>4, <1>6, <1>7, <1>8, <1>9 DEF TypeInv, TypeOK
  <1>11. ASSUME NEW x \in Client
         PROVE  /\ pc'[x] # "idle" => request'[x] \in Request
                /\ pc'[x] = "data" => Len(header'[x]) = HeaderLength
    <2>1. CASE x = c
      BY <1>6, <2>1 DEF TypeInv, TypeOK
    <2>2. CASE x # c
      <3>1. pc'[x] = pc[x]
        BY <1>6, <2>2 DEF TypeInv, TypeOK
      <3> QED BY <1>6, <3>1 DEF TypeInv
    <2> QED BY <2>1, <2>2
  <1> QED BY <1>10, <1>11 DEF TypeInv

LEMMA TypeTimeout ==
  ASSUME TypeInv, NEW c \in Client, Timeout(c)
  PROVE  TypeInv'
  <1>1. << >> \in Seq(Byte)
    OBVIOUS
  <1> QED BY <1>1 DEF Timeout, Finish, TypeInv, TypeOK

LEMMA TypeArrive ==
  ASSUME TypeInv, Arrive
  PROVE  TypeInv'
  <1>1. line \in Seq(Seq(Byte)) /\ line # << >> /\ FBuffer \in Seq(Byte)
    BY DEF Arrive, TypeInv, TypeOK
  <1>2. Head(line) \in Seq(Byte) /\ Tail(line) \in Seq(Seq(Byte))
    BY <1>1, HeadTailProperties
  <1>3. FBuffer \o Head(line) \in Seq(Byte)
    BY <1>1, <1>2, ConcatProperties
  <1> QED BY <1>2, <1>3 DEF Arrive, TypeInv, TypeOK

LEMMA TypeInit == Init => TypeInv
  <1>1. << >> \in Seq(Byte) /\ << >> \in Seq(Seq(Byte)) /\ 1 \in Nat \ {0}
    OBVIOUS
  <1> QED BY <1>1 DEF Init, TypeInv, TypeOK

LEMMA TypeStep ==
  ASSUME TypeInv, [Next]_vars
  PROVE  TypeInv'
  <1>1. CASE UNCHANGED vars
    BY <1>1 DEF vars, TypeInv, TypeOK
  <1> QED
    BY <1>1, TypeSend, TypeCall, TypeHeader, TypeData, TypeTimeout, TypeArrive
    DEF Next, Step

(* Every variable has a value of its kind, and a request that is under way *)
(* is at one of its segments, whatever the line does and however many      *)
(* threads share the port (commworker.pas 253-311).                        *)
THEOREM TypeCorrect == Spec => []TypeOK
  <1>1. TypeInv => TypeOK
    BY DEF TypeInv
  <1> QED BY <1>1, TypeInit, TypeStep, PTL DEF Spec
-----------------------------------------------------------------------------
(* What the steps of one client do to the place of the bytes and the data. *)

\* What has come before a segment is a prefix of the answer.
LEMMA BeforePrefix ==
  ASSUME NEW r \in Request, NEW i \in DOMAIN Segments[r]
  PROVE  /\ Before(r, i) \in Seq(Byte) /\ Answer(r) \in Seq(Byte)
         /\ IsPrefix(Before(r, i), Answer(r))
  <1>1. /\ Len(Segments[r]) \in Nat \ {0} /\ DOMAIN Segments[r] = 1..Len(Segments[r])
        /\ \A k \in 0..Len(Segments[r]) : Joined(Segments[r])[k] \in Seq(Byte)
    BY JoinedStep
  <1>2. RefusalCode \in Seq(Byte) /\ << >> \in Seq(Byte)
    <2>1. 9 \in Byte /\ 112 \in Byte
      BY Bytes
    <2> QED BY <2>1 DEF RefusalCode
  <1>3. CASE r \in Refused
    <2>1. ASSUME NEW s \in Seq(Byte) PROVE IsPrefix(<< >>, s)
      BY <1>2 DEF IsPrefix
    <2> QED BY <1>2, <1>3, <2>1 DEF Before, Answer
  <1>4. CASE r \notin Refused
    <2>1. i - 1 \in 0..Len(Segments[r]) /\ Len(Segments[r]) \in 0..Len(Segments[r])
      BY <1>1
    <2>2. IsPrefix(Joined(Segments[r])[i - 1], Joined(Segments[r])[Len(Segments[r])])
      BY <2>1, JoinedPrefix
    <2> QED BY <1>1, <1>4, <2>1, <2>2 DEF Before, Answer
  <1> QED BY <1>3, <1>4

LEMMA UnderWay ==
  ASSUME Inv, NEW c \in Client, pc[c] # "idle"
  PROVE  /\ request[c] \in Request /\ segment[c] \in DOMAIN Segments[request[c]]
         /\ DATA[c] = Before(request[c], segment[c])
         /\ request[c] \in Refused => segment[c] = 1
  <1>1. request[c] \in Request
    BY DEF Inv, TypeInv
  <1>2. segment[c] \in DOMAIN Segments[request[c]]
    BY <1>1, ExchangeAssumption DEF Inv, TypeInv, TypeOK
  <1> QED BY <1>1, <1>2 DEF Inv, Collected

LEMMA SendStep ==
  ASSUME Inv, 3 \notin DamageAt, NEW c, Client = {c}, Send(c)
  PROVE  (Place(c) /\ Collected(c))'
  <1>1. /\ pc[c] = "send" /\ request[c] \in Request
        /\ segment[c] \in DOMAIN Segments[request[c]]
        /\ line = << >> /\ FBuffer = << >>
    BY UnderWay DEF Send, Inv, Place
  <1>2. PICK d \in Delivered[request[c]][segment[c]] : line' = line \o d
    BY DEF Send
  <1>3. d = << >> \/ \E t : d = <<t>> /\ Arrived(request[c], segment[c], t)
    BY <1>1, Deliveries
  <1>4. line' = d
    BY <1>1, <1>2, <1>3
  <1>5. /\ FBuffer' = << >> /\ pc'[c] = "header"
        /\ UNCHANGED <<request, segment, header, DATA>>
    BY <1>1 DEF Send, Inv, TypeInv, TypeOK
  <1>6. AtHeader(c)'
    BY <1>3, <1>4, <1>5 DEF AtHeader
  <1>7. Place(c)'
    BY <1>5, <1>6 DEF Place
  <1>8. Collected(c)'
    BY <1>1, <1>5 DEF Inv, Collected, Over
  <1> QED BY <1>7, <1>8

LEMMA HeaderStep ==
  ASSUME Inv, NEW c, Client = {c}, RecvHeader(c)
  PROVE  (Place(c) /\ Collected(c))'
  <1> DEFINE h == SubSeq(FBuffer, 1, HeaderLength)
             rest == SubSeq(FBuffer, HeaderLength + 1, Len(FBuffer))
  <1>1. AtHeader(c) /\ Len(FBuffer) >= HeaderLength /\ pc[c] = "header"
    BY DEF RecvHeader, Receive, Inv, Place
  <1>2. line = << >> /\ Arrived(request[c], segment[c], FBuffer)
    BY <1>1 DEF AtHeader, HeaderLength
  <1>3. FBuffer \in Seq(Byte) /\ DataLen(FBuffer) # 0
    BY <1>2 DEF Arrived, Announced
  <1>4. FBuffer = h \o rest /\ h[3] = FBuffer[3]
    BY <1>1, <1>3, ConcatAdjacentSubSeq DEF HeaderLength
  <1>5. header' = [header EXCEPT ![c] = h] /\ FBuffer' = rest
    BY DEF RecvHeader, Receive
  <1> HIDE DEF h, rest
  <1>6. header'[c] = h
    BY <1>5 DEF Inv, TypeInv, TypeOK
  <1>7. pc' = [pc EXCEPT ![c] = "data"] /\ UNCHANGED <<request, segment, DATA, line>>
    BY <1>3, <1>4, <1>6 DEF RecvHeader, DataLen
  <1>8. pc'[c] = "data"
    BY <1>7 DEF Inv, TypeInv, TypeOK
  <1>9. AtData(c)'
    BY <1>2, <1>4, <1>5, <1>6, <1>7 DEF AtData
  <1>10. Place(c)'
    BY <1>8, <1>9 DEF Place
  <1>11. Collected(c)'
    BY <1>1, <1>7, <1>8 DEF Inv, Collected, Over
  <1> QED BY <1>10, <1>11

\* A telegram that is taken for whole is the reaction; one that is not is
\* thrown away with everything that has come of it.
LEMMA DataArrived ==
  ASSUME Inv, NEW c, Client = {c}, RecvData(c)
  PROVE  LET user == SubSeq(FBuffer, 1, DataLen(header[c]))
         IN  /\ line = << >> /\ FBuffer' = << >> /\ user = FBuffer
             /\ CrcOK(header[c], user) =>
                  /\ header[c] = HeaderOf(request[c], segment[c])
                  /\ user = UserOf(request[c], segment[c])
  <1> DEFINE u == header[c] \o FBuffer
             r == request[c]
             i == segment[c]
  <1>1. /\ line = << >> /\ Arrived(r, i, u)
        /\ r \in Request /\ i \in DOMAIN Segments[r] /\ Len(header[c]) = 8
        /\ header[c] \in Seq(Byte) /\ FBuffer \in Seq(Byte)
    BY UnderWay DEF RecvData, Inv, TypeInv, TypeOK, Place, AtData, HeaderLength
  <1>2. Len(u) = 8 + Len(FBuffer) /\ u[3] = header[c][3]
    <2>1. ASSUME NEW a \in Seq(Byte), NEW b \in Seq(Byte), Len(a) = 8
          PROVE  Len(a \o b) = 8 + Len(b) /\ (a \o b)[3] = a[3]
      <3>1. Len(a) \in Nat /\ 3 \in 1..Len(a)
        BY <2>1
      <3>2. Len(a \o b) = Len(a) + Len(b) /\ \A k \in 1..Len(a) : (a \o b)[k] = a[k]
        BY ConcatBytes
      <3> QED BY <2>1, <3>1, <3>2
    <2> QED BY <1>1, <2>1
  <1>3. /\ Len(FBuffer) >= DataLen(header[c])
        /\ FBuffer' = SubSeq(FBuffer, DataLen(header[c]) + 1, Len(FBuffer))
    BY DEF RecvData, Receive
  <1>4. Arrived(r, i, u) => /\ DataLen(u) \in Nat /\ Len(u) <= HeaderLength + DataLen(u)
                            /\ Len(u) = HeaderLength + DataLen(u) => u = Reaction(r, i) \/ Total(u) # 0
    BY DEF Arrived, Announced
  <1> HIDE DEF u
  <1>5. /\ Len(FBuffer) = DataLen(header[c]) /\ Len(u) = HeaderLength + DataLen(u)
        /\ Len(FBuffer) \in Nat
    BY <1>1, <1>2, <1>3, <1>4 DEF DataLen, HeaderLength
  <1>6. FBuffer' = << >> /\ SubSeq(FBuffer, 1, DataLen(header[c])) = FBuffer
    BY <1>1, <1>3, <1>5
  <1>7. ASSUME CrcOK(header[c], FBuffer)
        PROVE  header[c] = HeaderOf(r, i) /\ FBuffer = UserOf(r, i)
    <2>1. u = Reaction(r, i)
      BY <1>1, <1>4, <1>5, <1>7 DEF CrcOK, u
    <2>2. /\ Reaction(r, i) = HeaderOf(r, i) \o UserOf(r, i)
          /\ HeaderOf(r, i) \in Seq(Byte) /\ Len(HeaderOf(r, i)) = 8
          /\ UserOf(r, i) \in Seq(Byte)
      BY <1>1, ReactionParts, UserOfParts DEF HeaderLength
    <2>3. header[c] \o FBuffer = HeaderOf(r, i) \o UserOf(r, i)
      BY <2>1, <2>2 DEF u
    <2>4. ASSUME NEW a \in Seq(Byte), NEW b \in Seq(Byte), NEW x \in Seq(Byte),
                 NEW y \in Seq(Byte), Len(a) = 8, Len(x) = 8, a \o b = x \o y
          PROVE  a = x /\ b = y
      BY <2>4, SameParts
    <2> HIDE DEF r, i
    <2> QED BY <1>1, <2>2, <2>3, <2>4
  <1> QED BY <1>1, <1>6, <1>7

\* The data of one more segment are those of all that have come.
LEMMA OneMore ==
  ASSUME NEW r \in Request, NEW i \in DOMAIN Segments[r], r \in Refused => i = 1
  PROVE  LET n == Len(Segments[r])
             data == Extended(Before(r, i), UserOf(r, i))
             last == DataReady(HeaderOf(r, i), UserOf(r, i))
         IN  /\ last => data = Answer(r)
             /\ ~last => /\ i + 1 \in DOMAIN Segments[r] /\ r \notin Refused
                         /\ (i % n) + 1 = i + 1 /\ data = Before(r, i + 1)
  <1> DEFINE n == Len(Segments[r])
             j == Joined(Segments[r])
             user == UserOf(r, i)
  <1>1. /\ n \in Nat \ {0} /\ DOMAIN Segments[r] = 1..n
        /\ j[0] = << >>
        /\ \A k \in 0..(n - 1) : j[k + 1] = j[k] \o Segments[r][k + 1]
    BY JoinedStep
  <1>2. /\ Len(user) >= UserHeaderLength
        /\ user[2] = IF r \in Refused \/ i = n THEN 4 ELSE 0
        /\ SubSeq(user, UserHeaderLength + 1, Len(user))
             = IF r \in Refused THEN RefusalCode ELSE Segments[r][i]
    BY UserOfParts
  <1>3. Service(HeaderOf(r, i)) = 128
    BY ReactionParts
  <1> HIDE DEF user, j
  <1>4. DataReady(HeaderOf(r, i), user) <=> r \in Refused \/ i = n
    BY <1>2, <1>3 DEF DataReady, LastTransmission
  <1>5. CASE r \in Refused
    <2>1. Extended(Before(r, i), user) = << >> \o RefusalCode
      BY <1>2, <1>5 DEF Extended, Before
    <2>2. << >> \o RefusalCode = RefusalCode
      BY DEF RefusalCode
    <2> QED BY <1>4, <1>5, <2>1, <2>2 DEF Answer, user
  <1>6. CASE r \notin Refused
    <2>1. /\ i - 1 \in 0..(n - 1) /\ (i - 1) + 1 = i /\ i \in 1..n /\ (i + 1) - 1 = i
      BY <1>1
    <2>2. Extended(Before(r, i), user) = j[i]
      BY <1>1, <1>2, <1>6, <2>1 DEF Extended, Before, j
    <2>3. i # n => i + 1 \in 1..n /\ (i % n) + 1 = i + 1
      <3> HIDE DEF n
      <3>1. ASSUME i # n PROVE i < n /\ i \in Nat
        BY <1>1, <2>1, <3>1
      <3>2. \A a, b \in Nat : a < b => a % b = a
        BY SMT
      <3> QED BY <1>1, <3>1, <3>2
    <2> QED BY <1>1, <1>4, <1>6, <2>1, <2>2, <2>3 DEF Answer, Before, user, j
  <1> QED BY <1>5, <1>6

LEMMA DataStep ==
  ASSUME Inv, NEW c, Client = {c}, RecvData(c)
  PROVE  (Place(c) /\ Collected(c))'
  <1> DEFINE r == request[c]
             i == segment[c]
             h == header[c]
             user == SubSeq(FBuffer, 1, DataLen(header[c]))
  <1>1. /\ r \in Request /\ i \in DOMAIN Segments[r] /\ pc[c] = "data"
        /\ DATA[c] = Before(r, i)
        /\ r \in Refused => i = 1
    BY UnderWay DEF RecvData
  <1>2. /\ line = << >> /\ FBuffer' = << >>
        /\ CrcOK(h, user) => h = HeaderOf(r, i) /\ user = UserOf(r, i)
    BY DataArrived
  <1>3. UNCHANGED <<request, header, line>>
    BY DEF RecvData
  <1>4. pc'[c] \in {"idle", "send"}
    BY DEF RecvData, Finish, Inv, TypeInv, TypeOK
  <1>5. Place(c)'
    BY <1>2, <1>3, <1>4 DEF Place
  <1>6. CASE ~CrcOK(h, user)
    <2>1. pc'[c] = "idle" /\ ~success'[c] /\ UNCHANGED <<DATA, segment>>
      BY <1>6 DEF RecvData, Finish, Inv, TypeInv, TypeOK
    <2>2. IsPrefix(DATA[c], Answer(r))
      <3> HIDE DEF r, i
      <3> QED BY <1>1, BeforePrefix
    <2> QED BY <1>3, <1>5, <2>1, <2>2 DEF Collected, Over
  <1>7. CASE CrcOK(h, user)
    <2> DEFINE data == Extended(Before(r, i), UserOf(r, i))
    <2>1. DATA' = [DATA EXCEPT ![c] = Extended(@, user)]
      BY <1>7 DEF RecvData
    <2>2. DATA'[c] = data
      <3>1. DATA'[c] = Extended(DATA[c], user)
        BY <2>1 DEF Inv, TypeInv, TypeOK
      <3> QED BY <1>1, <1>2, <1>7, <3>1
    <2> HIDE DEF r, i, h, user
    <2>3. CASE DataReady(h, user)
      <3>1. pc'[c] = "idle" /\ UNCHANGED segment
        BY <1>7, <2>3 DEF RecvData, Finish, Inv, TypeInv, TypeOK, h, user
      <3>2. data = Answer(r)
        BY <1>1, <1>2, <1>7, <2>3, OneMore
      <3>3. IsPrefix(Answer(r), Answer(r))
        BY <1>1, BeforePrefix, PrefixByElement
      <3> QED BY <1>3, <1>5, <2>2, <3>1, <3>2, <3>3 DEF Collected, Over, r, i
    <2>4. CASE ~DataReady(h, user)
      <3>1. pc'[c] = "send" /\ segment' = [segment EXCEPT ![c] = NextSegment(c)]
        BY <1>7, <2>4 DEF RecvData, Inv, TypeInv, TypeOK, h, user
      <3>2. r \notin Refused /\ (i % Len(Segments[r])) + 1 = i + 1 /\ data = Before(r, i + 1)
        BY <1>1, <1>2, <1>7, <2>4, OneMore
      <3>4. NextSegment(c) = i + 1
        BY <3>2 DEF NextSegment, r, i
      <3>3. segment'[c] = i + 1
        BY <3>1, <3>4 DEF Inv, TypeInv, TypeOK
      <3> QED BY <1>3, <1>5, <2>2, <3>1, <3>2, <3>3 DEF Collected, Over, r, i
    <2> QED BY <2>3, <2>4
  <1> QED BY <1>6, <1>7

LEMMA TimeoutStep ==
  ASSUME Inv, "late" \notin Faults, NEW c, Client = {c}, Timeout(c)
  PROVE  (Place(c) /\ Collected(c))'
  <1>1. /\ line' = << >> /\ FBuffer' = << >>
        /\ UNCHANGED <<request, segment, header, DATA>> /\ pc[c] # "idle"
    BY DEF Timeout
  <1>2. pc'[c] = "idle" /\ ~success'[c]
    BY DEF Timeout, Finish, Inv, TypeInv, TypeOK
  <1>3. IsPrefix(DATA[c], Answer(request[c]))
    BY <1>1, UnderWay, BeforePrefix
  <1> QED BY <1>1, <1>2, <1>3 DEF Place, Collected, Over

LEMMA ArriveStep ==
  ASSUME Inv, NEW c, Client = {c}, Arrive
  PROVE  (Place(c) /\ Collected(c))'
  <1>1. line # << >> /\ Place(c)
    BY DEF Arrive, Inv
  <1>2. pc[c] = "header"
    BY <1>1 DEF Place, AtData, Inv, TypeInv, TypeOK
  <1>3. PICK t : line = <<t>> /\ Arrived(request[c], segment[c], t) /\ FBuffer = << >>
    BY <1>1, <1>2 DEF Place, AtHeader
  <1>4. line' = << >> /\ FBuffer' = t /\ UNCHANGED <<pc, request, segment, DATA, success>>
    <2>1. t \in Seq(Byte)
      BY <1>3 DEF Arrived, Announced
    <2> QED BY <1>3, <2>1 DEF Arrive
  <1>5. AtHeader(c)'
    BY <1>3, <1>4 DEF AtHeader
  <1>6. Collected(c)'
    BY <1>4 DEF Inv, Collected, Over
  <1> QED BY <1>2, <1>4, <1>5, <1>6 DEF Place

LEMMA CallStep ==
  ASSUME Inv, NEW c, Client = {c}, NEW r \in Request, Call(c, r)
  PROVE  (Place(c) /\ Collected(c))'
  <1>1. /\ pc[c] = "idle" /\ pc'[c] = "send" /\ request'[c] = r /\ segment'[c] = 1
        /\ DATA'[c] = << >> /\ UNCHANGED <<FBuffer, line>>
    BY DEF Call, Inv, TypeInv, TypeOK
  <1>2. Before(r, 1) = << >>
    <2>1. Joined(Segments[r])[0] = << >>
      BY JoinedStep
    <2>2. Joined(Segments[r])[1 - 1] = << >>
      BY <2>1
    <2> QED BY <2>2 DEF Before
  <1>3. Place(c)'
    BY <1>1 DEF Inv, Place
  <1> QED BY <1>1, <1>2, <1>3 DEF Collected, Over

\* Bytes and data are where one client expects them, at every step.
LEMMA InvAlways ==
  ASSUME Alone, "late" \notin Faults, 3 \notin DamageAt
  PROVE  Spec => []Inv
  <1>1. PICK c : Client = {c}
    BY DEF Alone
  <1>2. Init => Inv
    <2>1. ASSUME Init PROVE Place(c) /\ Collected(c)
      BY <1>1, <2>1 DEF Init, Place, Collected, Over
    <2> QED BY <1>1, <2>1, TypeInit DEF Inv
  <1>3. Inv /\ [Next]_vars => Inv'
    <2> SUFFICES ASSUME Inv, [Next]_vars PROVE Inv'
      OBVIOUS
    <2>1. TypeInv'
      BY TypeStep DEF Inv
    <2>2. (Place(c) /\ Collected(c))'
      <3>1. CASE UNCHANGED vars
        BY <1>1, <3>1 DEF vars, Inv, Place, AtHeader, AtData, Collected, Over
      <3> QED
        BY <1>1, <3>1, SendStep, HeaderStep, DataStep, TimeoutStep, ArriveStep, CallStep
        DEF Next, Step
    <2> QED BY <1>1, <2>1, <2>2 DEF Inv
  <1> QED BY <1>2, <1>3, PTL DEF Spec

\* Whatever happens to reactions on the way, as long as their length is right:
\* the next exchange starts with the first byte of its own (commworker.pas
\* 263-275, the loss of the bytes at a timeout).
THEOREM LeavesClean ==
  ASSUME Alone, "late" \notin Faults, 3 \notin DamageAt
  PROVE  Spec => []NothingLeftToRead
  <1>1. Inv => NothingLeftToRead
    BY DEF Alone, Inv, Place, NothingLeftToRead, Quiet
  <1> QED BY <1>1, InvAlways, PTL

\* What an exchange accepts is the data of the parameter it asked for, all of
\* its segments in order; what it failed with is the segments before the one
\* that was lost (commworker.pas 278-305: length, checksum, last transmission).
THEOREM AcceptedAnswers ==
  ASSUME Alone, "late" \notin Faults, 3 \notin DamageAt
  PROVE  Spec => []AcceptedIsAnswer
  <1>1. Inv => AcceptedIsAnswer
    BY DEF Inv, Collected, AcceptedIsAnswer
  <1> QED BY <1>1, InvAlways, PTL
=============================================================================
