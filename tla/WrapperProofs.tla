--------------------------- MODULE WrapperProofs ---------------------------
(***************************************************************************)
(* Proofs about Wrapper, for one controlling thread m beside any number of *)
(* threads that only look, any functions and sequences, every fault, any   *)
(* capacity and number of calls.  The invariant Inv says at which step m   *)
(* is of which function (todo[m] is the rest of the function's steps from  *)
(* there), and what commands, level, mode and trigger of the drive are     *)
(* while it is there (CommandAt, ActivationAt, TriggerAt).  First what the *)
(* functions consist of, step by step; then what a step does to the drive; *)
(* then the invariant, action by action.  TypeInv, of every state with any *)
(* number of controllers, and Sequencing, what is there of a sequence that *)
(* m writes, follow at the end.                                            *)
(***************************************************************************)
EXTENDS Wrapper, TLAPS

(* The steps of a function from the i-th on.                               *)
IsSeq(P) == \E S : P \in Seq(S)
Rest(P, i) == SubSeq(P, i, Len(P))

\* Sequences, of whatever kind of elements.
LEMMA Single ==
  ASSUME NEW r
  PROVE  IsSeq(<<r>>) /\ Len(<<r>>) = 1 /\ <<r>>[1] = r
  <1>1. <<r>> \in Seq({r})
    OBVIOUS
  <1> QED BY <1>1 DEF IsSeq

\* What a concatenation holds.
LEMMA Concat ==
  ASSUME NEW A, NEW B, IsSeq(A), IsSeq(B)
  PROVE  /\ IsSeq(A \o B) /\ Len(A \o B) = Len(A) + Len(B)
         /\ Len(A) \in Nat /\ Len(B) \in Nat
         /\ \A i \in 1..Len(A) : (A \o B)[i] = A[i]
         /\ \A i \in 1..Len(B) : (A \o B)[Len(A) + i] = B[i]
  <1>1. PICK S, T : A \in Seq(S) /\ B \in Seq(T)
    BY DEF IsSeq
  <1>2. A \in Seq(S \cup T) /\ B \in Seq(S \cup T)
    BY <1>1
  <1>3. A \o B \in Seq(S \cup T)
    BY <1>2
  <1> QED BY <1>2, <1>3 DEF IsSeq

\* The same with one element at the end.
LEMMA Snoc ==
  \A A, B : IsSeq(A) /\ IsSeq(B) /\ Len(B) = 1 =>
    /\ IsSeq(A \o B) /\ Len(A \o B) = Len(A) + 1
    /\ \A i \in 1..Len(A) : (A \o B)[i] = A[i]
    /\ (A \o B)[Len(A) + 1] = B[1]
  <1>1. ASSUME NEW A, NEW B, IsSeq(A), IsSeq(B)
        PROVE  /\ IsSeq(A \o B) /\ Len(A \o B) = Len(A) + Len(B)
               /\ Len(A) \in Nat /\ Len(B) \in Nat
               /\ \A i \in 1..Len(A) : (A \o B)[i] = A[i]
               /\ \A i \in 1..Len(B) : (A \o B)[Len(A) + i] = B[i]
    BY <1>1, Concat
  <1>2. ASSUME NEW A, NEW B, IsSeq(A), IsSeq(B), Len(B) = 1
        PROVE  /\ IsSeq(A \o B) /\ Len(A \o B) = Len(A) + 1
               /\ \A i \in 1..Len(A) : (A \o B)[i] = A[i]
               /\ (A \o B)[Len(A) + 1] = B[1]
    <2>1. IsSeq(A) /\ IsSeq(B)
      BY <1>2
    <2>2. /\ IsSeq(A \o B) /\ Len(A \o B) = Len(A) + Len(B)
          /\ Len(A) \in Nat /\ Len(B) \in Nat
          /\ \A i \in 1..Len(A) : (A \o B)[i] = A[i]
          /\ \A i \in 1..Len(B) : (A \o B)[Len(A) + i] = B[i]
      BY <2>1, <1>1
    <2> QED BY <1>2, <2>2
  <1> QED BY <1>2

\* The rest of a function from one of its steps on.
LEMMA RestFirst ==
  ASSUME NEW P, IsSeq(P), NEW i \in 1..Len(P)
  PROVE  /\ IsSeq(Rest(P, i)) /\ Rest(P, i) # <<>> /\ Head(Rest(P, i)) = P[i]
         /\ Tail(Rest(P, i)) = Rest(P, i + 1)
         /\ Rest(P, 1) = P /\ Rest(P, Len(P) + 1) = <<>>
  <1>1. PICK S : P \in Seq(S)
    BY DEF IsSeq
  <1>2. Rest(P, i) \in Seq(S) /\ Len(Rest(P, i)) = Len(P) + 1 - i
    BY <1>1 DEF Rest
  <1>3. Rest(P, i) # <<>>
    BY <1>1, <1>2
  <1>4. Head(Rest(P, i)) = P[i]
    BY <1>1, <1>2, <1>3 DEF Rest
  <1>5. Tail(Rest(P, i)) = Rest(P, i + 1)
    BY <1>1 DEF Rest
  <1>6. Rest(P, 1) = P
    BY <1>1 DEF Rest
  <1>7. Rest(P, Len(P) + 1) = <<>>
    BY <1>1 DEF Rest
  <1> QED BY <1>2, <1>3, <1>4, <1>5, <1>6, <1>7 DEF IsSeq

\* Steps left out at the start.
LEMMA RestSkip ==
  ASSUME NEW P, IsSeq(P), NEW k \in 1..Len(P) + 1
  PROVE  SubSeq(Rest(P, 1), k, Len(Rest(P, 1))) = Rest(P, k)
  <1>1. PICK S : P \in Seq(S)
    BY DEF IsSeq
  <1>2. Rest(P, 1) = P
    BY <1>1 DEF Rest
  <1> QED BY <1>2 DEF Rest

\* What is left after some steps are steps of before.
LEMMA RestOf ==
  ASSUME NEW P, IsSeq(P), P # <<>>
  PROVE  /\ IsSeq(Tail(P)) /\ Head(P) = P[1] /\ 1 \in 1..Len(P)
         /\ \A i \in 1..Len(Tail(P)) : \E j \in 1..Len(P) : Tail(P)[i] = P[j]
         /\ \A k \in Nat : LET Q == SubSeq(P, k + 2, Len(P))
                           IN  /\ IsSeq(Q)
                               /\ \A i \in 1..Len(Q) : \E j \in 1..Len(P) : Q[i] = P[j]
  <1>1. PICK S : P \in Seq(S)
    BY DEF IsSeq
  <1>2. 1 \in 1..Len(P) /\ Head(P) = P[1] /\ Len(P) \in Nat
    BY <1>1
  <1>3. Tail(P) \in Seq(S) /\ Len(Tail(P)) = Len(P) - 1
    BY <1>1
  <1>4. ASSUME NEW i \in 1..Len(Tail(P)) PROVE \E j \in 1..Len(P) : Tail(P)[i] = P[j]
    <2>1. Tail(P)[i] = P[i + 1] /\ i + 1 \in 1..Len(P)
      BY <1>1, <1>3
    <2> QED BY <2>1
  <1>5. ASSUME NEW k \in Nat
        PROVE  LET Q == SubSeq(P, k + 2, Len(P))
               IN  /\ IsSeq(Q)
                   /\ \A i \in 1..Len(Q) : \E j \in 1..Len(P) : Q[i] = P[j]
    <2> DEFINE Q == SubSeq(P, k + 2, Len(P))
    <2>1. CASE k + 2 > Len(P)
      <3>1. Q \in Seq(S) /\ Len(Q) = 0
        BY <1>1, <1>2, <2>1
      <3> HIDE DEF Q
      <3>2. IsSeq(Q) /\ \A i \in 1..Len(Q) : \E j \in 1..Len(P) : Q[i] = P[j]
        BY <3>1 DEF IsSeq
      <3> QED BY <3>2 DEF Q
    <2>2. CASE k + 2 <= Len(P)
      <3>1. Q \in Seq(S) /\ Len(Q) = Len(P) - k - 1
        BY <1>1, <1>2, <2>2
      <3>2. \A i \in 1..(Len(P) - k - 1) : Q[i] = P[i + k + 1]
        BY <1>1, <1>2, <2>2
      <3> HIDE DEF Q
      <3>3. ASSUME NEW i \in 1..Len(Q) PROVE \E j \in 1..Len(P) : Q[i] = P[j]
        <4>1. Q[i] = P[i + k + 1] /\ i + k + 1 \in 1..Len(P)
          BY <1>2, <2>2, <3>1, <3>2
        <4> QED BY <4>1
      <3>4. IsSeq(Q)
        BY <3>1 DEF IsSeq
      <3> QED BY <3>3, <3>4 DEF Q
    <2> QED BY <1>2, <2>1, <2>2
  <1> QED BY <1>2, <1>3, <1>4, <1>5 DEF IsSeq

(* Steps that leave commands and level of the drive alone, and its mode.   *)
Plain(s) ==
  /\ s.do \in {"read", "unless", "write", "elm", "poll"}
  /\ s.do = "unless" => s.skip \in Nat
  /\ s.do = "elm" => s.of \in List /\ s.pos \in Nat \ {0}
  /\ s.do = "write" => s.of # "S32" /\ (s.of = "P1372" => s.val \in {0, 1})

AllPlain(P) == IsSeq(P) /\ \A i \in 1..Len(P) : Plain(P[i])

\* Plain functions one after the other.
LEMMA PlainConcat ==
  ASSUME NEW A, NEW B, AllPlain(A), AllPlain(B)
  PROVE  AllPlain(A \o B)
  <1>1. /\ IsSeq(A \o B) /\ Len(A \o B) = Len(A) + Len(B)
        /\ Len(A) \in Nat /\ Len(B) \in Nat
        /\ \A i \in 1..Len(A) : (A \o B)[i] = A[i]
        /\ \A i \in 1..Len(B) : (A \o B)[Len(A) + i] = B[i]
    BY Concat DEF AllPlain
  <1> DEFINE C == A \o B
  <1> HIDE DEF C
  <1>2. ASSUME NEW i \in 1..Len(C) PROVE Plain(C[i])
    <2>1. CASE i \in 1..Len(A)
      BY <1>1, <2>1 DEF C, AllPlain
    <2>2. CASE i \notin 1..Len(A)
      <3>1. i - Len(A) \in 1..Len(B) /\ i = Len(A) + (i - Len(A))
        BY <1>1, <2>2 DEF C
      <3>2. C[i] = B[i - Len(A)]
        BY <1>1, <3>1 DEF C
      <3> QED BY <3>1, <3>2 DEF AllPlain
    <2> QED BY <2>1, <2>2
  <1> QED BY <1>1, <1>2 DEF AllPlain, C

\* A plain step alone.
LEMMA PlainSingle ==
  ASSUME NEW s, Plain(s)
  PROVE  AllPlain(<<s>>)
  BY Single DEF AllPlain

\* Reads, writes and list elements are plain.
LEMMA PlainSteps ==
  /\ \A p : AllPlain(Read(p))
  /\ \A p, v : p # "S32" /\ p # "P1372" => AllPlain(Write(p, v))
  /\ \A v \in {0, 1} : AllPlain(Write("P1372", v))
  /\ \A l \in List, pos \in Nat \ {0} : \A v : AllPlain(WriteElm(l, pos, v))
  /\ AllPlain(WhileFinished)
  <1>1. \A p : AllPlain(Read(p))
    BY PlainSingle DEF Plain, Read
  <1>2. \A p, v : p # "S32" /\ p # "P1372" => AllPlain(Write(p, v))
    BY PlainSingle DEF Plain, Write
  <1>3. \A v \in {0, 1} : AllPlain(Write("P1372", v))
    BY PlainSingle DEF Plain, Write
  <1>4. \A l \in List, pos \in Nat \ {0} : \A v : AllPlain(WriteElm(l, pos, v))
    BY PlainSingle DEF Plain, WriteElm
  <1>5. AllPlain(WhileFinished)
    BY PlainSingle DEF Plain, WhileFinished
  <1> QED BY <1>1, <1>2, <1>3, <1>4, <1>5

\* change_units and change_language.
LEMMA UnitsPlain == AllPlain(change_units) /\ AllPlain(change_language)
  <1> DEFINE s == [do |-> "unless", of |-> "S44", val |-> 2, skip |-> Len(Write("S44", 2))]
  <1>1. Len(Write("S44", 2)) = 1
    BY Single DEF Write
  <1>2. Plain(s)
    BY <1>1 DEF Plain
  <1>3. AllPlain(<<s>>) /\ AllPlain(Write("S44", 2))
    BY <1>2, PlainSingle, PlainSteps
  <1>4. change_units = <<s>> \o Write("S44", 2)
    BY DEF change_units, Unless
  <1> HIDE DEF s
  <1> QED BY <1>3, <1>4, PlainConcat, PlainSteps DEF change_language

\* speedcontrol_init and sequencer_init.
LEMMA InitPlain ==
  ASSUME NEW k
  PROVE  AllPlain(speedcontrol_init(k)) /\ AllPlain(sequencer_init(k))
  <1>1. AllPlain(change_units \o Write("S138", k))
    BY UnitsPlain, PlainSteps, PlainConcat
  <1>2. AllPlain(speedcontrol_init(k))
    BY <1>1, PlainSteps, PlainConcat DEF speedcontrol_init
  <1>3. AllPlain(speedcontrol_init(k) \o Write("P1371", 0))
    BY <1>2, PlainSteps, PlainConcat
  <1> QED BY <1>2, <1>3, PlainSteps, PlainConcat DEF sequencer_init

\* The nine steps of an element of a run sequence.
ElementStep(k, i, direction, o) ==
  LET Elm(l, pos, v) == [do |-> "elm", of |-> l, pos |-> pos, val |-> v]
  IN  CASE o = 1 -> Elm("P4007", i, k)
        [] o = 2 -> Elm("P4008", i, k)
        [] o = 3 -> Elm("P4063", i, k)
        [] o = 4 -> Elm("P4009", i, k)
        [] o = 5 -> Elm("P4019", i + 1, direction)
        [] o = 6 -> Elm("P4006", i, 0)
        [] o = 7 -> Elm("P4018", i, 0)
        [] o = 8 -> Elm("P4063", i, 0)
        [] o = 9 -> Elm("P1389", i, k)

\* They are the nine writes of an element, in this order.
LEMMA ElementSteps ==
  ASSUME NEW k, NEW i, NEW direction
  PROVE  LET P == WriteElement(k, i, direction)
         IN  /\ IsSeq(P) /\ Len(P) = 9
             /\ \A o \in 1..9 : P[o] = ElementStep(k, i, direction, o)
  <1> DEFINE w1 == WriteElm("P4007", i, k)
             w2 == w1 \o WriteElm("P4008", i, k)
             w3 == w2 \o WriteElm("P4063", i, k)
             w4 == w3 \o WriteElm("P4009", i, k)
             w5 == w4 \o WriteElm("P4019", i + 1, direction)
             w6 == w5 \o WriteElm("P4006", i, 0)
             w7 == w6 \o WriteElm("P4018", i, 0)
             w8 == w7 \o WriteElm("P4063", i, 0)
             w9 == w8 \o WriteElm("P1389", i, k)
             e(o) == ElementStep(k, i, direction, o)
             Holds(w, n) == IsSeq(w) /\ Len(w) = n /\ \A o \in 1..n : w[o] = e(o)
  <1>1. ASSUME NEW w, NEW n \in Nat, Holds(w, n), NEW m, m = n + 1,
               NEW l, NEW pos, NEW v, <<e(m)>> = WriteElm(l, pos, v)
        PROVE  Holds(w \o WriteElm(l, pos, v), m)
    <2> HIDE DEF e
    <2>1. IsSeq(<<e(m)>>) /\ Len(<<e(m)>>) = 1 /\ <<e(m)>>[1] = e(m)
      BY Single
    <2> DEFINE u == <<e(m)>>
    <2> HIDE DEF u
    <2>2. /\ IsSeq(w \o u) /\ Len(w \o u) = n + 1
          /\ \A o \in 1..n : (w \o u)[o] = w[o]
          /\ (w \o u)[n + 1] = e(m)
      BY <1>1, <2>1, Snoc DEF u
    <2>3. \A o \in 1..m : o \in 1..n \/ o = m
      BY <1>1
    <2> QED BY <1>1, <2>2, <2>3 DEF u
  <1>2. WriteElement(k, i, direction) = w9
    BY DEF WriteElement
  <1>3. Holds(w1, 1)
    BY Single DEF WriteElm, ElementStep
  <1>4. /\ <<e(2)>> = WriteElm("P4008", i, k) /\ <<e(3)>> = WriteElm("P4063", i, k)
        /\ <<e(4)>> = WriteElm("P4009", i, k)
        /\ <<e(5)>> = WriteElm("P4019", i + 1, direction)
        /\ <<e(6)>> = WriteElm("P4006", i, 0) /\ <<e(7)>> = WriteElm("P4018", i, 0)
        /\ <<e(8)>> = WriteElm("P4063", i, 0) /\ <<e(9)>> = WriteElm("P1389", i, k)
    BY DEF WriteElm, ElementStep
  <1> HIDE DEF Holds, e
  <1>5. Holds(w2, 2)
    BY <1>1, <1>3, <1>4
  <1>6. Holds(w3, 3)
    BY <1>1, <1>4, <1>5
  <1>7. Holds(w4, 4)
    BY <1>1, <1>4, <1>6
  <1>8. Holds(w5, 5)
    BY <1>1, <1>4, <1>7
  <1>9. Holds(w6, 6)
    BY <1>1, <1>4, <1>8
  <1>10. Holds(w7, 7)
    BY <1>1, <1>4, <1>9
  <1>11. Holds(w8, 8)
    BY <1>1, <1>4, <1>10
  <1>12. Holds(w9, 9)
    BY <1>1, <1>4, <1>11
  <1> HIDE DEF w9
  <1> QED BY <1>2, <1>12 DEF Holds, e

\* sequencer_write: the first direction, nine steps for each element, and the
\* number of elements.
LEMMA SequenceSteps ==
  ASSUME NEW k, NEW T, NEW directions \in Seq(T)
  PROVE  LET P == sequencer_write(k, directions)
             n == Len(directions)
         IN  /\ IsSeq(P) /\ Len(P) = 9 * n + 2
             /\ P[1] = [do |-> "elm", of |-> "P4019", pos |-> 1, val |-> "cw"]
             /\ P[9 * n + 2] = [do |-> "write", of |-> "P1370", val |-> n]
             /\ \A i \in 1..n, o \in 1..9 :
                  P[9 * i - 8 + o] = ElementStep(k, i, directions[i], o)
  <1> DEFINE n == 9 * Len(directions)
             Nine(i) == WriteElement(k, i, directions[i])
             elements == [j \in 1..n |-> Nine((j + 8) \div 9)[((j - 1) % 9) + 1]]
             first == WriteElm("P4019", 1, "cw")
             last == Write("P1370", Len(directions))
             most == first \o elements
             P == most \o last
  <1>1. n \in Nat /\ Len(directions) \in Nat
    OBVIOUS
  <1>2. IsSeq(elements) /\ Len(elements) = n
    <2> HIDE DEF n
    <2> DEFINE S == {elements[j] : j \in 1..n}
    <2>1. elements = [j \in 1..n |-> elements[j]]
      OBVIOUS
    <2> HIDE DEF elements
    <2>2. \A j \in 1..n : elements[j] \in S
      OBVIOUS
    <2> HIDE DEF S
    <2>3. elements \in [1..n -> S]
      BY <2>1, <2>2
    <2>4. elements \in Seq(S) /\ Len(elements) = n
      BY <1>1, <2>3
    <2> QED BY <2>4 DEF IsSeq
  <1>3. ASSUME NEW i \in 1..Len(directions), NEW o \in 1..9
        PROVE  /\ 9 * (i - 1) + o \in 1..n
               /\ elements[9 * (i - 1) + o] = ElementStep(k, i, directions[i], o)
    <2> DEFINE j == 9 * (i - 1) + o
    <2>1. j \in 1..n /\ (j + 8) \div 9 = i /\ ((j - 1) % 9) + 1 = o
      BY <1>1
    <2>2. Nine(i)[o] = ElementStep(k, i, directions[i], o)
      BY ElementSteps
    <2> HIDE DEF j, Nine, n
    <2>3. elements[j] = Nine((j + 8) \div 9)[((j - 1) % 9) + 1]
      BY <2>1
    <2>4. elements[j] = Nine(i)[o]
      BY <2>1, <2>3
    <2> QED BY <2>1, <2>2, <2>4 DEF j
  <1>4. sequencer_write(k, directions) = P
    BY DEF sequencer_write
  <1>5. /\ IsSeq(first) /\ Len(first) = 1 /\ IsSeq(last) /\ Len(last) = 1
        /\ first[1] = [do |-> "elm", of |-> "P4019", pos |-> 1, val |-> "cw"]
        /\ last[1] = [do |-> "write", of |-> "P1370", val |-> Len(directions)]
    BY Single DEF WriteElm, Write
  <1> HIDE DEF elements, first, last
  <1>6. /\ IsSeq(most) /\ Len(most) = 1 + n /\ most[1] = first[1]
        /\ \A j \in 1..n : most[1 + j] = elements[j]
    <2> HIDE DEF n
    <2>1. /\ IsSeq(most) /\ Len(most) = Len(first) + Len(elements)
          /\ \A j \in 1..Len(first) : most[j] = first[j]
          /\ \A j \in 1..Len(elements) : most[Len(first) + j] = elements[j]
      <3>1. IsSeq(first) /\ IsSeq(elements)
        BY <1>2, <1>5
      <3> QED BY <3>1, Concat
    <2> QED BY <1>2, <1>5, <2>1
  <1> HIDE DEF most
  <1>7. /\ IsSeq(P) /\ Len(P) = n + 2 /\ P[n + 2] = last[1]
        /\ \A j \in 1..(n + 1) : P[j] = most[j]
    <2> HIDE DEF n
    <2>1. /\ IsSeq(P) /\ Len(P) = Len(most) + 1
          /\ \A j \in 1..Len(most) : P[j] = most[j]
          /\ P[Len(most) + 1] = last[1]
      <3>1. IsSeq(most) /\ IsSeq(last) /\ Len(last) = 1
        BY <1>5, <1>6
      <3> QED BY <3>1, Snoc
    <2>2. Len(most) = n + 1 /\ Len(most) + 1 = n + 2
      BY <1>1, <1>6
    <2> QED BY <2>1, <2>2
  <1> HIDE DEF P
  <1>8. P[1] = first[1]
    <2>1. 1 \in 1..(n + 1)
      BY <1>1
    <2> QED BY <1>6, <1>7, <2>1
  <1>9. ASSUME NEW i \in 1..Len(directions), NEW o \in 1..9
        PROVE  P[9 * i - 8 + o] = ElementStep(k, i, directions[i], o)
    <2> DEFINE j == 9 * (i - 1) + o
    <2>1. j \in 1..n /\ elements[j] = ElementStep(k, i, directions[i], o)
      BY <1>3
    <2>2. 1 + j \in 1..(n + 1) /\ 9 * i - 8 + o = 1 + j
      BY <1>1, <2>1
    <2> HIDE DEF j, n
    <2>3. P[1 + j] = elements[j]
      BY <1>6, <1>7, <2>1, <2>2
    <2> QED BY <2>1, <2>2, <2>3
  <1> QED BY <1>4, <1>5, <1>7, <1>8, <1>9

\* The steps in the middle are those of the elements.
LEMMA WhichElement ==
  ASSUME NEW n \in Nat, NEW j \in 1..(9 * n + 2), j # 1, j # 9 * n + 2
  PROVE  \E i \in 1..n, o \in 1..9 : j = 9 * i - 8 + o
  <1> DEFINE i == (j + 7) \div 9
             o == ((j - 2) % 9) + 1
  <1>1. i \in 1..n /\ o \in 1..9 /\ j = 9 * i - 8 + o
    OBVIOUS
  <1> QED BY <1>1

(* The steps of a sequence: elements of lists, and at the end the number.  *)
IsSequence(P) ==
  /\ IsSeq(P) /\ Len(P) \in Nat \ {0}
  /\ \A j \in 1..(Len(P) - 1) : P[j].do = "elm" /\ P[j].of \in List /\ P[j].pos \in Nat \ {0}
  /\ P[Len(P)].do = "write" /\ P[Len(P)].of = "P1370"

\* sequencer_write is such a sequence.
LEMMA SequenceIs ==
  ASSUME NEW k, NEW T, NEW directions \in Seq(T)
  PROVE  IsSequence(sequencer_write(k, directions))
  <1> DEFINE P == sequencer_write(k, directions)
             n == Len(directions)
  <1>a. n \in Nat
    OBVIOUS
  <1>b. /\ IsSeq(P) /\ Len(P) = 9 * n + 2
        /\ P[1] = [do |-> "elm", of |-> "P4019", pos |-> 1, val |-> "cw"]
        /\ P[9 * n + 2] = [do |-> "write", of |-> "P1370", val |-> n]
        /\ \A i \in 1..n, o \in 1..9 :
             P[9 * i - 8 + o] = ElementStep(k, i, directions[i], o)
    BY SequenceSteps
  <1>1. /\ IsSeq(P) /\ Len(P) = 9 * n + 2 /\ n \in Nat
        /\ P[1] = [do |-> "elm", of |-> "P4019", pos |-> 1, val |-> "cw"]
        /\ P[9 * n + 2] = [do |-> "write", of |-> "P1370", val |-> n]
        /\ \A i \in 1..n, o \in 1..9 :
             P[9 * i - 8 + o] = ElementStep(k, i, directions[i], o)
    BY <1>a, <1>b
  <1>2. ASSUME NEW i, NEW direction, NEW o \in 1..9
        PROVE  LET s == ElementStep(k, i, direction, o)
               IN  s.do = "elm" /\ s.of \in List /\ s.pos \in {i, i + 1}
    <2>1. o \in {1, 2, 3, 4, 5, 6, 7, 8, 9}
      OBVIOUS
    <2> DEFINE s == ElementStep(k, i, direction, o)
    <2>2. s.do = "elm" /\ s.of \in List /\ s.pos \in {i, i + 1}
      BY <2>1 DEF ElementStep, List
    <2> QED BY <2>2
  <1> HIDE DEF P, n
  <1>3. ASSUME NEW j \in 1..(Len(P) - 1)
        PROVE  P[j].do = "elm" /\ P[j].of \in List /\ P[j].pos \in Nat \ {0}
    <2>1. CASE j = 1
      BY <1>1, <2>1 DEF List
    <2>2. CASE j # 1
      <3>1. j \in 1..(9 * n + 2) /\ j # 9 * n + 2
        BY <1>1
      <3>2. PICK i \in 1..n, o \in 1..9 : j = 9 * i - 8 + o
        BY <1>1, <2>2, <3>1, WhichElement
      <3> DEFINE s == ElementStep(k, i, directions[i], o)
      <3>3. P[j] = s /\ s.do = "elm" /\ s.of \in List /\ s.pos \in {i, i + 1}
        BY <1>1, <1>2, <3>2
      <3> HIDE DEF s
      <3>4. i \in Nat \ {0} /\ i + 1 \in Nat \ {0}
        BY <1>1
      <3> QED BY <3>3, <3>4
    <2> QED BY <2>1, <2>2
  <1>4. Len(P) \in Nat \ {0}
    BY <1>1
  <1> QED BY <1>1, <1>3, <1>4 DEF IsSequence, P

\* sequencer_write, whatever the sequence, is plain.
LEMMA WritePlain ==
  ASSUME NEW k, NEW T, NEW directions \in Seq(T)
  PROVE  AllPlain(sequencer_write(k, directions))
  <1> DEFINE P == sequencer_write(k, directions)
  <1>1. IsSequence(P)
    BY SequenceIs
  <1> HIDE DEF P
  <1>2. /\ IsSeq(P) /\ Len(P) \in Nat /\ P[Len(P)].do = "write" /\ P[Len(P)].of = "P1370"
        /\ \A i \in 1..(Len(P) - 1) :
             P[i].do = "elm" /\ P[i].of \in List /\ P[i].pos \in Nat \ {0}
    BY <1>1 DEF IsSequence
  <1>3. \A i \in 1..Len(P) : i = Len(P) \/ i \in 1..(Len(P) - 1)
    BY <1>2
  <1>4. \A i \in 1..Len(P) : Plain(P[i])
    BY <1>2, <1>3 DEF Plain
  <1>5. AllPlain(P)
    BY <1>2, <1>4 DEF AllPlain
  <1> QED BY <1>5 DEF P

\* The other functions without commands or trigger.
LEMMA OtherPlain ==
  ASSUME NEW k, NEW direction
  PROVE  /\ AllPlain(sequencer_hardtrigger) /\ AllPlain(speedcontrol_write(k, direction))
         /\ AllPlain(set_stdenvironment)
  <1>1. AllPlain(sequencer_hardtrigger)
    <2>1. AllPlain(Write("P1371", 0) \o Write("P1372", 0))
      BY PlainSteps, PlainConcat
    <2>2. AllPlain(Write("P1371", 0) \o Write("P1372", 0) \o Write("P1371", 1))
      BY <2>1, PlainSteps, PlainConcat
    <2> QED BY <2>2, PlainSteps, PlainConcat DEF sequencer_hardtrigger
  <1>2. AllPlain(speedcontrol_write(k, direction))
    <2>1. AllPlain(Write("P1200", direction) \o Write("P1203", k))
      BY PlainSteps, PlainConcat
    <2> QED BY <2>1, PlainSteps, PlainConcat DEF speedcontrol_write
  <1>3. AllPlain(set_stdenvironment)
    BY UnitsPlain, PlainConcat DEF set_stdenvironment
  <1> QED BY <1>1, <1>2, <1>3

(* The functions that execute no command and pull no trigger.              *)
Quiet == {"sequencer_init", "sequencer_write", "sequencer_hardtrigger",
          "speedcontrol_init", "speedcontrol_write", "set_stdenvironment"}

\* So all of them are plain.
LEMMA QuietPlain ==
  ASSUME NEW f \in Quiet, NEW k, NEW T, NEW directions \in Seq(T)
  PROVE  AllPlain(Steps(f, k, directions))
  <1>1. CASE f = "sequencer_init"
    <2>1. Steps(f, k, directions) = sequencer_init(k)
      BY <1>1 DEF Steps
    <2> QED BY <2>1, InitPlain
  <1>2. CASE f = "sequencer_write"
    <2>1. Steps(f, k, directions) = sequencer_write(k, directions)
      BY <1>2 DEF Steps
    <2> QED BY <2>1, WritePlain
  <1>3. CASE f = "sequencer_hardtrigger"
    <2>1. Steps(f, k, directions) = sequencer_hardtrigger
      BY <1>3 DEF Steps
    <2> QED BY <2>1, OtherPlain
  <1>4. CASE f = "speedcontrol_init"
    <2>1. Steps(f, k, directions) = speedcontrol_init(k)
      BY <1>4 DEF Steps
    <2> QED BY <2>1, InitPlain
  <1>5. CASE f = "speedcontrol_write"
    <2>1. Steps(f, k, directions) = speedcontrol_write(k, Head(directions))
      BY <1>5 DEF Steps
    <2> QED BY <2>1, OtherPlain
  <1>6. CASE f = "set_stdenvironment"
    <2>1. Steps(f, k, directions) = set_stdenvironment
      BY <1>6 DEF Steps
    <2> QED BY <2>1, OtherPlain
  <1> QED BY <1>1, <1>2, <1>3, <1>4, <1>5, <1>6 DEF Quiet

\* execute_command: start, await, delete, await.
LEMMA CommandSteps ==
  ASSUME NEW c
  PROVE  LET P == execute_command(c)
         IN  /\ IsSeq(P) /\ Len(P) = 4
             /\ P[1].do = "start" /\ P[1].of = c
             /\ P[2].do = "await" /\ P[2].of = c /\ P[2].val = "ok"
             /\ P[3].do = "delete" /\ P[3].of = c
             /\ P[4].do = "await" /\ P[4].of = c /\ P[4].val = "notset"
  <1> DEFINE a == <<[do |-> "start", of |-> c]>>
             b == Await(c, "ok")
             d == <<[do |-> "delete", of |-> c]>>
             e == Await(c, "notset")
             ab == a \o b
             abd == ab \o d
             P == abd \o e
  <1>1. execute_command(c) = P
    BY DEF execute_command
  <1>2. /\ IsSeq(a) /\ Len(a) = 1 /\ a[1].do = "start" /\ a[1].of = c
        /\ IsSeq(b) /\ Len(b) = 1 /\ b[1].do = "await" /\ b[1].of = c /\ b[1].val = "ok"
        /\ IsSeq(d) /\ Len(d) = 1 /\ d[1].do = "delete" /\ d[1].of = c
        /\ IsSeq(e) /\ Len(e) = 1 /\ e[1].do = "await" /\ e[1].of = c /\ e[1].val = "notset"
    BY Single DEF Await
  <1> HIDE DEF a, b, d, e
  <1>3. IsSeq(ab) /\ Len(ab) = 2 /\ ab[1] = a[1] /\ ab[2] = b[1]
    BY <1>2, Snoc
  <1> HIDE DEF ab
  <1>4. /\ IsSeq(abd) /\ Len(abd) = 3
        /\ \A i \in 1..2 : abd[i] = ab[i]
        /\ abd[3] = d[1]
    <2>1. /\ IsSeq(abd) /\ Len(abd) = Len(ab) + 1
          /\ \A i \in 1..Len(ab) : abd[i] = ab[i]
          /\ abd[Len(ab) + 1] = d[1]
      BY <1>2, <1>3, Snoc
    <2> QED BY <1>3, <2>1
  <1> HIDE DEF abd
  <1>5. /\ IsSeq(P) /\ Len(P) = 4
        /\ \A i \in 1..3 : P[i] = abd[i]
        /\ P[4] = e[1]
    <2>1. /\ IsSeq(P) /\ Len(P) = Len(abd) + 1
          /\ \A i \in 1..Len(abd) : P[i] = abd[i]
          /\ P[Len(abd) + 1] = e[1]
      BY <1>2, <1>4, Snoc
    <2> QED BY <1>4, <2>1
  <1> HIDE DEF P
  <1>6. P[1] = a[1] /\ P[2] = b[1] /\ P[3] = d[1]
    BY <1>3, <1>4, <1>5
  <1> QED BY <1>1, <1>2, <1>5, <1>6

\* change_opmode: look, S-0-0420, write, S-0-0422.
LEMMA ActivationSteps ==
  ASSUME NEW mode
  PROVE  LET P == change_opmode(mode)
             Enter == execute_command("S420")
             Leave == execute_command("S422")
         IN  /\ IsSeq(P) /\ Len(P) = 10
             /\ P[1].do = "unless" /\ P[1].of = "S32" /\ P[1].val = mode /\ P[1].skip = 9
             /\ \A i \in 2..5 : P[i] = Enter[i - 1]
             /\ P[6].do = "write" /\ P[6].of = "S32" /\ P[6].val = mode
             /\ \A i \in 7..10 : P[i] = Leave[i - 6]
  <1> DEFINE a == execute_command("S420")
             w == Write("S32", mode)
             b == execute_command("S422")
             aw == a \o w
             awb == aw \o b
             u == <<[do |-> "unless", of |-> "S32", val |-> mode, skip |-> Len(awb)]>>
             P == u \o awb
  <1>1. change_opmode(mode) = P
    BY DEF change_opmode, Unless
  <1>2. IsSeq(a) /\ Len(a) = 4 /\ IsSeq(b) /\ Len(b) = 4
    BY CommandSteps
  <1>3. IsSeq(w) /\ Len(w) = 1 /\ w[1].do = "write" /\ w[1].of = "S32" /\ w[1].val = mode
    BY Single DEF Write
  <1> HIDE DEF a, b, w
  <1>4. /\ IsSeq(aw) /\ Len(aw) = 5
        /\ \A i \in 1..4 : aw[i] = a[i]
        /\ aw[5] = w[1]
    <2>1. /\ IsSeq(aw) /\ Len(aw) = Len(a) + 1
          /\ \A i \in 1..Len(a) : aw[i] = a[i]
          /\ aw[Len(a) + 1] = w[1]
      BY <1>3, <1>2, Snoc
    <2> QED BY <1>2, <2>1
  <1> HIDE DEF aw
  <1>5. /\ IsSeq(awb) /\ Len(awb) = 9
        /\ \A i \in 1..5 : awb[i] = aw[i]
        /\ \A i \in 1..4 : awb[5 + i] = b[i]
    <2>1. /\ IsSeq(awb) /\ Len(awb) = Len(aw) + Len(b)
          /\ Len(aw) \in Nat /\ Len(b) \in Nat
          /\ \A i \in 1..Len(aw) : awb[i] = aw[i]
          /\ \A i \in 1..Len(b) : awb[Len(aw) + i] = b[i]
      <3>1. IsSeq(aw) /\ IsSeq(b)
        BY <1>2, <1>4
      <3> QED BY <3>1, Concat
    <2> QED BY <1>2, <1>4, <2>1
  <1> HIDE DEF awb
  <1>6. /\ IsSeq(u) /\ Len(u) = 1 /\ u[1].do = "unless" /\ u[1].of = "S32"
        /\ u[1].val = mode /\ u[1].skip = 9
    BY <1>5, Single
  <1> HIDE DEF u
  <1>7. /\ IsSeq(P) /\ Len(P) = 10 /\ P[1] = u[1]
        /\ \A i \in 1..9 : P[1 + i] = awb[i]
    <2>1. /\ IsSeq(P) /\ Len(P) = Len(u) + Len(awb)
          /\ Len(u) \in Nat /\ Len(awb) \in Nat
          /\ \A i \in 1..Len(u) : P[i] = u[i]
          /\ \A i \in 1..Len(awb) : P[Len(u) + i] = awb[i]
      <3>1. IsSeq(u) /\ IsSeq(awb)
        BY <1>5, <1>6
      <3> QED BY <3>1, Concat
    <2> QED BY <1>5, <1>6, <2>1
  <1> HIDE DEF P
  <1>8. ASSUME NEW i \in 2..5 PROVE P[i] = a[i - 1]
    <2>1. i - 1 \in 1..4 /\ i = 1 + (i - 1) /\ i - 1 \in 1..9 /\ i - 1 \in 1..5
      OBVIOUS
    <2> QED BY <1>4, <1>5, <1>7, <2>1
  <1>9. P[6] = w[1]
    <2>1. P[1 + 5] = awb[5]
      BY <1>7
    <2> QED BY <1>4, <1>5, <2>1
  <1>10. ASSUME NEW i \in 7..10 PROVE P[i] = b[i - 6]
    <2>1. i - 6 \in 1..4 /\ i = 1 + (i - 1) /\ i - 1 \in 1..9 /\ i - 1 = 5 + (i - 6)
      OBVIOUS
    <2> QED BY <1>5, <1>7, <2>1
  <1> QED BY <1>1, <1>3, <1>6, <1>7, <1>8, <1>9, <1>10 DEF a, b

\* sequencer_softtrigger: two resets around a poll, the edge, a poll.
LEMMA TriggerSteps ==
  LET P == sequencer_softtrigger
  IN  /\ IsSeq(P) /\ Len(P) = 7
      /\ \A i \in {1, 4} : P[i].do = "write" /\ P[i].of = "P1371"
      /\ \A i \in {2, 5} : P[i].do = "write" /\ P[i].of = "P1372" /\ P[i].val = 0
      /\ P[6].do = "write" /\ P[6].of = "P1372" /\ P[6].val = 1
      /\ \A i \in {3, 7} : P[i].do = "poll"
  <1> DEFINE a == Write("P1371", 0)
             b == Write("P1372", 0)
             c == WhileFinished
             d == Write("P1371", 1)
             e == Write("P1372", 1)
             p2 == a \o b
             p3 == p2 \o c
             p4 == p3 \o d
             p5 == p4 \o b
             p6 == p5 \o e
             P == p6 \o c
  <1>1. sequencer_softtrigger = P
    BY DEF sequencer_softtrigger
  <1>2. /\ IsSeq(a) /\ Len(a) = 1 /\ a[1].do = "write" /\ a[1].of = "P1371"
        /\ IsSeq(b) /\ Len(b) = 1 /\ b[1].do = "write" /\ b[1].of = "P1372" /\ b[1].val = 0
        /\ IsSeq(c) /\ Len(c) = 1 /\ c[1].do = "poll"
        /\ IsSeq(d) /\ Len(d) = 1 /\ d[1].do = "write" /\ d[1].of = "P1371"
        /\ IsSeq(e) /\ Len(e) = 1 /\ e[1].do = "write" /\ e[1].of = "P1372" /\ e[1].val = 1
    BY Single DEF Write, WhileFinished
  <1> HIDE DEF a, b, c, d, e
  <1>3. /\ IsSeq(p2) /\ Len(p2) = 2
        /\ \A i \in 1..1 : p2[i] = a[i]
        /\ p2[2] = b[1]
    <2>1. /\ IsSeq(p2) /\ Len(p2) = Len(a) + 1
          /\ \A i \in 1..Len(a) : p2[i] = a[i]
          /\ p2[Len(a) + 1] = b[1]
      BY <1>2, Snoc
    <2> QED BY <1>2, <2>1
  <1> HIDE DEF p2
  <1>4. /\ IsSeq(p3) /\ Len(p3) = 3
        /\ \A i \in 1..2 : p3[i] = p2[i]
        /\ p3[3] = c[1]
    <2>1. /\ IsSeq(p3) /\ Len(p3) = Len(p2) + 1
          /\ \A i \in 1..Len(p2) : p3[i] = p2[i]
          /\ p3[Len(p2) + 1] = c[1]
      BY <1>2, <1>3, Snoc
    <2> QED BY <1>3, <2>1
  <1> HIDE DEF p3
  <1>5. /\ IsSeq(p4) /\ Len(p4) = 4
        /\ \A i \in 1..3 : p4[i] = p3[i]
        /\ p4[4] = d[1]
    <2>1. /\ IsSeq(p4) /\ Len(p4) = Len(p3) + 1
          /\ \A i \in 1..Len(p3) : p4[i] = p3[i]
          /\ p4[Len(p3) + 1] = d[1]
      BY <1>2, <1>4, Snoc
    <2> QED BY <1>4, <2>1
  <1> HIDE DEF p4
  <1>6. /\ IsSeq(p5) /\ Len(p5) = 5
        /\ \A i \in 1..4 : p5[i] = p4[i]
        /\ p5[5] = b[1]
    <2>1. /\ IsSeq(p5) /\ Len(p5) = Len(p4) + 1
          /\ \A i \in 1..Len(p4) : p5[i] = p4[i]
          /\ p5[Len(p4) + 1] = b[1]
      BY <1>2, <1>5, Snoc
    <2> QED BY <1>5, <2>1
  <1> HIDE DEF p5
  <1>7. /\ IsSeq(p6) /\ Len(p6) = 6
        /\ \A i \in 1..5 : p6[i] = p5[i]
        /\ p6[6] = e[1]
    <2>1. /\ IsSeq(p6) /\ Len(p6) = Len(p5) + 1
          /\ \A i \in 1..Len(p5) : p6[i] = p5[i]
          /\ p6[Len(p5) + 1] = e[1]
      BY <1>2, <1>6, Snoc
    <2> QED BY <1>6, <2>1
  <1> HIDE DEF p6
  <1>8. /\ IsSeq(P) /\ Len(P) = 7
        /\ \A i \in 1..6 : P[i] = p6[i]
        /\ P[7] = c[1]
    <2>1. /\ IsSeq(P) /\ Len(P) = Len(p6) + 1
          /\ \A i \in 1..Len(p6) : P[i] = p6[i]
          /\ P[Len(p6) + 1] = c[1]
      BY <1>2, <1>7, Snoc
    <2> QED BY <1>7, <2>1
  <1> HIDE DEF P
  <1>9. /\ P[1] = a[1] /\ P[2] = b[1] /\ P[3] = c[1] /\ P[4] = d[1]
        /\ P[5] = b[1] /\ P[6] = e[1] /\ P[7] = c[1]
    BY <1>3, <1>4, <1>5, <1>6, <1>7, <1>8
  <1> QED BY <1>1, <1>2, <1>8, <1>9

-----------------------------------------------------------------------------
(* The drive while a command is executed, at step i of execute_command,    *)
(* which takes it from one level to another.                               *)
Others(c) == \A d \in Command \ {c} : drive.cmd[d] = "notset"
Clean == \A c \in Command : drive.cmd[c] = "notset"
Normal == drive.level = "op" /\ Clean

CommandAt(c, from, to, i) ==
  /\ i = 1 => Clean /\ drive.level = from
  /\ i = 2 => /\ Others(c)
              /\ \/ drive.cmd[c] = "busy" /\ drive.level = from
                 \/ drive.cmd[c] = "ok" /\ drive.level = to
                 \/ drive.cmd[c] \in {"error", "canceled"}
  /\ i = 3 => Others(c) /\ drive.cmd[c] = "ok" /\ drive.level = to
  /\ i = 4 => Others(c) /\ drive.cmd[c] \in {"clearing", "notset"} /\ drive.level = to

ActivationAt(mode, i) ==
  /\ i \in 2..6 => drive.par["S32"] # mode
  /\ ~broken => /\ i = 1 => Normal
                /\ i \in 2..5 => CommandAt("S420", "op", "param", i - 1)
                /\ i = 6 => Clean /\ drive.level = "param"
                /\ i \in 7..10 => CommandAt("S422", "param", "op", i - 6)

TriggerAt(t, i) ==
  /\ i \in 1..6 => edges[t] = 0
  /\ i = 6 => drive.par["P1372"] = 0
  /\ i = 7 => edges[t] = 1

ModeOf(f) == IF f = "sequencer_activate" THEN DRIVEMODE_SEQUENCER
                                         ELSE DRIVEMODE_SPEEDCONTROL

(* What controller t is doing.                                             *)
Resting(t) ==
  /\ todo[t] = <<>> /\ (~broken => Normal)
  /\ call[t].of = "sequencer_softtrigger" /\ result[t] = 0 => edges[t] = 1

Activating(t) ==
  /\ call[t].of \in Activates
  /\ \E i \in 1..10 : /\ todo[t] = Rest(change_opmode(ModeOf(call[t].of)), i)
                      /\ ActivationAt(ModeOf(call[t].of), i)

Clearing(t) ==
  /\ call[t].of = "clear_error"
  /\ \E i \in 1..4 : /\ todo[t] = Rest(execute_command("S99"), i)
                     /\ ~broken => CommandAt("S99", "op", "op", i)

Triggering(t) ==
  /\ call[t].of = "sequencer_softtrigger"
  /\ \E i \in 1..7 : todo[t] = Rest(sequencer_softtrigger, i) /\ TriggerAt(t, i)
  /\ ~broken => Normal

Writing(t) ==
  /\ call[t].of \in Quiet /\ todo[t] # <<>> /\ AllPlain(todo[t])
  /\ ~broken => Normal

Progress(t) ==
  Resting(t) \/ Activating(t) \/ Clearing(t) \/ Triggering(t) \/ Writing(t)

(* A thread that calls get functions only.                                 *)
Reading(t) ==
  /\ call[t].of \notin Executes
  /\ IsSeq(todo[t]) /\ \A i \in 1..Len(todo[t]) : todo[t][i].do = "read"

Shaped(d) ==
  /\ d = [par |-> d.par, list |-> d.list, cmd |-> d.cmd,
          level |-> d.level, torque |-> d.torque]
  /\ d.par = [p \in Parameter |-> d.par[p]]
  /\ d.cmd = [c \in Command |-> d.cmd[c]]
  /\ d.par["P1372"] \in {0, 1}

DriveShape == Shaped(drive)

ThreadShape ==
  /\ todo = [t \in Thread |-> todo[t]] /\ call = [t \in Thread |-> call[t]]
  /\ result = [t \in Thread |-> result[t]] /\ edges = [t \in Thread |-> edges[t]]
  /\ broken \in BOOLEAN

Inv(m) ==
  /\ DriveShape /\ ThreadShape
  /\ Progress(m)
  /\ \A t \in Thread \ {m} : Reading(t)
-----------------------------------------------------------------------------
(* What a step does to the drive.                                          *)

\* The header of a list is written.
LEMMA ResizedShaped ==
  ASSUME DriveShape, NEW s
  PROVE  LET d == Resized(s)
         IN  Shaped(d) /\ d.cmd = drive.cmd /\ d.level = drive.level /\ d.par = drive.par
  <1> DEFINE length == LengthAfter(s.of, s.pos)
  <1>1. Resized(s) = [drive EXCEPT !.list[s.of].len = length]
    BY DEF Resized
  <1> HIDE DEF length
  <1> QED BY <1>1 DEF DriveShape, Shaped

\* A parameter is written.
LEMMA WriteShaped ==
  ASSUME DriveShape, NEW s, s.do = "write", NEW d \in Performed(s),
         s.of = "P1372" => s.val \in {0, 1}
  PROVE  /\ Shaped(d) /\ d.cmd = drive.cmd /\ d.level = drive.level
         /\ \A p \in Parameter : d.par[p] = IF p = s.of THEN s.val ELSE drive.par[p]
  <1>1. d = [drive EXCEPT !.par[s.of] = s.val]
    BY DEF Performed
  <1>2. d.par = [drive.par EXCEPT ![s.of] = s.val]
    BY <1>1 DEF DriveShape, Shaped
  <1>3. \A p \in Parameter : d.par[p] = IF p = s.of THEN s.val ELSE drive.par[p]
    BY <1>2 DEF DriveShape, Shaped
  <1>4. d.par = [p \in Parameter |-> d.par[p]]
    BY <1>2 DEF DriveShape, Shaped
  <1>5. d.par["P1372"] \in {0, 1}
    BY <1>3 DEF DriveShape, Shaped, Parameter
  <1>6. /\ d.cmd = drive.cmd /\ d.level = drive.level
        /\ d = [par |-> d.par, list |-> d.list, cmd |-> d.cmd,
                level |-> d.level, torque |-> d.torque]
    BY <1>1 DEF DriveShape, Shaped
  <1>7. d.cmd = [c \in Command |-> d.cmd[c]]
    BY <1>6 DEF DriveShape, Shaped
  <1> QED BY <1>3, <1>4, <1>5, <1>6, <1>7 DEF Shaped

\* A list element is written.
LEMMA ElementShaped ==
  ASSUME DriveShape, NEW s, s.do = "elm", NEW d \in Performed(s)
  PROVE  Shaped(d) /\ d.cmd = drive.cmd /\ d.level = drive.level /\ d.par = drive.par
  <1> DEFINE r == Resized(s)
  <1>1. \E elements : d = [r EXCEPT !.list[s.of].elm = elements]
    <2> DEFINE l == s.of
               e == ElementAt(s.of, s.pos)
    <2>1. d = [r EXCEPT !.list[l].elm = [i \in 1..Capacity |-> IF i = e THEN s.val ELSE @[i]]]
      BY DEF Performed
    <2> HIDE DEF r, l, e
    <2>2. d = [r EXCEPT !.list[l].elm = [i \in 1..Capacity |->
                                           IF i = e THEN s.val ELSE r.list[l].elm[i]]]
      BY <2>1
    <2>3. \E elements : d = [r EXCEPT !.list[l].elm = elements]
      BY <2>2
    <2> QED BY <2>3 DEF l
  <1>2. Shaped(r) /\ r.cmd = drive.cmd /\ r.level = drive.level /\ r.par = drive.par
    BY ResizedShaped
  <1> HIDE DEF r
  <1> QED BY <1>1, <1>2 DEF Shaped

\* A command is set or deleted: nothing but its status changes.
Status(d, c, status) ==
  /\ Shaped(d) /\ d.level = drive.level /\ d.par = drive.par
  /\ d.cmd[c] = status
  /\ \A e \in Command \ {c} : d.cmd[e] = drive.cmd[e]

\* The status of one command changes.
LEMMA StatusSet ==
  ASSUME DriveShape, NEW c \in Command, NEW status
  PROVE  Status([drive EXCEPT !.cmd[c] = status], c, status)
  <1> DEFINE d == [drive EXCEPT !.cmd[c] = status]
  <1>1. d.cmd = [drive.cmd EXCEPT ![c] = status]
    BY DEF DriveShape, Shaped
  <1>2. /\ d.level = drive.level /\ d.par = drive.par
        /\ d = [par |-> d.par, list |-> d.list, cmd |-> d.cmd,
                level |-> d.level, torque |-> d.torque]
    BY DEF DriveShape, Shaped
  <1> HIDE DEF d
  <1>3. d.cmd = [e \in Command |-> d.cmd[e]]
    BY <1>1 DEF DriveShape, Shaped
  <1>4. d.cmd[c] = status /\ \A e \in Command \ {c} : d.cmd[e] = drive.cmd[e]
    BY <1>1 DEF DriveShape, Shaped
  <1>5. Shaped(d)
    BY <1>2, <1>3 DEF DriveShape, Shaped
  <1> QED BY <1>2, <1>4, <1>5 DEF Status, d

\* A command is set, or was set already.
LEMMA StartShaped ==
  ASSUME DriveShape, NEW s, s.do = "start", s.of \in Command, NEW d \in Performed(s)
  PROVE  Status(d, s.of, "busy") \/ (d = drive /\ drive.cmd[s.of] # "notset")
  <1>1. d \in {[drive EXCEPT !.cmd[s.of] = "busy"]} \cup
               (IF drive.cmd[s.of] = "notset" THEN {} ELSE {drive})
    BY DEF Performed
  <1>2. d = [drive EXCEPT !.cmd[s.of] = "busy"] \/ (d = drive /\ drive.cmd[s.of] # "notset")
    BY <1>1
  <1> QED BY <1>2, StatusSet

\* A command is deleted.
LEMMA DeleteShaped ==
  ASSUME DriveShape, NEW s, s.do = "delete", s.of \in Command, NEW d \in Performed(s)
  PROVE  Status(d, s.of, "clearing")
  <1>1. d = [drive EXCEPT !.cmd[s.of] = "clearing"]
    BY DEF Performed
  <1> QED BY <1>1, StatusSet

\* All in all: the shape stays, and only a start or a delete touches a command.
LEMMA PerformedShaped ==
  ASSUME DriveShape, NEW s, NEW d \in Performed(s),
         s.do = "write" /\ s.of = "P1372" => s.val \in {0, 1},
         s.do \in {"start", "delete"} => s.of \in Command
  PROVE  /\ Shaped(d) /\ d.level = drive.level
         /\ s.do \notin {"start", "delete"} => d.cmd = drive.cmd
  <1>1. CASE s.do = "write"
    BY <1>1, WriteShaped
  <1>2. CASE s.do = "elm"
    BY <1>2, ElementShaped
  <1>3. CASE s.do = "start"
    BY <1>3, StartShaped DEF Status, DriveShape
  <1>4. CASE s.do = "delete"
    BY <1>4, DeleteShaped DEF Status
  <1>5. CASE s.do \notin {"write", "elm", "start", "delete"}
    <2>1. d = drive
      BY <1>5 DEF Performed
    <2> QED BY <2>1 DEF DriveShape
  <1> QED BY <1>1, <1>2, <1>3, <1>4, <1>5

-----------------------------------------------------------------------------
(* A command, step by step.                                                *)

\* From one step of execute_command to the next: set ...
LEMMA CommandStarts ==
  ASSUME DriveShape, NEW c \in Command, NEW from, NEW to, CommandAt(c, from, to, 1),
         NEW s, s.do = "start", s.of = c, drive' \in Performed(s)
  PROVE  CommandAt(c, from, to, 2)'
  <1>1. Status(drive', c, "busy")
    BY StartShaped DEF CommandAt, Clean
  <1> QED BY <1>1 DEF CommandAt, Clean, Others, Status

\* ... found carried out ...
LEMMA CommandFinished ==
  ASSUME NEW c \in Command, NEW from, NEW to, CommandAt(c, from, to, 2),
         drive.cmd[c] = "ok", drive' = drive
  PROVE  CommandAt(c, from, to, 3)'
  BY DEF CommandAt, Others

\* ... deleted ...
LEMMA CommandDeleted ==
  ASSUME DriveShape, NEW c \in Command, NEW from, NEW to, CommandAt(c, from, to, 3),
         NEW s, s.do = "delete", s.of = c, drive' \in Performed(s)
  PROVE  CommandAt(c, from, to, 4)'
  <1>1. Status(drive', c, "clearing")
    BY DeleteShaped
  <1> QED BY <1>1 DEF CommandAt, Others, Status

\* ... and found deleted.
LEMMA CommandGone ==
  ASSUME NEW c \in Command, NEW from, NEW to, CommandAt(c, from, to, 4),
         drive.cmd[c] = "notset", drive' = drive
  PROVE  Clean' /\ drive'.level = to
  BY DEF CommandAt, Others, Clean

\* What the drive does with its commands meanwhile.
LEMMA EndsShaped ==
  ASSUME DriveShape, NEW e \in Command, CommandEnds(e)
  PROVE  /\ DriveShape' /\ drive'.par = drive.par
         /\ \A d \in Command \ {e} : drive'.cmd[d] = drive.cmd[d]
         /\ \/ /\ drive.cmd[e] = "clearing" /\ drive'.cmd[e] = "notset"
               /\ drive'.level = drive.level
            \/ /\ drive.cmd[e] = "busy" /\ drive'.cmd[e] = "ok"
               /\ drive'.level = LevelAfter(e)
            \/ /\ drive.cmd[e] = "busy" /\ drive'.cmd[e] \in {"error", "canceled"}
               /\ drive'.level = drive.level
  <1>1. CASE /\ drive.cmd[e] = "clearing"
             /\ drive' = [drive EXCEPT !.cmd[e] = "notset"]
    BY <1>1, StatusSet DEF Status, DriveShape
  <1>2. CASE /\ drive.cmd[e] = "busy"
             /\ drive' = [drive EXCEPT !.cmd[e] = "ok", !.level = LevelAfter(e)]
    <2> DEFINE d == [drive EXCEPT !.cmd[e] = "ok"]
    <2>1. Status(d, e, "ok")
      BY StatusSet
    <2>2. drive' = [d EXCEPT !.level = LevelAfter(e)]
      BY <1>2
    <2> HIDE DEF d
    <2>3. /\ drive'.par = d.par /\ drive'.cmd = d.cmd /\ drive'.level = LevelAfter(e)
          /\ Shaped(drive')
      BY <2>1, <2>2 DEF Status, Shaped
    <2> QED BY <1>2, <2>1, <2>3 DEF Status, DriveShape
  <1>3. CASE /\ drive.cmd[e] = "busy"
             /\ \E status \in {"error", "canceled"} :
                  drive' = [drive EXCEPT !.cmd[e] = status]
    <2>1. PICK status \in {"error", "canceled"} : drive' = [drive EXCEPT !.cmd[e] = status]
      BY <1>3
    <2> QED BY <1>3, <2>1, StatusSet DEF Status, DriveShape
  <1> QED BY <1>1, <1>2, <1>3 DEF CommandEnds

\* A command between two steps of execute_command stays where it may be.
LEMMA CommandCarriedOut ==
  ASSUME DriveShape, NEW c \in Command, NEW from, NEW to, NEW i,
         CommandAt(c, from, to, i), NEW e \in Command, CommandEnds(e),
         (c = "S420" /\ to = "param") \/ (c = "S422" /\ to = "op") \/ (c = "S99" /\ from = to)
  PROVE  CommandAt(c, from, to, i)'
  <1>1. /\ \A d \in Command \ {e} : drive'.cmd[d] = drive.cmd[d]
        /\ \/ /\ drive.cmd[e] = "clearing" /\ drive'.cmd[e] = "notset"
              /\ drive'.level = drive.level
           \/ /\ drive.cmd[e] = "busy" /\ drive'.cmd[e] = "ok"
              /\ drive'.level = LevelAfter(e)
           \/ /\ drive.cmd[e] = "busy" /\ drive'.cmd[e] \in {"error", "canceled"}
              /\ drive'.level = drive.level
    BY EndsShaped
  <1>2. CASE e # c
    <2>1. i \notin {1, 2, 3, 4}
      BY <1>1, <1>2 DEF CommandAt, Others, Clean
    <2> QED BY <2>1 DEF CommandAt
  <1>3. CASE e = c
    <2>1. i # 1 /\ i # 3
      BY <1>1, <1>3 DEF CommandAt, Clean
    <2>2. CASE i = 2
      <3>1. drive.cmd[c] = "busy" /\ drive.level = from /\ Others(c)
        BY <1>1, <1>3, <2>2 DEF CommandAt
      <3>2. LevelAfter(c) = to
        BY <3>1 DEF LevelAfter
      <3> QED BY <1>1, <1>3, <2>2, <3>1, <3>2 DEF CommandAt, Others
    <2>3. CASE i = 4
      BY <1>1, <1>3, <2>3 DEF CommandAt, Others
    <2>4. CASE i \notin {1, 2, 3, 4}
      BY <2>4 DEF CommandAt
    <2> QED BY <2>1, <2>2, <2>3, <2>4
  <1> QED BY <1>2, <1>3

-----------------------------------------------------------------------------
(* The first of the steps that are left.                                   *)

\* The first step that is left is the one the thread stands at.
LEMMA Position ==
  ASSUME NEW t, NEW P, IsSeq(P), NEW i \in 1..Len(P), todo[t] = Rest(P, i)
  PROVE  /\ todo[t] # <<>> /\ Head(todo[t]) = P[i]
         /\ Tail(todo[t]) = Rest(P, i + 1) /\ Rest(P, Len(P) + 1) = <<>>
  <1>1. /\ IsSeq(Rest(P, i)) /\ Rest(P, i) # <<>> /\ Head(Rest(P, i)) = P[i]
        /\ Tail(Rest(P, i)) = Rest(P, i + 1)
        /\ Rest(P, 1) = P /\ Rest(P, Len(P) + 1) = <<>>
    BY RestFirst
  <1> QED BY <1>1

\* What is left when the steps that the first one guards are left out.
Skipped(P) == SubSeq(P, Head(P).skip + 2, Len(P))

\* Where an activation stands.
ActivationHead(t, mode, i) ==
  LET s == Head(todo[t])
  IN  /\ todo[t] # <<>>
      /\ Tail(todo[t]) = Rest(change_opmode(mode), i + 1)
      /\ Rest(change_opmode(mode), 11) = <<>>
      /\ i = 1 => s.do = "unless" /\ s.of = "S32" /\ s.val = mode /\ Skipped(todo[t]) = <<>>
      /\ i \in {2, 7} => s.do = "start"
      /\ i \in {3, 5, 8, 10} => s.do = "await"
      /\ i \in {4, 9} => s.do = "delete"
      /\ i = 6 => s.do = "write" /\ s.of = "S32" /\ s.val = mode
      /\ i \in 2..5 => s.of = "S420"
      /\ i \in 7..10 => s.of = "S422"
      /\ i \in {3, 8} => s.val = "ok"
      /\ i \in {5, 10} => s.val = "notset"

\* The first step that is left is the one an activation stands at.
LEMMA ActivationPosition ==
  ASSUME NEW t, NEW mode, NEW i \in 1..10, todo[t] = Rest(change_opmode(mode), i)
  PROVE  ActivationHead(t, mode, i)
  <1> DEFINE P == change_opmode(mode)
             s == Head(todo[t])
  <1>1. IsSeq(P) /\ Len(P) = 10
    BY ActivationSteps
  <1>2. /\ todo[t] # <<>> /\ s = P[i] /\ Tail(todo[t]) = Rest(P, i + 1)
        /\ Rest(P, 11) = <<>>
    <2> HIDE DEF P
    <2>1. i \in 1..Len(P)
      BY <1>1
    <2>2. /\ todo[t] # <<>> /\ Head(todo[t]) = P[i]
          /\ Tail(todo[t]) = Rest(P, i + 1) /\ Rest(P, Len(P) + 1) = <<>>
      <3>1. todo[t] = Rest(P, i) /\ IsSeq(P)
        BY <1>1 DEF P
      <3> QED BY <2>1, <3>1, Position
    <2> QED BY <1>1, <2>2
  <1>3. CASE i = 1
    <2>1. s.do = "unless" /\ s.of = "S32" /\ s.val = mode /\ s.skip = 9
      BY <1>2, <1>3, ActivationSteps
    <2>2. SubSeq(todo[t], 11, Len(todo[t])) = <<>>
      <3>1. todo[t] = Rest(P, 1)
        BY <1>3
      <3> HIDE DEF P
      <3>2. SubSeq(Rest(P, 1), 11, Len(Rest(P, 1))) = Rest(P, 11)
        <4>1. 11 \in 1..Len(P) + 1
          BY <1>1
        <4> QED BY <1>1, <4>1, RestSkip
      <3> QED BY <1>2, <3>1, <3>2
    <2>3. Skipped(todo[t]) = <<>>
      BY <2>1, <2>2 DEF Skipped
    <2> HIDE DEF s
    <2> QED BY <1>2, <1>3, <2>1, <2>3 DEF s, P, ActivationHead
  <1>4. CASE i \in 2..5
    <2>1. s = execute_command("S420")[i - 1]
      BY <1>2, <1>4, ActivationSteps
    <2>2. i - 1 = 1 \/ i - 1 = 2 \/ i - 1 = 3 \/ i - 1 = 4
      BY <1>4
    <2> HIDE DEF s
    <2> DEFINE C == execute_command("S420")
    <2>3. /\ C[1].do = "start" /\ C[1].of = "S420"
          /\ C[2].do = "await" /\ C[2].of = "S420" /\ C[2].val = "ok"
          /\ C[3].do = "delete" /\ C[3].of = "S420"
          /\ C[4].do = "await" /\ C[4].of = "S420" /\ C[4].val = "notset"
      BY CommandSteps
    <2>4. s = C[i - 1]
      BY <2>1
    <2> HIDE DEF C
    <2>5. /\ i = 2 => s.do = "start"
          /\ i = 3 => s.do = "await" /\ s.val = "ok"
          /\ i = 4 => s.do = "delete"
          /\ i = 5 => s.do = "await" /\ s.val = "notset"
          /\ s.of = "S420"
      BY <1>4, <2>2, <2>3, <2>4
    <2> QED BY <1>2, <1>4, <2>5 DEF s, ActivationHead
  <1>5. CASE i = 6
    <2>1. s.do = "write" /\ s.of = "S32" /\ s.val = mode
      BY <1>2, <1>5, ActivationSteps
    <2> HIDE DEF s
    <2> QED BY <1>2, <1>5, <2>1 DEF s, ActivationHead
  <1>6. CASE i \in 7..10
    <2> DEFINE C == execute_command("S422")
    <2>1. s = C[i - 6]
      BY <1>2, <1>6, ActivationSteps
    <2>2. i - 6 = 1 \/ i - 6 = 2 \/ i - 6 = 3 \/ i - 6 = 4
      BY <1>6
    <2> HIDE DEF s
    <2>3. /\ C[1].do = "start" /\ C[1].of = "S422"
          /\ C[2].do = "await" /\ C[2].of = "S422" /\ C[2].val = "ok"
          /\ C[3].do = "delete" /\ C[3].of = "S422"
          /\ C[4].do = "await" /\ C[4].of = "S422" /\ C[4].val = "notset"
      BY CommandSteps
    <2> HIDE DEF C
    <2>5. /\ i = 7 => s.do = "start"
          /\ i = 8 => s.do = "await" /\ s.val = "ok"
          /\ i = 9 => s.do = "delete"
          /\ i = 10 => s.do = "await" /\ s.val = "notset"
          /\ s.of = "S422"
      BY <1>6, <2>1, <2>2, <2>3
    <2> QED BY <1>2, <1>6, <2>5 DEF s, ActivationHead
  <1> QED BY <1>3, <1>4, <1>5, <1>6

ClearingHead(t, i) ==
  LET s == Head(todo[t])
  IN  /\ todo[t] # <<>>
      /\ Tail(todo[t]) = Rest(execute_command("S99"), i + 1)
      /\ Rest(execute_command("S99"), 5) = <<>>
      /\ s.of = "S99"
      /\ i = 1 => s.do = "start"
      /\ i \in {2, 4} => s.do = "await"
      /\ i = 3 => s.do = "delete"
      /\ i = 2 => s.val = "ok"
      /\ i = 4 => s.val = "notset"

\* Where clear_error stands.
LEMMA ClearingPosition ==
  ASSUME NEW t, NEW i \in 1..4, todo[t] = Rest(execute_command("S99"), i)
  PROVE  ClearingHead(t, i)
  <1> DEFINE P == execute_command("S99")
             s == Head(todo[t])
  <1>1. IsSeq(P) /\ Len(P) = 4
    BY CommandSteps
  <1>2. /\ todo[t] # <<>> /\ s = P[i] /\ Tail(todo[t]) = Rest(P, i + 1)
        /\ Rest(P, 5) = <<>>
    <2> HIDE DEF P
    <2>1. i \in 1..Len(P)
      BY <1>1
    <2>2. /\ todo[t] # <<>> /\ Head(todo[t]) = P[i]
          /\ Tail(todo[t]) = Rest(P, i + 1) /\ Rest(P, Len(P) + 1) = <<>>
      <3>1. todo[t] = Rest(P, i) /\ IsSeq(P)
        BY <1>1 DEF P
      <3> QED BY <2>1, <3>1, Position
    <2> QED BY <1>1, <2>2
  <1>3. /\ P[1].do = "start" /\ P[1].of = "S99"
        /\ P[2].do = "await" /\ P[2].of = "S99" /\ P[2].val = "ok"
        /\ P[3].do = "delete" /\ P[3].of = "S99"
        /\ P[4].do = "await" /\ P[4].of = "S99" /\ P[4].val = "notset"
    BY CommandSteps
  <1>4. i = 1 \/ i = 2 \/ i = 3 \/ i = 4
    OBVIOUS
  <1> HIDE DEF P, s
  <1>5. /\ s.of = "S99"
        /\ i = 1 => s.do = "start"
        /\ i \in {2, 4} => s.do = "await"
        /\ i = 3 => s.do = "delete"
        /\ i = 2 => s.val = "ok"
        /\ i = 4 => s.val = "notset"
    BY <1>2, <1>3, <1>4
  <1> QED BY <1>2, <1>5 DEF P, s, ClearingHead

TriggerHead(t, i) ==
  LET s == Head(todo[t])
  IN  /\ todo[t] # <<>>
      /\ Tail(todo[t]) = Rest(sequencer_softtrigger, i + 1)
      /\ Rest(sequencer_softtrigger, 8) = <<>>
      /\ i \in {1, 4} => s.do = "write" /\ s.of = "P1371"
      /\ i \in {2, 5} => s.do = "write" /\ s.of = "P1372" /\ s.val = 0
      /\ i = 6 => s.do = "write" /\ s.of = "P1372" /\ s.val = 1
      /\ i \in {3, 7} => s.do = "poll"

\* Where a software trigger stands.
LEMMA TriggerPosition ==
  ASSUME NEW t, NEW i \in 1..7, todo[t] = Rest(sequencer_softtrigger, i)
  PROVE  TriggerHead(t, i)
  <1> DEFINE P == sequencer_softtrigger
             s == Head(todo[t])
  <1>1. IsSeq(P) /\ Len(P) = 7
    BY TriggerSteps
  <1>2. /\ todo[t] # <<>> /\ s = P[i] /\ Tail(todo[t]) = Rest(P, i + 1)
        /\ Rest(P, 8) = <<>>
    <2> HIDE DEF P
    <2>1. i \in 1..Len(P)
      BY <1>1
    <2>2. /\ todo[t] # <<>> /\ Head(todo[t]) = P[i]
          /\ Tail(todo[t]) = Rest(P, i + 1) /\ Rest(P, Len(P) + 1) = <<>>
      <3>1. todo[t] = Rest(P, i) /\ IsSeq(P)
        BY <1>1 DEF P
      <3> QED BY <2>1, <3>1, Position
    <2> QED BY <1>1, <2>2
  <1>3. /\ i \in {1, 4} => P[i].do = "write" /\ P[i].of = "P1371"
        /\ i \in {2, 5} => P[i].do = "write" /\ P[i].of = "P1372" /\ P[i].val = 0
        /\ i = 6 => P[i].do = "write" /\ P[i].of = "P1372" /\ P[i].val = 1
        /\ i \in {3, 7} => P[i].do = "poll"
    BY TriggerSteps
  <1> HIDE DEF P, s
  <1> QED BY <1>2, <1>3 DEF P, s, TriggerHead

Harmless(s) ==
  /\ s.do = "write" /\ s.of = "P1372" => s.val \in {0, 1}
  /\ s.do = "write" /\ s.of = "S32" => drive.par["S32"] # s.val
  /\ s.do \in {"start", "delete"} => s.of \in Command

\* The next step of a controller is harmless, and a command only if it executes one.
LEMMA HeadHarmless ==
  ASSUME NEW m, Progress(m), todo[m] # <<>>
  PROVE  /\ Harmless(Head(todo[m]))
         /\ call[m].of \notin Executes => Head(todo[m]).do \notin {"start", "delete"}
  <1> DEFINE s == Head(todo[m])
  <1>1. CASE Activating(m)
    <2> DEFINE mode == ModeOf(call[m].of)
    <2>1. PICK i \in 1..10 : todo[m] = Rest(change_opmode(mode), i) /\ ActivationAt(mode, i)
      BY <1>1 DEF Activating
    <2> HIDE DEF mode
    <2>2. /\ i \in {1, 3, 5, 8, 10} => s.do \in {"unless", "await"}
          /\ i \in {2, 4, 7, 9} => s.do \in {"start", "delete"} /\ s.of \in {"S420", "S422"}
          /\ i = 6 => s.do = "write" /\ s.of = "S32" /\ s.val = mode
      <3>1. ActivationHead(m, mode, i)
        BY <2>1, ActivationPosition
      <3> QED BY <2>1, <3>1 DEF ActivationHead
    <2>3. i = 6 => drive.par["S32"] # mode
      BY <2>1 DEF ActivationAt
    <2> HIDE DEF s
    <2> QED BY <1>1, <2>2, <2>3 DEF Harmless, Command, Activating, Executes, s
  <1>2. CASE Clearing(m)
    <2>1. PICK i \in 1..4 : todo[m] = Rest(execute_command("S99"), i)
      BY <1>2 DEF Clearing
    <2>2. s.do # "write" /\ s.of = "S99"
      <3>1. ClearingHead(m, i)
        BY <2>1, ClearingPosition
      <3> QED BY <2>1, <3>1 DEF ClearingHead
    <2> QED BY <1>2, <2>2 DEF Harmless, Command, Clearing, Executes
  <1>3. CASE Triggering(m)
    <2>1. PICK i \in 1..7 : todo[m] = Rest(sequencer_softtrigger, i)
      BY <1>3 DEF Triggering
    <2>2. /\ s.do \in {"write", "poll"}
          /\ s.do = "write" => s.of # "S32" /\ (s.of = "P1372" => s.val \in {0, 1})
      <3>1. TriggerHead(m, i)
        BY <2>1, TriggerPosition
      <3> QED BY <2>1, <3>1 DEF TriggerHead
    <2> QED BY <2>2 DEF Harmless
  <1>4. CASE Writing(m)
    <2> DEFINE P == todo[m]
    <2>1. IsSeq(P) /\ P # <<>> /\ \A i \in 1..Len(P) : Plain(P[i])
      BY <1>4 DEF Writing, AllPlain
    <2> HIDE DEF P
    <2>2. 1 \in 1..Len(P) /\ Head(P) = P[1]
      BY <2>1 DEF IsSeq
    <2>3. Plain(Head(P))
      BY <2>1, <2>2
    <2> QED BY <2>3 DEF P, Plain, Harmless
  <1> QED BY <1>1, <1>2, <1>3, <1>4 DEF Progress, Resting

(* Nothing of what a controller relies on changes.                         *)
LEMMA Unaffected ==
  ASSUME NEW m, Progress(m),
         todo'[m] = todo[m], call'[m] = call[m], result'[m] = result[m],
         edges'[m] = edges[m], broken => broken',
         drive'.cmd = drive.cmd, drive'.level = drive.level, drive'.par = drive.par
  PROVE  Progress(m)'
  <1>1. \A c, from, to, i : CommandAt(c, from, to, i) => CommandAt(c, from, to, i)'
    BY DEF CommandAt, Clean, Others
  <1>2. \A mode, i : ActivationAt(mode, i) => ActivationAt(mode, i)'
    BY <1>1 DEF ActivationAt, Normal, Clean
  <1>3. Normal => Normal'
    BY DEF Normal, Clean
  <1>4. CASE Resting(m)
    BY <1>3, <1>4 DEF Resting, Progress
  <1>5. CASE Activating(m)
    <2> DEFINE mode == ModeOf(call[m].of)
    <2>1. PICK i \in 1..10 : todo[m] = Rest(change_opmode(mode), i) /\ ActivationAt(mode, i)
      BY <1>5 DEF Activating
    <2>2. /\ call'[m].of \in Activates
          /\ todo'[m] = Rest(change_opmode(ModeOf(call'[m].of)), i)
          /\ ActivationAt(ModeOf(call[m].of), i)'
      BY <1>2, <1>5, <2>1 DEF Activating
    <2>3. Activating(m)'
      BY <2>2 DEF Activating
    <2> QED BY <2>3 DEF Progress
  <1>6. CASE Clearing(m)
    <2>1. PICK i \in 1..4 : /\ todo[m] = Rest(execute_command("S99"), i)
                            /\ ~broken => CommandAt("S99", "op", "op", i)
      BY <1>6 DEF Clearing
    <2>2. /\ todo'[m] = Rest(execute_command("S99"), i)
          /\ ~broken' => CommandAt("S99", "op", "op", i)'
      BY <1>1, <2>1
    <2>3. Clearing(m)'
      BY <1>6, <2>2 DEF Clearing
    <2> QED BY <2>3 DEF Progress
  <1>7. CASE Triggering(m)
    <2>1. PICK i \in 1..7 : todo[m] = Rest(sequencer_softtrigger, i) /\ TriggerAt(m, i)
      BY <1>7 DEF Triggering
    <2>2. todo'[m] = Rest(sequencer_softtrigger, i) /\ TriggerAt(m, i)'
      BY <2>1 DEF TriggerAt
    <2>3. Triggering(m)'
      BY <1>3, <1>7, <2>2 DEF Triggering
    <2> QED BY <2>3 DEF Progress
  <1>8. CASE Writing(m)
    <2>1. Writing(m)'
      BY <1>3, <1>8 DEF Writing
    <2> QED BY <2>1 DEF Progress
  <1> QED BY <1>4, <1>5, <1>6, <1>7, <1>8 DEF Progress

-----------------------------------------------------------------------------
(* A controller's step, by what it is doing.                               *)

\* A thread goes on with the rest of its steps.
LEMMA ThreadGoes ==
  ASSUME ThreadShape, NEW t \in Thread, NEW rest, Goes(t, rest)
  PROVE  todo'[t] = rest /\ call'[t] = call[t] /\ result'[t] = result[t]
  BY DEF Goes, ThreadShape

\* The head of the steps is taken off, and the drive does what it says.
Taken(t) ==
  /\ todo[t] # <<>> /\ Goes(t, Tail(todo[t]))
  /\ LET s == Head(todo[t])
     IN  /\ drive' \in Performed(s)
         /\ s.do = "await" => drive.cmd[s.of] = s.val
         /\ edges'[t] = IF Triggers(s) THEN edges[t] + 1 ELSE edges[t]
  /\ broken' = broken

\* A step of an activation after the look at the mode.
LEMMA ActivationTaken ==
  ASSUME DriveShape, ThreadShape, NEW m \in Thread, Activating(m), Taken(m),
         Head(todo[m]).do # "unless"
  PROVE  Progress(m)'
  <1>0. PICK mode : mode = ModeOf(call[m].of)
    OBVIOUS
  <1> DEFINE P == change_opmode(mode)
             s == Head(todo[m])
  <1>1. PICK i \in 1..10 : todo[m] = Rest(P, i) /\ ActivationAt(mode, i)
    BY <1>0 DEF Activating
  <1>2. /\ todo'[m] = Rest(P, i + 1) /\ call'[m] = call[m]
        /\ Rest(P, 11) = <<>>
        /\ i # 1
        /\ i \in {2, 7} => s.do = "start"
        /\ i \in {3, 5, 8, 10} => s.do = "await"
        /\ i \in {4, 9} => s.do = "delete"
        /\ i = 6 => s.do = "write" /\ s.of = "S32"
        /\ i \in 2..5 => s.of = "S420"
        /\ i \in 7..10 => s.of = "S422"
        /\ i \in {3, 8} => s.val = "ok"
        /\ i \in {5, 10} => s.val = "notset"
    <2>1. Goes(m, Tail(todo[m]))
      BY DEF Taken
    <2>2. todo'[m] = Tail(todo[m]) /\ call'[m] = call[m]
      BY <2>1, ThreadGoes
    <2>3. /\ Tail(todo[m]) = Rest(P, i + 1) /\ Rest(P, 11) = <<>>
          /\ i = 1 => s.do = "unless"
          /\ i \in {2, 7} => s.do = "start"
          /\ i \in {3, 5, 8, 10} => s.do = "await"
          /\ i \in {4, 9} => s.do = "delete"
          /\ i = 6 => s.do = "write" /\ s.of = "S32"
          /\ i \in 2..5 => s.of = "S420"
          /\ i \in 7..10 => s.of = "S422"
          /\ i \in {3, 8} => s.val = "ok"
          /\ i \in {5, 10} => s.val = "notset"
      <3>1. todo[m] = Rest(change_opmode(mode), i)
        BY <1>1
      <3>2. ActivationHead(m, mode, i)
        BY <3>1, ActivationPosition
      <3> QED BY <3>2 DEF ActivationHead
    <2> HIDE DEF P
    <2> QED BY <2>2, <2>3
  <1>3. /\ drive' \in Performed(s) /\ broken' = broken
        /\ s.do = "await" => drive.cmd[s.of] = s.val
    BY DEF Taken
  <1>4. call[m].of \in Activates /\ (call[m].of = "sequencer_softtrigger") = FALSE
    BY DEF Activating, Activates
  <1> HIDE DEF P, s
  <1>5. s.do = "await" => drive' = drive
    BY <1>3 DEF Performed
  <1>6. CASE i = 10
    <2>1. todo'[m] = <<>>
      BY <1>2, <1>6
    <2>2. ~broken => Normal'
      <3>1. ~broken => CommandAt("S422", "param", "op", 4)
        BY <1>1, <1>6 DEF ActivationAt
      <3>2. drive.cmd["S422"] = "notset" /\ drive' = drive
        BY <1>2, <1>3, <1>5, <1>6
      <3>3. ~broken => Clean' /\ drive'.level = "op"
        BY <3>1, <3>2, CommandGone DEF Command
      <3> QED BY <3>3 DEF Normal
    <2> QED BY <1>2, <1>3, <1>4, <2>1, <2>2 DEF Progress, Resting
  <1>7. ASSUME i \in 2..9
        PROVE  ActivationAt(mode, i + 1)'
    <2>1. i + 1 \in 2..6 => drive'.par["S32"] # mode
      <3>1. ASSUME i \in 2..5
            PROVE  drive'.par = drive.par /\ drive.par["S32"] # mode
        <4>1. drive.par["S32"] # mode
          BY <1>1, <3>1 DEF ActivationAt
        <4>2. CASE s.do = "await"
          BY <1>5, <4>1, <4>2
        <4>3. CASE s.do = "start"
          <5>1. s.of \in Command
            BY <1>2, <3>1 DEF Command
          <5> QED BY <1>3, <4>1, <4>3, <5>1, StartShaped DEF Status
        <4>4. CASE s.do = "delete"
          <5>1. s.of \in Command
            BY <1>2, <3>1 DEF Command
          <5> QED BY <1>3, <4>1, <4>4, <5>1, DeleteShaped DEF Status
        <4> QED BY <1>2, <3>1, <4>2, <4>3, <4>4
      <3> QED BY <1>7, <3>1
    <2>2. CASE i = 2
      <3>1. ~broken => CommandAt("S420", "op", "param", 1)
        BY <1>1, <2>2 DEF ActivationAt
      <3>2. ~broken => CommandAt("S420", "op", "param", 2)'
        BY <1>2, <1>3, <2>2, <3>1, CommandStarts DEF Command
      <3> QED BY <1>3, <2>1, <2>2, <3>2 DEF ActivationAt
    <2>3. CASE i = 3
      <3>1. ~broken => CommandAt("S420", "op", "param", 2)
        BY <1>1, <2>3 DEF ActivationAt
      <3>2. drive.cmd["S420"] = "ok" /\ drive' = drive
        BY <1>2, <1>3, <1>5, <2>3
      <3>3. ~broken => CommandAt("S420", "op", "param", 3)'
        BY <3>1, <3>2, CommandFinished DEF Command
      <3> QED BY <1>3, <2>1, <2>3, <3>3 DEF ActivationAt
    <2>4. CASE i = 4
      <3>1. ~broken => CommandAt("S420", "op", "param", 3)
        BY <1>1, <2>4 DEF ActivationAt
      <3>2. ~broken => CommandAt("S420", "op", "param", 4)'
        BY <1>2, <1>3, <2>4, <3>1, CommandDeleted DEF Command
      <3> QED BY <1>3, <2>1, <2>4, <3>2 DEF ActivationAt
    <2>5. CASE i = 5
      <3>1. ~broken => CommandAt("S420", "op", "param", 4)
        BY <1>1, <2>5 DEF ActivationAt
      <3>2. drive.cmd["S420"] = "notset" /\ drive' = drive
        BY <1>2, <1>3, <1>5, <2>5
      <3>3. ~broken => Clean' /\ drive'.level = "param"
        BY <3>1, <3>2, CommandGone DEF Command
      <3> QED BY <1>3, <2>1, <2>5, <3>3 DEF ActivationAt
    <2>6. CASE i = 6
      <3>1. ~broken => Clean /\ drive.level = "param"
        BY <1>1, <2>6 DEF ActivationAt
      <3>2. drive'.cmd = drive.cmd /\ drive'.level = drive.level
        BY <1>2, <1>3, <2>6, WriteShaped
      <3>3. ~broken => CommandAt("S422", "param", "op", 1)'
        BY <3>1, <3>2 DEF CommandAt, Clean
      <3> QED BY <1>3, <2>1, <2>6, <3>3 DEF ActivationAt
    <2>7. CASE i = 7
      <3>1. ~broken => CommandAt("S422", "param", "op", 1)
        BY <1>1, <2>7 DEF ActivationAt
      <3>2. ~broken => CommandAt("S422", "param", "op", 2)'
        BY <1>2, <1>3, <2>7, <3>1, CommandStarts DEF Command
      <3> QED BY <1>3, <2>1, <2>7, <3>2 DEF ActivationAt
    <2>8. CASE i = 8
      <3>1. ~broken => CommandAt("S422", "param", "op", 2)
        BY <1>1, <2>8 DEF ActivationAt
      <3>2. drive.cmd["S422"] = "ok" /\ drive' = drive
        BY <1>2, <1>3, <1>5, <2>8
      <3>3. ~broken => CommandAt("S422", "param", "op", 3)'
        BY <3>1, <3>2, CommandFinished DEF Command
      <3> QED BY <1>3, <2>1, <2>8, <3>3 DEF ActivationAt
    <2>9. CASE i = 9
      <3>1. ~broken => CommandAt("S422", "param", "op", 3)
        BY <1>1, <2>9 DEF ActivationAt
      <3>2. ~broken => CommandAt("S422", "param", "op", 4)'
        BY <1>2, <1>3, <2>9, <3>1, CommandDeleted DEF Command
      <3> QED BY <1>3, <2>1, <2>9, <3>2 DEF ActivationAt
    <2> QED BY <1>7, <2>2, <2>3, <2>4, <2>5, <2>6, <2>7, <2>8, <2>9
  <1>8. CASE i \in 2..9
    <2>1. i + 1 \in 1..10
      BY <1>8
    <2>2. call'[m].of \in Activates /\ todo'[m] = Rest(P, i + 1) /\ ActivationAt(mode, i + 1)'
      BY <1>2, <1>4, <1>7, <1>8
    <2>3. Activating(m)'
      BY <1>0, <1>2, <2>1, <2>2 DEF Activating, P
    <2> QED BY <2>3 DEF Progress
  <1> QED BY <1>2, <1>6, <1>8

\* The look at the mode: nothing is left, or the mode is another one.
LEMMA ActivationLooks ==
  ASSUME DriveShape, ThreadShape, NEW m \in Thread, Activating(m), Look(m)
  PROVE  Progress(m)'
  <1>0. PICK mode : mode = ModeOf(call[m].of)
    OBVIOUS
  <1> DEFINE P == change_opmode(mode)
             s == Head(todo[m])
  <1>1. PICK i \in 1..10 : todo[m] = Rest(P, i) /\ ActivationAt(mode, i)
    BY <1>0 DEF Activating
  <1>2. todo[m] = Rest(change_opmode(mode), i)
    BY <1>1
  <1>3. /\ Tail(todo[m]) = Rest(P, i + 1)
        /\ i = 1 => /\ s.do = "unless" /\ s.of = "S32" /\ s.val = mode
                    /\ Skipped(todo[m]) = <<>>
        /\ i \in {2, 7} => s.do = "start"
        /\ i \in {3, 5, 8, 10} => s.do = "await"
        /\ i \in {4, 9} => s.do = "delete"
        /\ i = 6 => s.do = "write"
    <2>1. ActivationHead(m, mode, i)
      BY <1>2, ActivationPosition
    <2> QED BY <2>1 DEF ActivationHead
  <1>4. /\ s.do \in {"read", "unless"} /\ drive' = drive /\ broken' = broken
        /\ Goes(m, IF s.do = "unless" /\ Matches(s.of, drive.par[s.of], s.val)
                     THEN Skipped(todo[m]) ELSE Tail(todo[m]))
    BY DEF Look, Ready, Skipped
  <1> HIDE DEF P, s
  <1>5. i = 1
    BY <1>3, <1>4
  <1>6. Matches(s.of, drive.par[s.of], s.val) <=> drive.par["S32"] = mode
    BY <1>3, <1>5 DEF Matches
  <1>7. Goes(m, IF drive.par["S32"] = mode THEN <<>> ELSE Rest(P, 2))
    <2>1. s.do = "unless" /\ s.of = "S32" /\ s.val = mode
      BY <1>3, <1>5
    <2>2. Skipped(todo[m]) = <<>> /\ Tail(todo[m]) = Rest(P, 2)
      BY <1>3, <1>5
    <2>3. (IF s.do = "unless" /\ Matches(s.of, drive.par[s.of], s.val)
             THEN Skipped(todo[m]) ELSE Tail(todo[m]))
          = (IF drive.par["S32"] = mode THEN <<>> ELSE Rest(P, 2))
      BY <1>6, <2>1, <2>2
    <2> QED BY <1>4, <2>3
  <1>8. /\ todo'[m] = (IF drive.par["S32"] = mode THEN <<>> ELSE Rest(P, 2))
        /\ call'[m] = call[m]
    BY <1>7, ThreadGoes
  <1>9. call[m].of \in Activates /\ call[m].of # "sequencer_softtrigger"
    BY DEF Activating, Activates
  <1>10. ~broken => Normal
    BY <1>1, <1>5 DEF ActivationAt
  <1>11. CASE drive.par["S32"] = mode
    <2>1. ~broken' => Normal'
      BY <1>4, <1>10 DEF Normal, Clean
    <2> QED BY <1>8, <1>9, <1>11, <2>1 DEF Progress, Resting
  <1>12. CASE drive.par["S32"] # mode
    <2>1. ~broken' => CommandAt("S420", "op", "param", 1)'
      BY <1>4, <1>10 DEF CommandAt, Normal, Clean
    <2>2. ActivationAt(mode, 2)'
      BY <1>4, <1>12, <2>1 DEF ActivationAt
    <2>3. Activating(m)'
      BY <1>0, <1>8, <1>9, <1>12, <2>2 DEF Activating, P
    <2> QED BY <2>3 DEF Progress
  <1> QED BY <1>11, <1>12

\* A step of clear_error.
LEMMA ClearingTaken ==
  ASSUME DriveShape, ThreadShape, NEW m \in Thread, Clearing(m), Taken(m)
  PROVE  Progress(m)'
  <1> DEFINE P == execute_command("S99")
             s == Head(todo[m])
  <1>1. PICK i \in 1..4 : /\ todo[m] = Rest(P, i)
                          /\ ~broken => CommandAt("S99", "op", "op", i)
    BY DEF Clearing
  <1>2. todo[m] = Rest(execute_command("S99"), i)
    BY <1>1
  <1>3. /\ Tail(todo[m]) = Rest(P, i + 1) /\ Rest(P, 5) = <<>>
        /\ s.of = "S99"
        /\ i = 1 => s.do = "start"
        /\ i \in {2, 4} => s.do = "await"
        /\ i = 3 => s.do = "delete"
        /\ i = 2 => s.val = "ok"
        /\ i = 4 => s.val = "notset"
    <2>1. ClearingHead(m, i)
      BY <1>2, ClearingPosition
    <2> QED BY <2>1 DEF ClearingHead
  <1>4. Goes(m, Tail(todo[m])) /\ call[m].of = "clear_error"
    BY DEF Taken, Clearing
  <1>5. todo'[m] = Rest(P, i + 1) /\ call'[m].of = "clear_error"
    BY <1>3, <1>4, ThreadGoes
  <1>6. /\ drive' \in Performed(s) /\ broken' = broken
        /\ s.do = "await" => drive.cmd[s.of] = s.val
    BY DEF Taken
  <1> HIDE DEF P, s
  <1>7. s.do = "await" => drive' = drive
    BY <1>6 DEF Performed
  <1>8. ASSUME i \in 1..3, ~broken
        PROVE  CommandAt("S99", "op", "op", i + 1)'
    <2>1. CASE i = 1
      <3>1. CommandAt("S99", "op", "op", 2)'
        BY <1>1, <1>3, <1>6, <1>8, <2>1, CommandStarts DEF Command
      <3> QED BY <2>1, <3>1
    <2>2. CASE i = 2
      <3>1. drive.cmd["S99"] = "ok" /\ drive' = drive
        BY <1>3, <1>6, <1>7, <2>2
      <3>2. CommandAt("S99", "op", "op", 3)'
        BY <1>1, <1>8, <2>2, <3>1, CommandFinished DEF Command
      <3> QED BY <2>2, <3>2
    <2>3. CASE i = 3
      <3>1. CommandAt("S99", "op", "op", 4)'
        BY <1>1, <1>3, <1>6, <1>8, <2>3, CommandDeleted DEF Command
      <3> QED BY <2>3, <3>1
    <2> QED BY <1>8, <2>1, <2>2, <2>3
  <1>9. CASE i \in 1..3
    <2>1. Clearing(m)'
      BY <1>5, <1>6, <1>8, <1>9 DEF Clearing, P
    <2> QED BY <2>1 DEF Progress
  <1>10. CASE i = 4
    <2>1. drive.cmd["S99"] = "notset" /\ drive' = drive
      BY <1>3, <1>6, <1>7, <1>10
    <2>2. ~broken => Clean' /\ drive'.level = "op"
      BY <1>1, <1>10, <2>1, CommandGone DEF Command
    <2> QED BY <1>3, <1>5, <1>6, <1>10, <2>2 DEF Progress, Resting, Normal
  <1> QED BY <1>9, <1>10

\* A step of a software trigger.
LEMMA TriggerTaken ==
  ASSUME DriveShape, ThreadShape, NEW m \in Thread, Triggering(m), Taken(m)
  PROVE  Progress(m)'
  <1> DEFINE P == sequencer_softtrigger
             s == Head(todo[m])
  <1>1. PICK i \in 1..7 : todo[m] = Rest(P, i) /\ TriggerAt(m, i)
    BY DEF Triggering
  <1>2. todo[m] = Rest(sequencer_softtrigger, i)
    BY <1>1
  <1>3. /\ Tail(todo[m]) = Rest(P, i + 1) /\ Rest(P, 8) = <<>>
        /\ i \in {1, 4} => s.do = "write" /\ s.of = "P1371"
        /\ i \in {2, 5} => s.do = "write" /\ s.of = "P1372" /\ s.val = 0
        /\ i = 6 => s.do = "write" /\ s.of = "P1372" /\ s.val = 1
        /\ i \in {3, 7} => s.do = "poll"
    <2>1. TriggerHead(m, i)
      BY <1>2, TriggerPosition
    <2> QED BY <2>1 DEF TriggerHead
  <1>4. /\ Goes(m, Tail(todo[m])) /\ call[m].of = "sequencer_softtrigger"
        /\ ~broken => Normal
    BY DEF Taken, Triggering
  <1>5. todo'[m] = Rest(P, i + 1) /\ call'[m].of = "sequencer_softtrigger"
    BY <1>3, <1>4, ThreadGoes
  <1>6. /\ drive' \in Performed(s) /\ broken' = broken
        /\ edges'[m] = IF Triggers(s) THEN edges[m] + 1 ELSE edges[m]
    BY DEF Taken
  <1> HIDE DEF P, s
  <1>7. /\ drive'.cmd = drive.cmd /\ drive'.level = drive.level
        /\ s.do = "write" /\ s.of = "P1372" => drive'.par["P1372"] = s.val
    <2>1. CASE s.do = "write"
      BY <1>3, <1>6, <2>1, WriteShaped DEF Parameter
    <2>2. CASE s.do = "poll"
      BY <1>6, <2>2 DEF Performed
    <2> QED BY <1>3, <2>1, <2>2
  <1>8. ~broken' => Normal'
    BY <1>4, <1>6, <1>7 DEF Normal, Clean
  <1>9. Triggers(s) <=> i = 6
    <2>1. CASE i = 6
      <3>1. drive.par["P1372"] = 0
        BY <1>1, <2>1 DEF TriggerAt
      <3> QED BY <1>3, <2>1, <3>1 DEF Triggers
    <2>2. CASE i \in {2, 5}
      <3>1. ~(s.val > drive.par["P1372"])
        BY <1>3, <2>2 DEF DriveShape, Shaped
      <3> QED BY <2>2, <3>1 DEF Triggers
    <2>3. CASE i \in {1, 3, 4, 7}
      <3>1. s.do = "poll" \/ s.of = "P1371"
        BY <1>3, <2>3
      <3> QED BY <2>3, <3>1 DEF Triggers
    <2> QED BY <2>1, <2>2, <2>3
  <1>10. CASE i \in 1..6
    <2>1. TriggerAt(m, i + 1)'
      <3>1. i + 1 \in 1..6 => edges'[m] = 0
        BY <1>1, <1>6, <1>9, <1>10 DEF TriggerAt
      <3>2. i + 1 = 6 => drive'.par["P1372"] = 0
        BY <1>3, <1>7, <1>10
      <3>3. i + 1 = 7 => edges'[m] = 1
        <4>1. i = 6 => edges[m] = 0
          BY <1>1 DEF TriggerAt
        <4> QED BY <1>6, <1>9, <1>10, <4>1
      <3> QED BY <3>1, <3>2, <3>3 DEF TriggerAt
    <2>2. Triggering(m)'
      BY <1>5, <1>8, <1>10, <2>1 DEF Triggering, P
    <2> QED BY <2>2 DEF Progress
  <1>11. CASE i = 7
    <2>1. edges'[m] = 1
      BY <1>1, <1>6, <1>9, <1>11 DEF TriggerAt
    <2> QED BY <1>3, <1>5, <1>8, <1>11, <2>1 DEF Progress, Resting
  <1> QED BY <1>10, <1>11

\* What is left of plain steps is plain.
LEMMA PlainRest ==
  ASSUME NEW P, AllPlain(P), P # <<>>
  PROVE  /\ AllPlain(Tail(P)) /\ Plain(Head(P))
         /\ \A k \in Nat : AllPlain(SubSeq(P, k + 2, Len(P)))
  <1>1. IsSeq(P) /\ \A i \in 1..Len(P) : Plain(P[i])
    BY DEF AllPlain
  <1>2. /\ IsSeq(Tail(P)) /\ Head(P) = P[1] /\ 1 \in 1..Len(P)
        /\ \A i \in 1..Len(Tail(P)) : \E j \in 1..Len(P) : Tail(P)[i] = P[j]
        /\ \A k \in Nat : LET Q == SubSeq(P, k + 2, Len(P))
                          IN  /\ IsSeq(Q)
                              /\ \A i \in 1..Len(Q) : \E j \in 1..Len(P) : Q[i] = P[j]
    BY <1>1, RestOf
  <1>3. AllPlain(Tail(P)) /\ Plain(Head(P))
    BY <1>1, <1>2 DEF AllPlain
  <1>4. ASSUME NEW k \in Nat PROVE AllPlain(SubSeq(P, k + 2, Len(P)))
    <2> DEFINE Q == SubSeq(P, k + 2, Len(P))
    <2>1. IsSeq(Q) /\ \A i \in 1..Len(Q) : \E j \in 1..Len(P) : Q[i] = P[j]
      BY <1>2
    <2> HIDE DEF Q
    <2>2. AllPlain(Q)
      BY <1>1, <2>1 DEF AllPlain
    <2> QED BY <2>2 DEF Q
  <1> QED BY <1>3, <1>4

\* A quiet function goes on.
LEMMA WritingGoes ==
  ASSUME ThreadShape, NEW m \in Thread, Writing(m), NEW rest, AllPlain(rest), Goes(m, rest),
         broken' = broken, drive'.cmd = drive.cmd, drive'.level = drive.level
  PROVE  Progress(m)'
  <1>1. todo'[m] = rest /\ call'[m] = call[m]
    BY ThreadGoes
  <1>2. call[m].of \in Quiet /\ (~broken' => Normal')
    BY DEF Writing, Normal, Clean
  <1>3. CASE rest = <<>>
    BY <1>1, <1>2, <1>3 DEF Progress, Resting, Quiet
  <1>4. CASE rest # <<>>
    <2>1. Writing(m)'
      BY <1>1, <1>2, <1>4 DEF Writing
    <2> QED BY <2>1 DEF Progress
  <1> QED BY <1>3, <1>4

\* A step of a quiet function.
LEMMA WritingTaken ==
  ASSUME DriveShape, ThreadShape, NEW m \in Thread, Writing(m), Taken(m)
  PROVE  Progress(m)'
  <1> DEFINE s == Head(todo[m])
             rest == Tail(todo[m])
  <1>1. AllPlain(todo[m]) /\ todo[m] # <<>>
    BY DEF Writing
  <1>2. AllPlain(rest) /\ Plain(s)
    BY <1>1, PlainRest
  <1>3. Goes(m, rest) /\ drive' \in Performed(s) /\ broken' = broken
    BY DEF Taken
  <1> HIDE DEF s, rest
  <1>4. drive'.cmd = drive.cmd /\ drive'.level = drive.level
    BY <1>2, <1>3, PerformedShaped DEF Plain
  <1> QED BY <1>2, <1>3, <1>4, WritingGoes

\* A quiet function reads, and may leave out steps.
LEMMA WritingLooks ==
  ASSUME ThreadShape, NEW m \in Thread, Writing(m), Look(m)
  PROVE  Progress(m)'
  <1> DEFINE P == todo[m]
             s == Head(P)
             rest == IF s.do = "unless" /\ Matches(s.of, drive.par[s.of], s.val)
                       THEN SubSeq(P, s.skip + 2, Len(P)) ELSE Tail(P)
  <1>1. AllPlain(P) /\ P # <<>>
    BY DEF Writing
  <1>2. Goes(m, rest) /\ drive' = drive /\ broken' = broken
    BY DEF Look
  <1>3. AllPlain(rest)
    <2> HIDE DEF P
    <2>1. /\ AllPlain(Tail(P)) /\ Plain(s)
          /\ \A k \in Nat : AllPlain(SubSeq(P, k + 2, Len(P)))
      BY <1>1, PlainRest
    <2>2. CASE s.do = "unless" /\ Matches(s.of, drive.par[s.of], s.val)
      <3>1. s.skip \in Nat
        BY <2>1, <2>2 DEF Plain
      <3> HIDE DEF s
      <3>2. AllPlain(SubSeq(P, s.skip + 2, Len(P)))
        BY <2>1, <3>1
      <3> QED BY <2>2, <3>2
    <2>3. CASE ~(s.do = "unless" /\ Matches(s.of, drive.par[s.of], s.val))
      BY <2>1, <2>3
    <2> QED BY <2>2, <2>3
  <1> HIDE DEF rest
  <1> QED BY <1>2, <1>3, WritingGoes

\* A step of whatever function a controller is in.
LEMMA ControllerTakes ==
  ASSUME DriveShape, ThreadShape, NEW m \in Thread, Progress(m), Taken(m),
         Head(todo[m]).do # "unless"
  PROVE  Progress(m)'
  <1>1. ~Resting(m)
    BY DEF Resting, Taken
  <1> QED BY <1>1, ActivationTaken, ClearingTaken, TriggerTaken, WritingTaken DEF Progress

\* A look of whatever function a controller is in.
LEMMA ControllerLooks ==
  ASSUME DriveShape, ThreadShape, NEW m \in Thread, Progress(m), Look(m)
  PROVE  Progress(m)'
  <1>1. todo[m] # <<>> /\ Head(todo[m]).do \in {"read", "unless"}
    BY DEF Look, Ready
  <1>2. ~Resting(m)
    BY <1>1 DEF Resting
  <1>3. ~Clearing(m)
    <2>1. SUFFICES ASSUME NEW i \in 1..4, todo[m] = Rest(execute_command("S99"), i)
                   PROVE  FALSE
      BY DEF Clearing
    <2>2. ClearingHead(m, i)
      BY <2>1, ClearingPosition
    <2> QED BY <1>1, <2>2 DEF ClearingHead
  <1>4. ~Triggering(m)
    <2>1. SUFFICES ASSUME NEW i \in 1..7, todo[m] = Rest(sequencer_softtrigger, i)
                   PROVE  FALSE
      BY DEF Triggering
    <2>2. TriggerHead(m, i)
      BY <2>1, TriggerPosition
    <2> QED BY <1>1, <2>2 DEF TriggerHead
  <1> QED BY <1>2, <1>3, <1>4, ActivationLooks, WritingLooks DEF Progress

\* Perform takes the first step off.
LEMMA PerformTakes ==
  ASSUME ThreadShape, NEW m \in Thread, Perform(m)
  PROVE  Taken(m) /\ Head(todo[m]).do # "unless"
  <1> DEFINE s == Head(todo[m])
             n == IF Triggers(s) THEN edges[m] + 1 ELSE edges[m]
  <1>1. /\ todo[m] # <<>> /\ s.do \in {"write", "elm", "start", "delete"}
        /\ drive' \in Performed(s) /\ edges' = [edges EXCEPT ![m] = n]
        /\ Goes(m, Tail(todo[m])) /\ broken' = broken
    BY DEF Perform, Ready
  <1>2. edges'[m] = n
    <2> HIDE DEF n
    <2> QED BY <1>1 DEF ThreadShape
  <1> QED BY <1>1, <1>2 DEF Taken

\* So do the polls when they end.
LEMMA CheckTakes ==
  ASSUME ThreadShape, NEW m \in Thread, todo[m] # <<>>, Goes(m, Tail(todo[m])),
         drive' = drive, edges' = edges, broken' = broken,
         Head(todo[m]).do \in {"await", "poll"},
         Head(todo[m]).do = "await" => drive.cmd[Head(todo[m]).of] = Head(todo[m]).val
  PROVE  Taken(m)
  <1> DEFINE s == Head(todo[m])
  <1>1. s.do \in {"await", "poll"} /\ (s.do = "await" => drive.cmd[s.of] = s.val)
    OBVIOUS
  <1>2. drive' \in Performed(s)
    <2> HIDE DEF s
    <2> QED BY <1>1 DEF Performed
  <1>3. ~Triggers(s)
    <2> HIDE DEF s
    <2> QED BY <1>1 DEF Triggers
  <1> QED BY <1>1, <1>2, <1>3 DEF Taken

\* A function that throws returns an error.
LEMMA ErrorNotZero == \A f : set_error(ErrorBlock(f)) # 0
  <1>1. \A f : ErrorBlock(f) \in {6, 7, 8, 9, 10}
    BY DEF ErrorBlock, Block
  <1> QED BY <1>1 DEF set_error

\* Where a function throws: nothing is promised once a command was broken off.
LEMMA ControllerReturns ==
  ASSUME ThreadShape, NEW m \in Thread, Progress(m), todo[m] # <<>>,
         NEW code, code # 0, Returns(m, code),
         call[m].of \notin Executes => drive'.cmd = drive.cmd /\ drive'.level = drive.level
  PROVE  Progress(m)'
  <1>1. todo'[m] = <<>> /\ result'[m] = code
    BY DEF Returns, ThreadShape
  <1>2. broken' = (broken \/ call[m].of \in Executes)
    BY DEF Returns
  <1>3. ASSUME ~broken' PROVE Normal'
    <2>1. ~broken /\ call[m].of \notin Executes
      BY <1>2, <1>3 DEF ThreadShape
    <2>2. Triggering(m) \/ Writing(m)
      BY <2>1 DEF Progress, Resting, Activating, Clearing, Executes
    <2>3. Normal
      BY <2>1, <2>2 DEF Triggering, Writing
    <2> QED BY <2>1, <2>3 DEF Normal, Clean
  <1> QED BY <1>1, <1>3 DEF Progress, Resting

\* A step that is refused, or whose exchange fails.
LEMMA ControllerThrows ==
  ASSUME DriveShape, ThreadShape, NEW m \in Thread, Progress(m), Rejected(m) \/ Fails(m)
  PROVE  Progress(m)' /\ DriveShape'
  <1> DEFINE s == Head(todo[m])
  <1>1. todo[m] # <<>> /\ Returns(m, set_error(ErrorBlock(call[m].of)))
    BY DEF Rejected, Fails, Throws
  <1>2. drive' = drive \/ drive' = Resized(s) \/ drive' \in Performed(s)
    BY DEF Rejected, Fails
  <1>3. Harmless(s) /\ (call[m].of \notin Executes => s.do \notin {"start", "delete"})
    BY <1>1, HeadHarmless
  <1> HIDE DEF s
  <1>4. /\ DriveShape'
        /\ call[m].of \notin Executes => drive'.cmd = drive.cmd /\ drive'.level = drive.level
    <2>1. CASE drive' = drive
      BY <2>1 DEF DriveShape
    <2>2. CASE drive' = Resized(s)
      <3>1. /\ Shaped(Resized(s)) /\ Resized(s).cmd = drive.cmd
            /\ Resized(s).level = drive.level
        BY ResizedShaped
      <3> QED BY <2>2, <3>1 DEF DriveShape
    <2>3. CASE drive' \in Performed(s)
      <3>1. /\ Shaped(drive') /\ drive'.level = drive.level
            /\ s.do \notin {"start", "delete"} => drive'.cmd = drive.cmd
        BY <1>3, <2>3, PerformedShaped DEF Harmless
      <3> QED BY <1>3, <3>1 DEF DriveShape
    <2> QED BY <1>2, <2>1, <2>2, <2>3
  <1>5. Progress(m)'
    <2>1. set_error(ErrorBlock(call[m].of)) # 0
      BY ErrorNotZero
    <2> QED BY <1>1, <1>4, <2>1, ControllerReturns
  <1> QED BY <1>4, <1>5

-----------------------------------------------------------------------------
(* The invariant and each action.                                          *)

OthersRead(m) == \A t \in Thread \ {m} : Reading(t)

\* A step of the controller leaves the other threads alone.
LEMMA OthersKept ==
  ASSUME NEW m, OthersRead(m),
         \A t \in Thread \ {m} : todo'[t] = todo[t] /\ call'[t] = call[t]
  PROVE  OthersRead(m)'
  BY DEF OthersRead, Reading

\* Steps of the controller within a function.
LEMMA ControllerSteps ==
  ASSUME NEW m \in Thread, Inv(m), Proceeds(m) \/ Fails(m)
  PROVE  Inv(m)'
  <1>1. DriveShape /\ ThreadShape /\ Progress(m) /\ OthersRead(m)
    BY DEF Inv, OthersRead
  <1>2. ThreadShape' /\ OthersRead(m)'
    <2>1. /\ ThreadShape'
          /\ \A t \in Thread \ {m} : todo'[t] = todo[t] /\ call'[t] = call[t]
      <3>1. CASE \E rest : Goes(m, rest) /\ edges' = edges /\ broken' = broken
        BY <1>1, <3>1 DEF Goes, ThreadShape
      <3>2. CASE Perform(m)
        <4>1. PICK n : edges' = [edges EXCEPT ![m] = n]
          BY <3>2 DEF Perform
        <4>2. Goes(m, Tail(todo[m])) /\ broken' = broken
          BY <3>2 DEF Perform
        <4> QED BY <1>1, <4>1, <4>2 DEF Goes, ThreadShape
      <3>3. CASE \E code : Returns(m, code)
        BY <1>1, <3>3 DEF Returns, ThreadShape
      <3>4. Perform(m) \/ (\E code : Returns(m, code))
              \/ (\E rest : Goes(m, rest) /\ edges' = edges /\ broken' = broken)
        BY DEF Proceeds, Look, CheckCommand, CheckFinished, Rejected, Fails, Throws
      <3> QED BY <3>1, <3>2, <3>3, <3>4
    <2> QED BY <1>1, <2>1, OthersKept
  <1>3. Progress(m)' /\ DriveShape'
    <2>1. CASE Look(m)
      <3>1. drive' = drive
        BY <2>1 DEF Look
      <3> QED BY <1>1, <2>1, <3>1, ControllerLooks DEF DriveShape
    <2>2. CASE Perform(m)
      <3> DEFINE s == Head(todo[m])
      <3>1. todo[m] # <<>> /\ drive' \in Performed(s)
        BY <2>2 DEF Perform, Ready
      <3>2. Harmless(s)
        BY <1>1, <3>1, HeadHarmless
      <3> HIDE DEF s
      <3>3. DriveShape'
        BY <1>1, <3>1, <3>2, PerformedShaped DEF Harmless, DriveShape
      <3>4. Progress(m)'
        BY <1>1, <2>2, PerformTakes, ControllerTakes
      <3> QED BY <3>3, <3>4
    <2>3. CASE CheckCommand(m)
      <3> DEFINE s == Head(todo[m])
      <3>1. /\ todo[m] # <<>> /\ s.do = "await" /\ drive' = drive
            /\ IF drive.cmd[s.of] = s.val
                 THEN Goes(m, Tail(todo[m])) /\ UNCHANGED <<edges, broken>>
                 ELSE Returns(m, set_error(ErrorBlock(call[m].of)))
        BY <2>3 DEF CheckCommand, Ready
      <3>2. CASE drive.cmd[s.of] = s.val
        <4>1. Taken(m)
          BY <1>1, <3>1, <3>2, CheckTakes
        <4>2. Progress(m)'
          BY <1>1, <3>1, <4>1, ControllerTakes
        <4> QED BY <1>1, <3>1, <4>2 DEF DriveShape
      <3>3. CASE drive.cmd[s.of] # s.val
        <4>1. Returns(m, set_error(ErrorBlock(call[m].of)))
          BY <3>1, <3>3
        <4>2. set_error(ErrorBlock(call[m].of)) # 0
          BY ErrorNotZero
        <4>3. Progress(m)'
          BY <1>1, <3>1, <4>1, <4>2, ControllerReturns
        <4> QED BY <1>1, <3>1, <4>3 DEF DriveShape
      <3> QED BY <3>2, <3>3
    <2>4. CASE CheckFinished(m)
      <3> DEFINE s == Head(todo[m])
      <3>1. /\ todo[m] # <<>> /\ s.do = "poll" /\ drive' = drive
            /\ Goes(m, Tail(todo[m])) /\ edges' = edges /\ broken' = broken
        BY <2>4 DEF CheckFinished, Ready
      <3>2. Taken(m)
        BY <1>1, <3>1, CheckTakes
      <3>3. Progress(m)'
        BY <1>1, <3>1, <3>2, ControllerTakes
      <3> QED BY <1>1, <3>1, <3>3 DEF DriveShape
    <2>5. CASE Rejected(m) \/ Fails(m)
      BY <1>1, <2>5, ControllerThrows
    <2> QED BY <2>1, <2>2, <2>3, <2>4, <2>5 DEF Proceeds
  <1> QED BY <1>2, <1>3 DEF Inv, OthersRead

\* Whose steps are left has not returned, and who has none left rests.
LEMMA StepsLeft ==
  ASSUME NEW m, Progress(m)
  PROVE  todo[m] = <<>> <=> Resting(m)
  <1>1. Activating(m) => todo[m] # <<>>
    <2>1. SUFFICES ASSUME NEW mode, NEW i \in 1..10, todo[m] = Rest(change_opmode(mode), i)
                   PROVE  todo[m] # <<>>
      BY DEF Activating
    <2>2. ActivationHead(m, mode, i)
      BY <2>1, ActivationPosition
    <2> QED BY <2>2 DEF ActivationHead
  <1>2. Clearing(m) => todo[m] # <<>>
    <2>1. SUFFICES ASSUME NEW i \in 1..4, todo[m] = Rest(execute_command("S99"), i)
                   PROVE  todo[m] # <<>>
      BY DEF Clearing
    <2>2. ClearingHead(m, i)
      BY <2>1, ClearingPosition
    <2> QED BY <2>2 DEF ClearingHead
  <1>3. Triggering(m) => todo[m] # <<>>
    <2>1. SUFFICES ASSUME NEW i \in 1..7, todo[m] = Rest(sequencer_softtrigger, i)
                   PROVE  todo[m] # <<>>
      BY DEF Triggering
    <2>2. TriggerHead(m, i)
      BY <2>1, TriggerPosition
    <2> QED BY <2>2 DEF TriggerHead
  <1> QED BY <1>1, <1>2, <1>3 DEF Progress, Writing, Resting

\* init, open, close.
LEMMA ObjectSteps ==
  ASSUME NEW m \in Thread, Inv(m), init(m) \/ open(m) \/ close(m)
  PROVE  Inv(m)'
  <1>1. DriveShape /\ ThreadShape /\ Progress(m) /\ OthersRead(m)
    BY DEF Inv, OthersRead
  <1>a. PICK f \in {"init", "open", "close"} : \E code : Ends(m, f, code)
    BY DEF init, open, close
  <1>2. PICK code : Ends(m, f, code)
    BY <1>a
  <1>3. /\ todo[m] = <<>> /\ todo' = todo /\ drive' = drive
        /\ edges' = edges /\ broken' = broken
        /\ call' = [call EXCEPT ![m] = [Idle EXCEPT !.of = f]]
        /\ result' = [result EXCEPT ![m] = code]
    BY <1>2 DEF Ends
  <1>4. call'[m].of = f
    BY <1>1, <1>3 DEF ThreadShape, Idle
  <1>5. Resting(m)
    BY <1>1, <1>3, StepsLeft
  <1>6. Resting(m)'
    BY <1>3, <1>4, <1>5 DEF Resting, Normal, Clean
  <1>7. DriveShape' /\ ThreadShape'
    BY <1>1, <1>3 DEF DriveShape, ThreadShape
  <1>8. OthersRead(m)'
    <2>1. \A t \in Thread \ {m} : todo'[t] = todo[t] /\ call'[t] = call[t]
      BY <1>1, <1>3 DEF ThreadShape
    <2> QED BY <1>1, <2>1, OthersKept
  <1> QED BY <1>6, <1>7, <1>8 DEF Inv, OthersRead, Progress

\* A call of the controller.
LEMMA ChangeSteps ==
  ASSUME NEW m \in Thread, Inv(m), Change(m)
  PROVE  Inv(m)'
  <1>1. DriveShape /\ ThreadShape /\ Progress(m) /\ OthersRead(m)
    BY DEF Inv, OthersRead
  <1>a. PICK f \in Changing :
          \E d \in (CASE f = "sequencer_write" -> RunSequences
                      [] f = "speedcontrol_write" -> {<<"cw">>, <<"ccw">>}
                      [] OTHER -> {<<>>}) :
            Invoke(m, [of |-> f, no |-> calls + 1, directions |-> d])
    BY DEF Change
  <1>2. PICK d : /\ d \in RunSequences \/ d = <<"cw">> \/ d = <<"ccw">> \/ d = <<>>
                 /\ Invoke(m, [of |-> f, no |-> calls + 1, directions |-> d])
    BY <1>a
  <1>3. d \in Seq({"cw", "ccw"})
    <2>1. <<"cw">> \in Seq({"cw", "ccw"}) /\ <<"ccw">> \in Seq({"cw", "ccw"})
          /\ <<>> \in Seq({"cw", "ccw"})
      OBVIOUS
    <2> QED BY <1>2, <2>1, FunctionAssumption
  <1> DEFINE k == calls + 1
             c == [of |-> f, no |-> k, directions |-> d]
             P == Steps(f, k, d)
  <1>4. /\ todo[m] = <<>> /\ call' = [call EXCEPT ![m] = c]
        /\ edges' = [edges EXCEPT ![m] = 0] /\ drive' = drive /\ broken' = broken
        /\ \/ /\ todo' = todo
              /\ result' = [result EXCEPT ![m] = set_error(Block.Invalid_Pointer)]
           \/ todo' = [todo EXCEPT ![m] = P] /\ result' = [result EXCEPT ![m] = 0]
    BY <1>2 DEF Invoke
  <1>5. call'[m].of = f /\ edges'[m] = 0
    BY <1>1, <1>4 DEF ThreadShape
  <1>6. \/ todo'[m] = P
        \/ todo'[m] = <<>> /\ result'[m] = set_error(Block.Invalid_Pointer)
    <2> HIDE DEF P
    <2> QED BY <1>1, <1>4 DEF ThreadShape
  <1>7. Normal' \/ broken'
    <2>1. Resting(m)
      BY <1>1, <1>4, StepsLeft
    <2> QED BY <1>4, <2>1 DEF Resting, Normal, Clean
  <1>8. DriveShape' /\ ThreadShape' /\ OthersRead(m)'
    <2> HIDE DEF P, c
    <2>1. \A t \in Thread \ {m} : todo'[t] = todo[t] /\ call'[t] = call[t]
      BY <1>1, <1>4 DEF ThreadShape
    <2>2. OthersRead(m)'
      BY <1>1, <2>1, OthersKept
    <2> QED BY <1>1, <1>4, <2>2 DEF DriveShape, ThreadShape
  <1>9. CASE todo'[m] = <<>> /\ result'[m] = set_error(Block.Invalid_Pointer)
    <2>1. set_error(Block.Invalid_Pointer) # 0
      BY DEF set_error, Block
    <2> QED BY <1>7, <1>8, <1>9, <2>1 DEF Inv, OthersRead, Progress, Resting
  <1>10. CASE todo'[m] = P
    <2>1. CASE f \in Activates
      <3> DEFINE Q == change_opmode(ModeOf(f))
      <3>1. P = Q
        BY <2>1 DEF Steps, ModeOf, Activates, sequencer_activate, speedcontrol_activate
      <3>2. IsSeq(Q) /\ Len(Q) = 10
        BY ActivationSteps
      <3> HIDE DEF Q
      <3>3. 1 \in 1..Len(Q)
        BY <3>2
      <3>4. Rest(Q, 1) = Q
        BY <3>2, <3>3, RestFirst
      <3> HIDE DEF P
      <3>5. todo'[m] = Rest(Q, 1)
        BY <1>10, <3>1, <3>4
      <3>6. ActivationAt(ModeOf(f), 1)'
        BY <1>7 DEF ActivationAt, Normal, Clean
      <3>7. Activating(m)'
        BY <1>5, <2>1, <3>5, <3>6 DEF Activating, Q
      <3> QED BY <1>8, <3>7 DEF Inv, OthersRead, Progress
    <2>2. CASE f = "clear_error"
      <3> DEFINE Q == execute_command("S99")
      <3>1. P = Q
        BY <2>2 DEF Steps, clear_error
      <3>2. IsSeq(Q) /\ Len(Q) = 4
        BY CommandSteps
      <3> HIDE DEF Q
      <3>3. 1 \in 1..Len(Q)
        BY <3>2
      <3>4. Rest(Q, 1) = Q
        BY <3>2, <3>3, RestFirst
      <3> HIDE DEF P
      <3>5. todo'[m] = Rest(Q, 1)
        BY <1>10, <3>1, <3>4
      <3>6. ~broken' => CommandAt("S99", "op", "op", 1)'
        BY <1>7 DEF CommandAt, Normal, Clean
      <3>7. Clearing(m)'
        BY <1>5, <2>2, <3>5, <3>6 DEF Clearing, Q
      <3> QED BY <1>8, <3>7 DEF Inv, OthersRead, Progress
    <2>3. CASE f = "sequencer_softtrigger"
      <3> DEFINE Q == sequencer_softtrigger
      <3>1. P = Q
        BY <2>3 DEF Steps
      <3>2. IsSeq(Q) /\ Len(Q) = 7
        BY TriggerSteps
      <3> HIDE DEF Q
      <3>3. 1 \in 1..Len(Q)
        BY <3>2
      <3>4. Rest(Q, 1) = Q
        BY <3>2, <3>3, RestFirst
      <3> HIDE DEF P
      <3>5. todo'[m] = Rest(Q, 1)
        BY <1>10, <3>1, <3>4
      <3>6. TriggerAt(m, 1)'
        BY <1>5 DEF TriggerAt
      <3>7. Triggering(m)'
        BY <1>5, <1>7, <2>3, <3>5, <3>6 DEF Triggering, Q
      <3> QED BY <1>8, <3>7 DEF Inv, OthersRead, Progress
    <2>4. CASE f \in Quiet
      <3>1. AllPlain(P)
        BY <1>3, <2>4, QuietPlain
      <3> HIDE DEF P
      <3>2. CASE P = <<>>
        BY <1>5, <1>7, <1>8, <1>10, <2>4, <3>2 DEF Inv, OthersRead, Progress, Resting, Quiet
      <3>3. CASE P # <<>>
        <4>1. Writing(m)'
          BY <1>5, <1>7, <1>10, <2>4, <3>1, <3>3 DEF Writing
        <4> QED BY <1>8, <4>1 DEF Inv, OthersRead, Progress
      <3> QED BY <3>2, <3>3
    <2> QED BY <2>1, <2>2, <2>3, <2>4, FunctionAssumption DEF Activates, Quiet
  <1> QED BY <1>6, <1>9, <1>10

\* A get function reads.
LEMMA GetReads ==
  ASSUME NEW f \in Getting, NEW k, NEW directions
  PROVE  LET P == Steps(f, k, directions)
         IN  IsSeq(P) /\ \A i \in 1..Len(P) : P[i].do = "read"
  <1>1. ASSUME NEW p PROVE IsSeq(Read(p)) /\ \A i \in 1..Len(Read(p)) : Read(p)[i].do = "read"
    BY Single DEF Read
  <1>2. \E p : Steps(f, k, directions) = Read(p)
    BY FunctionAssumption DEF Steps, sequencer_getstatus, get_drivemode, get_opstate,
       get_speed, get_diagnostic_msg, get_diagnostic_num
  <1> QED BY <1>1, <1>2

\* Calls and steps of the threads that only look.
LEMMA ReaderSteps ==
  ASSUME NEW m \in Thread, Inv(m), NEW t \in Thread \ {m}, Proceeds(t) \/ Fails(t) \/ Get(t)
  PROVE  Inv(m)'
  <1>1. DriveShape /\ ThreadShape /\ Progress(m) /\ OthersRead(m)
    BY DEF Inv, OthersRead
  <1> DEFINE s == Head(todo[t])
  <1>2. /\ call[t].of \notin Executes /\ IsSeq(todo[t])
        /\ \A i \in 1..Len(todo[t]) : todo[t][i].do = "read"
    BY <1>1 DEF OthersRead, Reading
  <1>3. ASSUME todo[t] # <<>>
        PROVE  /\ s.do = "read" /\ IsSeq(Tail(todo[t]))
               /\ \A i \in 1..Len(Tail(todo[t])) : Tail(todo[t])[i].do = "read"
    <2> DEFINE P == todo[t]
    <2> HIDE DEF P
    <2>1. PICK S : P \in Seq(S)
      BY <1>2 DEF IsSeq, P
    <2>2. P # <<>> /\ \A i \in 1..Len(P) : P[i].do = "read"
      BY <1>2, <1>3 DEF P
    <2>3. 1 \in 1..Len(P) /\ Head(P) = P[1]
      BY <2>1, <2>2
    <2>4. Tail(P) \in Seq(S) /\ Len(Tail(P)) = Len(P) - 1 /\ Len(P) \in Nat
      BY <2>1, <2>2
    <2>5. ASSUME NEW i \in 1..Len(Tail(P)) PROVE Tail(P)[i].do = "read"
      <3>1. Tail(P)[i] = P[i + 1] /\ i + 1 \in 1..Len(P)
        BY <2>1, <2>2, <2>4
      <3> QED BY <2>2, <3>1
    <2>6. Head(P).do = "read" /\ IsSeq(Tail(P))
      BY <2>2, <2>3, <2>4 DEF IsSeq
    <2> QED BY <2>5, <2>6 DEF P
  <1> DEFINE Keeps == /\ drive' = drive /\ broken' = broken
                      /\ todo'[m] = todo[m] /\ call'[m] = call[m]
                      /\ result'[m] = result[m] /\ edges'[m] = edges[m]
             Reads == ThreadShape' /\ OthersRead(m)'
  <1>4. CASE Look(t)
    <2>1. /\ todo[t] # <<>> /\ drive' = drive /\ broken' = broken /\ edges' = edges
          /\ Goes(t, IF s.do = "unless" /\ Matches(s.of, drive.par[s.of], s.val)
                       THEN SubSeq(todo[t], s.skip + 2, Len(todo[t])) ELSE Tail(todo[t]))
      BY <1>4 DEF Look, Ready
    <2>2. s.do = "read"
      BY <1>3, <2>1
    <2>3. Goes(t, Tail(todo[t]))
      <3> HIDE DEF s
      <3> QED BY <2>1, <2>2
    <2>4. /\ todo' = [todo EXCEPT ![t] = Tail(todo[t])]
          /\ call' = call /\ result' = result
      BY <2>3 DEF Goes
    <2>5. Keeps /\ ThreadShape'
      BY <1>1, <2>1, <2>4 DEF ThreadShape
    <2>6. Reading(t)'
      <3>1. todo'[t] = Tail(todo[t]) /\ call'[t] = call[t]
        BY <1>1, <2>4 DEF ThreadShape
      <3>2. /\ IsSeq(todo'[t])
            /\ \A i \in 1..Len(todo'[t]) : todo'[t][i].do = "read"
        BY <1>3, <2>1, <3>1
      <3> QED BY <1>2, <3>1, <3>2 DEF Reading
    <2>7. \A u \in Thread \ {m, t} : todo'[u] = todo[u] /\ call'[u] = call[u]
      BY <1>1, <2>4 DEF ThreadShape
    <2>8. OthersRead(m)'
      BY <1>1, <2>6, <2>7 DEF OthersRead, Reading
    <2> QED BY <1>1, <2>5, <2>8, Unaffected DEF Inv, DriveShape, OthersRead
  <1>5. ~Perform(t) /\ ~CheckCommand(t) /\ ~CheckFinished(t)
    BY <1>3 DEF Perform, CheckCommand, CheckFinished, Ready
  <1>6. CASE Rejected(t) \/ Fails(t)
    <2>1. todo[t] # <<>> /\ Returns(t, set_error(ErrorBlock(call[t].of)))
      BY <1>6 DEF Rejected, Fails, Throws
    <2>2. s.do = "read"
      BY <1>3, <2>1
    <2>3. drive' = drive
      <3>1. \/ drive' = drive
            \/ ~Admissible(s)
            \/ s.do = "elm"
            \/ drive' \in Performed(s)
        BY <1>6 DEF Rejected, Fails
      <3> HIDE DEF s
      <3>2. Admissible(s)
        BY <2>2 DEF Admissible
      <3>3. Performed(s) = {drive}
        BY <2>2 DEF Performed
      <3> QED BY <2>2, <3>1, <3>2, <3>3
    <2>4. /\ todo' = [todo EXCEPT ![t] = <<>>]
          /\ result' = [result EXCEPT ![t] = set_error(ErrorBlock(call[t].of))]
          /\ call' = call /\ edges' = edges
          /\ broken' = (broken \/ call[t].of \in Executes)
      BY <2>1 DEF Returns
    <2>5. Keeps
      BY <1>1, <1>2, <2>3, <2>4 DEF ThreadShape
    <2>6. ThreadShape'
      BY <1>1, <2>4 DEF ThreadShape
    <2>7. Reading(t)'
      <3>1. todo'[t] = <<>>
        BY <1>1, <2>4 DEF ThreadShape
      <3>2. IsSeq(<<>>) /\ Len(<<>>) = 0
        <4>1. <<>> \in Seq({})
          OBVIOUS
        <4> QED BY <4>1 DEF IsSeq
      <3> QED BY <1>2, <2>4, <3>1, <3>2 DEF Reading
    <2>8. \A u \in Thread \ {m, t} : todo'[u] = todo[u] /\ call'[u] = call[u]
      BY <1>1, <2>4 DEF ThreadShape
    <2>9. OthersRead(m)'
      BY <1>1, <2>7, <2>8 DEF OthersRead, Reading
    <2> QED BY <1>1, <2>5, <2>6, <2>9, Unaffected DEF Inv, DriveShape, OthersRead
  <1>7. CASE Get(t)
    <2>1. PICK f \in Getting : Invoke(t, [Idle EXCEPT !.of = f])
      BY <1>7 DEF Get
    <2> DEFINE c == [Idle EXCEPT !.of = f]
               P == Steps(f, 0, <<>>)
    <2>2. c.of = f /\ c.no = 0 /\ c.directions = <<>>
      BY DEF Idle
    <2>3. /\ todo[t] = <<>> /\ call' = [call EXCEPT ![t] = c]
          /\ drive' = drive /\ broken' = broken /\ edges' = [edges EXCEPT ![t] = 0]
          /\ \E r : result' = [result EXCEPT ![t] = r]
          /\ todo' = todo \/ todo' = [todo EXCEPT ![t] = P]
      <3> HIDE DEF c
      <3> QED BY <2>1, <2>2 DEF Invoke, c
    <2>4. /\ IsSeq(P) /\ \A i \in 1..Len(P) : P[i].do = "read"
      BY GetReads
    <2> HIDE DEF c, P
    <2>5. Keeps
      BY <1>1, <2>3 DEF ThreadShape
    <2>6. ThreadShape'
      BY <1>1, <2>3 DEF ThreadShape
    <2>7. Reading(t)'
      <3>1. call'[t].of = f /\ todo'[t] \in {todo[t], P}
        BY <1>1, <2>2, <2>3 DEF ThreadShape
      <3>2. f \notin Executes
        BY FunctionAssumption DEF Executes, Activates
      <3> QED BY <1>2, <2>4, <3>1, <3>2 DEF Reading
    <2>8. \A u \in Thread \ {m, t} : todo'[u] = todo[u] /\ call'[u] = call[u]
      BY <1>1, <2>3 DEF ThreadShape
    <2>9. OthersRead(m)'
      BY <1>1, <2>7, <2>8 DEF OthersRead, Reading
    <2> QED BY <1>1, <2>5, <2>6, <2>9, Unaffected DEF Inv, DriveShape, OthersRead
  <1> QED BY <1>4, <1>5, <1>6, <1>7 DEF Proceeds

\* The end of the application.
LEMMA RestartSteps ==
  ASSUME NEW m \in Thread, Inv(m), Restart
  PROVE  Inv(m)'
  <1>1. DriveShape /\ ThreadShape /\ Progress(m) /\ OthersRead(m)
    BY DEF Inv, OthersRead
  <1>2. /\ drive' = drive
        /\ call' = [t \in Thread |-> Idle] /\ todo' = [t \in Thread |-> <<>>]
        /\ result' = [t \in Thread |-> 0] /\ edges' = [t \in Thread |-> 0]
        /\ broken' = (broken \/ \E t \in Thread : todo[t] # <<>> /\ call[t].of \in Executes)
    BY DEF Restart
  <1>3. ASSUME ~broken' PROVE Normal'
    <2>1. ~broken /\ ~(todo[m] # <<>> /\ call[m].of \in Executes)
      BY <1>1, <1>2, <1>3 DEF ThreadShape
    <2>2. Normal
      BY <1>1, <2>1, StepsLeft
      DEF Progress, Resting, Activating, Clearing, Triggering, Writing, Executes
    <2> QED BY <1>2, <2>2 DEF Normal, Clean
  <1>4. Resting(m)'
    BY <1>2, <1>3 DEF Resting, Idle
  <1>5. DriveShape' /\ ThreadShape'
    BY <1>1, <1>2 DEF DriveShape, ThreadShape
  <1>6. OthersRead(m)'
    <2>1. IsSeq(<<>>) /\ Len(<<>>) = 0
      <3>1. <<>> \in Seq({})
        OBVIOUS
      <3> QED BY <3>1 DEF IsSeq
    <2>2. Idle.of \notin Executes
      BY DEF Idle, Executes, Activates
    <2> QED BY <1>2, <2>1, <2>2 DEF OthersRead, Reading
  <1> QED BY <1>4, <1>5, <1>6 DEF Inv, OthersRead, Progress

\* The drive ends a command.
LEMMA CommandEndsSteps ==
  ASSUME NEW m \in Thread, Inv(m), NEW c \in Command, CommandEnds(c)
  PROVE  Inv(m)'
  <1>1. DriveShape /\ ThreadShape /\ Progress(m) /\ OthersRead(m)
    BY DEF Inv, OthersRead
  <1>2. /\ todo' = todo /\ call' = call /\ result' = result
        /\ edges' = edges /\ broken' = broken /\ Pending(drive.cmd[c])
    BY DEF CommandEnds, threadVars
  <1>3. DriveShape' /\ drive'.par = drive.par
    BY <1>1, EndsShaped
  <1>4. ~Clean
    BY <1>2 DEF Clean, Pending
  <1>5. Progress(m)'
    <2>5. CASE Resting(m)
      BY <1>2, <1>4, <2>5 DEF Resting, Normal, Progress
    <2>6. CASE Triggering(m)
      <3>1. PICK i \in 1..7 : todo[m] = Rest(sequencer_softtrigger, i) /\ TriggerAt(m, i)
        BY <2>6 DEF Triggering
      <3>2. TriggerAt(m, i)'
        BY <1>2, <1>3, <3>1 DEF TriggerAt
      <3>3. Triggering(m)'
        BY <1>2, <1>4, <2>6, <3>1, <3>2 DEF Triggering, Normal
      <3> QED BY <3>3 DEF Progress
    <2>7. CASE Writing(m)
      <3>1. Writing(m)'
        BY <1>2, <1>4, <2>7 DEF Writing, Normal
      <3> QED BY <3>1 DEF Progress
    <2>8. CASE Clearing(m)
      <3>1. PICK i \in 1..4 : /\ todo[m] = Rest(execute_command("S99"), i)
                              /\ ~broken => CommandAt("S99", "op", "op", i)
        BY <2>8 DEF Clearing
      <3>2. ~broken => CommandAt("S99", "op", "op", i)'
        BY <1>1, <3>1, CommandCarriedOut DEF Command
      <3>3. Clearing(m)'
        BY <1>2, <2>8, <3>1, <3>2 DEF Clearing
      <3> QED BY <3>3 DEF Progress
    <2>9. CASE Activating(m)
      <3>1. PICK mode : mode = ModeOf(call[m].of)
        OBVIOUS
      <3>2. PICK i \in 1..10 : todo[m] = Rest(change_opmode(mode), i) /\ ActivationAt(mode, i)
        BY <2>9, <3>1 DEF Activating
      <3>3. i \in 2..6 => drive'.par["S32"] # mode
        BY <1>3, <3>2 DEF ActivationAt
      <3>4. ASSUME ~broken
            PROVE  /\ i # 1 /\ i # 6
                   /\ i \in 2..5 => CommandAt("S420", "op", "param", i - 1)'
                   /\ i \in 7..10 => CommandAt("S422", "param", "op", i - 6)'
        <4>1. /\ i # 1 /\ i # 6
              /\ i \in 2..5 => CommandAt("S420", "op", "param", i - 1)
              /\ i \in 7..10 => CommandAt("S422", "param", "op", i - 6)
          BY <1>4, <3>2, <3>4 DEF ActivationAt, Normal
        <4>2. ASSUME i \in 2..5 PROVE CommandAt("S420", "op", "param", i - 1)'
          BY <1>1, <4>1, <4>2, CommandCarriedOut DEF Command
        <4>3. ASSUME i \in 7..10 PROVE CommandAt("S422", "param", "op", i - 6)'
          BY <1>1, <4>1, <4>3, CommandCarriedOut DEF Command
        <4> QED BY <4>1, <4>2, <4>3
      <3>5. ActivationAt(mode, i)'
        BY <1>2, <3>3, <3>4 DEF ActivationAt
      <3>6. Activating(m)'
        BY <1>2, <2>9, <3>1, <3>2, <3>5 DEF Activating
      <3> QED BY <3>6 DEF Progress
    <2> QED BY <1>1, <2>5, <2>6, <2>7, <2>8, <2>9 DEF Progress
  <1>6. ThreadShape' /\ OthersRead(m)'
    BY <1>1, <1>2 DEF ThreadShape, OthersRead, Reading
  <1> QED BY <1>3, <1>5, <1>6 DEF Inv, OthersRead

\* The torque switch and the PLC.
LEMMA OtherSteps ==
  ASSUME NEW m \in Thread, Inv(m),
         SwitchTorque \/ PlcStarts \/ PlcFinishes \/ PlcIsReady \/ UNCHANGED vars
  PROVE  Inv(m)'
  <1>1. DriveShape /\ ThreadShape /\ Progress(m) /\ OthersRead(m)
    BY DEF Inv, OthersRead
  <1>2. /\ todo' = todo /\ call' = call /\ result' = result
        /\ edges' = edges /\ broken' = broken
    BY DEF SwitchTorque, PlcStarts, PlcFinishes, PlcIsReady, vars, threadVars
  <1>3. drive' = drive \/ drive' = [drive EXCEPT !.torque = ~drive.torque]
    BY DEF SwitchTorque, PlcStarts, PlcFinishes, PlcIsReady, vars
  <1>4. /\ DriveShape' /\ drive'.cmd = drive.cmd /\ drive'.par = drive.par
        /\ drive'.level = drive.level
    <2>1. CASE drive' = drive
      BY <1>1, <2>1 DEF DriveShape
    <2>2. CASE drive' = [drive EXCEPT !.torque = ~drive.torque]
      <3> DEFINE other == ~drive.torque
      <3>1. drive' = [drive EXCEPT !.torque = other]
        BY <2>2
      <3> HIDE DEF other
      <3> QED BY <1>1, <3>1 DEF DriveShape, Shaped
    <2> QED BY <1>3, <2>1, <2>2
  <1>5. Progress(m)'
    BY <1>1, <1>2, <1>4, Unaffected
  <1>6. ThreadShape' /\ OthersRead(m)'
    BY <1>1, <1>2 DEF ThreadShape, OthersRead, Reading
  <1> QED BY <1>4, <1>5, <1>6 DEF Inv, OthersRead

\* The invariant at first.
LEMMA InitInv ==
  ASSUME NEW m \in Thread, Init
  PROVE  Inv(m)
  <1>1. /\ call = [t \in Thread |-> Idle] /\ todo = [t \in Thread |-> <<>>]
        /\ result = [t \in Thread |-> 0] /\ edges = [t \in Thread |-> 0]
        /\ broken = FALSE
    BY DEF Init
  <1>2. DriveShape /\ Normal
    <2>1. PICK mode \in InitialModes, units \in {0, 130}, torque \in BOOLEAN,
               n \in InitialLengths :
             drive = [par |-> [p \in Parameter |-> CASE p = "S32" -> mode
                                                     [] p = "S44" -> units
                                                     [] p = "P1200" -> "cw"
                                                     [] OTHER -> 0],
                      list |-> [l \in List |-> [len |-> n,
                                                elm |-> [i \in 1..Capacity |->
                                                  IF l = "P4019" THEN "cw" ELSE 0]]],
                      cmd |-> [c \in Command |-> "notset"],
                      level |-> "op", torque |-> torque /\ "torque" \in Faults]
      BY DEF Init
    <2> DEFINE par == [p \in Parameter |-> CASE p = "S32" -> mode
                                             [] p = "S44" -> units
                                             [] p = "P1200" -> "cw"
                                             [] OTHER -> 0]
               lists == [l \in List |-> [len |-> n, elm |-> [i \in 1..Capacity |->
                                                       IF l = "P4019" THEN "cw" ELSE 0]]]
               on == torque /\ "torque" \in Faults
    <2>2. par = [p \in Parameter |-> par[p]]
      OBVIOUS
    <2>3. par["P1372"] = 0
      BY DEF Parameter
    <2>4. drive = [par |-> par, list |-> lists, cmd |-> [c \in Command |-> "notset"],
                   level |-> "op", torque |-> on]
      BY <2>1
    <2> HIDE DEF par, lists, on
    <2> QED BY <2>2, <2>3, <2>4 DEF DriveShape, Shaped, Normal, Clean
  <1>3. Resting(m)
    BY <1>1, <1>2 DEF Resting, Idle
  <1>4. ThreadShape
    BY <1>1 DEF ThreadShape
  <1>5. OthersRead(m)
    <2>1. IsSeq(<<>>) /\ Len(<<>>) = 0
      <3>1. <<>> \in Seq({})
        OBVIOUS
      <3> QED BY <3>1 DEF IsSeq
    <2>2. Idle.of \notin Executes
      BY DEF Idle, Executes, Activates
    <2>3. ASSUME NEW t \in Thread PROVE Reading(t)
      <3>1. call[t] = Idle /\ todo[t] = <<>>
        BY <1>1
      <3>2. IsSeq(todo[t]) /\ Len(todo[t]) = 0
        BY <2>1, <3>1
      <3> QED BY <2>2, <3>1, <3>2 DEF Reading
    <2> QED BY <2>3 DEF OthersRead
  <1> QED BY <1>2, <1>3, <1>4, <1>5 DEF Inv, OthersRead, Progress

\* The invariant after every step.
LEMMA NextInv ==
  ASSUME NEW m \in Thread, Controllers = {m}, Inv(m), [Next]_vars
  PROVE  Inv(m)'
  <1>1. CASE init(m) \/ open(m) \/ close(m)
    BY <1>1, ObjectSteps
  <1>2. CASE Change(m)
    BY <1>2, ChangeSteps
  <1>3. ASSUME NEW t \in Thread \ {m}, Get(t) \/ Proceeds(t) \/ Fails(t) PROVE Inv(m)'
    BY <1>3, ReaderSteps
  <1>4. CASE Proceeds(m) \/ Fails(m)
    BY <1>4, ControllerSteps
  <1>5. CASE Restart
    BY <1>5, RestartSteps
  <1>6. ASSUME NEW c \in Command, CommandEnds(c) PROVE Inv(m)'
    BY <1>6, CommandEndsSteps
  <1>7. CASE SwitchTorque \/ PlcStarts \/ PlcFinishes \/ PlcIsReady \/ UNCHANGED vars
    BY <1>7, OtherSteps
  <1> QED BY <1>1, <1>2, <1>3, <1>4, <1>5, <1>6, <1>7 DEF Next

\* The invariant always.
LEMMA InvHolds ==
  ASSUME NEW m, Controllers = {m}
  PROVE  Spec => []Inv(m)
  <1>1. m \in Thread
    BY ThreadAssumption
  <1>2. Init => Inv(m)
    BY <1>1, InitInv
  <1>3. Inv(m) /\ [Next]_vars => Inv(m)'
    BY <1>1, NextInv
  <1> QED BY <1>2, <1>3, PTL DEF Spec
-----------------------------------------------------------------------------
(* What one controller, with any number of other threads that only look,   *)
(* can rely on, whatever fails.                                            *)

(* While sequencer_activate, speedcontrol_activate and clear_error have    *)
(* all ended well so far, the drive is in operation and no command is left *)
(* set whenever none of them is under way (SISProtocol.cpp 375-388,        *)
(* Wrapper.cpp 634-641).                                                   *)
THEOREM NothingIsLeftBehind ==
  ASSUME NEW m, Controllers = {m}
  PROVE  Spec => []NothingLeftBehind
  <1>1. m \in Thread
    BY ThreadAssumption
  <1>2. Inv(m) => NothingLeftBehind
    <2>1. SUFFICES ASSUME Inv(m), ~broken, ~InProgress(m, Executes) PROVE Normal
      BY <1>1 DEF NothingLeftBehind, Normal, Clean
    <2> QED BY <2>1, StepsLeft
        DEF Inv, Progress, Resting, Activating, Clearing, Triggering, Writing,
            InProgress, Executes
  <1> QED BY <1>2, InvHolds, PTL

(* The operation mode is written only when the drive is in another one     *)
(* (Wrapper.cpp 630-639), whatever the other threads, failures and         *)
(* restarts do between the look at the mode and the write.                 *)
THEOREM FlashIsSpared ==
  ASSUME NEW m, Controllers = {m}
  PROVE  Spec => []FlashOnlyOnChange
  <1>1. Inv(m) => FlashOnlyOnChange
    <2>1. SUFFICES ASSUME Inv(m), todo[m] # <<>>, Head(todo[m]).do = "write",
                          Head(todo[m]).of = "S32"
                   PROVE  drive.par["S32"] # Head(todo[m]).val
      BY DEF FlashOnlyOnChange
    <2>2. Harmless(Head(todo[m]))
      BY <2>1, HeadHarmless DEF Inv
    <2> QED BY <2>1, <2>2 DEF Harmless
  <1> QED BY <1>1, InvHolds, PTL

(* sequencer_softtrigger that returns without an error has raised P-0-1372 *)
(* exactly once (Wrapper.cpp 221-241), whatever value was left there.      *)
THEOREM TriggersOnce ==
  ASSUME NEW m, Controllers = {m}
  PROVE  Spec => []TriggeredOnce
  <1>1. Inv(m) => TriggeredOnce
    <2>1. SUFFICES ASSUME Inv(m), Returned(m, "sequencer_softtrigger")
                   PROVE  edges[m] = 1
      BY DEF TriggeredOnce
    <2> QED BY <2>1, StepsLeft DEF Inv, Returned, Resting
  <1> QED BY <1>1, InvHolds, PTL
-----------------------------------------------------------------------------
(* Every state, with any number of controllers.                            *)

(* The steps name commands and elements of lists that there are.           *)
Right(s) ==
  /\ s.do = "unless" => s.skip \in Nat
  /\ s.do = "elm" => s.of \in List /\ s.pos \in Nat \ {0}
  /\ s.do \in {"start", "delete"} => s.of \in Command

AllRight(P) == IsSeq(P) /\ \A i \in 1..Len(P) : Right(P[i])

Status6 == {"notset", "busy", "ok", "error", "canceled", "clearing"}

(* A drive with its lists, whose length is never beyond what they hold.    *)
ListKind(l, x) ==
  /\ x = [len |-> x.len, elm |-> x.elm]
  /\ x.elm = [i \in 1..Capacity |-> x.elm[i]]
  /\ x.len \in 1..Capacity

Kind(d) ==
  /\ d = [par |-> d.par, list |-> d.list, cmd |-> d.cmd,
          level |-> d.level, torque |-> d.torque]
  /\ d.list = [l \in List |-> d.list[l]]
  /\ \A l \in List : ListKind(l, d.list[l])
  /\ d.cmd \in [Command -> Status6]
  /\ d.level \in {"op", "param"} /\ d.torque \in BOOLEAN

\* What is left of right steps is right.
LEMMA RightRest ==
  ASSUME NEW P, AllRight(P), P # <<>>
  PROVE  /\ AllRight(Tail(P)) /\ Right(Head(P))
         /\ \A k \in Nat : AllRight(SubSeq(P, k + 2, Len(P)))
  <1>1. IsSeq(P) /\ \A i \in 1..Len(P) : Right(P[i])
    BY DEF AllRight
  <1>2. /\ IsSeq(Tail(P)) /\ Head(P) = P[1] /\ 1 \in 1..Len(P)
        /\ \A i \in 1..Len(Tail(P)) : \E j \in 1..Len(P) : Tail(P)[i] = P[j]
        /\ \A k \in Nat : LET Q == SubSeq(P, k + 2, Len(P))
                          IN  /\ IsSeq(Q)
                              /\ \A i \in 1..Len(Q) : \E j \in 1..Len(P) : Q[i] = P[j]
    BY <1>1, RestOf
  <1>3. AllRight(Tail(P)) /\ Right(Head(P))
    BY <1>1, <1>2 DEF AllRight
  <1>4. ASSUME NEW k \in Nat PROVE AllRight(SubSeq(P, k + 2, Len(P)))
    <2> DEFINE Q == SubSeq(P, k + 2, Len(P))
    <2>1. IsSeq(Q) /\ \A i \in 1..Len(Q) : \E j \in 1..Len(P) : Q[i] = P[j]
      BY <1>2
    <2> HIDE DEF Q
    <2>2. AllRight(Q)
      BY <1>1, <2>1 DEF AllRight
    <2> QED BY <2>2 DEF Q
  <1> QED BY <1>3, <1>4

\* Nothing is left to do.
LEMMA EmptyRight == AllRight(<<>>)
  <1>1. <<>> \in Seq({}) /\ Len(<<>>) = 0
    OBVIOUS
  <1>2. IsSeq(<<>>) /\ \A i \in 1..Len(<<>>) : Right(<<>>[i])
    BY <1>1 DEF IsSeq
  <1> QED BY <1>2 DEF AllRight

\* Plain steps are right.
LEMMA PlainRight ==
  ASSUME NEW P, AllPlain(P)
  PROVE  AllRight(P)
  BY DEF AllPlain, AllRight, Plain, Right

\* Whatever function is called, its steps are right.
LEMMA StepsRight ==
  ASSUME NEW f \in Changing \cup Getting, NEW k, NEW T, NEW directions \in Seq(T)
  PROVE  AllRight(Steps(f, k, directions))
  <1>1. ASSUME NEW c \in Command
        PROVE  AllRight(execute_command(c)) /\ Len(execute_command(c)) = 4
    <2> DEFINE P == execute_command(c)
    <2>1. /\ IsSeq(P) /\ Len(P) = 4
          /\ P[1].do = "start" /\ P[1].of = c
          /\ P[2].do = "await" /\ P[3].do = "delete" /\ P[3].of = c /\ P[4].do = "await"
      BY CommandSteps
    <2> HIDE DEF P
    <2>2. Right(P[1]) /\ Right(P[2]) /\ Right(P[3]) /\ Right(P[4])
      BY <2>1 DEF Right
    <2>3. \A i \in 1..4 : i \in {1, 2, 3, 4}
      OBVIOUS
    <2>4. AllRight(P) /\ Len(P) = 4
      BY <2>1, <2>2, <2>3 DEF AllRight
    <2> QED BY <2>4 DEF P
  <1>2. ASSUME NEW mode PROVE AllRight(change_opmode(mode))
    <2> DEFINE P == change_opmode(mode)
               Enter == execute_command("S420")
               Leave == execute_command("S422")
    <2>1. /\ IsSeq(P) /\ Len(P) = 10
          /\ P[1].do = "unless" /\ P[1].skip = 9 /\ P[6].do = "write"
          /\ \A i \in 2..5 : P[i] = Enter[i - 1]
          /\ \A i \in 7..10 : P[i] = Leave[i - 6]
      BY ActivationSteps
    <2>2. AllRight(Enter) /\ Len(Enter) = 4 /\ AllRight(Leave) /\ Len(Leave) = 4
      BY <1>1 DEF Command
    <2> HIDE DEF P, Enter, Leave
    <2>3. Right(P[1]) /\ Right(P[6])
      BY <2>1 DEF Right
    <2>4. ASSUME NEW i \in 2..5 PROVE Right(P[i])
      <3>1. i - 1 \in 1..4
        OBVIOUS
      <3> QED BY <2>1, <2>2, <3>1 DEF AllRight
    <2>5. ASSUME NEW i \in 7..10 PROVE Right(P[i])
      <3>1. i - 6 \in 1..4
        OBVIOUS
      <3> QED BY <2>1, <2>2, <3>1 DEF AllRight
    <2>6. \A i \in 1..10 : i = 1 \/ i = 6 \/ i \in 2..5 \/ i \in 7..10
      OBVIOUS
    <2>7. AllRight(P)
      BY <2>1, <2>3, <2>4, <2>5, <2>6 DEF AllRight
    <2> QED BY <2>7 DEF P
  <1>3. AllRight(sequencer_softtrigger)
    <2> DEFINE P == sequencer_softtrigger
    <2>1. /\ IsSeq(P) /\ Len(P) = 7
          /\ \A i \in {1, 4} : P[i].do = "write"
          /\ \A i \in {2, 5} : P[i].do = "write"
          /\ P[6].do = "write"
          /\ \A i \in {3, 7} : P[i].do = "poll"
      BY TriggerSteps
    <2> HIDE DEF P
    <2>2. \A i \in 1..7 : P[i].do \in {"write", "poll"}
      <3>1. \A i \in 1..7 : i \in {1, 4} \/ i \in {2, 5} \/ i = 6 \/ i \in {3, 7}
        OBVIOUS
      <3> QED BY <2>1, <3>1
    <2>3. AllRight(P)
      BY <2>1, <2>2 DEF AllRight, Right
    <2> QED BY <2>3 DEF P
  <1>4. CASE f \in Getting
    <2> DEFINE P == Steps(f, k, directions)
    <2>1. IsSeq(P) /\ \A i \in 1..Len(P) : P[i].do = "read"
      BY <1>4, GetReads
    <2> HIDE DEF P
    <2>2. AllRight(P)
      BY <2>1 DEF AllRight, Right
    <2> QED BY <2>2 DEF P
  <1>5. CASE f \in Quiet
    BY <1>5, QuietPlain, PlainRight
  <1>6. CASE f = "sequencer_activate"
    BY <1>2, <1>6 DEF Steps, sequencer_activate
  <1>7. CASE f = "speedcontrol_activate"
    BY <1>2, <1>7 DEF Steps, speedcontrol_activate
  <1>8. CASE f = "clear_error"
    <2>1. Steps(f, k, directions) = execute_command("S99")
      BY <1>8 DEF Steps, clear_error
    <2> QED BY <1>1, <2>1 DEF Command
  <1>9. CASE f = "sequencer_softtrigger"
    BY <1>3, <1>9 DEF Steps
  <1> QED BY <1>4, <1>5, <1>6, <1>7, <1>8, <1>9, FunctionAssumption DEF Quiet

\* The header of a list is written: it counts one to as many as there is room.
LEMMA ResizedKind ==
  ASSUME Kind(drive), NEW s, s.of \in List, s.pos \in Nat \ {0}
  PROVE  /\ Kind(Resized(s)) /\ Resized(s).par = drive.par
         /\ \A l \in List :
              /\ Resized(s).list[l].elm = drive.list[l].elm
              /\ Resized(s).list[l].len =
                   IF l = s.of THEN LengthAfter(s.of, s.pos) ELSE drive.list[l].len
  <1> DEFINE l0 == s.of
             p0 == s.pos
             x == drive.list[l0]
             n == LengthAfter(l0, p0)
             d == Resized(s)
  <1>1. d = [drive EXCEPT !.list[l0].len = n]
    BY DEF Resized
  <1>2. n \in 1..Capacity
    <2>1. n = IF l0 = "P4019" \/ p0 >= Capacity THEN x.len ELSE p0
      BY DEF LengthAfter
    <2>2. x.len \in 1..Capacity
      BY DEF Kind, ListKind
    <2> HIDE DEF n, x, p0
    <2>3. p0 \in Nat \ {0}
      BY DEF p0
    <2> QED BY <2>1, <2>2, <2>3, BoundAssumption
  <1> HIDE DEF n, d
  <1>3. /\ d.par = drive.par /\ d.cmd = drive.cmd /\ d.level = drive.level
        /\ d.torque = drive.torque
        /\ d = [par |-> d.par, list |-> d.list, cmd |-> d.cmd,
                level |-> d.level, torque |-> d.torque]
        /\ d.list = [drive.list EXCEPT ![l0].len = n]
    BY <1>1 DEF Kind
  <1>4. d.list = [l \in List |-> d.list[l]]
    BY <1>3 DEF Kind
  <1>5. d.list[l0] = [x EXCEPT !.len = n]
        /\ \A l \in List \ {l0} : d.list[l] = drive.list[l]
    BY <1>3 DEF Kind
  <1>6. ListKind(l0, x)
    BY DEF Kind
  <1>7. /\ d.list[l0].len = n /\ d.list[l0].elm = x.elm
        /\ d.list[l0] = [len |-> d.list[l0].len, elm |-> d.list[l0].elm]
    <2> HIDE DEF x
    <2> QED BY <1>5, <1>6 DEF ListKind
  <1>8. ListKind(l0, d.list[l0])
    <2> HIDE DEF x
    <2> QED BY <1>2, <1>6, <1>7 DEF ListKind
  <1>9. Kind(d)
    BY <1>3, <1>4, <1>5, <1>8 DEF Kind
  <1> QED BY <1>3, <1>5, <1>7, <1>9 DEF d, n

\* An element of a list is written.
LEMMA ElementKind ==
  ASSUME Kind(drive), NEW s, s.do = "elm", s.of \in List, s.pos \in Nat \ {0},
         NEW d \in Performed(s)
  PROVE  /\ Kind(d) /\ d.par = drive.par
         /\ \A l \in List :
              d.list[l].len = IF l = s.of THEN LengthAfter(s.of, s.pos)
                                          ELSE drive.list[l].len
         /\ \A l \in List : \A i \in 1..Capacity :
              d.list[l].elm[i] = IF l = s.of /\ i = ElementAt(s.of, s.pos)
                                   THEN s.val ELSE drive.list[l].elm[i]
  <1> DEFINE l0 == s.of
             p0 == s.pos
             e0 == ElementAt(l0, p0)
             r == Resized(s)
             w == [i \in 1..Capacity |-> IF i = e0 THEN s.val ELSE r.list[l0].elm[i]]
  <1>1. d = [r EXCEPT !.list[l0].elm = w]
    <2>1. d = [r EXCEPT !.list[l0].elm = [i \in 1..Capacity |->
                                            IF i = e0 THEN s.val ELSE @[i]]]
      BY DEF Performed
    <2> HIDE DEF r, l0, e0
    <2> QED BY <2>1
  <1>0. w = [i \in 1..Capacity |-> w[i]]
        /\ \A i \in 1..Capacity : w[i] = IF i = e0 THEN s.val ELSE r.list[l0].elm[i]
    <2> HIDE DEF r, l0, e0
    <2> QED OBVIOUS
  <1>2. /\ Kind(r) /\ r.par = drive.par
        /\ \A l \in List :
             /\ r.list[l].elm = drive.list[l].elm
             /\ r.list[l].len = IF l = l0 THEN LengthAfter(l0, p0) ELSE drive.list[l].len
    BY ResizedKind
  <1> HIDE DEF r, w, e0
  <1>3. /\ d.par = r.par /\ d.cmd = r.cmd /\ d.level = r.level
        /\ d.torque = r.torque
        /\ d = [par |-> d.par, list |-> d.list, cmd |-> d.cmd,
                level |-> d.level, torque |-> d.torque]
        /\ d.list = [r.list EXCEPT ![l0].elm = w]
    BY <1>1, <1>2 DEF Kind
  <1>4. d.list = [l \in List |-> d.list[l]]
    BY <1>2, <1>3 DEF Kind
  <1> DEFINE x == r.list[l0]
             y == d.list[l0]
  <1>5. /\ y = [x EXCEPT !.elm = w]
        /\ \A l \in List \ {l0} : d.list[l] = r.list[l]
    BY <1>2, <1>3 DEF Kind
  <1>6. ListKind(l0, x)
    BY <1>2 DEF Kind
  <1>7. /\ ListKind(l0, y) /\ y.len = x.len
        /\ \A i \in 1..Capacity : y.elm[i] = IF i = e0 THEN s.val ELSE x.elm[i]
    <2>0. \A i \in 1..Capacity : w[i] = IF i = e0 THEN s.val ELSE x.elm[i]
      BY <1>0
    <2> HIDE DEF x, y
    <2>1. /\ y.len = x.len /\ y.elm = w
          /\ y = [len |-> y.len, elm |-> y.elm]
      BY <1>5, <1>6 DEF ListKind
    <2> QED BY <1>0, <1>6, <2>0, <2>1 DEF ListKind
  <1>8. ASSUME NEW l \in List
        PROVE  /\ d.list[l].len = r.list[l].len
               /\ \A i \in 1..Capacity :
                    d.list[l].elm[i] = IF l = l0 /\ i = e0 THEN s.val ELSE r.list[l].elm[i]
    <2>1. CASE l = l0
      BY <1>7, <2>1
    <2>2. CASE l # l0
      BY <1>5, <2>2
    <2> QED BY <2>1, <2>2
  <1>9. Kind(d)
    <2>1. \A l \in List : ListKind(l, d.list[l])
      BY <1>2, <1>5, <1>7 DEF Kind
    <2> QED BY <1>2, <1>3, <1>4, <2>1 DEF Kind
  <1>10. ASSUME NEW l \in List
         PROVE  /\ d.list[l].len = IF l = l0 THEN LengthAfter(l0, p0)
                                              ELSE drive.list[l].len
                /\ \A i \in 1..Capacity :
                     d.list[l].elm[i] = IF l = l0 /\ i = e0 THEN s.val
                                                            ELSE drive.list[l].elm[i]
    BY <1>2, <1>8
  <1> QED BY <1>2, <1>3, <1>9, <1>10 DEF e0

\* The status of a command changes, and perhaps the level.
LEMMA StatusKind ==
  ASSUME Kind(drive), NEW c \in Command, NEW status \in Status6
  PROVE  Kind([drive EXCEPT !.cmd[c] = status])
  <1> DEFINE d == [drive EXCEPT !.cmd[c] = status]
  <1>1. d.cmd = [drive.cmd EXCEPT ![c] = status]
    BY DEF Kind
  <1>2. /\ d.list = drive.list /\ d.level = drive.level /\ d.torque = drive.torque
        /\ d = [par |-> d.par, list |-> d.list, cmd |-> d.cmd,
                level |-> d.level, torque |-> d.torque]
    BY DEF Kind
  <1> HIDE DEF d
  <1>3. d.cmd \in [Command -> Status6]
    BY <1>1 DEF Kind
  <1>4. Kind(d)
    BY <1>2, <1>3 DEF Kind
  <1> QED BY <1>4 DEF d

\* The level changes.
LEMMA LevelKind ==
  ASSUME NEW d, Kind(d), NEW level \in {"op", "param"}
  PROVE  Kind([d EXCEPT !.level = level])
  <1> DEFINE e == [d EXCEPT !.level = level]
  <1>1. /\ e.list = d.list /\ e.level = level /\ e.torque = d.torque /\ e.cmd = d.cmd
        /\ e = [par |-> e.par, list |-> e.list, cmd |-> e.cmd,
                level |-> e.level, torque |-> e.torque]
    BY DEF Kind
  <1> HIDE DEF e
  <1>2. Kind(e)
    BY <1>1 DEF Kind
  <1> QED BY <1>2 DEF e

\* Whatever a right step does.
LEMMA PerformedKind ==
  ASSUME Kind(drive), NEW s, Right(s), NEW d \in Performed(s)
  PROVE  Kind(d)
  <1>1. CASE s.do = "write"
    <2>1. d = [drive EXCEPT !.par[s.of] = s.val]
      BY <1>1 DEF Performed
    <2> DEFINE par == [drive.par EXCEPT ![s.of] = s.val]
    <2>2. /\ d.list = drive.list /\ d.level = drive.level /\ d.torque = drive.torque
          /\ d.cmd = drive.cmd
          /\ d = [par |-> d.par, list |-> d.list, cmd |-> d.cmd,
                  level |-> d.level, torque |-> d.torque]
      BY <2>1 DEF Kind
    <2> QED BY <2>2 DEF Kind
  <1>2. CASE s.do = "elm"
    BY <1>2, ElementKind DEF Right
  <1>3. CASE s.do = "start"
    <2>1. d = [drive EXCEPT !.cmd[s.of] = "busy"] \/ d = drive
      BY <1>3 DEF Performed
    <2>2. "busy" \in Status6 /\ s.of \in Command
      BY <1>3 DEF Status6, Right
    <2> QED BY <2>1, <2>2, StatusKind
  <1>4. CASE s.do = "delete"
    <2>1. d = [drive EXCEPT !.cmd[s.of] = "clearing"]
      BY <1>4 DEF Performed
    <2>2. "clearing" \in Status6 /\ s.of \in Command
      BY <1>4 DEF Status6, Right
    <2> QED BY <2>1, <2>2, StatusKind
  <1>5. CASE s.do \notin {"write", "elm", "start", "delete"}
    BY <1>5 DEF Performed
  <1> QED BY <1>1, <1>2, <1>3, <1>4, <1>5

\* What the threads' part of the types needs.
Threads ==
  \A t \in Thread :
    /\ call[t].no \in 0..calls
    /\ todo[t] # <<>> => ref # "null" /\ result[t] = 0
    /\ result[t] \in {0} \cup {set_error(b) : b \in 1..12}

Globals ==
  /\ ref \in {"null", "closed", "open"} /\ abandoned \in BOOLEAN
  /\ plc \in {"ready", "started", "finished"} /\ calls \in 0..MaxCalls

\* The type invariant, part by part.
LEMMA TypeParts ==
  ASSUME Kind(drive)
  PROVE  TypeOK <=> Globals /\ Threads
  BY DEF TypeOK, Globals, Threads, Kind, ListKind, Status6

Errors == {0} \cup {set_error(b) : b \in 1..12}

\* The error codes that the functions return.
LEMMA ErrorCodes ==
  /\ \A f : set_error(ErrorBlock(f)) \in Errors
  /\ set_error(Block.Invalid_Pointer) \in Errors /\ set_error(Block.OpenByCOM) \in Errors
  /\ set_error(Block.Close) \in Errors /\ 0 \in Errors
  <1>1. \A f : ErrorBlock(f) \in 1..12
    <2>1. \A f : ErrorBlock(f) \in {6, 7, 8, 9, 10}
      BY DEF ErrorBlock, Block
    <2>2. \A b \in {6, 7, 8, 9, 10} : b \in 1..12
      OBVIOUS
    <2> QED BY <2>1, <2>2
  <1>2. Block.Invalid_Pointer \in 1..12 /\ Block.OpenByCOM \in 1..12 /\ Block.Close \in 1..12
    BY DEF Block
  <1>3. \A b \in 1..12 : set_error(b) \in Errors
    BY DEF Errors
  <1> QED BY <1>1, <1>2, <1>3 DEF Errors

TypeInv ==
  /\ Kind(drive) /\ ThreadShape /\ Globals /\ Threads
  /\ \A t \in Thread : AllRight(todo[t])

\* A thread goes on.
LEMMA TypeGoes ==
  ASSUME TypeInv, NEW t \in Thread, todo[t] # <<>>, NEW rest, AllRight(rest),
         Goes(t, rest), Kind(drive'), broken' = broken,
         edges' = edges \/ \E n : edges' = [edges EXCEPT ![t] = n]
  PROVE  TypeInv'
  <1>1. /\ todo' = [todo EXCEPT ![t] = rest]
        /\ ref' = ref /\ call' = call /\ result' = result /\ abandoned' = abandoned
        /\ plc' = plc /\ calls' = calls
    BY DEF Goes
  <1>2. ThreadShape'
    BY <1>1 DEF TypeInv, ThreadShape
  <1>3. todo'[t] = rest /\ \A u \in Thread \ {t} : todo'[u] = todo[u]
    BY <1>1 DEF TypeInv, ThreadShape
  <1>4. Globals' /\ Threads'
    BY <1>1, <1>3 DEF TypeInv, Globals, Threads
  <1>5. \A u \in Thread : AllRight(todo'[u])
    BY <1>3 DEF TypeInv
  <1> QED BY <1>2, <1>4, <1>5 DEF TypeInv

\* A function returns an error.
LEMMA TypeReturns ==
  ASSUME TypeInv, NEW t \in Thread, NEW code \in Errors, Returns(t, code),
         Kind(drive'), abandoned' \in BOOLEAN
  PROVE  TypeInv'
  <1>1. /\ todo' = [todo EXCEPT ![t] = <<>>] /\ result' = [result EXCEPT ![t] = code]
        /\ ref' = ref /\ call' = call /\ edges' = edges
        /\ plc' = plc /\ calls' = calls /\ broken' \in BOOLEAN
    BY DEF Returns
  <1>2. ThreadShape'
    BY <1>1 DEF TypeInv, ThreadShape
  <1>3. /\ todo'[t] = <<>> /\ result'[t] = code
        /\ \A u \in Thread \ {t} : todo'[u] = todo[u] /\ result'[u] = result[u]
    BY <1>1 DEF TypeInv, ThreadShape
  <1>4. Globals'
    BY <1>1 DEF TypeInv, Globals
  <1>5. Threads'
    BY <1>1, <1>3 DEF TypeInv, Threads, Errors
  <1>6. \A u \in Thread : AllRight(todo'[u])
    BY <1>3, EmptyRight DEF TypeInv
  <1> QED BY <1>2, <1>4, <1>5, <1>6 DEF TypeInv

\* init, open and close.
LEMMA TypeObject ==
  ASSUME TypeInv, NEW t \in Thread, init(t) \/ open(t) \/ close(t)
  PROVE  TypeInv'
  <1>a. PICK code \in Errors : \E f : Ends(t, f, code)
    <2>1. CASE init(t)
      BY <2>1, ErrorCodes DEF init
    <2>2. CASE open(t)
      BY <2>2, ErrorCodes DEF open
    <2>3. CASE close(t)
      BY <2>3, ErrorCodes DEF close
    <2> QED BY <2>1, <2>2, <2>3
  <1>1. PICK f : Ends(t, f, code)
    BY <1>a
  <1>2. /\ todo[t] = <<>> /\ todo' = todo /\ drive' = drive /\ plc' = plc
        /\ calls' = calls /\ edges' = edges /\ broken' = broken
        /\ call' = [call EXCEPT ![t] = [Idle EXCEPT !.of = f]]
        /\ result' = [result EXCEPT ![t] = code]
    BY <1>1 DEF Ends
  <1>3. /\ ref' \in {"null", "closed", "open"} /\ abandoned' \in BOOLEAN
        /\ (\E u \in Thread : todo[u] # <<>>) => ref' # "null"
    BY DEF init, open, close, TypeInv, Globals, Threads
  <1>4. ThreadShape'
    BY <1>2 DEF TypeInv, ThreadShape
  <1>5. /\ call'[t].no = 0 /\ result'[t] = code
        /\ \A u \in Thread \ {t} : call'[u] = call[u] /\ result'[u] = result[u]
    BY <1>2 DEF TypeInv, ThreadShape, Idle
  <1>6. Globals'
    BY <1>2, <1>3 DEF TypeInv, Globals
  <1>7. Threads'
    <2>1. 0 \in 0..calls
      BY BoundAssumption DEF TypeInv, Globals
    <2> QED BY <1>2, <1>3, <1>5, <2>1 DEF TypeInv, Threads, Errors
  <1> QED BY <1>2, <1>4, <1>6, <1>7 DEF TypeInv

\* A call.
LEMMA TypeInvoke ==
  ASSUME TypeInv, NEW t \in Thread, NEW c, Invoke(t, c),
         c.of \in Changing \cup Getting, c.directions \in Seq({"cw", "ccw"}),
         calls' \in 0..MaxCalls, calls' >= calls, c.no \in 0..calls'
  PROVE  TypeInv'
  <1> DEFINE P == Steps(c.of, c.no, c.directions)
             code == set_error(Block.Invalid_Pointer)
  <1>1. /\ todo[t] = <<>> /\ call' = [call EXCEPT ![t] = c]
        /\ edges' = [edges EXCEPT ![t] = 0] /\ drive' = drive /\ broken' = broken
        /\ ref' = ref /\ abandoned' = abandoned /\ plc' = plc
    BY DEF Invoke
  <1>2. \/ ref = "null" /\ todo' = todo /\ result' = [result EXCEPT ![t] = code]
        \/ /\ ref # "null" /\ todo' = [todo EXCEPT ![t] = P]
           /\ result' = [result EXCEPT ![t] = 0]
    BY DEF Invoke
  <1>3. AllRight(P)
    BY StepsRight
  <1>4. code \in Errors /\ 0 \in Errors
    BY ErrorCodes
  <1> HIDE DEF P, code
  <1>5. /\ call'[t] = c
        /\ \/ ref = "null" /\ todo'[t] = <<>> /\ result'[t] = code
           \/ ref # "null" /\ todo'[t] = P /\ result'[t] = 0
        /\ \A u \in Thread \ {t} :
             todo'[u] = todo[u] /\ call'[u] = call[u] /\ result'[u] = result[u]
    BY <1>1, <1>2 DEF TypeInv, ThreadShape
  <1>6. ThreadShape'
    BY <1>1, <1>2 DEF TypeInv, ThreadShape
  <1>7. Globals'
    BY <1>1 DEF TypeInv, Globals
  <1>8. ASSUME NEW u \in Thread
        PROVE  /\ call'[u].no \in 0..calls'
               /\ todo'[u] # <<>> => ref' # "null" /\ result'[u] = 0
               /\ result'[u] \in Errors
    <2>1. CASE u = t
      BY <1>1, <1>4, <1>5, <2>1
    <2>2. CASE u # t
      <3>1. /\ call[u].no \in 0..calls /\ result[u] \in Errors
            /\ todo[u] # <<>> => ref # "null" /\ result[u] = 0
        BY DEF TypeInv, Threads, Errors
      <3>2. calls \in Nat /\ calls' \in Nat
        BY BoundAssumption DEF TypeInv, Globals
      <3>3. call[u].no \in 0..calls'
        BY <3>1, <3>2
      <3> QED BY <1>1, <1>5, <2>2, <3>1, <3>3
    <2> QED BY <2>1, <2>2
  <1>9. Threads'
    BY <1>8 DEF Threads, Errors
  <1>10. \A u \in Thread : AllRight(todo'[u])
    BY <1>3, <1>5, EmptyRight DEF TypeInv
  <1> QED BY <1>1, <1>6, <1>7, <1>9, <1>10 DEF TypeInv

\* The calls of the controllers and of the others.
LEMMA TypeCalls ==
  ASSUME TypeInv, NEW t \in Thread, Change(t) \/ Get(t)
  PROVE  TypeInv'
  <1>1. calls \in Nat /\ calls \in 0..MaxCalls /\ MaxCalls \in Nat
    BY BoundAssumption DEF TypeInv, Globals
  <1>2. <<"cw">> \in Seq({"cw", "ccw"}) /\ <<"ccw">> \in Seq({"cw", "ccw"})
        /\ <<>> \in Seq({"cw", "ccw"})
    OBVIOUS
  <1>3. CASE Change(t)
    <2>1. PICK f \in Changing :
            \E d \in (CASE f = "sequencer_write" -> RunSequences
                        [] f = "speedcontrol_write" -> {<<"cw">>, <<"ccw">>}
                        [] OTHER -> {<<>>}) :
              Invoke(t, [of |-> f, no |-> calls + 1, directions |-> d])
      BY <1>3 DEF Change
    <2>2. PICK d : /\ d \in RunSequences \/ d = <<"cw">> \/ d = <<"ccw">> \/ d = <<>>
                   /\ Invoke(t, [of |-> f, no |-> calls + 1, directions |-> d])
      BY <2>1
    <2>3. d \in Seq({"cw", "ccw"})
      BY <1>2, <2>2, FunctionAssumption
    <2>4. calls < MaxCalls /\ calls' = calls + 1
      BY <1>3 DEF Change
    <2> DEFINE c == [of |-> f, no |-> calls + 1, directions |-> d]
    <2>5. /\ Invoke(t, c) /\ c.of \in Changing \cup Getting
          /\ c.directions \in Seq({"cw", "ccw"}) /\ c.no = calls + 1
      BY <2>2, <2>3
    <2> HIDE DEF c
    <2>6. calls' \in 0..MaxCalls /\ calls' >= calls /\ c.no \in 0..calls'
      BY <1>1, <2>4, <2>5
    <2> QED BY <2>5, <2>6, TypeInvoke
  <1>4. CASE Get(t)
    <2>1. PICK f \in Getting : Invoke(t, [Idle EXCEPT !.of = f])
      BY <1>4 DEF Get
    <2> DEFINE c == [Idle EXCEPT !.of = f]
    <2>2. c.of = f /\ c.no = 0 /\ c.directions = <<>> /\ Invoke(t, c)
      BY <2>1 DEF Idle
    <2> HIDE DEF c
    <2>3. calls' = calls
      BY <1>4 DEF Get
    <2>4. calls' \in 0..MaxCalls /\ calls' >= calls /\ c.no \in 0..calls'
      BY <1>1, <2>2, <2>3
    <2> QED BY <1>2, <2>2, <2>4, TypeInvoke
  <1> QED BY <1>3, <1>4

\* The steps of a function.
LEMMA TypeSteps ==
  ASSUME TypeInv, NEW t \in Thread, Proceeds(t) \/ Fails(t)
  PROVE  TypeInv'
  <1> DEFINE s == Head(todo[t])
             code == set_error(ErrorBlock(call[t].of))
  <1>1. todo[t] # <<>>
    BY DEF Proceeds, Look, Perform, CheckCommand, CheckFinished, Rejected, Fails, Ready
  <1>2. /\ AllRight(Tail(todo[t])) /\ Right(s)
        /\ \A k \in Nat : AllRight(SubSeq(todo[t], k + 2, Len(todo[t])))
    BY <1>1, RightRest DEF TypeInv
  <1>3. Kind(drive) /\ abandoned \in BOOLEAN /\ code \in Errors
    BY ErrorCodes DEF TypeInv, Globals
  <1>4. CASE Look(t)
    <2> DEFINE rest == IF s.do = "unless" /\ Matches(s.of, drive.par[s.of], s.val)
                         THEN SubSeq(todo[t], s.skip + 2, Len(todo[t])) ELSE Tail(todo[t])
    <2>1. Goes(t, rest) /\ drive' = drive /\ edges' = edges /\ broken' = broken
      BY <1>4 DEF Look
    <2>2. AllRight(rest)
      <3> HIDE DEF s
      <3>1. s.do = "unless" => s.skip \in Nat
        BY <1>2 DEF Right
      <3> QED BY <1>2, <3>1
    <2> HIDE DEF rest
    <2> QED BY <1>1, <1>3, <2>1, <2>2, TypeGoes
  <1>5. CASE Perform(t)
    <2> DEFINE n == IF Triggers(s) THEN edges[t] + 1 ELSE edges[t]
    <2>1. /\ drive' \in Performed(s) /\ edges' = [edges EXCEPT ![t] = n]
          /\ Goes(t, Tail(todo[t])) /\ broken' = broken
      BY <1>5 DEF Perform
    <2> HIDE DEF s, n
    <2>2. Kind(drive')
      BY <1>2, <1>3, <2>1, PerformedKind
    <2> QED BY <1>1, <1>2, <2>1, <2>2, TypeGoes
  <1>6. CASE CheckCommand(t)
    <2>1. /\ drive' = drive
          /\ \/ Goes(t, Tail(todo[t])) /\ edges' = edges /\ broken' = broken
             \/ Returns(t, code) /\ abandoned' = abandoned
      BY <1>6 DEF CheckCommand
    <2> HIDE DEF code
    <2>2. CASE Goes(t, Tail(todo[t])) /\ edges' = edges /\ broken' = broken
      BY <1>1, <1>2, <1>3, <2>1, <2>2, TypeGoes
    <2>3. CASE Returns(t, code) /\ abandoned' = abandoned
      BY <1>3, <2>1, <2>3, TypeReturns
    <2> QED BY <2>1, <2>2, <2>3
  <1>7. CASE CheckFinished(t)
    <2>1. /\ drive' = drive
          /\ Goes(t, Tail(todo[t])) /\ edges' = edges /\ broken' = broken
      BY <1>7 DEF CheckFinished
    <2> QED BY <1>1, <1>2, <1>3, <2>1, TypeGoes
  <1>8. CASE Rejected(t) \/ Fails(t)
    <2>1. /\ Returns(t, code) /\ abandoned' = TRUE
          /\ \/ drive' = drive
             \/ s.do = "elm" /\ drive' = Resized(s)
             \/ drive' \in Performed(s)
      BY <1>8 DEF Rejected, Fails, Throws
    <2> HIDE DEF s, code
    <2>2. Kind(drive')
      BY <1>2, <1>3, <2>1, ResizedKind, PerformedKind DEF Right
    <2> QED BY <1>3, <2>1, <2>2, TypeReturns
  <1> QED BY <1>4, <1>5, <1>6, <1>7, <1>8 DEF Proceeds

\* The end of the application.
LEMMA TypeRestart ==
  ASSUME TypeInv, Restart
  PROVE  TypeInv'
  <1>1. /\ drive' = drive /\ plc' = plc /\ calls' = calls
        /\ ref' = "null" /\ abandoned' = FALSE /\ broken' \in BOOLEAN
        /\ call' = [t \in Thread |-> Idle] /\ todo' = [t \in Thread |-> <<>>]
        /\ result' = [t \in Thread |-> 0] /\ edges' = [t \in Thread |-> 0]
    BY DEF Restart, TypeInv, ThreadShape
  <1>2. Globals' /\ ThreadShape'
    BY <1>1 DEF TypeInv, Globals, ThreadShape
  <1>3. Threads'
    <2>1. Idle.no = 0 /\ 0 \in 0..calls
      BY BoundAssumption DEF TypeInv, Globals, Idle
    <2> QED BY <1>1, <2>1 DEF Threads
  <1> QED BY <1>1, <1>2, <1>3, EmptyRight DEF TypeInv

\* The drive and its PLC.
LEMMA TypeOthers ==
  ASSUME TypeInv,
         \/ \E c \in Command : CommandEnds(c)
         \/ SwitchTorque \/ PlcStarts \/ PlcFinishes \/ PlcIsReady \/ UNCHANGED vars
  PROVE  TypeInv'
  <1>1. UNCHANGED <<threadVars, calls, edges, broken>>
    BY DEF CommandEnds, SwitchTorque, PlcStarts, PlcFinishes, PlcIsReady, vars
  <1>2. plc' \in {"ready", "started", "finished"}
    BY DEF CommandEnds, SwitchTorque, PlcStarts, PlcFinishes, PlcIsReady, vars, TypeInv, Globals
  <1>3. Kind(drive')
    <2>1. ASSUME NEW c \in Command, CommandEnds(c) PROVE Kind(drive')
      <3>1. Kind(drive) /\ {"notset", "ok", "error", "canceled"} \subseteq Status6
        BY DEF TypeInv, Status6
      <3>2. CASE drive' = [drive EXCEPT !.cmd[c] = "notset"]
        BY <3>1, <3>2, StatusKind
      <3>3. CASE drive' = [drive EXCEPT !.cmd[c] = "ok", !.level = LevelAfter(c)]
        <4> DEFINE d == [drive EXCEPT !.cmd[c] = "ok"]
        <4>1. Kind(d) /\ LevelAfter(c) \in {"op", "param"}
          BY <3>1, StatusKind DEF LevelAfter, Kind
        <4>2. drive' = [d EXCEPT !.level = LevelAfter(c)]
          BY <3>3
        <4> HIDE DEF d
        <4> QED BY <4>1, <4>2, LevelKind
      <3>4. CASE \E status \in {"error", "canceled"} : drive' = [drive EXCEPT !.cmd[c] = status]
        BY <3>1, <3>4, StatusKind
      <3> QED BY <2>1, <3>2, <3>3, <3>4 DEF CommandEnds
    <2>2. CASE drive' = drive
      BY <2>2 DEF TypeInv
    <2>3. CASE drive' = [drive EXCEPT !.torque = ~drive.torque]
      <3> DEFINE other == ~drive.torque
      <3>1. other \in BOOLEAN
        OBVIOUS
      <3>2. drive' = [drive EXCEPT !.torque = other]
        BY <2>3
      <3> HIDE DEF other
      <3>3. /\ drive'.list = drive.list /\ drive'.cmd = drive.cmd
            /\ drive'.level = drive.level /\ drive'.torque = other
            /\ drive' = [par |-> drive'.par, list |-> drive'.list, cmd |-> drive'.cmd,
                         level |-> drive'.level, torque |-> drive'.torque]
        BY <3>2 DEF TypeInv, Kind
      <3> QED BY <3>1, <3>3 DEF TypeInv, Kind
    <2> QED BY <2>1, <2>2, <2>3 DEF SwitchTorque, PlcStarts, PlcFinishes, PlcIsReady, vars
  <1> QED BY <1>1, <1>2, <1>3 DEF TypeInv, ThreadShape, Globals, Threads, threadVars

\* The start.
LEMMA TypeInit ==
  ASSUME Init
  PROVE  TypeInv
  <1>1. /\ call = [t \in Thread |-> Idle] /\ todo = [t \in Thread |-> <<>>]
        /\ result = [t \in Thread |-> 0] /\ edges = [t \in Thread |-> 0]
        /\ broken = FALSE /\ ref = "null" /\ abandoned = FALSE /\ plc = "ready" /\ calls = 0
    BY DEF Init
  <1>2. Kind(drive)
    <2>1. PICK mode \in InitialModes, units \in {0, 130}, torque \in BOOLEAN,
               n \in InitialLengths :
             drive = [par |-> [p \in Parameter |-> CASE p = "S32" -> mode
                                                     [] p = "S44" -> units
                                                     [] p = "P1200" -> "cw"
                                                     [] OTHER -> 0],
                      list |-> [l \in List |-> [len |-> n,
                                                elm |-> [i \in 1..Capacity |->
                                                  IF l = "P4019" THEN "cw" ELSE 0]]],
                      cmd |-> [c \in Command |-> "notset"],
                      level |-> "op", torque |-> torque /\ "torque" \in Faults]
      BY DEF Init
    <2> DEFINE par == [p \in Parameter |-> CASE p = "S32" -> mode
                                             [] p = "S44" -> units
                                             [] p = "P1200" -> "cw"
                                             [] OTHER -> 0]
               elements(l) == [i \in 1..Capacity |-> IF l = "P4019" THEN "cw" ELSE 0]
               lists == [l \in List |-> [len |-> n, elm |-> elements(l)]]
               commands == [c \in Command |-> "notset"]
               on == torque /\ "torque" \in Faults
    <2>2. drive = [par |-> par, list |-> lists, cmd |-> commands,
                   level |-> "op", torque |-> on]
      BY <2>1
    <2>3. commands \in [Command -> Status6] /\ on \in BOOLEAN
      BY DEF Status6
    <2>4. ASSUME NEW l \in List PROVE ListKind(l, lists[l])
      <3>1. elements(l) = [i \in 1..Capacity |-> elements(l)[i]]
        OBVIOUS
      <3>2. n \in 1..Capacity
        BY <2>1, LengthAssumption
      <3> HIDE DEF elements
      <3> QED BY <3>1, <3>2 DEF ListKind
    <2>5. lists = [l \in List |-> lists[l]]
      OBVIOUS
    <2> HIDE DEF par, lists, commands, on
    <2> QED BY <2>2, <2>3, <2>4, <2>5 DEF Kind
  <1>3. ThreadShape /\ Globals
    <2>1. ThreadShape
      BY <1>1 DEF ThreadShape
    <2>2. 0 \in 0..MaxCalls
      BY BoundAssumption
    <2> QED BY <1>1, <2>1, <2>2 DEF Globals
  <1>4. Threads
    <2>1. Idle.no = 0 /\ 0 \in 0..calls
      BY <1>1 DEF Idle
    <2> QED BY <1>1, <2>1 DEF Threads
  <1> QED BY <1>1, <1>2, <1>3, <1>4, EmptyRight DEF TypeInv

\* The kinds of the variables always.
LEMMA TypeHolds == Spec => []TypeInv
  <1>1. Init => TypeInv
    BY TypeInit
  <1>2. ASSUME TypeInv, [Next]_vars PROVE TypeInv'
    <2>1. ASSUME NEW t \in Thread,
                 \/ init(t) \/ open(t) \/ close(t) \/ Change(t) \/ Get(t)
                 \/ Proceeds(t) \/ Fails(t)
          PROVE  TypeInv'
      BY <1>2, <2>1, TypeObject, TypeCalls, TypeSteps
    <2>2. CASE Restart
      BY <1>2, <2>2, TypeRestart
    <2>3. CASE \/ \E c \in Command : CommandEnds(c)
               \/ SwitchTorque \/ PlcStarts \/ PlcFinishes \/ PlcIsReady \/ UNCHANGED vars
      BY <1>2, <2>3, TypeOthers
    <2> QED BY <1>2, <2>1, <2>2, <2>3, ThreadAssumption DEF Next
  <1>3. TypeInv /\ [Next]_vars => TypeInv'
    BY <1>2
  <1> QED BY <1>1, <1>3, PTL DEF Spec

(* Whatever the threads call and however many of them control: every       *)
(* variable has a value of its kind, a function under way has no error,    *)
(* and the header of a list never counts more than the list has room for   *)
(* (SISProtocol.cpp 458-525, set_parameter_listsize).                      *)
THEOREM TypeCorrect == Spec => []TypeOK
  <1>1. TypeInv => TypeOK
    BY TypeParts DEF TypeInv
  <1> QED BY <1>1, TypeHolds, PTL
-----------------------------------------------------------------------------
(* A sequence that is being written.                                       *)

(* Where two steps write the same.                                         *)
SameList(s, r) == s.do = "elm" /\ r.do = "elm" /\ s.of = r.of
SameElement(s, r) == SameList(s, r) /\ s.pos = r.pos

\* The element a step writes; 0 is none.
Element(s) == ElementAt(s.of, s.pos)

(* What the first n steps of P have written is there, unless a later one   *)
(* of them has written there.                                              *)
Fitting(P, n) == \A j \in 1..n : P[j].do = "elm" => Element(P[j]) \in 0..Capacity

ElementsThere(P, n) ==
  \A j \in 1..n :
    /\ P[j].do = "elm" /\ Element(P[j]) # 0
    /\ \A h \in (j + 1)..n : ~SameElement(P[j], P[h])
    => drive.list[P[j].of].elm[Element(P[j])] = P[j].val

LengthsThere(P, n) ==
  \A j \in 1..n :
    /\ P[j].do = "elm" /\ P[j].of # "P4019" /\ P[j].pos < Capacity
    /\ \A h \in (j + 1)..n : ~SameList(P[j], P[h])
    => drive.list[P[j].of].len = P[j].pos

NumberThere(P, n) ==
  \A j \in 1..n : P[j].do = "write" => drive.par["P1370"] = P[j].val

There(P, n) ==
  Fitting(P, n) /\ ElementsThere(P, n) /\ LengthsThere(P, n) /\ NumberThere(P, n)

\* The next element of a sequence.
LEMMA OneMoreElement ==
  ASSUME Kind(drive), NEW P, IsSequence(P), NEW n \in 1..(Len(P) - 1), There(P, n - 1),
         Admissible(P[n]), drive' \in Performed(P[n])
  PROVE  There(P, n)'
  <1> DEFINE s == P[n]
  <1>1. Len(P) \in Nat /\ n \in Nat /\ n >= 1
    BY DEF IsSequence
  <1>2. s.do = "elm" /\ s.of \in List /\ s.pos \in Nat \ {0}
    BY DEF IsSequence
  <1>3. Element(s) \in 0..Capacity
    <2>1. Element(s) <= Capacity
      BY <1>2 DEF Admissible, Element
    <2> HIDE DEF s
    <2> QED BY <1>2, <2>1, BoundAssumption DEF Element, ElementAt
  <1>4. /\ drive'.par = drive.par
        /\ \A l \in List :
             drive'.list[l].len = IF l = s.of THEN LengthAfter(s.of, s.pos)
                                              ELSE drive.list[l].len
        /\ \A l \in List : \A p \in 1..Capacity :
             drive'.list[l].elm[p] = IF l = s.of /\ p = Element(s) THEN s.val
                                                                  ELSE drive.list[l].elm[p]
    BY <1>2, ElementKind DEF Element
  <1>5. \A j \in 1..n : P[j].do = "elm" /\ P[j].of \in List /\ P[j].pos \in Nat \ {0}
    BY <1>1 DEF IsSequence
  <1>6. \A j \in 1..n : j = n \/ (j \in 1..(n - 1) /\ n \in (j + 1)..n)
    BY <1>1
  <1>7. \A j \in 1..n : \A h \in (j + 1)..(n - 1) : h \in (j + 1)..n
    BY <1>1
  <1> HIDE DEF s
  <1>8. Fitting(P, n)
    <2>1. ASSUME NEW j \in 1..n PROVE Element(P[j]) \in 0..Capacity
      <3>1. CASE j = n
        BY <1>3, <3>1 DEF s
      <3>2. CASE j # n
        BY <1>5, <1>6, <3>2 DEF There, Fitting
      <3> QED BY <3>1, <3>2
    <2> QED BY <2>1 DEF Fitting
  <1>9. ASSUME NEW j \in 1..n, Element(P[j]) # 0,
               \A h \in (j + 1)..n : ~SameElement(P[j], P[h])
        PROVE  drive'.list[P[j].of].elm[Element(P[j])] = P[j].val
    <2>1. CASE j = n
      <3>1. Element(s) \in 1..Capacity
        BY <1>3, <1>9, <2>1, BoundAssumption DEF s
      <3> QED BY <1>2, <1>4, <2>1, <3>1 DEF s
    <2>2. CASE j # n
      <3> DEFINE l == P[j].of
                 p == Element(P[j])
      <3>1. j \in 1..(n - 1) /\ n \in (j + 1)..n
        BY <1>6, <2>2
      <3>2. \A h \in (j + 1)..(n - 1) : ~SameElement(P[j], P[h])
        BY <1>7, <1>9
      <3>3. drive.list[l].elm[p] = P[j].val
        <4>1. P[j].do = "elm" /\ ElementsThere(P, n - 1)
          BY <1>5 DEF There
        <4> QED BY <1>9, <3>1, <3>2, <4>1 DEF ElementsThere
      <3>4. ~(l = s.of /\ p = Element(s))
        <4>1. P[j].of = s.of => P[j].pos # s.pos
          BY <1>2, <1>5, <1>9, <3>1 DEF SameElement, SameList, s
        <4>2. P[j].pos \in Nat
          BY <1>5
        <4> QED BY <1>2, <4>1, <4>2 DEF Element, ElementAt
      <3>5. l \in List /\ p \in 1..Capacity
        BY <1>5, <1>8, <1>9, BoundAssumption DEF Fitting
      <3> HIDE DEF l, p
      <3>6. drive'.list[l].elm[p] = drive.list[l].elm[p]
        BY <1>4, <3>4, <3>5
      <3> QED BY <3>3, <3>6 DEF l, p
    <2> QED BY <2>1, <2>2
  <1>10. ASSUME NEW j \in 1..n, P[j].of # "P4019", P[j].pos < Capacity,
                \A h \in (j + 1)..n : ~SameList(P[j], P[h])
         PROVE  drive'.list[P[j].of].len = P[j].pos
    <2> DEFINE l == P[j].of
               p == P[j].pos
    <2>1. CASE j = n
      <3>1. l = s.of /\ p = s.pos
        BY <2>1 DEF s
      <3>2. LengthAfter(l, p) = p
        <4>1. l # "P4019" /\ p < Capacity /\ p \in Nat
          BY <1>5, <1>10
        <4> HIDE DEF l, p
        <4> QED BY <4>1, BoundAssumption DEF LengthAfter
      <3> HIDE DEF l, p
      <3>3. drive'.list[l].len = p
        BY <1>2, <1>4, <3>1, <3>2
      <3> QED BY <3>3 DEF l, p
    <2>2. CASE j # n
      <3>1. j \in 1..(n - 1) /\ n \in (j + 1)..n
        BY <1>6, <2>2
      <3>2. \A h \in (j + 1)..(n - 1) : ~SameList(P[j], P[h])
        BY <1>7, <1>10
      <3>3. drive.list[l].len = p
        BY <1>5, <1>10, <3>1, <3>2 DEF There, LengthsThere
      <3>4. l # s.of /\ l \in List
        BY <1>2, <1>5, <1>10, <3>1 DEF SameList, s
      <3> HIDE DEF l, p
      <3>5. drive'.list[l].len = p
        BY <1>4, <3>3, <3>4
      <3> QED BY <3>5 DEF l, p
    <2> QED BY <2>1, <2>2
  <1>11. \A j \in 1..n : P[j].do # "write"
    BY <1>5
  <1>12. ElementsThere(P, n)'
    BY <1>9 DEF ElementsThere
  <1>13. LengthsThere(P, n)'
    BY <1>10 DEF LengthsThere
  <1>14. Fitting(P, n)' /\ NumberThere(P, n)'
    BY <1>8, <1>11 DEF Fitting, NumberThere
  <1> QED BY <1>12, <1>13, <1>14 DEF There

\* The last step of a sequence.
LEMMA LastStep ==
  ASSUME Kind(drive), DriveShape, NEW P, IsSequence(P), There(P, Len(P) - 1),
         drive' \in Performed(P[Len(P)])
  PROVE  There(P, Len(P))'
  <1> DEFINE n == Len(P)
             s == P[n]
  <1>1. n \in Nat /\ s.do = "write" /\ s.of = "P1370"
    BY DEF IsSequence
  <1>2. drive' = [drive EXCEPT !.par[s.of] = s.val]
    BY <1>1 DEF Performed
  <1>3. drive'.list = drive.list
    <2> DEFINE q == s.of
    <2> HIDE DEF s, q
    <2>1. drive' = [drive EXCEPT !.par[q] = s.val]
      BY <1>2 DEF q
    <2> QED BY <2>1 DEF Kind
  <1>4. drive'.par["P1370"] = s.val
    <2>1. \A p \in Parameter : drive'.par[p] = IF p = s.of THEN s.val ELSE drive.par[p]
      BY <1>1, WriteShaped
    <2> QED BY <1>1, <2>1 DEF Parameter
  <1>5. \A j \in 1..n : j = n \/ j \in 1..(n - 1)
    BY <1>1
  <1>6. \A j \in 1..(n - 1) : P[j].do = "elm"
    BY DEF IsSequence
  <1>7. \A j \in 1..n : \A h \in (j + 1)..(n - 1) : h \in (j + 1)..n
    BY <1>1
  <1>8. P[n].do = "write" /\ There(P, n - 1)
    BY <1>1
  <1> HIDE DEF n, s
  <1>9. Fitting(P, n)
    BY <1>5, <1>8 DEF There, Fitting
  <1>10. ElementsThere(P, n)'
    <2>1. ASSUME NEW j \in 1..n, P[j].do = "elm", Element(P[j]) # 0,
                 \A h \in (j + 1)..n : ~SameElement(P[j], P[h])
          PROVE  drive'.list[P[j].of].elm[Element(P[j])] = P[j].val
      <3>1. j \in 1..(n - 1)
        BY <1>5, <1>8, <2>1
      <3>2. \A h \in (j + 1)..(n - 1) : ~SameElement(P[j], P[h])
        BY <1>7, <2>1
      <3> QED BY <1>3, <1>8, <2>1, <3>1, <3>2 DEF There, ElementsThere
    <2> QED BY <2>1 DEF ElementsThere
  <1>11. LengthsThere(P, n)'
    <2>1. ASSUME NEW j \in 1..n, P[j].do = "elm", P[j].of # "P4019", P[j].pos < Capacity,
                 \A h \in (j + 1)..n : ~SameList(P[j], P[h])
          PROVE  drive'.list[P[j].of].len = P[j].pos
      <3>1. j \in 1..(n - 1)
        BY <1>5, <1>8, <2>1
      <3>2. \A h \in (j + 1)..(n - 1) : ~SameList(P[j], P[h])
        BY <1>7, <2>1
      <3> QED BY <1>3, <1>8, <2>1, <3>1, <3>2 DEF There, LengthsThere
    <2> QED BY <2>1 DEF LengthsThere
  <1>12. NumberThere(P, n)'
    BY <1>4, <1>5, <1>6 DEF NumberThere, s
  <1>13. Fitting(P, n)'
    BY <1>9 DEF Fitting
  <1>14. There(P, n)'
    BY <1>10, <1>11, <1>12, <1>13 DEF There
  <1> QED BY <1>14 DEF n

(* The last step that writes each list, and what it writes.                *)
LastOf(l) ==
  CASE l = "P4007" -> 1 [] l = "P4008" -> 2 [] l = "P4009" -> 4 [] l = "P4019" -> 5
    [] l = "P4006" -> 6 [] l = "P4018" -> 7 [] l = "P4063" -> 8 [] l = "P1389" -> 9

\* The position of element i.
Place(l, i) == IF l = "P4019" THEN i + 1 ELSE i

Value(k, direction, l) ==
  CASE l = "P4019" -> direction
    [] l \in {"P4006", "P4018", "P4063"} -> 0
    [] OTHER -> k

Elm(s, l, i) == s.do = "elm" /\ s.of = l /\ s.pos = Place(l, i)

\* Every list has its step among the nine, and none of those after it writes there.
LEMMA LastElements ==
  ASSUME NEW k, NEW i, NEW direction
  PROVE  /\ \A l \in List :
              /\ LastOf(l) \in 1..9
              /\ Elm(ElementStep(k, i, direction, LastOf(l)), l, i)
              /\ ElementStep(k, i, direction, LastOf(l)).val = Value(k, direction, l)
         /\ \A o \in 1..9 : \E l \in List :
              Elm(ElementStep(k, i, direction, o), l, i) /\ o <= LastOf(l)
  <1>1. ASSUME NEW l \in List
        PROVE  /\ LastOf(l) \in 1..9
               /\ Elm(ElementStep(k, i, direction, LastOf(l)), l, i)
               /\ ElementStep(k, i, direction, LastOf(l)).val = Value(k, direction, l)
    BY DEF List, LastOf, ElementStep, Elm, Place, Value
  <1>2. ASSUME NEW o \in 1..9
        PROVE  \E l \in List : Elm(ElementStep(k, i, direction, o), l, i) /\ o <= LastOf(l)
    <2> DEFINE s == ElementStep(k, i, direction, o)
    <2>1. o \in {1, 2, 3, 4, 5, 6, 7, 8, 9}
      OBVIOUS
    <2>2. s.of \in List /\ Elm(s, s.of, i) /\ o <= LastOf(s.of)
      BY <2>1 DEF List, LastOf, ElementStep, Elm, Place
    <2> HIDE DEF s
    <2>3. \E l \in List : Elm(s, l, i) /\ o <= LastOf(l)
      BY <2>2
    <2> QED BY <2>3 DEF s
  <1> QED BY <1>1, <1>2

\* Where the last step for an element of a list is, and what follows it.
LEMMA WrittenLast ==
  ASSUME NEW k, NEW T, NEW directions \in Seq(T),
         NEW l \in List, NEW i \in 1..Len(directions)
  PROVE  LET P == sequencer_write(k, directions)
         IN  \E j \in 2..(Len(P) - 1) :
               /\ Elm(P[j], l, i) /\ P[j].val = Value(k, directions[i], l)
               /\ \A h \in (j + 1)..Len(P) : ~SameElement(P[j], P[h])
               /\ i = Len(directions) =>
                    \A h \in (j + 1)..Len(P) : ~SameList(P[j], P[h])
  <1> DEFINE P == sequencer_write(k, directions)
             n == Len(directions)
  <1>1. n \in Nat /\ i \in 1..n
    OBVIOUS
  <1>2. /\ Len(P) = 9 * n + 2
        /\ P[9 * n + 2] = [do |-> "write", of |-> "P1370", val |-> n]
        /\ \A a \in 1..n, o \in 1..9 : P[9 * a - 8 + o] = ElementStep(k, a, directions[a], o)
    BY SequenceSteps
  <1> HIDE DEF P, n
  <1> DEFINE e == LastOf(l)
             j == 9 * i - 8 + e
  <1>3. e \in 1..9 /\ j \in 2..(9 * n + 1)
    <2>1. e \in 1..9
      BY LastElements
    <2> HIDE DEF e
    <2> QED BY <1>1, <2>1
  <1>4. Elm(P[j], l, i) /\ P[j].val = Value(k, directions[i], l)
    <2>1. P[j] = ElementStep(k, i, directions[i], e)
      BY <1>1, <1>2, <1>3
    <2> DEFINE s == ElementStep(k, i, directions[i], e)
    <2>2. Elm(s, l, i) /\ s.val = Value(k, directions[i], l)
      BY LastElements
    <2> HIDE DEF P, s
    <2> QED BY <2>1, <2>2 DEF s
  <1>5. ASSUME NEW h \in (j + 1)..(9 * n + 2), SameList(P[j], P[h])
        PROVE  \E a \in 1..n : Elm(P[h], l, a) /\ a > i
    <2>1. h \in 1..(9 * n + 2) /\ h # 1
      <3> HIDE DEF j
      <3> QED BY <1>1, <1>3
    <2>2. h # 9 * n + 2
      BY <1>2, <1>5 DEF SameList
    <2>3. PICK a \in 1..n, o \in 1..9 : h = 9 * a - 8 + o
      BY <1>1, <2>1, <2>2, WhichElement
    <2>4. PICK l2 \in List : Elm(P[h], l2, a) /\ o <= LastOf(l2)
      <3> DEFINE s == ElementStep(k, a, directions[a], o)
      <3>1. P[h] = s
        BY <1>2, <2>3
      <3>2. \E l2 \in List : Elm(s, l2, a) /\ o <= LastOf(l2)
        BY LastElements
      <3> HIDE DEF s
      <3> QED BY <3>1, <3>2
    <2>5. l2 = l /\ o <= e
      BY <1>4, <1>5, <2>4 DEF SameList, Elm
    <2> HIDE DEF e
    <2>6. a > i
      BY <1>1, <1>3, <2>3, <2>5
    <2> QED BY <2>4, <2>5, <2>6
  <1> HIDE DEF j
  <1>6. ASSUME NEW h \in (j + 1)..Len(P), SameElement(P[j], P[h]) PROVE FALSE
    <2>1. PICK a \in 1..n : Elm(P[h], l, a) /\ a > i
      BY <1>2, <1>5, <1>6 DEF SameElement
    <2>2. Place(l, a) = Place(l, i)
      BY <1>4, <1>6, <2>1 DEF SameElement, Elm
    <2> QED BY <1>1, <2>1, <2>2 DEF Place
  <1>7. ASSUME i = n, NEW h \in (j + 1)..Len(P), SameList(P[j], P[h]) PROVE FALSE
    <2>1. PICK a \in 1..n : Elm(P[h], l, a) /\ a > i
      BY <1>2, <1>5, <1>7
    <2> QED BY <1>1, <1>7, <2>1
  <1>8. j \in 2..(Len(P) - 1)
    BY <1>1, <1>2, <1>3
  <1> QED BY <1>4, <1>6, <1>7, <1>8 DEF P, n

(* What sequencer_write is to leave in the drive.                          *)
Whole(k, directions) ==
  LET n == Len(directions)
      Holds(l, i) == drive.list[l].elm[i]
  IN  /\ drive.par["P1370"] = n
      /\ \A i \in 1..n :
           /\ \A l \in {"P4007", "P4008", "P4009", "P1389"} : Holds(l, i) = k
           /\ \A l \in {"P4006", "P4018", "P4063"} : Holds(l, i) = 0
           /\ Holds("P4019", i) = directions[i]
      /\ n \in 1..(Capacity - 1) =>
           \A l \in List \ {"P4019"} : drive.list[l].len = n

\* When all of its steps are done, the sequence is there.
LEMMA AllThere ==
  ASSUME NEW k, NEW T, NEW directions \in Seq(T),
         There(sequencer_write(k, directions), Len(sequencer_write(k, directions)))
  PROVE  Whole(k, directions)
  <1> DEFINE P == sequencer_write(k, directions)
             n == Len(directions)
             N == Len(P)
  <1>1. n \in Nat
    OBVIOUS
  <1>2. /\ N = 9 * n + 2
        /\ P[1] = [do |-> "elm", of |-> "P4019", pos |-> 1, val |-> "cw"]
        /\ P[9 * n + 2] = [do |-> "write", of |-> "P1370", val |-> n]
        /\ \A a \in 1..n, o \in 1..9 : P[9 * a - 8 + o] = ElementStep(k, a, directions[a], o)
    BY SequenceSteps
  <1>3. ASSUME NEW l \in List, NEW i \in 1..n
        PROVE  \E j \in 2..(Len(P) - 1) :
                 /\ Elm(P[j], l, i) /\ P[j].val = Value(k, directions[i], l)
                 /\ \A h \in (j + 1)..Len(P) : ~SameElement(P[j], P[h])
                 /\ i = n => \A h \in (j + 1)..Len(P) : ~SameList(P[j], P[h])
    BY WrittenLast
  <1>4. There(P, N)
    OBVIOUS
  <1> HIDE DEF P, n
  <1>5. N \in Nat /\ N >= 2
    BY <1>1, <1>2
  <1>6. drive.par["P1370"] = n
    <2>1. N \in 1..N /\ P[N].do = "write" /\ P[N].val = n
      BY <1>2, <1>5
    <2> QED BY <1>4, <2>1 DEF There, NumberThere
  <1>7. ASSUME NEW l \in List, NEW i \in 1..n
        PROVE  drive.list[l].elm[i] = Value(k, directions[i], l)
    <2>1. PICK j \in 2..(N - 1) :
            /\ Elm(P[j], l, i) /\ P[j].val = Value(k, directions[i], l)
            /\ \A h \in (j + 1)..N : ~SameElement(P[j], P[h])
      BY <1>3
    <2>2. j \in 1..N
      BY <1>5
    <2>3. Element(P[j]) = i /\ i # 0
      <3>1. i \in Nat /\ i # 0
        BY <1>1
      <3> QED BY <2>1, <3>1 DEF Elm, Element, ElementAt, Place
    <2>4. /\ P[j].do = "elm" /\ P[j].of = l /\ P[j].val = Value(k, directions[i], l)
          /\ \A h \in (j + 1)..N : ~SameElement(P[j], P[h])
      BY <2>1 DEF Elm
    <2>5. drive.list[P[j].of].elm[Element(P[j])] = P[j].val
      BY <1>4, <2>2, <2>3, <2>4 DEF There, ElementsThere
    <2> QED BY <2>3, <2>4, <2>5
  <1>8. ASSUME NEW l \in List \ {"P4019"}, n \in 1..(Capacity - 1)
        PROVE  drive.list[l].len = n
    <2>1. n \in 1..n /\ n < Capacity
      BY <1>8, BoundAssumption
    <2>2. PICK j \in 2..(N - 1) :
            Elm(P[j], l, n) /\ \A h \in (j + 1)..N : ~SameList(P[j], P[h])
      BY <1>3, <2>1
    <2>3. j \in 1..N /\ P[j].do = "elm" /\ P[j].of = l /\ P[j].pos = n
      BY <1>5, <2>2 DEF Elm, Place
    <2> QED BY <1>4, <2>1, <2>2, <2>3 DEF There, LengthsThere
  <1>9. ASSUME NEW i \in 1..n
        PROVE  /\ \A l \in {"P4007", "P4008", "P4009", "P1389"} : drive.list[l].elm[i] = k
               /\ \A l \in {"P4006", "P4018", "P4063"} : drive.list[l].elm[i] = 0
               /\ drive.list["P4019"].elm[i] = directions[i]
    <2>1. \A l \in List : drive.list[l].elm[i] = Value(k, directions[i], l)
      BY <1>7
    <2> QED BY <2>1 DEF List, Value
  <1> QED BY <1>6, <1>8, <1>9 DEF Whole, n

(* As long as sequencer_write of m is under way or has ended well, the     *)
(* steps that are not left have been done and their work is there.         *)
Sequence(m) == sequencer_write(call[m].no, call[m].directions)

SoFar(m) ==
  /\ call[m].directions \in Seq({"cw", "ccw"})
  /\ \E n \in 0..Len(Sequence(m)) :
       todo[m] = Rest(Sequence(m), n + 1) /\ There(Sequence(m), n)

Sequencing(m) ==
  call[m].of = "sequencer_write" /\ (todo[m] # <<>> \/ result[m] = 0) => SoFar(m)

\* What neither m nor the lists and parameters know of does not matter.
LEMMA SequencingKept ==
  ASSUME NEW m, Sequencing(m),
         todo'[m] = todo[m], call'[m] = call[m], result'[m] = result[m],
         drive'.list = drive.list, drive'.par = drive.par
  PROVE  Sequencing(m)'
  <1>1. \A P, n : There(P, n) => There(P, n)'
    BY DEF There, Fitting, ElementsThere, LengthsThere, NumberThere
  <1>2. ASSUME SoFar(m) PROVE SoFar(m)'
    <2>a. PICK P : P = Sequence(m)
      OBVIOUS
    <2>1. PICK n \in 0..Len(P) : todo[m] = Rest(P, n + 1) /\ There(P, n)
      BY <1>2, <2>a DEF SoFar
    <2>2. Sequence(m)' = P
      BY <2>a DEF Sequence
    <2>3. \E i \in 0..Len(P) : todo'[m] = Rest(P, i + 1) /\ There(P, i)'
      BY <1>1, <2>1
    <2>4. \E i \in 0..Len(Sequence(m)') :
            todo'[m] = Rest(Sequence(m)', i + 1) /\ There(Sequence(m), i)'
      BY <2>2, <2>3 DEF There, Fitting, ElementsThere, LengthsThere, NumberThere
    <2> QED BY <1>2, <2>4 DEF SoFar
  <1> QED BY <1>2 DEF Sequencing

\* The steps of the threads that only look.
LEMMA ReadersLeave ==
  ASSUME NEW m \in Thread, Inv(m), Sequencing(m),
         NEW t \in Thread \ {m}, Proceeds(t) \/ Fails(t) \/ Get(t)
  PROVE  Sequencing(m)'
  <1> DEFINE s == Head(todo[t])
  <1>1. todo[t] # <<>> => s.do = "read"
    <2> DEFINE P == todo[t]
    <2>1. IsSeq(P) /\ \A i \in 1..Len(P) : P[i].do = "read"
      BY DEF Inv, Reading
    <2> HIDE DEF P
    <2>2. ASSUME P # <<>> PROVE Head(P).do = "read"
      <3>1. 1 \in 1..Len(P) /\ Head(P) = P[1]
        BY <2>1, <2>2 DEF IsSeq
      <3> QED BY <2>1, <3>1
    <2> QED BY <2>2 DEF P
  <1>2. ~Perform(t) /\ ~CheckCommand(t) /\ ~CheckFinished(t)
    BY <1>1 DEF Perform, CheckCommand, CheckFinished, Ready
  <1>3. drive' = drive
    <2>1. CASE Look(t) \/ Get(t)
      BY <2>1 DEF Look, Get, Invoke
    <2>2. CASE Rejected(t) \/ Fails(t)
      <3>1. todo[t] # <<>> /\ s.do = "read"
        BY <1>1, <2>2 DEF Rejected, Fails
      <3>2. \/ drive' = drive
            \/ ~Admissible(s)
            \/ s.do = "elm"
            \/ drive' \in Performed(s)
        BY <2>2 DEF Rejected, Fails
      <3> HIDE DEF s
      <3>3. Admissible(s) /\ Performed(s) = {drive}
        BY <3>1 DEF Admissible, Performed
      <3> QED BY <3>1, <3>2, <3>3
    <2> QED BY <1>2, <2>1, <2>2 DEF Proceeds
  <1>4. /\ \E r : todo' = [todo EXCEPT ![t] = r] \/ todo' = todo
        /\ \E r : call' = [call EXCEPT ![t] = r] \/ call' = call
        /\ \E r : result' = [result EXCEPT ![t] = r] \/ result' = result
    <2>1. CASE Get(t)
      <3>1. PICK c : Invoke(t, c)
        BY <2>1 DEF Get
      <3> QED BY <3>1 DEF Invoke
    <2>2. CASE Look(t)
      <3>1. PICK r : Goes(t, r)
        BY <2>2 DEF Look
      <3> QED BY <3>1 DEF Goes
    <2>3. CASE Rejected(t) \/ Fails(t)
      <3>1. PICK code : Returns(t, code)
        BY <2>3 DEF Rejected, Fails, Throws
      <3> QED BY <3>1 DEF Returns
    <2> QED BY <1>2, <2>1, <2>2, <2>3 DEF Proceeds
  <1>5. todo'[m] = todo[m] /\ call'[m] = call[m] /\ result'[m] = result[m]
    BY <1>4 DEF Inv, ThreadShape
  <1> QED BY <1>3, <1>5, SequencingKept

\* The steps of the controller.
LEMMA SequenceGoesOn ==
  ASSUME NEW m \in Thread, Inv(m), TypeInv, Sequencing(m), Proceeds(m) \/ Fails(m)
  PROVE  Sequencing(m)'
  <1>1. todo[m] # <<>> /\ call' = call
    BY DEF Proceeds, Look, Perform, CheckCommand, CheckFinished, Rejected, Fails, Ready,
       Throws, Returns, Goes
  <1>2. CASE call[m].of # "sequencer_write"
    BY <1>1, <1>2 DEF Sequencing
  <1>3. CASE Returns(m, set_error(ErrorBlock(call[m].of)))
    <2> DEFINE code == set_error(ErrorBlock(call[m].of))
    <2>1. code # 0
      BY ErrorNotZero
    <2> HIDE DEF code
    <2>2. todo'[m] = <<>> /\ result'[m] = code
      BY <1>3 DEF code, Returns, Inv, ThreadShape
    <2> QED BY <2>1, <2>2 DEF Sequencing
  <1>4. CASE /\ call[m].of = "sequencer_write"
             /\ ~Returns(m, set_error(ErrorBlock(call[m].of)))
    <2>a. PICK P : P = Sequence(m)
      OBVIOUS
    <2> DEFINE N == Len(P)
    <2>1. call[m].directions \in Seq({"cw", "ccw"})
      BY <1>1, <1>4 DEF Sequencing, SoFar
    <2>2. IsSequence(P)
      BY <2>a, <2>1, SequenceIs DEF Sequence
    <2>3. PICK n \in 0..N : todo[m] = Rest(P, n + 1) /\ There(P, n)
      BY <1>1, <1>4, <2>a DEF Sequencing, SoFar
    <2>4. P = Sequence(m)'
      BY <1>1, <2>a DEF Sequence
    <2>5. N \in Nat \ {0} /\ IsSeq(P)
      BY <2>2 DEF IsSequence
    <2>6. n # N
      <3>1. N \in 1..Len(P)
        BY <2>5
      <3>2. Rest(P, Len(P) + 1) = <<>>
        BY <2>5, <3>1, RestFirst
      <3> QED BY <1>1, <2>3, <3>2
    <2> DEFINE i == n + 1
               s == P[i]
    <2>7. i \in 1..N /\ i - 1 = n /\ (i \in 1..(N - 1) \/ i = N)
      BY <2>3, <2>5, <2>6
    <2>8. Head(todo[m]) = s /\ Tail(todo[m]) = Rest(P, i + 1)
      BY <2>3, <2>5, <2>7, Position
    <2>9. s.do = IF i = N THEN "write" ELSE "elm"
      BY <2>2, <2>7 DEF IsSequence
    <2>10. Perform(m)
      <3>1. ~Look(m) /\ ~CheckCommand(m) /\ ~CheckFinished(m)
        BY <2>8, <2>9 DEF Look, CheckCommand, CheckFinished, Ready
      <3>2. ~Rejected(m) /\ ~Fails(m)
        BY <1>4 DEF Rejected, Fails, Throws
      <3> QED BY <3>1, <3>2 DEF Proceeds
    <2>11. /\ Admissible(s) /\ drive' \in Performed(s)
           /\ Goes(m, Rest(P, i + 1))
      BY <2>8, <2>10 DEF Perform
    <2>12. todo'[m] = Rest(P, i + 1)
      BY <2>11, ThreadGoes DEF Inv
    <2>13. There(P, i)'
      <3>1. Kind(drive) /\ DriveShape
        BY DEF TypeInv, Inv
      <3>2. There(P, i - 1)
        BY <2>3, <2>7
      <3>3. CASE i = N
        <4>1. There(P, N - 1) /\ drive' \in Performed(P[N])
          BY <2>11, <3>2, <3>3
        <4>2. There(P, Len(P))'
          BY <2>2, <3>1, <4>1, LastStep
        <4> QED BY <3>3, <4>2
      <3>4. CASE i \in 1..(N - 1)
        <4> HIDE DEF i
        <4> QED BY <2>2, <2>11, <3>1, <3>2, <3>4, OneMoreElement
      <3> QED BY <2>7, <3>3, <3>4
    <2> HIDE DEF i
    <2>14. i \in 0..N
      BY <2>5, <2>7
    <2>15. \E h \in 0..Len(Sequence(m)') :
             todo'[m] = Rest(Sequence(m)', h + 1) /\ There(Sequence(m), h)'
      BY <2>4, <2>12, <2>13, <2>14 DEF There, Fitting, ElementsThere, LengthsThere, NumberThere
    <2> QED BY <1>1, <2>1, <2>15 DEF SoFar, Sequencing
  <1> QED BY <1>2, <1>3, <1>4

\* A call of the controller.
LEMMA SequenceBegins ==
  ASSUME NEW m \in Thread, Inv(m), Change(m)
  PROVE  Sequencing(m)'
  <1>a. PICK f \in Changing :
          \E d \in (CASE f = "sequencer_write" -> RunSequences
                      [] f = "speedcontrol_write" -> {<<"cw">>, <<"ccw">>}
                      [] OTHER -> {<<>>}) :
            Invoke(m, [of |-> f, no |-> calls + 1, directions |-> d])
    BY DEF Change
  <1>1. PICK d : /\ f = "sequencer_write" => d \in RunSequences
                 /\ Invoke(m, [of |-> f, no |-> calls + 1, directions |-> d])
    BY <1>a
  <1> DEFINE k == calls + 1
             c == [of |-> f, no |-> k, directions |-> d]
             code == set_error(Block.Invalid_Pointer)
             P == Steps(f, k, d)
  <1>2. /\ call' = [call EXCEPT ![m] = c] /\ todo[m] = <<>>
        /\ \/ todo' = todo /\ result' = [result EXCEPT ![m] = code]
           \/ todo' = [todo EXCEPT ![m] = P]
    BY <1>1 DEF Invoke
  <1>3. c.of = f /\ c.no = k /\ c.directions = d /\ code # 0
    BY DEF set_error, Block
  <1> HIDE DEF c, k, code, P
  <1>4. /\ call'[m] = c
        /\ \/ todo'[m] = <<>> /\ result'[m] = code
           \/ todo'[m] = P
    BY <1>2 DEF Inv, ThreadShape
  <1>5. CASE f # "sequencer_write" \/ (todo'[m] = <<>> /\ result'[m] = code)
    BY <1>3, <1>4, <1>5 DEF Sequencing
  <1>6. CASE f = "sequencer_write" /\ todo'[m] = P
    <2>1. d \in Seq({"cw", "ccw"})
      BY <1>1, <1>6, FunctionAssumption
    <2>2. P = sequencer_write(k, d) /\ Sequence(m)' = P
      BY <1>3, <1>4, <1>6 DEF Steps, Sequence, P
    <2>3. IsSequence(P)
      BY <2>1, <2>2, SequenceIs
    <2>4. IsSeq(P) /\ 1 \in 1..Len(P) /\ 0 \in 0..Len(P)
      BY <2>3 DEF IsSequence
    <2>5. Rest(P, 0 + 1) = P
      BY <2>4, RestFirst
    <2>6. There(Sequence(m), 0)'
      BY DEF There, Fitting, ElementsThere, LengthsThere, NumberThere
    <2>7. \E n \in 0..Len(Sequence(m)') :
            todo'[m] = Rest(Sequence(m)', n + 1) /\ There(Sequence(m), n)'
      BY <1>6, <2>2, <2>4, <2>5, <2>6
    <2>8. call'[m].directions \in Seq({"cw", "ccw"})
      BY <1>3, <1>4, <2>1
    <2> QED BY <2>7, <2>8 DEF Sequencing, SoFar
  <1> QED BY <1>4, <1>5, <1>6

\* Every step.
LEMMA SequencingSteps ==
  ASSUME NEW m \in Thread, Controllers = {m}, Inv(m), TypeInv, Sequencing(m), [Next]_vars
  PROVE  Sequencing(m)'
  <1>1. CASE init(m) \/ open(m) \/ close(m)
    <2>a. PICK f \in {"init", "open", "close"} : \E code : Ends(m, f, code)
      BY <1>1 DEF init, open, close
    <2>1. call' = [call EXCEPT ![m] = [Idle EXCEPT !.of = f]]
      BY <2>a DEF Ends
    <2>2. call'[m].of = f
      BY <2>1 DEF Inv, ThreadShape, Idle
    <2> QED BY <2>2 DEF Sequencing
  <1>2. CASE Change(m)
    BY <1>2, SequenceBegins
  <1>3. ASSUME NEW t \in Thread \ {m}, Get(t) \/ Proceeds(t) \/ Fails(t)
        PROVE  Sequencing(m)'
    BY <1>3, ReadersLeave
  <1>4. CASE Proceeds(m) \/ Fails(m)
    BY <1>4, SequenceGoesOn
  <1>5. CASE Restart
    BY <1>5 DEF Restart, Idle, Sequencing
  <1>6. CASE \/ \E c \in Command : CommandEnds(c)
             \/ SwitchTorque \/ PlcStarts \/ PlcFinishes \/ PlcIsReady \/ UNCHANGED vars
    <2>1. todo' = todo /\ call' = call /\ result' = result
      BY <1>6 DEF CommandEnds, SwitchTorque, PlcStarts, PlcFinishes, PlcIsReady, vars,
         threadVars
    <2>2. drive'.list = drive.list /\ drive'.par = drive.par
      <3>1. CASE \E c \in Command : CommandEnds(c)
        <4>1. PICK c \in Command : CommandEnds(c)
          BY <3>1
        <4>2. \/ \E status : drive' = [drive EXCEPT !.cmd[c] = status]
              \/ \E status, level : drive' = [drive EXCEPT !.cmd[c] = status, !.level = level]
          BY <4>1 DEF CommandEnds
        <4> QED BY <4>2 DEF TypeInv, Kind
      <3>2. CASE SwitchTorque
        <4> DEFINE other == ~drive.torque
        <4>1. drive' = [drive EXCEPT !.torque = other]
          BY <3>2 DEF SwitchTorque
        <4> HIDE DEF other
        <4> QED BY <4>1 DEF TypeInv, Kind
      <3>3. CASE PlcStarts \/ PlcFinishes \/ PlcIsReady \/ UNCHANGED vars
        BY <3>3 DEF PlcStarts, PlcFinishes, PlcIsReady, vars
      <3> QED BY <1>6, <3>1, <3>2, <3>3
    <2> QED BY <2>1, <2>2, SequencingKept
  <1> QED BY <1>1, <1>2, <1>3, <1>4, <1>5, <1>6 DEF Next

\* The sequence so far, always.
LEMMA SequencingHolds ==
  ASSUME NEW m, Controllers = {m}
  PROVE  Spec => []Sequencing(m)
  <1>1. m \in Thread
    BY ThreadAssumption
  <1>2. Init => Sequencing(m)
    BY <1>1 DEF Init, Idle, Sequencing
  <1>3. Inv(m) /\ TypeInv /\ Sequencing(m) /\ [Next]_vars => Sequencing(m)'
    BY <1>1, SequencingSteps
  <1>4. Spec => []Inv(m)
    BY InvHolds
  <1> QED BY <1>2, <1>3, <1>4, TypeHolds, PTL DEF Spec

(* When sequencer_write has returned without an error, the drive holds the *)
(* whole run sequence of that call - directions, speeds, accelerations,    *)
(* jerks and delays of every element, and their number - and lists of four *)
(* bytes that end with its last element, unless it fills them (Wrapper.cpp *)
(* 124-181, SISProtocol.cpp 458-525), whatever earlier calls had written   *)
(* or broken off.  Nothing is said of the length of P-0-4019.              *)
THEOREM SequencesAreWhole ==
  ASSUME NEW m, Controllers = {m}
  PROVE  Spec => []SequenceWhole
  <1>1. Sequencing(m) => SequenceWhole
    <2>1. SUFFICES ASSUME Sequencing(m), Returned(m, "sequencer_write")
                   PROVE  Whole(call[m].no, call[m].directions)
      BY DEF SequenceWhole, Whole
    <2> DEFINE P == Sequence(m)
    <2>2. call[m].directions \in Seq({"cw", "ccw"}) /\ todo[m] = <<>>
      BY <2>1 DEF Sequencing, SoFar, Returned
    <2>3. PICK n \in 0..Len(P) : todo[m] = Rest(P, n + 1) /\ There(P, n)
      BY <2>1 DEF Sequencing, SoFar, Returned
    <2>4. IsSequence(P)
      BY <2>2, SequenceIs DEF Sequence
    <2> HIDE DEF P
    <2>5. IsSeq(P) /\ Len(P) \in Nat
      BY <2>4 DEF IsSequence
    <2>6. n = Len(P)
      <3>1. SUFFICES ASSUME n # Len(P) PROVE FALSE
        OBVIOUS
      <3>2. n + 1 \in 1..Len(P)
        BY <2>3, <2>5, <3>1
      <3>3. Rest(P, n + 1) # <<>>
        BY <2>5, <3>2, RestFirst
      <3> QED BY <2>2, <2>3, <3>3
    <2>7. There(P, Len(P))
      BY <2>3, <2>6
    <2> QED BY <2>2, <2>7, AllThere DEF P, Sequence
  <1> QED BY <1>1, SequencingHolds, PTL
=============================================================================
