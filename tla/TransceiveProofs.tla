-------------------------- MODULE TransceiveProofs --------------------------
(***************************************************************************)
(* Proofs about Transceive, for any threads, any faults of the drive and   *)
(* the line and any bounds.  The argument: as long as no thread has        *)
(* unlocked a mutex it did not have, the thread between purge and unlock   *)
(* is the one that has mutex_sis (LockInv); and then whatever is at the    *)
(* drive, on the line and in the buffer belongs to its request, and makes  *)
(* one reaction at most (LineInv).                                         *)
(***************************************************************************)
EXTENDS Transceive, TLAPS

(* The thread is past lock() and has not unlocked.                         *)
Using(t) == pc[t] \in {"purge", "write", "wait", "unlock"}

(* The unlocks of the calls around a retry are as many as their depth, and *)
(* the thread has unlocked before the first of them.                       *)
UnwindInv ==
  \A t \in Thread : pc[t] = "unwind" => depth[t] > 0 /\ mutex_sis # t

(* The mutex stays with a thread that has left transceiving only if it     *)
(* left by an exception (lines 592-642).                                   *)
AbandonedOnlyByFailure ==
  \A t \in Thread :
    mutex_sis = t /\ pc[t] \in {"idle", "unwind"} => result[t] = "failed"

LockInv ==
  /\ UnwindInv
  /\ AbandonedOnlyByFailure
  /\ ~unowned => \A t \in Thread : Using(t) => mutex_sis = t

(* Every piece of s answers the request of t.                              *)
AllFor(s, t) == \A i \in 1..Len(s) : s[i].of.to = Req(t)

(* One request or the pieces of one reaction, in this order.               *)
InFlight(t) ==
  /\ 3 * Len(drive) + Len(line) + Len(port) + Len(rcvd[t]) <= 3
  /\ \A i \in 1..Len(drive) : drive[i] = Req(t)
  /\ AllFor(line, t) /\ AllFor(port, t) /\ AllFor(rcvd[t], t)

LineOf(t) ==
  /\ pc[t] \in {"purge", "write"} => Quiet /\ rcvd[t] = <<>>
  /\ pc[t] = "wait" => InFlight(t)
  /\ pc[t] = "unlock" => Quiet
  /\ pc[t] \in {"lock", "purge", "write", "wait"} => result[t] # "returned"
  /\ result[t] = "returned" => rcvd[t][3].of.to = Req(t)

LineInv == FreeMeansQuiet /\ (~unowned => \A t \in Thread : LineOf(t))

Inv == TypeOK /\ LockInv /\ LineInv
-----------------------------------------------------------------------------
(* Pieces and sequences of pieces. *)

\* A reaction is at most three pieces, and they are its own.
LEMMA PiecesOf ==
  ASSUME NEW r \in Reaction
  PROVE  /\ Pieces(r) \in Seq(Piece)
         /\ Len(Pieces(r)) <= 3
         /\ \A i \in 1..Len(Pieces(r)) : Pieces(r)[i].of = r
  <1>1. CASE r.status = "bare"
    <2>1. Pieces(r) = [i \in 1..2 |-> [of |-> r, no |-> i]]
      BY <1>1 DEF Pieces
    <2>2. \A i \in 1..2 : [of |-> r, no |-> i] \in Piece
      BY DEF Piece
    <2>3. Pieces(r) \in Seq(Piece) /\ Len(Pieces(r)) = 2
      BY <2>1, <2>2
    <2> QED BY <2>1, <2>3
  <1>2. CASE r.status # "bare"
    <2>1. Pieces(r) = [i \in 1..3 |-> [of |-> r, no |-> i]]
      BY <1>2 DEF Pieces
    <2>2. \A i \in 1..3 : [of |-> r, no |-> i] \in Piece
      BY DEF Piece
    <2>3. Pieces(r) \in Seq(Piece) /\ Len(Pieces(r)) = 3
      BY <2>1, <2>2
    <2> QED BY <2>1, <2>3
  <1> QED BY <1>1, <1>2

\* The reaction the drive makes of the request it has received first.
LEMMA AnswerTyped ==
  ASSUME drive \in Seq(Request), drive # <<>>, NEW s \in Status
  PROVE  [to |-> Head(drive), status |-> s] \in Reaction
  <1>1. Head(drive) \in Request
    OBVIOUS
  <1> QED BY <1>1 DEF Reaction

-----------------------------------------------------------------------------
(* The four ways a Receive ends. *)

Got(t) == rcvd[t] \o port

StaysOn(t) ==
  /\ rcvd' = [rcvd EXCEPT ![t] = Got(t)]
  /\ UNCHANGED <<pc, mutex_sis, unowned, depth, result>>

OnceMore(t) ==
  /\ Len(Got(t)) > 2
  /\ Unlock(t)
  /\ depth' = [depth EXCEPT ![t] = @ + 1]
  /\ Goto(t, "lock")
  /\ UNCHANGED <<rcvd, result>>

Returns(t) ==
  /\ Len(Got(t)) > 2
  /\ result' = [result EXCEPT ![t] = "returned"]
  /\ rcvd' = [rcvd EXCEPT ![t] = Got(t)]
  /\ Goto(t, "unlock")
  /\ UNCHANGED <<mutex_sis, unowned, depth>>

\* The loop goes on, or the call throws, tries once more or returns.
LEMMA ReceiveEnds ==
  ASSUME NEW t \in Thread, Receive(t)
  PROVE  Throw(t) \/ StaysOn(t) \/ OnceMore(t) \/ Returns(t)
  <1>1. TooShort(t, Got(t)) \/ Incomplete(t, Got(t)) \/ Complete(t, Got(t))
    BY DEF Receive, Got
  <1>2. CASE TooShort(t, Got(t))
    BY <1>2, Zenon DEF TooShort
  <1>3. CASE Incomplete(t, Got(t))
    BY <1>3, Zenon DEF Incomplete, StaysOn
  <1>4. CASE Complete(t, Got(t))
    BY <1>4, Zenon DEF Complete, OnceMore, Returns
  <1> QED BY <1>1, <1>2, <1>3, <1>4

-----------------------------------------------------------------------------
(* Types. *)

Places == {"idle", "lock", "purge", "write", "wait", "unlock", "unwind", "escaped"}

\* An exception sets the thread back and leaves the mutex as it is.
LEMMA ThrowTyped ==
  ASSUME TypeOK, NEW t \in Thread, Throw(t)
  PROVE  /\ pc' \in [Thread -> Places] /\ mutex_sis' \in Thread \cup {Nobody}
         /\ unowned' \in BOOLEAN /\ depth' \in [Thread -> Nat]
         /\ rcvd' \in [Thread -> Seq(Piece)]
         /\ result' \in [Thread -> {"none", "failed", "returned"}]
  <1>1. <<>> \in Seq(Piece)
    OBVIOUS
  <1> QED BY <1>1 DEF Throw, Goto, TypeOK, Places

\* Every action keeps the types; Unwind needs that the calls it ends were begun.
LEMMA TypeStep ==
  ASSUME TypeOK, UnwindInv, [Next]_vars
  PROVE  TypeOK'
  <1> USE ThreadAssumption, BoundAssumption
  <1>e. <<>> \in Seq(Piece) /\ <<>> \in Seq(Request)
    OBVIOUS
  <1>1. ASSUME NEW t \in Thread, Call(t) PROVE TypeOK'
    BY <1>1 DEF Call, Goto, TypeOK
  <1>2. ASSUME NEW t \in Thread, Lock(t) PROVE TypeOK'
    BY <1>2, <1>e DEF Lock, Goto, TypeOK
  <1>3. ASSUME NEW t \in Thread, Relock(t) PROVE TypeOK'
    BY <1>3 DEF Relock, Goto, TypeOK
  <1>4. ASSUME NEW t \in Thread, Purge(t) PROVE TypeOK'
    BY <1>4, <1>e DEF Purge, Goto, TypeOK
  <1>5. ASSUME NEW t \in Thread, Write(t) PROVE TypeOK'
    <2>1. Req(t) \in Request
      BY DEF Req, Request, TypeOK
    <2>2. drive' \in Seq(Request)
      BY <1>5, <2>1 DEF Write, TypeOK
    <2> QED BY <1>5, <2>2 DEF Write, Goto, TypeOK
  <1>6. ASSUME NEW t \in Thread, SerialFails(t) PROVE TypeOK'
    BY <1>6, ThrowTyped DEF SerialFails, Places, TypeOK
  <1>7. ASSUME NEW t \in Thread, Receive(t) PROVE TypeOK'
    <2>1. Got(t) \in Seq(Piece)
      BY DEF TypeOK, Got
    <2>2. port' = <<>> /\ UNCHANGED <<calls, ticket, drive, line, restarts>>
      BY <1>7 DEF Receive
    <2>3. CASE Throw(t)
      BY <2>2, <2>3, <1>e, ThrowTyped DEF Places, TypeOK
    <2>4. CASE StaysOn(t)
      BY <2>1, <2>2, <2>4, <1>e DEF StaysOn, TypeOK
    <2>5. CASE OnceMore(t)
      <3>1. depth[t] + 1 \in Nat
        BY DEF TypeOK
      <3>2. depth' \in [Thread -> Nat]
        BY <2>5, <3>1 DEF OnceMore, TypeOK
      <3> QED BY <2>2, <2>5, <3>2, <1>e DEF OnceMore, Unlock, Goto, TypeOK
    <2>6. CASE Returns(t)
      BY <2>1, <2>2, <2>6, <1>e DEF Returns, Goto, TypeOK
    <2> QED BY <1>7, <2>3, <2>4, <2>5, <2>6, ReceiveEnds
  <1>8. ASSUME NEW t \in Thread, Release(t) PROVE TypeOK'
    BY <1>8 DEF Release, Unlock, Goto, TypeOK
  <1>9. ASSUME NEW t \in Thread, Unwind(t) PROVE TypeOK'
    <2>1. depth[t] - 1 \in Nat
      BY <1>9 DEF Unwind, UnwindInv, TypeOK
    <2> QED BY <1>9, <2>1 DEF Unwind, Unlock, Goto, TypeOK
  <1>10. CASE Answer
    <2>1. PICK s \in Status : line' = line \o Pieces([to |-> Head(drive), status |-> s])
      BY <1>10 DEF Answer
    <2>2. line' \in Seq(Piece)
      BY <1>10, <2>1, AnswerTyped, PiecesOf DEF Answer, TypeOK
    <2>3. drive' \in Seq(Request)
      BY <1>10 DEF Answer, TypeOK
    <2> QED BY <1>10, <2>2, <2>3 DEF Answer, threadVars, TypeOK
  <1>11. CASE Lose
    <2>1. drive' \in Seq(Request)
      BY <1>11 DEF Lose, TypeOK
    <2> QED BY <1>11, <2>1 DEF Lose, threadVars, TypeOK
  <1>12. CASE Arrive
    <2>1. PICK n \in 1..Len(line) : /\ port' = port \o SubSeq(line, 1, n)
                                    /\ line' = SubSeq(line, n + 1, Len(line))
      BY <1>12 DEF Arrive
    <2>2. port' \in Seq(Piece) /\ line' \in Seq(Piece)
      BY <2>1 DEF TypeOK
    <2> QED BY <1>12, <2>2 DEF Arrive, threadVars, TypeOK
  <1>13. CASE Restart
    <2>1. \/ UNCHANGED <<drive, line>>
          \/ drive' = <<>> /\ line' = <<>>
      BY <1>13 DEF Restart
    <2>2. drive' \in Seq(Request) /\ line' \in Seq(Piece)
      BY <2>1, <1>e DEF TypeOK
    <2>3. rcvd' \in [Thread -> Seq(Piece)] /\ port' \in Seq(Piece)
      BY <1>13, <1>e DEF Restart
    <2>4. /\ pc' \in [Thread -> Places] /\ depth' \in [Thread -> Nat]
          /\ result' \in [Thread -> {"none", "failed", "returned"}]
      BY <1>13 DEF Restart, Places
    <2>5. mutex_sis' \in Thread \cup {Nobody} /\ restarts' \in Nat
      BY <1>13 DEF Restart, TypeOK
    <2>6. unowned' \in BOOLEAN
      BY <1>13, Zenon DEF Restart
    <2>7. calls' \in Nat /\ ticket' \in [Thread -> Nat]
      BY <1>13 DEF Restart, TypeOK
    <2> QED BY <2>2, <2>3, <2>4, <2>5, <2>6, <2>7 DEF Places, TypeOK
  <1>14. CASE UNCHANGED vars
    BY <1>14 DEF vars, threadVars, TypeOK
  <1> QED
    BY <1>1, <1>2, <1>3, <1>4, <1>5, <1>6, <1>7, <1>8, <1>9, <1>10, <1>11, <1>12,
       <1>13, <1>14 DEF Next, ThreadStep

-----------------------------------------------------------------------------
(* The mutex. *)

\* Nobody has a mutex it has just unlocked; an unlock that leaves no trace in
\* unowned was one of its own.
LEMMA Unlocks ==
  ASSUME NEW t \in Thread, Unlock(t)
  PROVE  /\ mutex_sis' \in {mutex_sis, Nobody} /\ mutex_sis' # t
         /\ ~unowned' => ~unowned /\ mutex_sis = t /\ mutex_sis' = Nobody
  <1>1. mutex_sis' \in {mutex_sis, Nobody} /\ mutex_sis' # t
    BY ThreadAssumption DEF Unlock
  <1>2. ~unowned' => ~unowned /\ mutex_sis = t
    BY Zenon DEF Unlock
  <1>3. mutex_sis = t => mutex_sis' = Nobody
    BY DEF Unlock
  <1> QED BY <1>1, <1>2, <1>3

\* Who is past lock() has the mutex, and every action keeps it so.
LEMMA LockStep ==
  ASSUME TypeOK, LockInv, [Next]_vars
  PROVE  LockInv'
  <1> USE ThreadAssumption
  <1>t. /\ pc \in [Thread -> Places] /\ depth \in [Thread -> Nat]
        /\ mutex_sis \in Thread \cup {Nobody}
        /\ result \in [Thread -> {"none", "failed", "returned"}]
    BY DEF TypeOK, Places
  <1> USE <1>t DEF LockInv, UnwindInv, AbandonedOnlyByFailure, Using
  <1>1. ASSUME NEW t \in Thread, Call(t) PROVE LockInv'
    BY <1>1 DEF Call, Goto
  <1>2. ASSUME NEW t \in Thread, Lock(t) PROVE LockInv'
    BY <1>2 DEF Lock, Goto
  <1>3. ASSUME NEW t \in Thread, Relock(t) PROVE LockInv'
    BY <1>3 DEF Relock, Goto
  <1>4. ASSUME NEW t \in Thread, Purge(t) PROVE LockInv'
    BY <1>4 DEF Purge, Goto
  <1>5. ASSUME NEW t \in Thread, Write(t) PROVE LockInv'
    BY <1>5 DEF Write, Goto
  <1>th. ASSUME NEW t \in Thread, Throw(t) PROVE LockInv'
    BY <1>th DEF Throw, Goto
  <1>6. ASSUME NEW t \in Thread, SerialFails(t) PROVE LockInv'
    BY <1>6, <1>th DEF SerialFails
  <1>7. ASSUME NEW t \in Thread, Receive(t) PROVE LockInv'
    <2>1. pc[t] = "wait"
      BY <1>7 DEF Receive
    <2>2. CASE StaysOn(t)
      BY <2>2 DEF StaysOn
    <2>3. CASE OnceMore(t)
      BY <2>1, <2>3, Unlocks DEF OnceMore, Goto
    <2>4. CASE Returns(t)
      BY <2>1, <2>4 DEF Returns, Goto
    <2> QED BY <1>7, <1>th, <2>2, <2>3, <2>4, ReceiveEnds
  <1>8. ASSUME NEW t \in Thread, Release(t) PROVE LockInv'
    <2>1. Unlock(t) /\ pc[t] = "unlock" /\ UNCHANGED <<depth, result>>
      BY <1>8 DEF Release
    <2>2. pc' = [pc EXCEPT ![t] = IF depth[t] = 0 THEN "idle" ELSE "unwind"]
      BY <1>8 DEF Release, Goto
    <2>3. UnwindInv'
      BY <2>1, <2>2, Unlocks
    <2>4. AbandonedOnlyByFailure'
      BY <2>1, <2>2, Unlocks
    <2>5. ~unowned' => \A u \in Thread : Using(u)' => mutex_sis' = u
      BY <2>1, <2>2, Unlocks
    <2> QED BY <2>3, <2>4, <2>5
  <1>9. ASSUME NEW t \in Thread, Unwind(t) PROVE LockInv'
    <2>1. Unlock(t) /\ pc[t] = "unwind" /\ UNCHANGED result
      BY <1>9 DEF Unwind
    <2>2. /\ pc' = [pc EXCEPT ![t] = IF depth[t] = 1 THEN "idle" ELSE "unwind"]
          /\ depth' = [depth EXCEPT ![t] = depth[t] - 1]
      BY <1>9 DEF Unwind, Goto
    <2>3. UnwindInv'
      BY <2>1, <2>2, Unlocks
    <2>4. AbandonedOnlyByFailure'
      BY <2>1, <2>2, Unlocks
    <2>5. ~unowned' => \A u \in Thread : Using(u)' => mutex_sis' = u
      BY <2>1, <2>2, Unlocks
    <2> QED BY <2>3, <2>4, <2>5
  <1>10. CASE Answer \/ Lose \/ Arrive \/ UNCHANGED vars
    BY <1>10 DEF Answer, Lose, Arrive, vars, threadVars
  <1>11. CASE Restart
    BY <1>11 DEF Restart
  <1> QED
    BY <1>1, <1>2, <1>3, <1>4, <1>5, <1>6, <1>7, <1>8, <1>9, <1>10, <1>11
       DEF Next, ThreadStep

-----------------------------------------------------------------------------
(* The line. *)

\* What a step leaves alone about a thread stays true of it; the port matters
\* only to the thread that is past lock().
LEMMA OthersKeep ==
  ASSUME NEW u \in Thread, LineOf(u),
         pc'[u] = pc[u], ticket'[u] = ticket[u],
         rcvd'[u] = rcvd[u], result'[u] = result[u],
         Using(u) => UNCHANGED <<drive, line, port>>
  PROVE  LineOf(u)'
  <1>1. Req(u)' = Req(u)
    BY DEF Req
  <1>2. CASE Using(u)
    <2>1. InFlight(u)' <=> InFlight(u)
      BY <1>1, <1>2 DEF InFlight, AllFor
    <2>2. Quiet' <=> Quiet
      BY <1>2 DEF Quiet
    <2> QED BY <1>1, <2>1, <2>2 DEF LineOf
  <1>3. CASE ~Using(u)
    BY <1>1, <1>3 DEF LineOf, Using
  <1> QED BY <1>2, <1>3

\* How much may be under way: a request, or at most three pieces.
LEMMA Amounts ==
  ASSUME TypeOK, NEW t \in Thread, InFlight(t)
  PROVE  /\ Len(drive) \in {0, 1} /\ Len(line) \in 0..3
         /\ Len(port) \in 0..3 /\ Len(rcvd[t]) \in 0..3
         /\ 3 * Len(drive) + Len(line) + 0 + (Len(rcvd[t]) + Len(port)) <= 3
         /\ Len(drive) = 1 => Len(line) = 0 /\ Len(port) = 0 /\ Len(rcvd[t]) = 0
         /\ Len(rcvd[t]) + Len(port) > 2 => Len(drive) = 0 /\ Len(line) = 0
  <1> DEFINE d == Len(drive)
             l == Len(line)
             p == Len(port)
             r == Len(rcvd[t])
  <1>1. d \in Nat /\ l \in Nat /\ p \in Nat /\ r \in Nat
    BY DEF TypeOK
  <1>2. 3 * d + l + p + r <= 3
    BY DEF InFlight
  <1> HIDE DEF d, l, p, r
  <1>3. /\ d \in {0, 1} /\ l \in 0..3 /\ p \in 0..3 /\ r \in 0..3
        /\ 3 * d + l + 0 + (r + p) <= 3
        /\ d = 1 => l = 0 /\ p = 0 /\ r = 0
        /\ r + p > 2 => d = 0 /\ l = 0
    BY <1>1, <1>2
  <1> QED BY <1>3 DEF d, l, p, r

\* What a thread has got while it waits is all for its request; a third piece
\* is the last one.
LEMMA GotAll ==
  ASSUME TypeOK, NEW t \in Thread, InFlight(t)
  PROVE  /\ Got(t) \in Seq(Piece) /\ Len(Got(t)) = Len(rcvd[t]) + Len(port)
         /\ AllFor(Got(t), t)
         /\ Len(Got(t)) > 2 => drive = <<>> /\ line = <<>>
  <1>1. /\ rcvd[t] \in Seq(Piece) /\ port \in Seq(Piece)
        /\ line \in Seq(Piece) /\ drive \in Seq(Request)
    BY DEF TypeOK
  <1>2. /\ Got(t) \in Seq(Piece) /\ Len(Got(t)) = Len(rcvd[t]) + Len(port)
        /\ \A i \in 1..Len(Got(t)) :
             Got(t)[i] = IF i <= Len(rcvd[t]) THEN rcvd[t][i] ELSE port[i - Len(rcvd[t])]
    BY <1>1 DEF Got
  <1>3. AllFor(Got(t), t)
    <2> SUFFICES ASSUME NEW i \in 1..Len(Got(t))
                 PROVE  Got(t)[i].of.to = Req(t)
      BY DEF AllFor
    <2>1. CASE i <= Len(rcvd[t])
      BY <1>1, <1>2, <2>1 DEF InFlight, AllFor
    <2>2. CASE i > Len(rcvd[t])
      <3>1. i - Len(rcvd[t]) \in 1..Len(port)
        BY <1>1, <1>2, <2>2
      <3>2. port[i - Len(rcvd[t])].of.to = Req(t)
        BY <3>1 DEF InFlight, AllFor
      <3>3. Got(t)[i] = port[i - Len(rcvd[t])]
        BY <1>1, <1>2, <2>2
      <3> QED BY <3>2, <3>3
    <2> QED BY <1>1, <1>2, <2>1, <2>2
  <1>4. ASSUME Len(Got(t)) > 2 PROVE drive = <<>> /\ line = <<>>
    <2>1. Len(drive) = 0 /\ Len(line) = 0
      BY <1>2, <1>4, Amounts
    <2> QED BY <1>1, <2>1
  <1> QED BY <1>2, <1>3, <1>4

\* The drive answers the one request there is with the pieces of one reaction.
LEMMA AnswerInFlight ==
  ASSUME TypeOK, NEW u \in Thread, InFlight(u), Answer
  PROVE  InFlight(u)'
  <1>1. /\ drive \in Seq(Request) /\ drive # <<>>
        /\ drive' = Tail(drive) /\ UNCHANGED <<threadVars, port>>
    BY DEF TypeOK, Answer
  <1>2. PICK s \in Status : line' = line \o Pieces([to |-> Head(drive), status |-> s])
    BY DEF Answer
  <1> DEFINE r == [to |-> Head(drive), status |-> s]
             p == Pieces(r)
  <1>3. r \in Reaction
    BY <1>1, AnswerTyped
  <1>4. p \in Seq(Piece) /\ Len(p) <= 3 /\ \A i \in 1..Len(p) : p[i].of = r
    BY <1>3, PiecesOf
  <1>5. /\ rcvd[u] \in Seq(Piece) /\ port \in Seq(Piece) /\ line \in Seq(Piece)
    BY DEF TypeOK
  <1>6. Len(drive) = 1 /\ Len(line) = 0 /\ Len(port) = 0 /\ Len(rcvd[u]) = 0
    <2>1. Len(drive) # 0
      BY <1>1
    <2> QED BY <2>1, Amounts
  <1>7. Len(drive') = 0
    BY <1>1, <1>6
  <1>8. drive[1] = Req(u) /\ Head(drive) = Req(u)
    BY <1>1, <1>6 DEF InFlight
  <1> HIDE DEF p
  <1>9. line' = p
    BY <1>2, <1>4, <1>5, <1>6 DEF p
  <1>10. Req(u)' = Req(u) /\ rcvd' = rcvd /\ port' = port
    BY <1>1 DEF Req, threadVars
  <1>11. AllFor(line, u)'
    BY <1>4, <1>8, <1>9, <1>10 DEF AllFor
  <1>12. AllFor(port, u)' /\ AllFor(rcvd[u], u)'
    BY <1>6, <1>10 DEF AllFor
  <1>13. 3 * Len(drive') + Len(line') + Len(port') + Len(rcvd'[u]) <= 3
    BY <1>4, <1>6, <1>7, <1>9, <1>10
  <1>14. \A i \in 1..Len(drive') : drive'[i] = Req(u)'
    BY <1>7
  <1> QED BY <1>11, <1>12, <1>13, <1>14 DEF InFlight

\* With its request the drive has lost all there was of the exchange.
LEMMA LoseInFlight ==
  ASSUME TypeOK, NEW u \in Thread, InFlight(u), Lose
  PROVE  InFlight(u)'
  <1>1. drive \in Seq(Request) /\ drive # <<>> /\ drive' = Tail(drive)
    BY DEF TypeOK, Lose
  <1>2. Req(u)' = Req(u) /\ rcvd' = rcvd /\ port' = port /\ line' = line
    BY DEF Lose, threadVars, Req
  <1>3. Len(drive) # 0
    BY <1>1
  <1>4. Len(drive) = 1 /\ Len(line) = 0 /\ Len(port) = 0 /\ Len(rcvd[u]) = 0
    BY <1>3, Amounts
  <1>5. Len(drive') = 0
    BY <1>1, <1>4
  <1> QED BY <1>2, <1>4, <1>5 DEF InFlight, AllFor

\* Bytes that arrive stay those of the reaction.
LEMMA ArriveInFlight ==
  ASSUME TypeOK, NEW u \in Thread, InFlight(u), Arrive
  PROVE  InFlight(u)'
  <1>1. PICK n \in 1..Len(line) : /\ port' = port \o SubSeq(line, 1, n)
                                  /\ line' = SubSeq(line, n + 1, Len(line))
    BY DEF Arrive
  <1>2. /\ rcvd[u] \in Seq(Piece) /\ port \in Seq(Piece) /\ line \in Seq(Piece)
        /\ drive \in Seq(Request)
    BY DEF TypeOK
  <1>3. /\ Len(line') = Len(line) - n
        /\ \A i \in 1..Len(line') : line'[i] = line[n + i]
    BY <1>1, <1>2
  <1>4. /\ Len(port') = Len(port) + n
        /\ \A i \in 1..Len(port') :
             port'[i] = IF i <= Len(port) THEN port[i] ELSE line[i - Len(port)]
    BY <1>1, <1>2
  <1>5. Req(u)' = Req(u) /\ rcvd' = rcvd /\ drive' = drive
    BY DEF Arrive, threadVars, Req
  <1>6. AllFor(line, u)'
    <2> SUFFICES ASSUME NEW i \in 1..Len(line') PROVE line'[i].of.to = Req(u)
      BY <1>5 DEF AllFor
    <2>1. n + i \in 1..Len(line)
      BY <1>2, <1>3
    <2> QED BY <1>3, <2>1 DEF InFlight, AllFor
  <1>7. AllFor(port, u)'
    <2> SUFFICES ASSUME NEW i \in 1..Len(port') PROVE port'[i].of.to = Req(u)
      BY <1>5 DEF AllFor
    <2>1. CASE i <= Len(port)
      BY <1>2, <1>4, <2>1 DEF InFlight, AllFor
    <2>2. CASE i > Len(port)
      <3>1. i - Len(port) \in 1..Len(line)
        BY <1>2, <1>4, <2>2
      <3> QED BY <1>2, <1>4, <2>2, <3>1 DEF InFlight, AllFor
    <2> QED BY <1>2, <1>4, <2>1, <2>2
  <1>8. AllFor(rcvd[u], u)'
    BY <1>5 DEF InFlight, AllFor
  <1>9. 3 * Len(drive') + Len(line') + Len(port') + Len(rcvd'[u]) <= 3
    <2>1. n \in Nat /\ n <= Len(line)
      BY <1>2
    <2>2. \A d \in {0, 1}, l, p, r \in 0..3, k \in Nat :
            3 * d + l + p + r <= 3 => 3 * d + (l - k) + (p + k) + r <= 3
      OBVIOUS
    <2>3. 3 * Len(drive) + Len(line) + Len(port) + Len(rcvd[u]) <= 3
      BY DEF InFlight
    <2>4. 3 * Len(drive) + (Len(line) - n) + (Len(port) + n) + Len(rcvd[u]) <= 3
      BY <2>1, <2>2, <2>3, Amounts
    <2> QED BY <1>3, <1>4, <1>5, <2>4
  <1> QED BY <1>5, <1>6, <1>7, <1>8, <1>9 DEF InFlight

-----------------------------------------------------------------------------
(* What the thread past lock() does, when all unlocks have been its own.   *)

\* The other threads are not past lock(): a step of its own does not touch them.
LEMMA OwnStep ==
  ASSUME TypeOK, LockInv, LineInv, ~unowned, NEW t \in Thread, Using(t),
         LineOf(t)', mutex_sis' = Nobody => Quiet',
         ticket' = ticket,
         \A u \in Thread \ {t} : pc'[u] = pc[u] /\ rcvd'[u] = rcvd[u] /\ result'[u] = result[u]
  PROVE  LineInv'
  <1>1. ASSUME NEW u \in Thread \ {t} PROVE LineOf(u)'
    <2>1. ~Using(u)
      BY DEF LockInv
    <2>2. LineOf(u)
      BY DEF LineInv
    <2> QED BY <2>1, <2>2, OthersKeep
  <1>2. \A u \in Thread : LineOf(u)'
    BY <1>1
  <1>3. FreeMeansQuiet'
    BY DEF FreeMeansQuiet
  <1> QED BY <1>2, <1>3 DEF LineInv

\* A reaction that is taken keeps what is under way in order; if it ends the
\* exchange, nothing is left.
LEMMA ReceiveLine ==
  ASSUME TypeOK, LockInv, LineInv, ~unowned, ~unowned', NEW t \in Thread, Receive(t)
  PROVE  LineInv'
  <1> USE ThreadAssumption
  <1>1. /\ pc[t] = "wait" /\ port' = <<>>
        /\ UNCHANGED <<calls, ticket, drive, line, restarts>>
    BY DEF Receive
  <1>2. Using(t) /\ mutex_sis = t
    BY <1>1 DEF LockInv, Using
  <1>3. InFlight(t) /\ result[t] # "returned" /\ Req(t)' = Req(t)
    BY <1>1 DEF LineInv, LineOf, Req
  <1>4. /\ Got(t) \in Seq(Piece) /\ Len(Got(t)) = Len(rcvd[t]) + Len(port)
        /\ AllFor(Got(t), t)
        /\ Len(Got(t)) > 2 => drive = <<>> /\ line = <<>>
    BY <1>3, GotAll
  <1>t. /\ pc \in [Thread -> Places] /\ rcvd \in [Thread -> Seq(Piece)]
        /\ result \in [Thread -> {"none", "failed", "returned"}]
    BY DEF TypeOK, Places
  <1>5. CASE Throw(t)
    <2>1. LineOf(t)'
      BY <1>t, <1>5 DEF Throw, Goto, LineOf
    <2>2. mutex_sis' # Nobody
      BY <1>2, <1>5 DEF Throw
    <2>3. \A u \in Thread \ {t} :
            pc'[u] = pc[u] /\ rcvd'[u] = rcvd[u] /\ result'[u] = result[u]
      BY <1>t, <1>5 DEF Throw, Goto
    <2> QED BY <1>1, <1>2, <2>1, <2>2, <2>3, OwnStep
  <1>6. CASE StaysOn(t)
    <2>1. rcvd'[t] = Got(t) /\ pc'[t] = "wait" /\ result'[t] = result[t]
      BY <1>1, <1>t, <1>6 DEF StaysOn
    <2>2. InFlight(t)'
      <3>1. 3 * Len(drive) + Len(line) + 0 + (Len(rcvd[t]) + Len(port)) <= 3
        BY <1>3, Amounts
      <3>2. Len(port') = 0
        BY <1>1
      <3>3. 3 * Len(drive') + Len(line') + Len(port') + Len(rcvd'[t]) <= 3
        BY <1>1, <1>4, <2>1, <3>1, <3>2
      <3>4. AllFor(line, t)' /\ AllFor(port, t)' /\ AllFor(rcvd[t], t)'
        BY <1>1, <1>3, <1>4, <2>1 DEF InFlight, AllFor
      <3>5. \A i \in 1..Len(drive') : drive'[i] = Req(t)'
        BY <1>1, <1>3 DEF InFlight
      <3> QED BY <3>3, <3>4, <3>5 DEF InFlight
    <2>3. LineOf(t)'
      BY <1>3, <2>1, <2>2 DEF LineOf
    <2>4. \A u \in Thread \ {t} :
            pc'[u] = pc[u] /\ rcvd'[u] = rcvd[u] /\ result'[u] = result[u]
      BY <1>t, <1>6 DEF StaysOn
    <2>5. mutex_sis' # Nobody
      BY <1>2, <1>6 DEF StaysOn
    <2> QED BY <1>1, <1>2, <2>3, <2>4, <2>5, OwnStep
  <1>7. CASE OnceMore(t)
    <2>1. pc'[t] = "lock" /\ result'[t] = result[t] /\ rcvd' = rcvd
      BY <1>t, <1>7 DEF OnceMore, Goto
    <2>2. Quiet'
      BY <1>1, <1>4, <1>7 DEF OnceMore, Quiet
    <2>3. LineOf(t)'
      BY <1>3, <2>1 DEF LineOf
    <2>4. \A u \in Thread \ {t} :
            pc'[u] = pc[u] /\ rcvd'[u] = rcvd[u] /\ result'[u] = result[u]
      BY <1>t, <1>7 DEF OnceMore, Goto
    <2> QED BY <1>1, <1>2, <2>2, <2>3, <2>4, OwnStep
  <1>8. CASE Returns(t)
    <2>1. pc'[t] = "unlock" /\ rcvd'[t] = Got(t)
      BY <1>t, <1>8 DEF Returns, Goto
    <2>2. Quiet'
      BY <1>1, <1>4, <1>8 DEF Returns, Quiet
    <2>3. Got(t)[3].of.to = Req(t)
      BY <1>4, <1>8 DEF Returns, AllFor
    <2>4. LineOf(t)'
      BY <1>3, <2>1, <2>2, <2>3 DEF LineOf
    <2>5. \A u \in Thread \ {t} :
            pc'[u] = pc[u] /\ rcvd'[u] = rcvd[u] /\ result'[u] = result[u]
      BY <1>t, <1>8 DEF Returns, Goto
    <2> QED BY <1>1, <1>2, <2>2, <2>4, <2>5, OwnStep
  <1> QED BY <1>5, <1>6, <1>7, <1>8, ReceiveEnds

-----------------------------------------------------------------------------
(* The invariant. *)

LEMMA InitInv == Init => Inv
  <1> SUFFICES ASSUME Init PROVE Inv
    OBVIOUS
  <1> USE ThreadAssumption
  <1>1. TypeOK
    <2>1. <<>> \in Seq(Piece) /\ <<>> \in Seq(Request)
      OBVIOUS
    <2>2. /\ pc \in [Thread -> Places] /\ mutex_sis \in Thread \cup {Nobody}
          /\ depth \in [Thread -> Nat] /\ calls \in Nat /\ ticket \in [Thread -> Nat]
          /\ result \in [Thread -> {"none", "failed", "returned"}] /\ restarts \in Nat
      BY DEF Init, Places
    <2>3. unowned \in BOOLEAN
      BY Zenon DEF Init
    <2>4. /\ rcvd \in [Thread -> Seq(Piece)] /\ drive \in Seq(Request)
          /\ line \in Seq(Piece) /\ port \in Seq(Piece)
      BY <2>1 DEF Init, Quiet
    <2> QED BY <2>2, <2>3, <2>4 DEF TypeOK, Places
  <1>2. LockInv
    BY DEF Init, LockInv, UnwindInv, AbandonedOnlyByFailure, Using
  <1>3. LineInv
    BY DEF Init, LineInv, LineOf, FreeMeansQuiet
  <1> QED BY <1>1, <1>2, <1>3 DEF Inv

\* The line between two calls is quiet, and every action keeps it so, unless a
\* reaction can outlive the program's end.
LEMMA LineStep ==
  ASSUME "late" \notin Faults, TypeOK, LockInv, LineInv, [Next]_vars
  PROVE  LineInv'
  <1> USE ThreadAssumption
  <1>t. /\ pc \in [Thread -> Places] /\ rcvd \in [Thread -> Seq(Piece)]
        /\ ticket \in [Thread -> Nat]
        /\ result \in [Thread -> {"none", "failed", "returned"}]
    BY DEF TypeOK, Places
  <1>1. CASE Restart
    <2>1. Quiet'
      BY <1>1 DEF Restart, Quiet
    <2>2. \A u \in Thread : pc'[u] = "idle" /\ result'[u] = "none"
      BY <1>1 DEF Restart
    <2> QED BY <2>1, <2>2 DEF LineInv, LineOf, FreeMeansQuiet
  <1>2. CASE unowned'
    BY <1>2 DEF LineInv, FreeMeansQuiet
  <1> SUFFICES ASSUME ~unowned', ~Restart PROVE LineInv'
    BY <1>1, <1>2
  <1>3. ASSUME NEW t \in Thread, Call(t) PROVE LineInv'
    <2>1. ~unowned /\ mutex_sis' = mutex_sis /\ UNCHANGED <<drive, line, port>>
      BY <1>3 DEF Call
    <2>2. LineOf(t)'
      BY <1>t, <1>3 DEF Call, Goto, LineOf
    <2>3. ASSUME NEW u \in Thread \ {t} PROVE LineOf(u)'
      BY <1>t, <1>3, <2>1, OthersKeep DEF Call, Goto, LineInv
    <2>4. \A u \in Thread : LineOf(u)'
      BY <2>2, <2>3
    <2> QED BY <2>1, <2>4 DEF LineInv, FreeMeansQuiet, Quiet
  <1>4. ASSUME NEW t \in Thread, Lock(t) PROVE LineInv'
    <2>1. /\ ~unowned /\ mutex_sis = Nobody /\ mutex_sis' = t
          /\ UNCHANGED <<drive, line, port>>
      BY <1>4 DEF Lock
    <2>2. Quiet'
      BY <2>1 DEF LineInv, FreeMeansQuiet, Quiet
    <2>3. LineOf(t)'
      BY <1>t, <1>4, <2>1, <2>2 DEF Lock, Goto, LineInv, LineOf
    <2>4. ASSUME NEW u \in Thread \ {t} PROVE LineOf(u)'
      BY <1>t, <1>4, <2>1, OthersKeep DEF Lock, Goto, LineInv
    <2>5. \A u \in Thread : LineOf(u)'
      BY <2>3, <2>4
    <2> QED BY <2>1, <2>5 DEF LineInv, FreeMeansQuiet
  <1>5. ASSUME NEW t \in Thread, Relock(t) PROVE LineInv'
    <2>1. /\ ~unowned /\ mutex_sis' = mutex_sis
          /\ UNCHANGED <<drive, line, port>>
      BY <1>5 DEF Relock
    <2>2. LineOf(t)'
      BY <1>t, <1>5, <2>1 DEF Relock, Goto, LineInv, LineOf, Req
    <2>3. ASSUME NEW u \in Thread \ {t} PROVE LineOf(u)'
      BY <1>t, <1>5, <2>1, OthersKeep DEF Relock, Goto, LineInv
    <2>4. \A u \in Thread : LineOf(u)'
      BY <2>2, <2>3
    <2> QED BY <2>1, <2>4 DEF LineInv, FreeMeansQuiet, Quiet
  <1>6. ASSUME NEW t \in Thread, Purge(t) PROVE LineInv'
    <2>1. ~unowned /\ Using(t) /\ mutex_sis' = t
      BY <1>6 DEF Purge, Using, LockInv
    <2>2. Quiet /\ Quiet' /\ ticket' = ticket
      BY <1>6, <2>1 DEF Purge, LineInv, LineOf, Quiet
    <2>3. LineOf(t)'
      BY <1>t, <1>6, <2>1, <2>2 DEF Purge, Goto, LineInv, LineOf
    <2>4. \A u \in Thread \ {t} :
            pc'[u] = pc[u] /\ rcvd'[u] = rcvd[u] /\ result'[u] = result[u]
      BY <1>t, <1>6 DEF Purge, Goto
    <2> QED BY <2>1, <2>2, <2>3, <2>4, OwnStep
  <1>7. ASSUME NEW t \in Thread, Write(t) PROVE LineInv'
    <2>1. ~unowned /\ Using(t) /\ mutex_sis' = t
      BY <1>7 DEF Write, Using, LockInv
    <2>2. Quiet /\ rcvd[t] = <<>> /\ result[t] # "returned"
      BY <1>7, <2>1 DEF Write, LineInv, LineOf
    <2>3. /\ pc'[t] = "wait" /\ drive' = <<Req(t)>> /\ line' = <<>> /\ port' = <<>>
          /\ rcvd' = rcvd /\ result' = result /\ ticket' = ticket
      BY <1>t, <1>7, <2>2 DEF Write, Goto, Quiet
    <2>4. InFlight(t)'
      BY <2>2, <2>3 DEF InFlight, AllFor, Req
    <2>5. LineOf(t)'
      BY <2>2, <2>3, <2>4 DEF LineOf
    <2>6. \A u \in Thread \ {t} :
            pc'[u] = pc[u] /\ rcvd'[u] = rcvd[u] /\ result'[u] = result[u]
      BY <1>t, <1>7 DEF Write, Goto
    <2> QED BY <2>1, <2>3, <2>5, <2>6, OwnStep
  <1>8. ASSUME NEW t \in Thread, SerialFails(t) PROVE LineInv'
    <2>1. /\ ~unowned /\ Using(t) /\ mutex_sis' = t /\ ticket' = ticket
      BY <1>8 DEF SerialFails, Throw, Using, Exchanging, LockInv
    <2>2. LineOf(t)'
      BY <1>t, <1>8 DEF SerialFails, Throw, Goto, LineOf
    <2>3. \A u \in Thread \ {t} :
            pc'[u] = pc[u] /\ rcvd'[u] = rcvd[u] /\ result'[u] = result[u]
      BY <1>t, <1>8 DEF SerialFails, Throw, Goto
    <2> QED BY <2>1, <2>2, <2>3, OwnStep
  <1>9. ASSUME NEW t \in Thread, Receive(t) PROVE LineInv'
    <2>1. ~unowned
      BY <1>9, Unlocks, ReceiveEnds DEF Throw, StaysOn, OnceMore, Returns
    <2> QED BY <1>9, <2>1, ReceiveLine
  <1>10. ASSUME NEW t \in Thread, Release(t) PROVE LineInv'
    <2>1. ~unowned /\ Using(t) /\ ticket' = ticket
      BY <1>10, Unlocks DEF Release, Using
    <2>2. Quiet /\ Quiet'
      BY <1>10, <2>1 DEF Release, LineInv, LineOf, Quiet
    <2>3. LineOf(t)'
      BY <1>t, <1>10, <2>1, <2>2 DEF Release, Goto, LineInv, LineOf, Req
    <2>4. \A u \in Thread \ {t} :
            pc'[u] = pc[u] /\ rcvd'[u] = rcvd[u] /\ result'[u] = result[u]
      BY <1>t, <1>10 DEF Release, Goto
    <2> QED BY <2>1, <2>2, <2>3, <2>4, OwnStep
  <1>11. ASSUME NEW t \in Thread, Unwind(t) PROVE FALSE
    BY <1>11, Unlocks DEF Unwind, LockInv, UnwindInv
  <1>12. ASSUME Answer \/ Lose \/ Arrive PROVE LineInv'
    <2>1. ~unowned /\ UNCHANGED threadVars /\ ~Quiet
      <3>1. line # <<>> \/ drive # <<>>
        BY <1>12 DEF Answer, Lose, Arrive
      <3> QED BY <1>12, <3>1 DEF Answer, Lose, Arrive, threadVars, Quiet
    <2>2. mutex_sis' # Nobody
      BY <2>1 DEF LineInv, FreeMeansQuiet, threadVars
    <2>3. ASSUME NEW u \in Thread PROVE LineOf(u)'
      <3>1. LineOf(u) /\ pc'[u] \notin {"purge", "write", "unlock"}
        BY <2>1 DEF LineInv, LineOf, threadVars
      <3>2. pc[u] = "wait" => InFlight(u)'
        BY <1>12, <3>1, AnswerInFlight, LoseInFlight, ArriveInFlight DEF LineOf
      <3> QED BY <2>1, <3>1, <3>2 DEF LineOf, threadVars, Req
    <2> QED BY <2>2, <2>3 DEF LineInv, FreeMeansQuiet
  <1>13. CASE UNCHANGED vars
    <2>1. \A u \in Thread : LineOf(u)' <=> LineOf(u)
      BY <1>13 DEF vars, threadVars, LineOf, InFlight, AllFor, Req, Quiet
    <2> QED BY <1>13, <2>1 DEF vars, threadVars, LineInv, FreeMeansQuiet, Quiet
  <1> QED
    BY <1>3, <1>4, <1>5, <1>6, <1>7, <1>8, <1>9, <1>10, <1>11, <1>12, <1>13
       DEF Next, ThreadStep

-----------------------------------------------------------------------------
(* Theorems. *)

LEMMA NextInv ==
  ASSUME "late" \notin Faults
  PROVE  Inv /\ [Next]_vars => Inv'
  <1> SUFFICES ASSUME Inv, [Next]_vars PROVE Inv'
    OBVIOUS
  <1>1. TypeOK'
    BY TypeStep DEF Inv, LockInv
  <1>2. LockInv'
    BY LockStep DEF Inv
  <1>3. LineInv'
    BY LineStep DEF Inv
  <1> QED BY <1>1, <1>2, <1>3 DEF Inv

\* Types and the ownership of mutex_sis do not depend on what the line does.
LEMMA Owning == Spec => [](TypeOK /\ LockInv)
  <1>1. Init => TypeOK /\ LockInv
    BY InitInv DEF Inv
  <1>2. TypeOK /\ LockInv /\ [Next]_vars => (TypeOK /\ LockInv)'
    BY TypeStep, LockStep DEF LockInv
  <1> QED BY <1>1, <1>2, PTL DEF Spec

LEMMA Invariance ==
  ASSUME "late" \notin Faults
  PROVE  Spec => []Inv
  <1>1. Inv /\ [Next]_vars => Inv'
    BY NextInv
  <1> QED BY <1>1, InitInv, PTL DEF Spec

\* Types of transceiving's state (SISProtocol.cpp 555-653): the unlocks of the
\* calls around a retry are as many as the retries, whatever fails.
THEOREM TypeCorrect == Spec => []TypeOK
  <1> QED BY Owning, PTL

\* "Lock mutex to set the semaphore" (560): until a retry has unlocked a mutex
\* that was not its own, no two threads use the port at once.  No fault of the
\* line, no exception and no restart changes that.
THEOREM Serialized == Spec => []ExchangesSerialized
  <1>1. LockInv => ExchangesSerialized
    BY DEF LockInv, ExchangesSerialized, Exchanging, Using
  <1> QED BY <1>1, Owning, PTL

\* The mutex stays behind only with a thread that left by an exception (592-642).
THEOREM Abandonment == Spec => []AbandonedOnlyByFailure
  <1>1. LockInv => AbandonedOnlyByFailure
    BY DEF LockInv
  <1> QED BY <1>1, Owning, PTL

\* Purge (572) finds a line on which nothing is still to come.  Only a reaction
\* that outlives the program's end, "late", is excluded: the new program's
\* mutex knows nothing of it.
THEOREM StartsQuiet ==
  ASSUME "late" \notin Faults
  PROVE  Spec => []FreeMeansQuiet
  <1>1. Inv => FreeMeansQuiet
    BY DEF Inv, LineInv
  <1> QED BY <1>1, Invariance, PTL

\* What an exchange returns answers its own request although nothing in it is
\* compared (627-646): the mutex alone sees to that.
THEOREM OwnAnswer ==
  ASSUME "late" \notin Faults
  PROVE  Spec => []AnswerIsForRequest
  <1>1. Inv => AnswerIsForRequest
    BY DEF Inv, LineInv, LineOf, AnswerIsForRequest
  <1> QED BY <1>1, Invariance, PTL

-----------------------------------------------------------------------------
(* The refinement. *)

\* A thread that goes somewhere else.
LEMMA AtMoves ==
  ASSUME NEW t \in Thread, NEW where \in Places, pc \in [Thread -> Places],
         pc' = [pc EXCEPT ![t] = where]
  PROVE  At' = [At EXCEPT ![t] = IF where \in {"purge", "write", "wait"}
                                   THEN "inside" ELSE where]
  BY DEF At, Exchanging

\* Only the answer of a thread that does something can change.
LEMMA AnswerMoves ==
  ASSUME NEW t \in Thread, NEW r,
         \A u \in Thread \ {t} : rcvd'[u] = rcvd[u] /\ result'[u] = result[u],
         r = IF result'[t] = "returned" THEN rcvd'[t][3].of.to ELSE <<t, 0>>
  PROVE  AnswerOf' = [AnswerOf EXCEPT ![t] = r]
  BY DEF AnswerOf

\* A thread without an answer stays without one.
LEMMA AnswerStays ==
  ASSUME NEW t \in Thread,
         \A u \in Thread \ {t} : rcvd'[u] = rcvd[u] /\ result'[u] = result[u],
         result[t] # "returned", result'[t] # "returned"
  PROVE  AnswerOf' = AnswerOf
  BY DEF AnswerOf

\* A thread that unlocks its own mutex.
LEMMA OwnUnlock ==
  ASSUME NEW t \in Thread, Unlock(t), mutex_sis = t, ~unowned, TypeOK, TypeOK'
  PROVE  mutex_sis' = Nobody /\ unowned' = unowned
  <1>1. mutex_sis' = Nobody
    BY DEF Unlock
  <1>2. unowned \in BOOLEAN /\ unowned' \in BOOLEAN
    BY Zenon DEF TypeOK
  <1>3. ~unowned'
    BY Zenon DEF Unlock
  <1>4. unowned' = unowned
    BY <1>2, <1>3, Zenon
  <1> QED BY <1>1, <1>4

\* Every step is one of the service, or changes nothing the callers can see.
LEMMA RefineStep ==
  ASSUME Inv, Inv', [Next]_vars
  PROVE  [Service!Next]_(Service!vars)
  <1> USE ThreadAssumption DEF Service!Move
  <1>t. /\ pc \in [Thread -> Places] /\ rcvd \in [Thread -> Seq(Piece)]
        /\ ticket \in [Thread -> Nat] /\ depth \in [Thread -> Nat]
        /\ result \in [Thread -> {"none", "failed", "returned"}]
    BY DEF Inv, TypeOK, Places
  <1>1. CASE Restart
    <2>1. At' = [t \in Thread |-> "idle"]
      BY <1>1 DEF Restart, At, Exchanging
    <2>2. AnswerOf' = [t \in Thread |-> <<t, 0>>]
      BY <1>1 DEF Restart, AnswerOf
    <2> QED BY <1>1, <2>1, <2>2 DEF Restart, Service!Next, Service!Restart
  <1>2. CASE unowned' /\ unowned
    BY <1>2 DEF Service!Next, Service!Void
  <1>3. CASE UNCHANGED threadVars
    <2>1. At' = At /\ AnswerOf' = AnswerOf
      BY <1>3 DEF threadVars, At, Exchanging, AnswerOf
    <2> QED BY <1>3, <2>1 DEF threadVars, Service!vars
  <1> SUFFICES ASSUME ~unowned, NEW t \in Thread, Call(t) \/ ThreadStep(t)
               PROVE  [Service!Next]_(Service!vars)
    <2>1. ~Restart => (unowned => unowned')
      BY DEF Next, ThreadStep, Call, Lock, Relock, Purge, Write, SerialFails, Receive,
             Throw, TooShort, Incomplete, Complete, Release, Unwind, Unlock,
             Answer, Lose, Arrive, threadVars, vars
    <2>2. UNCHANGED vars \/ Answer \/ Lose \/ Arrive => UNCHANGED threadVars
      BY DEF vars, Answer, Lose, Arrive
    <2> QED BY <1>1, <1>2, <1>3, <2>1, <2>2 DEF Next
  <1>l. (LineOf(t) /\ LineOf(t)') \/ unowned'
    BY DEF Inv, LineInv
  <1>4. CASE Call(t)
    <2>1. At[t] = "idle" /\ At' = [At EXCEPT ![t] = "lock"]
      BY <1>4, <1>t, AtMoves DEF Call, Goto, Places, At, Exchanging
    <2>2. AnswerOf' = [AnswerOf EXCEPT ![t] = <<t, 0>>]
      BY <1>4, <1>t, AnswerMoves DEF Call
    <2>3. Service!Call(t)
      BY <1>4, <2>1, <2>2 DEF Call, Service!Call
    <2> QED BY <2>3 DEF Service!Next
  <1>5. CASE Lock(t)
    <2>1. At[t] = "lock" /\ At' = [At EXCEPT ![t] = "inside"]
      BY <1>5, <1>t, AtMoves DEF Lock, Goto, Places, At, Exchanging
    <2>2. AnswerOf' = AnswerOf
      BY <1>5, <1>t, <1>l, AnswerStays DEF Lock, LineOf
    <2>3. Service!Enter(t)
      BY <1>5, <2>1, <2>2 DEF Lock, Service!Enter
    <2> QED BY <2>3 DEF Service!Next
  <1>6. CASE Relock(t)
    <2>1. At[t] = "lock" /\ At' = [At EXCEPT ![t] = "escaped"]
      BY <1>6, <1>t, AtMoves DEF Relock, Goto, Places, At, Exchanging
    <2>2. AnswerOf' = AnswerOf
      BY <1>6 DEF Relock, AnswerOf
    <2>3. Service!Hang(t)
      BY <1>6, <2>1, <2>2 DEF Relock, Service!Hang
    <2> QED BY <2>3 DEF Service!Next
  <1>7. CASE Purge(t) \/ Write(t)
    <2>1. At' = At
      BY <1>7, <1>t DEF Purge, Write, Goto, At, Exchanging
    <2>2. AnswerOf' = AnswerOf
      BY <1>7 DEF Purge, Write, AnswerOf
    <2> QED BY <1>7, <2>1, <2>2 DEF Purge, Write, Service!vars
  <1>8. ASSUME Exchanging(t), Throw(t), UNCHANGED <<calls, ticket>> PROVE Service!Next
    <2>1. mutex_sis = t /\ ~unowned'
      BY <1>8 DEF Inv, LockInv, Using, Exchanging, Throw
    <2>2. At[t] = "inside" /\ At' = [At EXCEPT ![t] = "idle"]
      BY <1>8, <1>t, AtMoves DEF Throw, Goto, Places, At
    <2>3. result[t] # "returned"
      BY <1>8, <1>l, <2>1 DEF Exchanging, LineOf
    <2>4. AnswerOf' = AnswerOf
      BY <1>8, <1>t, <2>3, AnswerStays DEF Throw
    <2>5. Service!Fail(t)
      BY <1>8, <2>1, <2>2, <2>4 DEF Throw, Service!Fail
    <2> QED BY <2>5 DEF Service!Next
  <1>9. CASE SerialFails(t)
    BY <1>8, <1>9 DEF SerialFails
  <1>10. CASE Receive(t)
    <2>1. /\ pc[t] = "wait" /\ Exchanging(t) /\ mutex_sis = t
          /\ UNCHANGED <<calls, ticket>>
      BY <1>10 DEF Receive, Exchanging, Inv, LockInv, Using
    <2>2. CASE Throw(t)
      BY <1>8, <2>1, <2>2
    <2>3. CASE StaysOn(t)
      <3>1. result[t] # "returned"
        BY <1>l, <2>1, <2>3 DEF StaysOn, LineOf
      <3>2. At' = At
        BY <2>3 DEF StaysOn, At, Exchanging
      <3>3. AnswerOf' = AnswerOf
        BY <1>t, <2>3, <3>1, AnswerStays DEF StaysOn
      <3> QED BY <2>1, <2>3, <3>2, <3>3 DEF StaysOn, Service!vars
    <2>4. CASE OnceMore(t)
      <3>1. At[t] = "inside" /\ At' = [At EXCEPT ![t] = "lock"]
        BY <1>t, <2>1, <2>4, AtMoves DEF OnceMore, Goto, Places, At
      <3>2. AnswerOf' = AnswerOf
        BY <2>4 DEF OnceMore, AnswerOf
      <3>3. mutex_sis' = Nobody /\ unowned' = unowned
        BY <2>1, <2>4, OwnUnlock DEF OnceMore, Inv
      <3>4. Service!TryAgain(t)
        BY <2>1, <2>4, <3>1, <3>2, <3>3 DEF OnceMore, Service!TryAgain
      <3> QED BY <3>4 DEF Service!Next
    <2>5. CASE Returns(t)
      <3>1. At[t] = "inside" /\ At' = [At EXCEPT ![t] = "unlock"]
        BY <1>t, <2>1, <2>5, AtMoves DEF Returns, Goto, Places, At
      <3>2. ~unowned' /\ result'[t] = "returned"
        BY <1>t, <2>5 DEF Returns
      <3>3. rcvd'[t][3].of.to = <<t, ticket[t]>>
        BY <1>l, <2>1, <3>2 DEF LineOf, Req
      <3>4. AnswerOf' = [AnswerOf EXCEPT ![t] = <<t, ticket[t]>>]
        BY <1>t, <2>5, <3>2, <3>3, AnswerMoves DEF Returns
      <3>5. Service!Succeed(t)
        BY <2>1, <2>5, <3>1, <3>4 DEF Returns, Service!Succeed
      <3> QED BY <3>5 DEF Service!Next
    <2> QED BY <1>10, <2>2, <2>3, <2>4, <2>5, ReceiveEnds
  <1>11. CASE Release(t)
    <2>1. mutex_sis = t /\ pc[t] = "unlock"
      BY <1>11 DEF Release, Inv, LockInv, Using
    <2>2. mutex_sis' = Nobody /\ unowned' = unowned
      BY <1>11, <2>1, OwnUnlock DEF Release, Inv
    <2>3. /\ At[t] = "unlock"
          /\ At' = [At EXCEPT ![t] = IF depth[t] = 0 THEN "idle" ELSE "unwind"]
      BY <1>11, <1>t, <2>1, AtMoves DEF Release, Goto, Places, At, Exchanging
    <2>4. AnswerOf' = AnswerOf
      BY <1>11 DEF Release, AnswerOf
    <2>5. Service!Leave(t)
      BY <1>11, <2>1, <2>2, <2>3, <2>4 DEF Release, Service!Leave
    <2> QED BY <2>5 DEF Service!Next
  <1>12. CASE Unwind(t)
    <2>1. mutex_sis # t /\ At[t] = "unwind"
      BY <1>12, <1>t DEF Unwind, Inv, LockInv, UnwindInv, At, Exchanging
    <2>2. unowned'
      BY <1>12, <2>1 DEF Unwind, Unlock
    <2> QED BY <2>1, <2>2 DEF Service!Next, Service!Void
  <1> QED
    BY <1>4, <1>5, <1>6, <1>7, <1>9, <1>10, <1>11, <1>12 DEF ThreadStep

\* transceiving is what the functions built on it take it for: one call is
\* served at a time, with the answer to its own request or an exception, and
\* nobody after an exception (555-653); unless a reaction outlives the program.
THEOREM Refinement ==
  ASSUME "late" \notin Faults
  PROVE  Spec => ImplementsService
  <1>1. Init => Service!Init
    BY DEF Init, Service!Init, At, AnswerOf, Exchanging
  <1>2. Inv /\ Inv' /\ [Next]_vars => [Service!Next]_(Service!vars)
    BY RefineStep
  <1> QED BY <1>1, <1>2, Invariance, PTL DEF Spec, ImplementsService, Service!Spec
=============================================================================
