-------------------------- MODULE CommWorkerProofs --------------------------
(***************************************************************************)
(* Proofs about CommWorker, for any set of items and any of them raising   *)
(* or recycled.  The argument: PCInv ties the two program counters to the  *)
(* lock, to the local variables and to Terminated; with it each action     *)
(* moves an item between exactly two of the places OwnedOnce lists.        *)
(***************************************************************************)
EXTENDS CommWorker, SequenceTheorems, TLAPS

-----------------------------------------------------------------------------
(* Queues as sequences of distinct items. *)

\* FSISQueue.Add: the new item joins the range, and stays distinct if it was new.
LEMMA AppendRange ==
  ASSUME NEW S, NEW q \in Seq(S), NEW x \in S
  PROVE  /\ Append(q, x) \in Seq(S)
         /\ Range(Append(q, x)) = Range(q) \cup {x}
         /\ IsInjective(q) /\ x \notin Range(q) => IsInjective(Append(q, x))
  <1>1. /\ Append(q, x) \in Seq(S)
        /\ Len(Append(q, x)) = Len(q) + 1
        /\ \A k \in 1..Len(q) : Append(q, x)[k] = q[k]
        /\ Append(q, x)[Len(q) + 1] = x
    BY AppendProperties
  <1>2. /\ Len(q) \in Nat
        /\ DOMAIN q = 1..Len(q)
        /\ DOMAIN Append(q, x) = 1..(Len(q) + 1)
    BY <1>1, LenProperties
  <1>3. Range(Append(q, x)) = Range(q) \cup {x}
    <2>1. ASSUME NEW y \in Range(Append(q, x)) PROVE y \in Range(q) \cup {x}
      BY <1>1, <1>2 DEF Range
    <2>2. ASSUME NEW y \in Range(q) PROVE y \in Range(Append(q, x))
      <3>1. PICK k \in 1..Len(q) : y = q[k]
        BY <1>2 DEF Range
      <3>2. k \in 1..(Len(q) + 1) /\ Append(q, x)[k] = y
        BY <1>1, <1>2, <3>1
      <3> QED BY <1>2, <3>2 DEF Range
    <2>3. x \in Range(Append(q, x))
      <3>1. Len(q) + 1 \in 1..(Len(q) + 1)
        BY <1>2
      <3> QED BY <1>1, <1>2, <3>1 DEF Range
    <2> QED BY <2>1, <2>2, <2>3
  <1>4. ASSUME IsInjective(q), x \notin Range(q) PROVE IsInjective(Append(q, x))
    <2>1. \A k, l \in 1..Len(q) : q[k] = q[l] => k = l
      BY <1>2, <1>4 DEF IsInjective
    <2>2. \A k \in 1..Len(q) : q[k] # x
      BY <1>2, <1>4 DEF Range
    <2>3. \A k \in 1..(Len(q) + 1) : k \in 1..Len(q) \/ k = Len(q) + 1
      BY <1>2
    <2> QED BY <1>1, <1>2, <2>1, <2>2, <2>3 DEF IsInjective
  <1> QED BY <1>1, <1>3, <1>4

\* FSISQueue.Insert(0): the same at the head.
LEMMA PushRange ==
  ASSUME NEW S, NEW q \in Seq(S), NEW x \in S
  PROVE  /\ <<x>> \o q \in Seq(S)
         /\ Range(<<x>> \o q) = Range(q) \cup {x}
         /\ IsInjective(q) /\ x \notin Range(q) => IsInjective(<<x>> \o q)
  <1> DEFINE p == <<x>> \o q
  <1>1. <<x>> \in Seq(S) /\ Len(<<x>>) = 1 /\ <<x>>[1] = x
    OBVIOUS
  <1>2. /\ p \in Seq(S)
        /\ Len(p) = 1 + Len(q)
        /\ \A k \in 1..(1 + Len(q)) : p[k] = IF k <= 1 THEN <<x>>[k] ELSE q[k - 1]
    BY <1>1, ConcatProperties
  <1>3. /\ Len(q) \in Nat
        /\ DOMAIN q = 1..Len(q)
        /\ DOMAIN p = 1..(1 + Len(q))
    BY <1>2, LenProperties
  <1>4. p[1] = x /\ \A k \in 1..Len(q) : p[k + 1] = q[k]
    BY <1>1, <1>2, <1>3
  <1>5. \A k \in 1..(1 + Len(q)) : k = 1 \/ (k - 1 \in 1..Len(q) /\ p[k] = q[k - 1])
    BY <1>2, <1>3
  <1> HIDE DEF p
  <1>6. Range(p) = Range(q) \cup {x}
    <2>1. ASSUME NEW y \in Range(p) PROVE y \in Range(q) \cup {x}
      <3>1. PICK k \in 1..(1 + Len(q)) : y = p[k]
        BY <1>3 DEF Range
      <3> QED BY <1>3, <1>4, <1>5, <3>1 DEF Range
    <2>2. ASSUME NEW y \in Range(q) PROVE y \in Range(p)
      <3>1. PICK k \in 1..Len(q) : y = q[k]
        BY <1>3 DEF Range
      <3>2. k + 1 \in 1..(1 + Len(q)) /\ p[k + 1] = y
        BY <1>3, <1>4, <3>1
      <3> QED BY <1>3, <3>2 DEF Range
    <2>3. x \in Range(p)
      BY <1>3, <1>4 DEF Range
    <2> QED BY <2>1, <2>2, <2>3
  <1>7. ASSUME IsInjective(q), x \notin Range(q) PROVE IsInjective(p)
    <2>1. \A k, l \in 1..Len(q) : q[k] = q[l] => k = l
      BY <1>3, <1>7 DEF IsInjective
    <2>2. \A k \in 1..Len(q) : q[k] # x
      BY <1>3, <1>7 DEF Range
    <2>3. ASSUME NEW k \in 1..(1 + Len(q)), NEW l \in 1..(1 + Len(q)), p[k] = p[l]
          PROVE  k = l
      <3>1. CASE k = 1 \/ l = 1
        BY <1>4, <1>5, <2>2, <2>3, <3>1
      <3>2. CASE k # 1 /\ l # 1
        <4>1. k - 1 = l - 1
          BY <1>5, <2>1, <2>3, <3>2
        <4> QED BY <1>3, <4>1
      <3> QED BY <3>1, <3>2
    <2> QED BY <1>3, <2>3 DEF IsInjective
  <1> QED BY <1>2, <1>6, <1>7 DEF p

\* FSISQueue[0] and Delete(0): the head leaves the range for good.
LEMMA PopRange ==
  ASSUME NEW S, NEW q \in Seq(S), q # << >>
  PROVE  /\ Head(q) \in S
         /\ Tail(q) \in Seq(S)
         /\ Head(q) \in Range(q)
         /\ Range(q) = Range(Tail(q)) \cup {Head(q)}
         /\ IsInjective(q) => IsInjective(Tail(q)) /\ Head(q) \notin Range(Tail(q))
  <1>1. /\ Head(q) \in S
        /\ Tail(q) \in Seq(S)
        /\ Len(Tail(q)) = Len(q) - 1
        /\ \A k \in 1..Len(Tail(q)) : Tail(q)[k] = q[k + 1]
    BY HeadTailProperties
  <1>2. /\ Len(q) \in Nat \ {0}
        /\ DOMAIN q = 1..Len(q)
        /\ DOMAIN Tail(q) = 1..(Len(q) - 1)
        /\ Head(q) = q[1]
    BY <1>1, LenProperties, EmptySeq
  <1>3. \A k \in 1..(Len(q) - 1) : k + 1 \in 1..Len(q) /\ Tail(q)[k] = q[k + 1]
    BY <1>1, <1>2
  <1>4. \A k \in 1..Len(q) : k = 1 \/ (k - 1 \in 1..(Len(q) - 1) /\ Tail(q)[k - 1] = q[k])
    BY <1>1, <1>2
  <1>5. Head(q) \in Range(q)
    BY <1>2 DEF Range
  <1>6. Range(q) = Range(Tail(q)) \cup {Head(q)}
    <2>1. ASSUME NEW y \in Range(q) PROVE y \in Range(Tail(q)) \cup {Head(q)}
      <3>1. PICK k \in 1..Len(q) : y = q[k]
        BY <1>2 DEF Range
      <3> QED BY <1>2, <1>4, <3>1 DEF Range
    <2>2. ASSUME NEW y \in Range(Tail(q)) PROVE y \in Range(q)
      <3>1. PICK k \in 1..(Len(q) - 1) : y = Tail(q)[k]
        BY <1>2 DEF Range
      <3> QED BY <1>2, <1>3, <3>1 DEF Range
    <2> QED BY <1>5, <2>1, <2>2
  <1>7. ASSUME IsInjective(q)
        PROVE  IsInjective(Tail(q)) /\ Head(q) \notin Range(Tail(q))
    <2>1. \A k, l \in 1..Len(q) : q[k] = q[l] => k = l
      BY <1>2, <1>7 DEF IsInjective
    <2>2. ASSUME NEW k \in 1..(Len(q) - 1), NEW l \in 1..(Len(q) - 1), Tail(q)[k] = Tail(q)[l]
          PROVE  k = l
      <3>1. k + 1 = l + 1
        BY <1>3, <2>1, <2>2
      <3> QED BY <1>2, <3>1
    <2>3. ASSUME NEW k \in 1..(Len(q) - 1) PROVE Tail(q)[k] # q[1]
      <3>1. k + 1 # 1 /\ 1 \in 1..Len(q)
        BY <1>2
      <3> QED BY <1>3, <2>1, <3>1
    <2> QED BY <1>2, <2>2, <2>3 DEF IsInjective, Range
  <1> QED BY <1>1, <1>5, <1>6, <1>7

-----------------------------------------------------------------------------
(* One step of the program preserves each part of the invariant. *)

\* A step leaves every variable in its type; a block is only freed while it is
\* allocated, because OwnedOnce gives the current and the queued items an owner.
LEMMA TypeStep ==
  ASSUME Inv, [Next]_vars
  PROVE  TypeOK'
  <1> USE ItemAssumption DEF Inv, TypeOK, queueVars, workerVars, uiVars,
                             WorkerPC, UIPC, Request, NoRequest, Nobody, UI, Worker
  <1>1. CASE StartComms
    BY <1>1 DEF StartComms
  <1>2. ASSUME NEW i \in Item, NEW sis \in BOOLEAN, NEW prio \in BOOLEAN, AddWork(i, sis, prio)
        PROVE  TypeOK'
    BY <1>2 DEF AddWork
  <1>3. CASE AddAcquire
    BY <1>3 DEF AddAcquire
  <1>4. CASE AddInsert
    <2>1. request.item \in Item
      BY <1>4 DEF AddInsert, PCInv, LocalPC
    <2>2. /\ Inserted(FSISQueue) \in Seq(Item)
          /\ Inserted(FASCIIQueue) \in Seq(Item)
      BY <2>1, AppendRange, PushRange DEF Inserted
    <2>3. FSISQueue' \in Seq(Item) /\ FASCIIQueue' \in Seq(Item)
      BY <1>4, <2>2 DEF AddInsert
    <2> QED BY <1>4, <2>3 DEF AddInsert
  <1>5. CASE AddSignal
    BY <1>5 DEF AddSignal
  <1>6. CASE UIRelease
    BY <1>6 DEF UIRelease
  <1>7. CASE CallBlocking
    BY <1>7 DEF CallBlocking
  <1>8. CASE BlockingAcquire
    BY <1>8 DEF BlockingAcquire
  <1>9. CASE BlockingDone
    BY <1>9 DEF BlockingDone
  <1>10. CASE OnWorkComplete
    <2>1. heap[FCurrentWorkData] = "live"
      BY <1>10 DEF OnWorkComplete, PCInv, LocalPC, OwnedOnce, InHand
    <2>2. heap' \in [Item -> {"unused", "live", "disposed"}]
      BY <1>10, <2>1 DEF OnWorkComplete, Disposed
    <2>3. /\ UNCHANGED <<FSISQueue, FASCIIQueue, FLock, FEvent, FIsProcessing,
                         FCurrentWorkData, Terminated, WorkItem, SISWork, upc, request>>
          /\ wpc' = "synced"
      BY <1>10, Zenon DEF OnWorkComplete
    <2> QED BY <2>2, <2>3
  <1>11. CASE Terminate
    BY <1>11 DEF Terminate
  <1>12. CASE DestroySignal
    BY <1>12 DEF DestroySignal
  <1>13. CASE WaitForReturns
    BY <1>13 DEF WaitForReturns
  <1>14. CASE Cleanup
    <2>1. \A i \in Queued : heap[i] = "live"
      BY DEF OwnedOnce
    <2>2. heap' \in [Item -> {"unused", "live", "disposed"}]
      BY <1>14, <2>1 DEF Cleanup, Disposed
    <2> QED BY <1>14, <2>2, EmptySeq DEF Cleanup
  <1>15. CASE LoopTest
    BY <1>15 DEF LoopTest
  <1>16. CASE Wake
    <2>1. FEvent' \in BOOLEAN
      BY <1>16, Zenon DEF Wake
    <2>2. /\ UNCHANGED <<heap, FSISQueue, FASCIIQueue, FLock, FIsProcessing,
                         FCurrentWorkData, Terminated, WorkItem, SISWork, upc, request>>
          /\ wpc' = "signaled"
      BY <1>16, Zenon DEF Wake
    <2> QED BY <2>1, <2>2
  <1>17. CASE SignaledTest
    BY <1>17 DEF SignaledTest
  <1>18. CASE Pop
    <2>1. CASE PopSIS
      BY <1>18, <2>1, PopRange DEF Pop, PopSIS
    <2>2. CASE PopASCII
      BY <1>18, <2>2, PopRange DEF Pop, PopASCII
    <2>3. CASE PopNothing
      BY <1>18, <2>3 DEF Pop, PopNothing
    <2> QED BY <1>18, <2>1, <2>2, <2>3 DEF Pop
  <1>19. CASE PopRelease
    BY <1>19 DEF PopRelease
  <1>20. CASE BeginExchange
    BY <1>20 DEF BeginExchange
  <1>21. CASE ProcessRaises
    BY <1>21 DEF ProcessRaises
  <1>22. CASE EndExchange
    BY <1>22 DEF EndExchange
  <1>23. CASE TailAcquire
    BY <1>23 DEF TailAcquire
  <1>24. CASE TailRelease
    <2>1. FEvent' \in BOOLEAN /\ FIsProcessing' \in BOOLEAN
      BY <1>24, Zenon DEF TailRelease, Rearm
    <2>2. /\ UNCHANGED <<heap, FSISQueue, FASCIIQueue, FCurrentWorkData, Terminated,
                         WorkItem, SISWork, upc, request>>
          /\ FLock' = Nobody
          /\ wpc' = "loop"
      BY <1>24, Zenon DEF TailRelease
    <2> QED BY <2>1, <2>2
  <1>25. CASE UNCHANGED vars
    BY <1>25 DEF vars
  <1> QED
    BY <1>1, <1>2, <1>3, <1>4, <1>5, <1>6, <1>7, <1>8, <1>9, <1>10, <1>11, <1>12,
       <1>13, <1>14, <1>15, <1>16, <1>17, <1>18, <1>19, <1>20, <1>21, <1>22, <1>23,
       <1>24, <1>25
       DEF Next, UINext, WorkerNext, Finished

\* FLock is taken and given back by the thread whose program counter says so.
LEMMA LockStep ==
  ASSUME Inv, [Next]_vars
  PROVE  LockPC'
  <1> USE ItemAssumption DEF Inv, PCInv, LockPC, TypeOK, queueVars, workerVars, uiVars,
          WorkerPC, UIPC, Nobody, UI, Worker
  <1>1. CASE StartComms
    BY <1>1 DEF StartComms, ThreadPC
  <1>2. ASSUME NEW i \in Item, NEW sis \in BOOLEAN, NEW prio \in BOOLEAN, AddWork(i, sis, prio)
        PROVE  LockPC'
    BY <1>2 DEF AddWork
  <1>3. CASE AddAcquire
    BY <1>3 DEF AddAcquire
  <1>4. CASE AddInsert
    BY <1>4 DEF AddInsert
  <1>5. CASE AddSignal
    BY <1>5 DEF AddSignal
  <1>6. CASE UIRelease
    BY <1>6 DEF UIRelease
  <1>7. CASE CallBlocking
    BY <1>7 DEF CallBlocking
  <1>8. CASE BlockingAcquire
    BY <1>8 DEF BlockingAcquire
  <1>9. CASE BlockingDone
    BY <1>9 DEF BlockingDone
  <1>10. CASE OnWorkComplete
    BY <1>10 DEF OnWorkComplete
  <1>11. CASE Terminate
    BY <1>11 DEF Terminate
  <1>12. CASE DestroySignal
    BY <1>12 DEF DestroySignal
  <1>13. CASE WaitForReturns
    BY <1>13 DEF WaitForReturns
  <1>14. CASE Cleanup
    BY <1>14 DEF Cleanup
  <1>15. CASE LoopTest
    BY <1>15 DEF LoopTest
  <1>16. CASE Wake
    BY <1>16 DEF Wake
  <1>17. CASE SignaledTest
    BY <1>17 DEF SignaledTest
  <1>18. CASE Pop
    BY <1>18 DEF Pop
  <1>19. CASE PopRelease
    BY <1>19 DEF PopRelease
  <1>20. CASE BeginExchange
    BY <1>20 DEF BeginExchange
  <1>21. CASE ProcessRaises
    BY <1>21 DEF ProcessRaises
  <1>22. CASE EndExchange
    BY <1>22 DEF EndExchange
  <1>23. CASE TailAcquire
    BY <1>23 DEF TailAcquire
  <1>24. CASE TailRelease
    BY <1>24 DEF TailRelease
  <1>25. CASE UNCHANGED vars
    BY <1>25 DEF vars
  <1> QED
    BY <1>1, <1>2, <1>3, <1>4, <1>5, <1>6, <1>7, <1>8, <1>9, <1>10, <1>11, <1>12,
       <1>13, <1>14, <1>15, <1>16, <1>17, <1>18, <1>19, <1>20, <1>21, <1>22, <1>23,
       <1>24, <1>25
       DEF Next, UINext, WorkerNext, Finished

\* The two threads agree on who has started, who is ending and who is left.
LEMMA ThreadStep ==
  ASSUME Inv, [Next]_vars
  PROVE  ThreadPC'
  <1> USE ItemAssumption DEF Inv, PCInv, ThreadPC, LockPC, TypeOK, queueVars, workerVars, uiVars,
          WorkerPC, UIPC, Nobody, UI, Worker
  <1>1. CASE StartComms
    BY <1>1 DEF StartComms
  <1>2. ASSUME NEW i \in Item, NEW sis \in BOOLEAN, NEW prio \in BOOLEAN, AddWork(i, sis, prio)
        PROVE  ThreadPC'
    BY <1>2 DEF AddWork
  <1>3. CASE AddAcquire
    BY <1>3 DEF AddAcquire
  <1>4. CASE AddInsert
    BY <1>4 DEF AddInsert
  <1>5. CASE AddSignal
    BY <1>5 DEF AddSignal
  <1>6. CASE UIRelease
    BY <1>6 DEF UIRelease
  <1>7. CASE CallBlocking
    BY <1>7 DEF CallBlocking
  <1>8. CASE BlockingAcquire
    BY <1>8 DEF BlockingAcquire
  <1>9. CASE BlockingDone
    BY <1>9 DEF BlockingDone
  <1>10. CASE OnWorkComplete
    BY <1>10 DEF OnWorkComplete
  <1>11. CASE Terminate
    BY <1>11 DEF Terminate
  <1>12. CASE DestroySignal
    BY <1>12 DEF DestroySignal
  <1>13. CASE WaitForReturns
    BY <1>13 DEF WaitForReturns
  <1>14. CASE Cleanup
    BY <1>14 DEF Cleanup
  <1>15. CASE LoopTest
    BY <1>15 DEF LoopTest
  <1>16. CASE Wake
    BY <1>16 DEF Wake
  <1>17. CASE SignaledTest
    BY <1>17 DEF SignaledTest
  <1>18. CASE Pop
    <2>1. CASE PopSIS
      BY <1>18, <2>1 DEF Pop, PopSIS
    <2>2. CASE PopASCII
      BY <1>18, <2>2 DEF Pop, PopASCII
    <2>3. CASE PopNothing
      BY <1>18, <2>3 DEF Pop, PopNothing
    <2> QED BY <1>18, <2>1, <2>2, <2>3 DEF Pop
  <1>19. CASE PopRelease
    BY <1>19 DEF PopRelease
  <1>20. CASE BeginExchange
    BY <1>20 DEF BeginExchange
  <1>21. CASE ProcessRaises
    BY <1>21 DEF ProcessRaises
  <1>22. CASE EndExchange
    BY <1>22 DEF EndExchange
  <1>23. CASE TailAcquire
    BY <1>23 DEF TailAcquire
  <1>24. CASE TailRelease
    BY <1>24 DEF TailRelease
  <1>25. CASE UNCHANGED vars
    BY <1>25 DEF vars
  <1> QED
    BY <1>1, <1>2, <1>3, <1>4, <1>5, <1>6, <1>7, <1>8, <1>9, <1>10, <1>11, <1>12,
       <1>13, <1>14, <1>15, <1>16, <1>17, <1>18, <1>19, <1>20, <1>21, <1>22, <1>23,
       <1>24, <1>25
       DEF Next, UINext, WorkerNext, Finished

\* The local variables of the two calls hold what their program counters promise.
LEMMA LocalStep ==
  ASSUME Inv, [Next]_vars
  PROVE  LocalPC'
  <1> USE ItemAssumption DEF Inv, PCInv, LocalPC, LockPC, NoRequest, Request, TypeOK, queueVars, workerVars, uiVars,
          WorkerPC, UIPC, Nobody, UI, Worker
  <1>1. CASE StartComms
    BY <1>1 DEF StartComms
  <1>2. ASSUME NEW i \in Item, NEW sis \in BOOLEAN, NEW prio \in BOOLEAN, AddWork(i, sis, prio)
        PROVE  LocalPC'
    BY <1>2 DEF AddWork
  <1>3. CASE AddAcquire
    BY <1>3 DEF AddAcquire
  <1>4. CASE AddInsert
    BY <1>4 DEF AddInsert
  <1>5. CASE AddSignal
    BY <1>5 DEF AddSignal
  <1>6. CASE UIRelease
    BY <1>6 DEF UIRelease
  <1>7. CASE CallBlocking
    BY <1>7 DEF CallBlocking
  <1>8. CASE BlockingAcquire
    BY <1>8 DEF BlockingAcquire
  <1>9. CASE BlockingDone
    BY <1>9 DEF BlockingDone
  <1>10. CASE OnWorkComplete
    BY <1>10 DEF OnWorkComplete
  <1>11. CASE Terminate
    BY <1>11 DEF Terminate
  <1>12. CASE DestroySignal
    BY <1>12 DEF DestroySignal
  <1>13. CASE WaitForReturns
    BY <1>13 DEF WaitForReturns
  <1>14. CASE Cleanup
    BY <1>14 DEF Cleanup
  <1>15. CASE LoopTest
    BY <1>15 DEF LoopTest
  <1>16. CASE Wake
    BY <1>16 DEF Wake
  <1>17. CASE SignaledTest
    BY <1>17 DEF SignaledTest
  <1>18. CASE Pop
    <2>1. CASE PopSIS
      BY <1>18, <2>1, PopRange DEF Pop, PopSIS
    <2>2. CASE PopASCII
      BY <1>18, <2>2, PopRange DEF Pop, PopASCII
    <2>3. CASE PopNothing
      BY <1>18, <2>3 DEF Pop, PopNothing
    <2> QED BY <1>18, <2>1, <2>2, <2>3 DEF Pop
  <1>19. CASE PopRelease
    BY <1>19 DEF PopRelease
  <1>20. CASE BeginExchange
    BY <1>20 DEF BeginExchange
  <1>21. CASE ProcessRaises
    BY <1>21 DEF ProcessRaises
  <1>22. CASE EndExchange
    BY <1>22 DEF EndExchange
  <1>23. CASE TailAcquire
    BY <1>23 DEF TailAcquire
  <1>24. CASE TailRelease
    BY <1>24 DEF TailRelease
  <1>25. CASE UNCHANGED vars
    BY <1>25 DEF vars
  <1> QED
    BY <1>1, <1>2, <1>3, <1>4, <1>5, <1>6, <1>7, <1>8, <1>9, <1>10, <1>11, <1>12,
       <1>13, <1>14, <1>15, <1>16, <1>17, <1>18, <1>19, <1>20, <1>21, <1>22, <1>23,
       <1>24, <1>25
       DEF Next, UINext, WorkerNext, Finished

\* FIsProcessing stays set from the pop to the end of the tail section.
LEMMA ProcessingStep ==
  ASSUME Inv, [Next]_vars
  PROVE  ProcessingPC'
  <1> USE ItemAssumption DEF Inv, PCInv, ProcessingPC, LocalPC, InHand, TypeOK, queueVars, workerVars, uiVars,
          WorkerPC, UIPC, Nobody, UI, Worker
  <1>1. CASE StartComms
    BY <1>1 DEF StartComms
  <1>2. ASSUME NEW i \in Item, NEW sis \in BOOLEAN, NEW prio \in BOOLEAN, AddWork(i, sis, prio)
        PROVE  ProcessingPC'
    BY <1>2 DEF AddWork
  <1>3. CASE AddAcquire
    BY <1>3 DEF AddAcquire
  <1>4. CASE AddInsert
    BY <1>4 DEF AddInsert
  <1>5. CASE AddSignal
    BY <1>5 DEF AddSignal
  <1>6. CASE UIRelease
    BY <1>6 DEF UIRelease
  <1>7. CASE CallBlocking
    BY <1>7 DEF CallBlocking
  <1>8. CASE BlockingAcquire
    BY <1>8 DEF BlockingAcquire
  <1>9. CASE BlockingDone
    BY <1>9 DEF BlockingDone
  <1>10. CASE OnWorkComplete
    BY <1>10 DEF OnWorkComplete
  <1>11. CASE Terminate
    BY <1>11 DEF Terminate
  <1>12. CASE DestroySignal
    BY <1>12 DEF DestroySignal
  <1>13. CASE WaitForReturns
    BY <1>13 DEF WaitForReturns
  <1>14. CASE Cleanup
    BY <1>14 DEF Cleanup
  <1>15. CASE LoopTest
    BY <1>15 DEF LoopTest
  <1>16. CASE Wake
    BY <1>16 DEF Wake
  <1>17. CASE SignaledTest
    BY <1>17 DEF SignaledTest
  <1>18. CASE Pop
    <2>1. CASE PopSIS
      BY <1>18, <2>1, PopRange DEF Pop, PopSIS
    <2>2. CASE PopASCII
      BY <1>18, <2>2, PopRange DEF Pop, PopASCII
    <2>3. CASE PopNothing
      BY <1>18, <2>3 DEF Pop, PopNothing
    <2> QED BY <1>18, <2>1, <2>2, <2>3 DEF Pop
  <1>19. CASE PopRelease
    BY <1>19 DEF PopRelease
  <1>20. CASE BeginExchange
    BY <1>20 DEF BeginExchange
  <1>21. CASE ProcessRaises
    BY <1>21 DEF ProcessRaises
  <1>22. CASE EndExchange
    BY <1>22 DEF EndExchange
  <1>23. CASE TailAcquire
    BY <1>23 DEF TailAcquire
  <1>24. CASE TailRelease
    BY <1>24 DEF TailRelease, Rearm
  <1>25. CASE UNCHANGED vars
    BY <1>25 DEF vars
  <1> QED
    BY <1>1, <1>2, <1>3, <1>4, <1>5, <1>6, <1>7, <1>8, <1>9, <1>10, <1>11, <1>12,
       <1>13, <1>14, <1>15, <1>16, <1>17, <1>18, <1>19, <1>20, <1>21, <1>22, <1>23,
       <1>24, <1>25
       DEF Next, UINext, WorkerNext, Finished

\* The event stays set for the last item queued: the worker resets it only on its
\* way to the queues, and sets it again itself when it leaves work behind.
LEMMA WakeupStep ==
  ASSUME Inv, [Next]_vars
  PROVE  NoLostWakeup'
  <1> USE ItemAssumption DEF Inv, PCInv, LocalPC, NoLostWakeup, TypeOK, queueVars, workerVars, uiVars, Queued
  <1>1. CASE StartComms
    BY <1>1, EmptySeq DEF StartComms, ThreadPC, Range
  <1>2. ASSUME NEW i \in Item, NEW sis \in BOOLEAN, NEW prio \in BOOLEAN, AddWork(i, sis, prio)
        PROVE  NoLostWakeup'
    BY <1>2 DEF AddWork
  <1>3. CASE AddAcquire
    BY <1>3 DEF AddAcquire
  <1>4. CASE AddInsert
    BY <1>4 DEF AddInsert
  <1>5. CASE AddSignal
    BY <1>5 DEF AddSignal
  <1>6. CASE UIRelease
    BY <1>6 DEF UIRelease
  <1>7. CASE CallBlocking
    BY <1>7 DEF CallBlocking
  <1>8. CASE BlockingAcquire
    BY <1>8 DEF BlockingAcquire
  <1>9. CASE BlockingDone
    BY <1>9 DEF BlockingDone
  <1>10. CASE OnWorkComplete
    BY <1>10 DEF OnWorkComplete
  <1>11. CASE Terminate
    BY <1>11 DEF Terminate
  <1>12. CASE DestroySignal
    BY <1>12 DEF DestroySignal
  <1>13. CASE WaitForReturns
    BY <1>13 DEF WaitForReturns
  <1>14. CASE Cleanup
    BY <1>14 DEF Cleanup, ThreadPC, WorkerPC
  <1>15. CASE LoopTest
    <2>1. wpc' = "wait" \/ wpc' = "exited"
      BY <1>15 DEF LoopTest
    <2>2. UNCHANGED <<FSISQueue, FASCIIQueue, FEvent, Terminated, upc>>
      BY <1>15, Zenon DEF LoopTest
    <2> QED BY <1>15, <2>1, <2>2 DEF LoopTest
  <1>16. CASE Wake
    <2>1. wpc' = "signaled"
      BY <1>16, Zenon DEF Wake
    <2> QED BY <2>1
  <1>17. CASE SignaledTest
    <2>1. CASE Terminated
      <3>1. Terminated'
        BY <1>17, <2>1, Zenon DEF SignaledTest
      <3> QED BY <3>1
    <2>2. CASE ~Terminated
      BY <1>17, <2>2 DEF SignaledTest
    <2> QED BY <2>1, <2>2
  <1>18. CASE Pop
    BY <1>18 DEF Pop
  <1>19. CASE PopRelease
    BY <1>19 DEF PopRelease, Range
  <1>20. CASE BeginExchange
    BY <1>20 DEF BeginExchange
  <1>21. CASE ProcessRaises
    BY <1>21 DEF ProcessRaises
  <1>22. CASE EndExchange
    BY <1>22 DEF EndExchange
  <1>23. CASE TailAcquire
    BY <1>23 DEF TailAcquire
  <1>24. CASE TailRelease
    BY <1>24, Zenon DEF TailRelease, Rearm
  <1>25. CASE UNCHANGED vars
    BY <1>25 DEF vars
  <1> QED
    BY <1>1, <1>2, <1>3, <1>4, <1>5, <1>6, <1>7, <1>8, <1>9, <1>10, <1>11, <1>12,
       <1>13, <1>14, <1>15, <1>16, <1>17, <1>18, <1>19, <1>20, <1>21, <1>22, <1>23,
       <1>24, <1>25
       DEF Next, UINext, WorkerNext, Finished

\* A step that moves no item between the places of OwnedOnce preserves it.
LEMMA OwnersUnchanged ==
  ASSUME OwnedOnce, UNCHANGED <<heap, FSISQueue, FASCIIQueue>>,
         InHand' = InHand, Adding' = Adding
  PROVE  OwnedOnce'
  BY DEF OwnedOnce, Queued, IsInjective, Range

\* Each step leaves an item where it is or moves it to exactly one other place.
LEMMA OwnedStep ==
  ASSUME Inv, [Next]_vars
  PROVE  OwnedOnce'
  <1> USE ItemAssumption DEF Inv, TypeOK, PCInv, LocalPC, queueVars, workerVars, uiVars, NoRequest
  <1>1. CASE StartComms
    BY <1>1, OwnersUnchanged DEF StartComms, InHand, Adding, ThreadPC
  <1>2. ASSUME NEW i \in Item, NEW sis \in BOOLEAN, NEW prio \in BOOLEAN, AddWork(i, sis, prio)
        PROVE  OwnedOnce'
    <2>1. Adding = {} /\ Adding' = {i}
      BY <1>2 DEF AddWork, Adding
    <2>2. Queued' = Queued /\ InHand' = InHand
      BY <1>2 DEF AddWork, Queued, InHand
    <2>3. i \notin Queued \cup InHand
      BY <1>2 DEF AddWork, OwnedOnce
    <2>4. {j \in Item : heap'[j] = "live"} = {j \in Item : heap[j] = "live"} \cup {i}
      BY <1>2 DEF AddWork
    <2>5. FSISQueue' = FSISQueue /\ FASCIIQueue' = FASCIIQueue
      BY <1>2 DEF AddWork
    <2> QED BY <2>1, <2>2, <2>3, <2>4, <2>5 DEF OwnedOnce
  <1>3. CASE AddAcquire
    BY <1>3, OwnersUnchanged DEF AddAcquire, InHand, Adding
  <1>4. CASE AddInsert
    <2> DEFINE x == request.item
    <2>1. x \in Item /\ Adding = {x} /\ Adding' = {}
      BY <1>4 DEF AddInsert, Adding, Request
    <2>2. x \notin Queued \cup InHand
      BY <2>1 DEF OwnedOnce
    <2>3. InHand' = InHand /\ heap' = heap
      BY <1>4 DEF AddInsert, InHand
    <2>4. CASE request.sis
      <3>1. FASCIIQueue' = FASCIIQueue /\ FSISQueue' = Inserted(FSISQueue)
        BY <1>4, <2>4 DEF AddInsert
      <3>2. Range(FSISQueue') = Range(FSISQueue) \cup {x} /\ IsInjective(FSISQueue')
        BY <2>1, <2>2, <3>1, AppendRange, PushRange DEF Inserted, OwnedOnce, Queued
      <3> HIDE DEF x
      <3> QED BY <2>1, <2>2, <2>3, <3>1, <3>2 DEF OwnedOnce, Queued
    <2>5. CASE ~request.sis
      <3>1. FSISQueue' = FSISQueue /\ FASCIIQueue' = Inserted(FASCIIQueue)
        BY <1>4, <2>5 DEF AddInsert
      <3>2. Range(FASCIIQueue') = Range(FASCIIQueue) \cup {x} /\ IsInjective(FASCIIQueue')
        BY <2>1, <2>2, <3>1, AppendRange, PushRange DEF Inserted, OwnedOnce, Queued
      <3> HIDE DEF x
      <3> QED BY <2>1, <2>2, <2>3, <3>1, <3>2 DEF OwnedOnce, Queued
    <2> QED BY <2>4, <2>5
  <1>5. CASE AddSignal
    BY <1>5, OwnersUnchanged DEF AddSignal, InHand, Adding
  <1>6. CASE UIRelease
    BY <1>6, OwnersUnchanged DEF UIRelease, InHand, Adding
  <1>7. CASE CallBlocking
    BY <1>7, OwnersUnchanged DEF CallBlocking, InHand, Adding
  <1>8. CASE BlockingAcquire
    BY <1>8, OwnersUnchanged DEF BlockingAcquire, InHand, Adding
  <1>9. CASE BlockingDone
    BY <1>9, OwnersUnchanged DEF BlockingDone, InHand, Adding
  <1>10. CASE OnWorkComplete
    <2>1. InHand = {FCurrentWorkData} /\ InHand' = {}
      BY <1>10 DEF OnWorkComplete, InHand
    <2>2. Queued' = Queued /\ Adding' = Adding
      BY <1>10 DEF OnWorkComplete, Queued, Adding
    <2>3. {j \in Item : heap'[j] = "live"} = {j \in Item : heap[j] = "live"} \ {FCurrentWorkData}
      BY <1>10 DEF OnWorkComplete, Disposed
    <2>4. FSISQueue' = FSISQueue /\ FASCIIQueue' = FASCIIQueue
      BY <1>10 DEF OnWorkComplete
    <2> QED BY <2>1, <2>2, <2>3, <2>4 DEF OwnedOnce
  <1>11. CASE Terminate
    BY <1>11, OwnersUnchanged DEF Terminate, InHand, Adding
  <1>12. CASE DestroySignal
    BY <1>12, OwnersUnchanged DEF DestroySignal, InHand, Adding
  <1>13. CASE WaitForReturns
    BY <1>13, OwnersUnchanged DEF WaitForReturns, InHand, Adding
  <1>14. CASE Cleanup
    <2>1. InHand' = InHand /\ Adding' = Adding
      BY <1>14 DEF Cleanup, InHand, Adding
    <2>2. {j \in Item : heap'[j] = "live"} = {j \in Item : heap[j] = "live"} \ Queued
      BY <1>14 DEF Cleanup, Disposed
    <2>3. FSISQueue' = << >> /\ FASCIIQueue' = << >>
      BY <1>14 DEF Cleanup
    <2>4. /\ Range(FSISQueue') = {} /\ Range(FASCIIQueue') = {}
          /\ IsInjective(FSISQueue') /\ IsInjective(FASCIIQueue')
      BY <2>3 DEF Range, IsInjective
    <2> QED BY <2>1, <2>2, <2>4 DEF OwnedOnce, Queued
  <1>15. CASE LoopTest
    <2>1. wpc = "loop" /\ wpc' \in {"exited", "wait"}
      BY <1>15 DEF LoopTest
    <2>2. UNCHANGED <<heap, FSISQueue, FASCIIQueue, WorkItem, request>>
      BY <1>15, Zenon DEF LoopTest
    <2> QED BY <2>1, <2>2, OwnersUnchanged DEF InHand, Adding
  <1>16. CASE Wake
    <2>1. wpc = "wait" /\ wpc' = "signaled"
      BY <1>16, Zenon DEF Wake
    <2>2. UNCHANGED <<heap, FSISQueue, FASCIIQueue, WorkItem, request>>
      BY <1>16, Zenon DEF Wake
    <2> QED BY <2>1, <2>2, OwnersUnchanged DEF InHand, Adding
  <1>17. CASE SignaledTest
    <2>1. wpc = "signaled" /\ wpc' \in {"loop", "popAcquire"}
      BY <1>17 DEF SignaledTest
    <2>2. UNCHANGED <<heap, FSISQueue, FASCIIQueue, WorkItem, request>>
      BY <1>17, Zenon DEF SignaledTest
    <2> QED BY <2>1, <2>2, OwnersUnchanged DEF InHand, Adding
  <1>18. CASE Pop
    <2>1. InHand = {} /\ Adding' = Adding /\ heap' = heap
      BY <1>18 DEF Pop, InHand, Adding
    <2>2. InHand' = {WorkItem'} \ {NoItem}
      BY <1>18 DEF Pop, InHand
    <2>3. CASE PopSIS
      <3>1. FASCIIQueue' = FASCIIQueue /\ FSISQueue # << >>
        BY <2>3 DEF PopSIS
      <3>2. /\ WorkItem' \in Item
            /\ Range(FSISQueue) = Range(FSISQueue') \cup {WorkItem'}
            /\ WorkItem' \notin Range(FSISQueue')
            /\ IsInjective(FSISQueue')
        BY <2>3, <3>1, PopRange DEF PopSIS, OwnedOnce
      <3> QED BY <2>1, <2>2, <3>1, <3>2 DEF OwnedOnce, Queued
    <2>4. CASE PopASCII
      <3>1. FSISQueue' = FSISQueue /\ FASCIIQueue # << >>
        BY <2>4 DEF PopASCII
      <3>2. /\ WorkItem' \in Item
            /\ Range(FASCIIQueue) = Range(FASCIIQueue') \cup {WorkItem'}
            /\ WorkItem' \notin Range(FASCIIQueue')
            /\ IsInjective(FASCIIQueue')
        BY <2>4, <3>1, PopRange DEF PopASCII, OwnedOnce
      <3> QED BY <2>1, <2>2, <3>1, <3>2 DEF OwnedOnce, Queued
    <2>5. CASE PopNothing
      <3>1. InHand' = {}
        BY <2>2, <2>5 DEF PopNothing
      <3> QED BY <2>1, <2>5, <3>1, OwnersUnchanged DEF PopNothing
    <2> QED BY <1>18, <2>3, <2>4, <2>5 DEF Pop
  <1>19. CASE PopRelease
    BY <1>19, OwnersUnchanged DEF PopRelease, InHand, Adding
  <1>20. CASE BeginExchange
    BY <1>20, OwnersUnchanged DEF BeginExchange, InHand, Adding
  <1>21. CASE ProcessRaises
    BY <1>21, OwnersUnchanged DEF ProcessRaises, InHand, Adding
  <1>22. CASE EndExchange
    BY <1>22, OwnersUnchanged DEF EndExchange, InHand, Adding
  <1>23. CASE TailAcquire
    BY <1>23, OwnersUnchanged DEF TailAcquire, InHand, Adding
  <1>24. CASE TailRelease
    BY <1>24, OwnersUnchanged DEF TailRelease, InHand, Adding
  <1>25. CASE UNCHANGED vars
    BY <1>25, OwnersUnchanged DEF vars, InHand, Adding
  <1> QED
    BY <1>1, <1>2, <1>3, <1>4, <1>5, <1>6, <1>7, <1>8, <1>9, <1>10, <1>11, <1>12,
       <1>13, <1>14, <1>15, <1>16, <1>17, <1>18, <1>19, <1>20, <1>21, <1>22, <1>23,
       <1>24, <1>25
       DEF Next, UINext, WorkerNext, Finished

-----------------------------------------------------------------------------
(* The inductive invariant and its consequences. *)

LEMMA InitInv == Init => Inv
  <1> SUFFICES ASSUME Init PROVE Inv
    OBVIOUS
  <1> USE ItemAssumption DEF Init
  <1>1. TypeOK
    BY EmptySeq DEF TypeOK, WorkerPC, UIPC, Request, NoRequest, Nobody, UI, Worker
  <1>2. PCInv
    BY DEF PCInv, LockPC, ThreadPC, LocalPC, ProcessingPC, InHand, NoRequest,
           Nobody, UI, Worker
  <1>3. Range(FSISQueue) = {} /\ Range(FASCIIQueue) = {}
    BY DEF Range
  <1>4. OwnedOnce
    BY <1>3 DEF OwnedOnce, Queued, InHand, Adding, NoRequest, IsInjective
  <1>5. NoLostWakeup
    BY <1>3 DEF NoLostWakeup, Queued
  <1> QED BY <1>1, <1>2, <1>4, <1>5 DEF Inv

LEMMA NextInv == Inv /\ [Next]_vars => Inv'
  BY TypeStep, LockStep, ThreadStep, LocalStep, ProcessingStep, WakeupStep, OwnedStep
     DEF Inv, PCInv

\* Type correctness, the two threads' program counters, the ownership of the work
\* items and the event hold together in every reachable state of the worker.
THEOREM Invariance == Spec => []Inv
  <1>1. Init => Inv
    BY InitInv
  <1>2. Inv /\ [Next]_vars => Inv'
    BY NextInv
  <1> QED BY <1>1, <1>2, PTL DEF Spec

\* No work item is freed twice or freed before it was allocated, for any number of
\* items and whatever the allocator recycles.
THEOREM TypeCorrect == Spec => []TypeOK
  <1>1. Inv => TypeOK
    BY DEF Inv
  <1> QED BY <1>1, Invariance, PTL

\* Every allocated work item has exactly one owner in AddWork, the queues, Execute
\* and OnWorkComplete, also when an exchange raises.
THEOREM Ownership == Spec => []OwnedOnce
  <1>1. Inv => OwnedOnce
    BY DEF Inv
  <1> QED BY <1>1, Invariance, PTL

\* Execute never sleeps on an event nobody will set while work is queued.
THEOREM NoSleepOnWork == Spec => []NoLostWakeup
  <1>1. Inv => NoLostWakeup
    BY DEF Inv
  <1> QED BY <1>1, Invariance, PTL

\* IsAllFinished tells the truth whenever the worker is outside its critical sections.
THEOREM IdleIsIdle == Spec => []AllFinishedMeansIdle
  <1>1. Inv => AllFinishedMeansIdle
    BY DEF Inv, PCInv, ProcessingPC, AllFinishedMeansIdle, IsAllFinished
  <1> QED BY <1>1, Invariance, PTL

\* If BuildSISTelegram raises for no item, Destroy leaves no work item behind.
THEOREM NoLeak == Raising = {} => (Spec => []NothingLeaked)
  <1> SUFFICES ASSUME Raising = {} PROVE Spec => []NothingLeaked
    OBVIOUS
  <1>1. Inv => NothingLeaked
    <2> SUFFICES ASSUME Inv, upc = "freed", NEW i \in Item PROVE heap[i] # "live"
      BY DEF NothingLeaked
    <2>1. wpc = "exited" /\ FSISQueue = << >> /\ FASCIIQueue = << >>
      BY DEF Inv, PCInv, ThreadPC, LocalPC
    <2>2. Queued = {}
      BY <2>1 DEF Queued, Range
    <2>3. InHand = {}
      BY <2>1 DEF InHand
    <2>4. Adding = {}
      BY DEF Inv, PCInv, LocalPC, Adding
    <2> QED BY <2>2, <2>3, <2>4 DEF Inv, OwnedOnce
  <1> QED BY <1>1, Invariance, PTL

-----------------------------------------------------------------------------
(* Refinement: what each step does to the queues and to the item being served. *)

LEMMA ServingOf ==
  ASSUME Inv
  PROVE  /\ wpc \in {"process", "exchange", "sync", "dead"} => Serving = WorkItem /\ Serving # NoItem
         /\ wpc = "popped" => Serving = WorkItem
         /\ wpc \in {"suspended", "loop", "wait", "signaled", "popAcquire", "synced", "tail", "exited"}
               => Serving = NoItem
  BY ItemAssumption DEF Inv, PCInv, LocalPC, TypeOK, WorkerPC, Serving, InHand

\* A step that touches neither queue, nor Terminated, nor the item being served, is
\* a stuttering step of WorkQueue.
LEMMA Stutter ==
  ASSUME UNCHANGED <<FSISQueue, FASCIIQueue, Serving, Terminated>>
  PROVE  [Abstract!Next]_(Abstract!vars)
  BY DEF Abstract!vars

LEMMA RefineStep ==
  ASSUME Inv, Inv', [Next]_vars
  PROVE  [Abstract!Next]_(Abstract!vars)
  <1> USE DEF queueVars, workerVars, uiVars
  <1>1. CASE StartComms
    BY <1>1, Stutter DEF StartComms, Serving, InHand, Inv, PCInv, ThreadPC
  <1>2. ASSUME NEW i \in Item, NEW sis \in BOOLEAN, NEW prio \in BOOLEAN, AddWork(i, sis, prio)
        PROVE  [Abstract!Next]_(Abstract!vars)
    BY <1>2, Stutter DEF AddWork, Serving, InHand
  <1>3. CASE AddAcquire
    BY <1>3, Stutter DEF AddAcquire, Serving, InHand
  <1>4. CASE AddInsert
    <2> DEFINE x == request.item
    <2>1. x \in Item /\ x \notin Queued \cup InHand
      BY <1>4 DEF AddInsert, Adding, Inv, OwnedOnce, PCInv, LocalPC, TypeOK, Request
    <2>2. x # Serving
      BY <2>1, ItemAssumption DEF Serving, InHand
    <2>3. ~Terminated /\ UNCHANGED <<Serving, Terminated>>
      BY <1>4 DEF AddInsert, Serving, InHand, Inv, PCInv, ThreadPC
    <2>4. \/ FSISQueue' \in {Append(FSISQueue, x), <<x>> \o FSISQueue} /\ UNCHANGED FASCIIQueue
          \/ FASCIIQueue' \in {Append(FASCIIQueue, x), <<x>> \o FASCIIQueue} /\ UNCHANGED FSISQueue
      BY <1>4 DEF AddInsert, Inserted
    <2>5. x \notin Abstract!Waiting \cup {Serving}
      BY <2>1, <2>2 DEF Abstract!Waiting, Queued, Abstract!Range, Range
    <2> HIDE DEF x
    <2>6. Abstract!Submit(x)
      BY <2>3, <2>4, <2>5 DEF Abstract!Submit
    <2> QED BY <2>1, <2>6 DEF Abstract!Next
  <1>5. CASE AddSignal
    BY <1>5, Stutter DEF AddSignal, Serving, InHand
  <1>6. CASE UIRelease
    BY <1>6, Stutter DEF UIRelease, Serving, InHand
  <1>7. CASE CallBlocking
    BY <1>7, Stutter DEF CallBlocking, Serving, InHand
  <1>8. CASE BlockingAcquire
    BY <1>8, Stutter DEF BlockingAcquire, Serving, InHand
  <1>9. CASE BlockingDone
    BY <1>9, Stutter DEF BlockingDone, Serving, InHand
  <1>10. CASE OnWorkComplete
    <2>1. Serving # NoItem /\ Serving' = NoItem
      BY <1>10, ServingOf DEF OnWorkComplete, Serving, InHand
    <2>2. UNCHANGED <<FSISQueue, FASCIIQueue, Terminated>>
      BY <1>10 DEF OnWorkComplete
    <2> QED BY <2>1, <2>2 DEF Abstract!Next, Abstract!Complete
  <1>11. CASE Terminate
    <2>1. ~Terminated
      BY <1>11 DEF Terminate, Inv, PCInv, ThreadPC
    <2>2. Terminated' = TRUE /\ UNCHANGED <<FSISQueue, FASCIIQueue, Serving>>
      BY <1>11 DEF Terminate, Serving, InHand
    <2> QED BY <2>1, <2>2 DEF Abstract!Next, Abstract!Close
  <1>12. CASE DestroySignal
    BY <1>12, Stutter DEF DestroySignal, Serving, InHand
  <1>13. CASE WaitForReturns
    BY <1>13, Stutter DEF WaitForReturns, Serving, InHand
  <1>14. CASE Cleanup
    <2>1. Terminated
      BY <1>14 DEF Cleanup, Inv, PCInv, ThreadPC
    <2>2. FSISQueue' = << >> /\ FASCIIQueue' = << >> /\ UNCHANGED <<Serving, Terminated>>
      BY <1>14 DEF Cleanup, Serving, InHand
    <2> QED BY <2>1, <2>2 DEF Abstract!Next, Abstract!Drop
  <1>15. CASE LoopTest
    <2>1. wpc = "loop" /\ wpc' \in {"exited", "wait"}
      BY <1>15 DEF LoopTest
    <2>2. UNCHANGED <<FSISQueue, FASCIIQueue, WorkItem, Terminated>>
      BY <1>15, Zenon DEF LoopTest
    <2> QED BY <2>1, <2>2, Stutter DEF Serving, InHand
  <1>16. CASE Wake
    <2>1. wpc = "wait" /\ wpc' \in {"signaled"}
      BY <1>16 DEF Wake
    <2>2. UNCHANGED <<FSISQueue, FASCIIQueue, WorkItem, Terminated>>
      BY <1>16, Zenon DEF Wake
    <2> QED BY <2>1, <2>2, Stutter DEF Serving, InHand
  <1>17. CASE SignaledTest
    <2>1. wpc = "signaled" /\ wpc' \in {"loop", "popAcquire"}
      BY <1>17 DEF SignaledTest
    <2>2. UNCHANGED <<FSISQueue, FASCIIQueue, WorkItem, Terminated>>
      BY <1>17, Zenon DEF SignaledTest
    <2> QED BY <2>1, <2>2, Stutter DEF Serving, InHand
  <1>18. CASE Pop
    <2>1. Serving = NoItem /\ Serving' = WorkItem' /\ Terminated' = Terminated
      BY <1>18, ServingOf DEF Pop, Serving, InHand
    <2>2. CASE PopSIS
      BY <2>1, <2>2 DEF PopSIS, Abstract!Next, Abstract!ServeSIS
    <2>3. CASE PopASCII
      BY <2>1, <2>3 DEF PopASCII, Abstract!Next, Abstract!ServeASCII
    <2>4. CASE PopNothing
      BY <2>1, <2>4, Stutter DEF PopNothing
    <2> QED BY <1>18, <2>2, <2>3, <2>4 DEF Pop
  <1>19. CASE PopRelease
    BY <1>19, Stutter DEF PopRelease, Serving, InHand
  <1>20. CASE BeginExchange
    BY <1>20, Stutter DEF BeginExchange, Serving, InHand
  <1>21. CASE ProcessRaises
    BY <1>21, Stutter DEF ProcessRaises, Serving, InHand
  <1>22. CASE EndExchange
    BY <1>22, Stutter DEF EndExchange, Serving, InHand
  <1>23. CASE TailAcquire
    BY <1>23, Stutter DEF TailAcquire, Serving, InHand
  <1>24. CASE TailRelease
    <2>1. wpc = "tail" /\ wpc' \in {"loop"}
      BY <1>24 DEF TailRelease
    <2>2. UNCHANGED <<FSISQueue, FASCIIQueue, WorkItem, Terminated>>
      BY <1>24, Zenon DEF TailRelease
    <2> QED BY <2>1, <2>2, Stutter DEF Serving, InHand
  <1>25. CASE UNCHANGED vars
    BY <1>25, Stutter DEF vars, Serving, InHand
  <1> QED
    BY <1>1, <1>2, <1>3, <1>4, <1>5, <1>6, <1>7, <1>8, <1>9, <1>10, <1>11, <1>12,
       <1>13, <1>14, <1>15, <1>16, <1>17, <1>18, <1>19, <1>20, <1>21, <1>22, <1>23,
       <1>24, <1>25
       DEF Next, UINext, WorkerNext, Finished

\* TWorkerThread with its lock, event and Synchronize implements the abstract queue:
\* SIS items first, each item served once, nothing dropped before Destroy.
THEOREM Refinement == Spec => ImplementsWorkQueue
  <1>1. Init => Abstract!Init
    BY DEF Init, Abstract!Init, Serving, InHand
  <1>2. Inv /\ Inv' /\ [Next]_vars => [Abstract!Next]_(Abstract!vars)
    BY RefineStep
  <1> QED BY <1>1, <1>2, Invariance, PTL DEF Spec, ImplementsWorkQueue, Abstract!Spec
=============================================================================
