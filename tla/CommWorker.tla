----------------------------- MODULE CommWorker -----------------------------
(***************************************************************************)
(* source/commworker.pas: TWorkerThread and the calls the main (UI) thread *)
(* makes on it through TWorkManager.  Two threads share two queues under   *)
(* FLock, an auto-reset event FEvent, and the Synchronize hand-over that   *)
(* runs OnWorkComplete of apps/drivetop/main.pas in the UI thread.         *)
(*                                                                         *)
(* Each step below is what one thread does between two points at which the *)
(* other thread can see a difference.  The exchange with the drive itself  *)
(* is only a begin and an end here; SISExchange has its bytes.              *)
(***************************************************************************)
EXTENDS Sequences, Functions

CONSTANTS Item,     \* heap blocks a TPARAMETERDATA copy can be allocated in
          NoItem,   \* nil
          Raising,  \* items whose BuildSISTelegram raises (write to a read-only parameter)
          Recycled  \* blocks the allocator may hand out again after Dispose

ASSUME ItemAssumption ==
  /\ NoItem \notin Item
  /\ Raising \subseteq Item
  /\ Recycled \subseteq Item

VARIABLES
  heap,             \* [Item -> state of the block]: New, Dispose
  FSISQueue, FASCIIQueue,
  FLock,            \* owner of the critical section
  FEvent,           \* TEvent created with ManualReset = False
  FIsProcessing,
  FCurrentWorkData,
  Terminated,       \* TThread.Terminated
  WorkItem, SISWork,\* locals of Execute
  wpc,              \* where the worker thread is
  upc,              \* where the UI thread is
  request           \* what the UI thread is calling with

queueVars  == <<FSISQueue, FASCIIQueue>>
workerVars == <<wpc, WorkItem, SISWork>>
uiVars     == <<upc, request>>
vars == <<heap, FSISQueue, FASCIIQueue, FLock, FEvent, FIsProcessing,
          FCurrentWorkData, Terminated, WorkItem, SISWork, wpc, upc, request>>

Nobody == "nobody"
UI     == "ui"
Worker == "worker"

WorkerPC == {"suspended", "loop", "wait", "signaled", "popAcquire", "popped", "process",
             "exchange", "sync", "synced", "tail", "exited", "dead"}
UIPC     == {"create", "messages", "acquire", "insert", "signal", "release",
             "blockingAcquire", "blockingExchange", "terminate", "waitFor",
             "cleanup", "freed"}

NoRequest == [item |-> NoItem, sis |-> FALSE, prio |-> FALSE]
Request   == [item : Item \cup {NoItem}, sis : BOOLEAN, prio : BOOLEAN]

Queued == Range(FSISQueue) \cup Range(FASCIIQueue)

\* Dispose of a set of blocks.  Freeing a block that is not allocated corrupts
\* the heap, which TypeOK does not allow.
Disposed(S) ==
  [i \in Item |-> IF i \notin S THEN heap[i]
                  ELSE IF heap[i] = "live" THEN "disposed" ELSE "corrupt"]

Init ==
  /\ heap = [i \in Item |-> "unused"]
  /\ FSISQueue = << >>
  /\ FASCIIQueue = << >>
  /\ FLock = Nobody
  /\ FEvent = FALSE
  /\ FIsProcessing = FALSE
  /\ FCurrentWorkData = NoItem
  /\ Terminated = FALSE
  /\ WorkItem = NoItem
  /\ SISWork = FALSE
  /\ wpc = "suspended"
  /\ upc = "create"
  /\ request = NoRequest

-----------------------------------------------------------------------------
(* The UI thread. *)

\* FormCreate: TWorkManager.Create, WorkComplete, StartComms.
StartComms ==
  /\ upc = "create"
  /\ upc' = "messages"
  /\ wpc' = "loop"
  /\ UNCHANGED <<heap, queueVars, FLock, FEvent, FIsProcessing, FCurrentWorkData,
                 Terminated, WorkItem, SISWork, request>>

\* AddWork without blocking: a copy of the caller's record is allocated.
AddWork(i, sis, prio) ==
  /\ upc = "messages"
  /\ heap[i] = "unused" \/ (heap[i] = "disposed" /\ i \in Recycled)
  /\ heap' = [heap EXCEPT ![i] = "live"]
  /\ request' = [item |-> i, sis |-> sis, prio |-> prio]
  /\ upc' = "acquire"
  /\ UNCHANGED <<queueVars, FLock, FEvent, FIsProcessing, FCurrentWorkData,
                 Terminated, workerVars>>

AddAcquire ==
  /\ upc = "acquire"
  /\ FLock = Nobody
  /\ FLock' = UI
  /\ upc' = "insert"
  /\ UNCHANGED <<heap, queueVars, FEvent, FIsProcessing, FCurrentWorkData,
                 Terminated, workerVars, request>>

\* FSISQueue.Add / Insert(0), FASCIIQueue.Add / Insert(0).
Inserted(q) == IF request.prio THEN <<request.item>> \o q ELSE Append(q, request.item)

AddInsert ==
  /\ upc = "insert"
  /\ IF request.sis
     THEN FSISQueue' = Inserted(FSISQueue) /\ UNCHANGED FASCIIQueue
     ELSE FASCIIQueue' = Inserted(FASCIIQueue) /\ UNCHANGED FSISQueue
  /\ request' = NoRequest
  /\ upc' = "signal"
  /\ UNCHANGED <<heap, FLock, FEvent, FIsProcessing, FCurrentWorkData,
                 Terminated, workerVars>>

\* Mutant: the item is inserted but the event is not set.
AddSignalMissing ==
  /\ upc = "signal"
  /\ upc' = "release"
  /\ UNCHANGED <<heap, queueVars, FLock, FEvent, FIsProcessing, FCurrentWorkData,
                 Terminated, workerVars, request>>

AddSignal ==
  /\ upc = "signal"
  /\ FEvent' = TRUE
  /\ upc' = "release"
  /\ UNCHANGED <<heap, queueVars, FLock, FIsProcessing, FCurrentWorkData,
                 Terminated, workerVars, request>>

UIRelease ==
  /\ upc = "release"
  /\ FLock' = Nobody
  /\ upc' = "messages"
  /\ UNCHANGED <<heap, queueVars, FEvent, FIsProcessing, FCurrentWorkData,
                 Terminated, workerVars, request>>

\* AddWork with blocking, ProcessSISRaw and ProcessASCIIRaw: the exchange runs in
\* the UI thread, on the caller's record, with FLock held.
CallBlocking ==
  /\ upc = "messages"
  /\ upc' = "blockingAcquire"
  /\ UNCHANGED <<heap, queueVars, FLock, FEvent, FIsProcessing, FCurrentWorkData,
                 Terminated, workerVars, request>>

BlockingAcquire ==
  /\ upc = "blockingAcquire"
  /\ FLock = Nobody
  /\ FLock' = UI
  /\ upc' = "blockingExchange"
  /\ UNCHANGED <<heap, queueVars, FEvent, FIsProcessing, FCurrentWorkData,
                 Terminated, workerVars, request>>

\* The exchange ends with an answer, a failure or an exception: "finally" releases.
BlockingDone ==
  /\ upc = "blockingExchange"
  /\ upc' = "release"
  /\ UNCHANGED <<heap, queueVars, FLock, FEvent, FIsProcessing, FCurrentWorkData,
                 Terminated, workerVars, request>>

\* CheckSynchronize in the message loop or in WaitFor: NotifyComplete calls
\* OnWorkComplete, which always ends with Dispose(CurrentWorkData).
OnWorkComplete ==
  /\ upc \in {"messages", "waitFor"}
  /\ wpc = "sync"
  /\ heap' = Disposed({FCurrentWorkData})
  /\ wpc' = "synced"
  /\ UNCHANGED <<queueVars, FLock, FEvent, FIsProcessing, FCurrentWorkData,
                 Terminated, WorkItem, SISWork, uiVars>>

\* FormDestroy: CommWorker.Free, TWorkerThread.Destroy.
Terminate ==
  /\ upc = "messages"
  /\ Terminated' = TRUE
  /\ upc' = "terminate"
  /\ UNCHANGED <<heap, queueVars, FLock, FEvent, FIsProcessing, FCurrentWorkData,
                 workerVars, request>>

\* Mutant: Destroy without FEvent.SetEvent.
DestroySignalMissing ==
  /\ upc = "terminate"
  /\ upc' = "waitFor"
  /\ UNCHANGED <<heap, queueVars, FLock, FEvent, FIsProcessing, FCurrentWorkData,
                 Terminated, workerVars, request>>

DestroySignal ==
  /\ upc = "terminate"
  /\ FEvent' = TRUE
  /\ upc' = "waitFor"
  /\ UNCHANGED <<heap, queueVars, FLock, FIsProcessing, FCurrentWorkData,
                 Terminated, workerVars, request>>

WaitForReturns ==
  /\ upc = "waitFor"
  /\ wpc \in {"exited", "dead"}
  /\ upc' = "cleanup"
  /\ UNCHANGED <<heap, queueVars, FLock, FEvent, FIsProcessing, FCurrentWorkData,
                 Terminated, workerVars, request>>

\* Mutant: the clean-up also frees the item Execute worked on last.
CleanupFreesWorkItem ==
  /\ upc = "cleanup"
  /\ FLock = Nobody
  /\ heap' = Disposed(Queued \cup {WorkItem})
  /\ FSISQueue' = << >>
  /\ FASCIIQueue' = << >>
  /\ upc' = "freed"
  /\ UNCHANGED <<FLock, FEvent, FIsProcessing, FCurrentWorkData, Terminated,
                 workerVars, request>>

\* Mutant: only the SIS queue is cleaned up.
CleanupSISOnly ==
  /\ upc = "cleanup"
  /\ FLock = Nobody
  /\ heap' = Disposed(Range(FSISQueue))
  /\ FSISQueue' = << >>
  /\ FASCIIQueue' = << >>
  /\ upc' = "freed"
  /\ UNCHANGED <<FLock, FEvent, FIsProcessing, FCurrentWorkData, Terminated,
                 workerVars, request>>

\* "Clean up any remaining items", then the queues, the lock and the event are freed.
Cleanup ==
  /\ upc = "cleanup"
  /\ FLock = Nobody
  /\ heap' = Disposed(Queued)
  /\ FSISQueue' = << >>
  /\ FASCIIQueue' = << >>
  /\ upc' = "freed"
  /\ UNCHANGED <<FLock, FEvent, FIsProcessing, FCurrentWorkData, Terminated,
                 workerVars, request>>

-----------------------------------------------------------------------------
(* The worker thread: TWorkerThread.Execute. *)

\* while (NOT Terminated) do
LoopTest ==
  /\ wpc = "loop"
  /\ wpc' = IF Terminated THEN "exited" ELSE "wait"
  /\ UNCHANGED <<heap, queueVars, FLock, FEvent, FIsProcessing, FCurrentWorkData,
                 Terminated, WorkItem, SISWork, uiVars>>

\* FEvent.WaitFor(INFINITE): the wait resets the event.
Wake ==
  /\ wpc = "wait"
  /\ FEvent
  /\ FEvent' = FALSE
  /\ wpc' = "signaled"
  /\ UNCHANGED <<heap, queueVars, FLock, FIsProcessing, FCurrentWorkData,
                 Terminated, WorkItem, SISWork, uiVars>>

\* if ((WaitResult=wrSignaled) AND (NOT Terminated))
SignaledTest ==
  /\ wpc = "signaled"
  /\ wpc' = IF Terminated THEN "loop" ELSE "popAcquire"
  /\ UNCHANGED <<heap, queueVars, FLock, FEvent, FIsProcessing, FCurrentWorkData,
                 Terminated, WorkItem, SISWork, uiVars>>

\* Mutant: FSISQueue.Delete(0) is forgotten.
PopSISKeeps ==
  /\ FSISQueue # << >>
  /\ SISWork' = TRUE
  /\ WorkItem' = Head(FSISQueue)
  /\ FIsProcessing' = TRUE
  /\ UNCHANGED queueVars

\* Mutant: the ASCII queue is served although SIS work is waiting.
PopASCIIAnyTime ==
  /\ FASCIIQueue # << >>
  /\ SISWork' = FALSE
  /\ WorkItem' = Head(FASCIIQueue)
  /\ FASCIIQueue' = Tail(FASCIIQueue)
  /\ FIsProcessing' = TRUE
  /\ UNCHANGED FSISQueue

PopSIS ==
  /\ FSISQueue # << >>
  /\ SISWork' = TRUE
  /\ WorkItem' = Head(FSISQueue)
  /\ FSISQueue' = Tail(FSISQueue)
  /\ FIsProcessing' = TRUE
  /\ UNCHANGED FASCIIQueue

PopASCII ==
  /\ FSISQueue = << >>
  /\ FASCIIQueue # << >>
  /\ SISWork' = FALSE
  /\ WorkItem' = Head(FASCIIQueue)
  /\ FASCIIQueue' = Tail(FASCIIQueue)
  /\ FIsProcessing' = TRUE
  /\ UNCHANGED FSISQueue

PopNothing ==
  /\ FSISQueue = << >>
  /\ FASCIIQueue = << >>
  /\ WorkItem' = NoItem
  /\ FIsProcessing' = FALSE
  /\ UNCHANGED <<queueVars, SISWork>>

Pop ==
  /\ wpc = "popAcquire"
  /\ FLock = Nobody
  /\ FLock' = Worker
  /\ PopSIS \/ PopASCII \/ PopNothing
  /\ wpc' = "popped"
  /\ UNCHANGED <<heap, FEvent, FCurrentWorkData, Terminated, uiVars>>

PopRelease ==
  /\ wpc = "popped"
  /\ FLock' = Nobody
  /\ wpc' = IF WorkItem = NoItem THEN "loop" ELSE "process"
  /\ UNCHANGED <<heap, queueVars, FEvent, FIsProcessing, FCurrentWorkData,
                 Terminated, WorkItem, SISWork, uiVars>>

\* ProcessSISWork, ProcessASCIIWork: FLock is not held during the exchange.
BeginExchange ==
  /\ wpc = "process"
  /\ ~(SISWork /\ WorkItem \in Raising)
  /\ wpc' = "exchange"
  /\ UNCHANGED <<heap, queueVars, FLock, FEvent, FIsProcessing, FCurrentWorkData,
                 Terminated, WorkItem, SISWork, uiVars>>

\* An exception out of BuildSISTelegram leaves Execute: the thread is finished.
ProcessRaises ==
  /\ wpc = "process"
  /\ SISWork /\ WorkItem \in Raising
  /\ wpc' = "dead"
  /\ UNCHANGED <<heap, queueVars, FLock, FEvent, FIsProcessing, FCurrentWorkData,
                 Terminated, WorkItem, SISWork, uiVars>>

\* Mutant: the worker is reported idle before the callback has run.
EndExchangeIdle ==
  /\ wpc = "exchange"
  /\ FCurrentWorkData' = WorkItem
  /\ FIsProcessing' = FALSE
  /\ wpc' = "sync"
  /\ UNCHANGED <<heap, queueVars, FLock, FEvent,
                 Terminated, WorkItem, SISWork, uiVars>>

\* FCurrentWorkData := WorkItem; Synchronize(@NotifyComplete) blocks the worker.
EndExchange ==
  /\ wpc = "exchange"
  /\ FCurrentWorkData' = WorkItem
  /\ wpc' = "sync"
  /\ UNCHANGED <<heap, queueVars, FLock, FEvent, FIsProcessing,
                 Terminated, WorkItem, SISWork, uiVars>>

TailAcquire ==
  /\ wpc = "synced"
  /\ FLock = Nobody
  /\ FCurrentWorkData' = NoItem
  /\ FLock' = Worker
  /\ wpc' = "tail"
  /\ UNCHANGED <<heap, queueVars, FEvent, FIsProcessing, Terminated,
                 WorkItem, SISWork, uiVars>>

\* Mutant: the worker does not signal itself for the work that is left.
RearmMissing ==
  IF Queued # {}
  THEN UNCHANGED <<FEvent, FIsProcessing>>
  ELSE FIsProcessing' = FALSE /\ UNCHANGED FEvent

\* The worker signals itself while work is left, and is idle otherwise.
Rearm ==
  IF Queued # {}
  THEN FEvent' = TRUE /\ UNCHANGED FIsProcessing
  ELSE FIsProcessing' = FALSE /\ UNCHANGED FEvent

\* Mutant: FLock.Release is missing after the self-signal.
TailReleaseMissing ==
  /\ wpc = "tail"
  /\ Rearm
  /\ wpc' = "loop"
  /\ UNCHANGED <<heap, queueVars, FLock, FCurrentWorkData, Terminated,
                 WorkItem, SISWork, uiVars>>

TailRelease ==
  /\ wpc = "tail"
  /\ Rearm
  /\ FLock' = Nobody
  /\ wpc' = "loop"
  /\ UNCHANGED <<heap, queueVars, FCurrentWorkData, Terminated,
                 WorkItem, SISWork, uiVars>>

-----------------------------------------------------------------------------
UINext ==
  \/ StartComms
  \/ \E i \in Item, sis, prio \in BOOLEAN : AddWork(i, sis, prio)
  \/ AddAcquire
  \/ AddInsert
  \/ AddSignal
  \/ UIRelease
  \/ CallBlocking
  \/ BlockingAcquire
  \/ BlockingDone
  \/ OnWorkComplete
  \/ Terminate
  \/ DestroySignal
  \/ WaitForReturns
  \/ Cleanup

WorkerNext ==
  \/ LoopTest
  \/ Wake
  \/ SignaledTest
  \/ Pop
  \/ PopRelease
  \/ BeginExchange
  \/ ProcessRaises
  \/ EndExchange
  \/ TailAcquire
  \/ TailRelease

\* After Destroy nothing is left to do: the only state that may have no successor.
Finished ==
  /\ upc = "freed"
  /\ UNCHANGED vars

Next == UINext \/ WorkerNext \/ Finished

Spec == Init /\ [][Next]_vars

\* A thread that can run eventually runs; the message loop and WaitFor always
\* come back to CheckSynchronize, even between two calls the user makes; a thread
\* that waits for FLock gets it, since each owner keeps it for one bounded call.
\* Calls of the user (AddWork, CallBlocking, Terminate) are never forced.
Fairness ==
  /\ WF_vars(StartComms)
  /\ SF_vars(AddAcquire) /\ SF_vars(BlockingAcquire)
  /\ WF_vars(AddInsert) /\ WF_vars(AddSignal) /\ WF_vars(UIRelease)
  /\ WF_vars(BlockingDone)
  /\ SF_vars(OnWorkComplete)
  /\ WF_vars(DestroySignal) /\ WF_vars(WaitForReturns) /\ WF_vars(Cleanup)
  /\ WF_vars(LoopTest) /\ WF_vars(Wake) /\ WF_vars(SignaledTest)
  /\ SF_vars(Pop) /\ WF_vars(PopRelease)
  /\ WF_vars(BeginExchange) /\ WF_vars(ProcessRaises) /\ WF_vars(EndExchange)
  /\ SF_vars(TailAcquire) /\ WF_vars(TailRelease)

FairSpec == Spec /\ Fairness

-----------------------------------------------------------------------------
(* Where an item can be. *)

\* The worker answers for WorkItem from the pop until OnWorkComplete disposes of
\* it, and for ever if it dies with it.
InHand == IF wpc \in {"popped", "process", "exchange", "sync", "dead"}
          THEN {WorkItem} \ {NoItem} ELSE {}

Adding == {request.item} \ {NoItem}

IsAllFinished == Queued = {} /\ ~FIsProcessing

-----------------------------------------------------------------------------
(* Properties. *)

\* Every variable has its type; in particular no block is freed twice or freed
\* without having been allocated (commworker.pas 89-113, main.pas 4130-4151).
TypeOK ==
  /\ heap \in [Item -> {"unused", "live", "disposed"}]
  /\ FSISQueue \in Seq(Item)
  /\ FASCIIQueue \in Seq(Item)
  /\ FLock \in {Nobody, UI, Worker}
  /\ FEvent \in BOOLEAN
  /\ FIsProcessing \in BOOLEAN
  /\ FCurrentWorkData \in Item \cup {NoItem}
  /\ Terminated \in BOOLEAN
  /\ WorkItem \in Item \cup {NoItem}
  /\ SISWork \in BOOLEAN
  /\ wpc \in WorkerPC
  /\ upc \in UIPC
  /\ request \in Request

\* Every allocated TPARAMETERDATA has exactly one owner - one place in one queue,
\* the worker, or the UI thread that is still adding it - and no owner holds a
\* block that has been freed: the pointer passes from AddWork to Execute to
\* OnWorkComplete without ever being shared or dropped.
OwnedOnce ==
  /\ IsInjective(FSISQueue)
  /\ IsInjective(FASCIIQueue)
  /\ Range(FSISQueue) \cap Range(FASCIIQueue) = {}
  /\ Queued \cap InHand = {}
  /\ Adding \cap (Queued \cup InHand) = {}
  /\ {i \in Item : heap[i] = "live"} = Queued \cup InHand \cup Adding

\* The auto-reset event never loses the last signal: whenever work is queued, the
\* worker is not about to sleep on an event nobody is going to set.
NoLostWakeup ==
  Queued # {} /\ wpc \in {"loop", "wait"} => FEvent \/ upc = "signal" \/ Terminated

\* IsAllFinished, evaluated while the worker is outside its critical sections, is
\* only true when no item is being exchanged or waits for its callback.
AllFinishedMeansIdle ==
  IsAllFinished /\ FLock # Worker => InHand = {} /\ wpc # "synced"

\* When TWorkerThread.Destroy is through, every work item that was ever allocated
\* has been freed, whatever the worker was doing when it was told to end.
NothingLeaked ==
  upc = "freed" => \A i \in Item : heap[i] # "live"

\* The program counters against the lock and the flags: what makes the five
\* invariants above inductive.
LockPC ==
  /\ FLock = UI <=> upc \in {"insert", "signal", "release", "blockingExchange"}
  /\ FLock = Worker <=> wpc \in {"popped", "tail"}

ThreadPC ==
  /\ wpc = "suspended" <=> upc = "create"
  /\ Terminated <=> upc \in {"terminate", "waitFor", "cleanup", "freed"}
  /\ wpc = "exited" => Terminated
  /\ upc \in {"cleanup", "freed"} => wpc \in {"exited", "dead"}
  /\ upc \in {"create", "freed"} => FSISQueue = << >> /\ FASCIIQueue = << >>

LocalPC ==
  /\ request.item # NoItem <=> upc \in {"acquire", "insert"}
  /\ wpc \in {"process", "exchange", "sync", "dead"} => WorkItem # NoItem
  /\ wpc = "sync" => FCurrentWorkData = WorkItem
  /\ wpc = "dead" => WorkItem \in Raising
  /\ wpc = "popped" /\ WorkItem = NoItem => FSISQueue = << >> /\ FASCIIQueue = << >>

ProcessingPC ==
  InHand # {} \/ wpc \in {"synced", "tail"} => FIsProcessing

PCInv == LockPC /\ ThreadPC /\ LocalPC /\ ProcessingPC

Inv == TypeOK /\ PCInv /\ OwnedOnce /\ NoLostWakeup

\* Every work item that is added is eventually freed, by its callback or by
\* Destroy, unless an exception has ended the worker (commworker.pas 419).
EveryItemFreed ==
  \A i \in Item : heap[i] = "live" ~> heap[i] = "disposed" \/ wpc = "dead"

\* Destroy always comes to its end: WaitFor pumps the Synchronize queue, so the
\* worker cannot be left waiting for the thread that waits for it.
DestroyEnds == upc = "terminate" ~> upc = "freed"

\* A blocking call gets the lock and comes back to the message loop.
BlockingCallReturns == upc = "blockingAcquire" ~> upc = "messages"

Serving == IF InHand = {} THEN NoItem ELSE WorkItem

Abstract == INSTANCE WorkQueue WITH
  sisQueue   <- FSISQueue,
  asciiQueue <- FASCIIQueue,
  serving    <- Serving,
  closed     <- Terminated

\* The worker implements the abstract queue: SIS before ASCII, plain items in the
\* order of their calls, each item served and completed at most once.
ImplementsWorkQueue == Abstract!Spec
=============================================================================
