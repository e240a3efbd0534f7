----------------------------- MODULE WorkQueue -----------------------------
(***************************************************************************)
(* What the communication worker promises its callers, without threads,    *)
(* locks or events: two queues of work items served one at a time, the SIS *)
(* queue before the ASCII queue, every item handed to the completion       *)
(* callback at most once, and the remaining items dropped only when the    *)
(* worker is closed.  CommWorker is shown to implement this module.        *)
(***************************************************************************)
EXTENDS Sequences, Functions

CONSTANTS Item,    \* work items (heap allocated TPARAMETERDATA records)
          NoItem   \* the nil pointer

VARIABLES sisQueue,    \* items waiting for a SIS exchange
          asciiQueue,  \* items waiting for an ASCII exchange
          serving,     \* the item the worker holds, or NoItem
          closed       \* the worker has been asked to end

vars == <<sisQueue, asciiQueue, serving, closed>>

Waiting == Range(sisQueue) \cup Range(asciiQueue)

Init ==
  /\ sisQueue = << >>
  /\ asciiQueue = << >>
  /\ serving = NoItem
  /\ closed = FALSE

\* AddWork, not blocking: plain items go to the tail, priority items to the head.
Submit(i) ==
  /\ ~closed
  /\ i \notin Waiting \cup {serving}
  /\ \/ sisQueue' \in {Append(sisQueue, i), <<i>> \o sisQueue} /\ UNCHANGED asciiQueue
     \/ asciiQueue' \in {Append(asciiQueue, i), <<i>> \o asciiQueue} /\ UNCHANGED sisQueue
  /\ UNCHANGED <<serving, closed>>

ServeSIS ==
  /\ serving = NoItem
  /\ sisQueue # << >>
  /\ serving' = Head(sisQueue)
  /\ sisQueue' = Tail(sisQueue)
  /\ UNCHANGED <<asciiQueue, closed>>

ServeASCII ==
  /\ serving = NoItem
  /\ sisQueue = << >>
  /\ asciiQueue # << >>
  /\ serving' = Head(asciiQueue)
  /\ asciiQueue' = Tail(asciiQueue)
  /\ UNCHANGED <<sisQueue, closed>>

Complete ==
  /\ serving # NoItem
  /\ serving' = NoItem
  /\ UNCHANGED <<sisQueue, asciiQueue, closed>>

Close ==
  /\ ~closed
  /\ closed' = TRUE
  /\ UNCHANGED <<sisQueue, asciiQueue, serving>>

\* The items still queued are dropped, but never the one being served.
Drop ==
  /\ closed
  /\ sisQueue' = << >>
  /\ asciiQueue' = << >>
  /\ UNCHANGED <<serving, closed>>

Next ==
  \/ \E i \in Item : Submit(i)
  \/ ServeSIS
  \/ ServeASCII
  \/ Complete
  \/ Close
  \/ Drop

Spec == Init /\ [][Next]_vars
=============================================================================
