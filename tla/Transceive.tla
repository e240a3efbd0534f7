----------------------------- MODULE Transceive -----------------------------
(***************************************************************************)
(* SISProtocol::transceiving (SISProtocol.cpp 555-653): one request and    *)
(* its reaction over one serial port, by threads that share one            *)
(* SISProtocol object and its mutex_sis.                                   *)
(*                                                                         *)
(* A reaction reaches the program in pieces: the first bytes, from which   *)
(* the length cannot be read yet (line 612), the rest of the header, and   *)
(* the payload.  The port, the line and the drive are external.            *)
(***************************************************************************)
EXTENDS Naturals, Sequences

CONSTANTS
  Thread,       \* the threads that call the library
  Nobody,       \* owner of an unlocked mutex
  Faults,       \* what drive and line may do, see FaultKinds
  MaxCalls,     \* bound: exchanges begun
  MaxRetries,   \* bound: busy reactions to one exchange
  MaxRestarts   \* bound: restarts of the program

(* "busy", "refused", "bare": kinds of reaction; "short": the first bytes  *)
(* arrive alone; "serial": break, error event or an exception of CSerial;  *)
(* "lost": no reaction; "late": a reaction outlives the program's end.     *)
FaultKinds == {"busy", "refused", "bare", "short", "serial", "lost", "late"}

ASSUME ThreadAssumption == Nobody \notin Thread /\ Faults \subseteq FaultKinds
ASSUME BoundAssumption ==
  MaxCalls \in Nat /\ MaxRetries \in Nat /\ MaxRestarts \in Nat

VARIABLES
  pc,        \* where each thread is
  mutex_sis, \* the thread that has the mutex, or Nobody
  unowned,   \* history: some thread unlocked a mutex it did not have
  depth,     \* transceiving calls of a thread below the first one
  calls,     \* exchanges begun
  ticket,    \* which of them is the last one of each thread
  rcvd,      \* rx_tgm: the pieces a thread has received
  result,    \* how the last exchange of a thread ended
  drive,     \* requests the drive has not answered
  line,      \* pieces on the way to the program
  port,      \* pieces in the input buffer
  restarts

threadVars == <<pc, mutex_sis, unowned, depth, calls, ticket, rcvd, result>>
vars == <<threadVars, drive, line, port, restarts>>
-----------------------------------------------------------------------------
Request == Thread \X Nat
Req(t) == <<t, ticket[t]>>

(* The Status and Error of a reaction (lines 619, 630-642).                *)
Status == {"ok"} \cup (Faults \cap {"busy", "refused", "bare"})
Reaction == [to : Request, status : Status]
Piece == [of : Reaction, no : 1..3]

Pieces(r) ==
  [i \in 1..(IF r.status = "bare" THEN 2 ELSE 3) |-> [of |-> r, no |-> i]]

Quiet == drive = <<>> /\ line = <<>> /\ port = <<>>
Exchanging(t) == pc[t] \in {"purge", "write", "wait"}
-----------------------------------------------------------------------------
Init ==
  /\ pc = [t \in Thread |-> "idle"]
  /\ mutex_sis = Nobody /\ unowned = FALSE
  /\ depth = [t \in Thread |-> 0]
  /\ calls = 0 /\ ticket = [t \in Thread |-> 0]
  /\ rcvd = [t \in Thread |-> <<>>]
  /\ result = [t \in Thread |-> "none"]
  /\ Quiet
  /\ restarts = 0

Goto(t, where) == pc' = [pc EXCEPT ![t] = where]

(* mutex_sis.unlock().  For a mutex the thread does not have this is       *)
(* undefined: nothing happens, or the mutex is free.                       *)
Unlock(t) ==
  /\ mutex_sis' \in (IF mutex_sis = t THEN {Nobody} ELSE {mutex_sis, Nobody})
  /\ unowned' = (unowned \/ mutex_sis # t)

\* Mutant: a scoped lock, released by the exception.
ThrowUnlocks(t) ==
  /\ Goto(t, "idle")
  /\ result' = [result EXCEPT ![t] = "failed"]
  /\ depth' = [depth EXCEPT ![t] = 0]
  /\ rcvd' = [rcvd EXCEPT ![t] = <<>>]
  /\ mutex_sis' = Nobody
  /\ UNCHANGED unowned

(* An exception leaves transceiving, through every level of it.  Nothing   *)
(* unlocks the mutex.                                                      *)
Throw(t) ==
  /\ Goto(t, "idle")
  /\ result' = [result EXCEPT ![t] = "failed"]
  /\ depth' = [depth EXCEPT ![t] = 0]
  /\ rcvd' = [rcvd EXCEPT ![t] = <<>>]
  /\ UNCHANGED <<mutex_sis, unowned>>

Call(t) ==
  /\ pc[t] = "idle" /\ calls < MaxCalls
  /\ Goto(t, "lock")
  /\ calls' = calls + 1
  /\ ticket' = [ticket EXCEPT ![t] = calls + 1]
  /\ result' = [result EXCEPT ![t] = "none"]
  /\ UNCHANGED <<mutex_sis, unowned, depth, rcvd, drive, line, port, restarts>>

\* Mutant: the mutex is taken without waiting for it.
LockAlways(t) ==
  /\ pc[t] = "lock"
  /\ mutex_sis' = t
  /\ Goto(t, "purge")
  /\ rcvd' = [rcvd EXCEPT ![t] = <<>>]
  /\ UNCHANGED <<unowned, depth, calls, ticket, result, drive, line, port, restarts>>

Lock(t) ==
  /\ pc[t] = "lock" /\ mutex_sis = Nobody
  /\ mutex_sis' = t
  /\ Goto(t, "purge")
  /\ rcvd' = [rcvd EXCEPT ![t] = <<>>]
  /\ UNCHANGED <<unowned, depth, calls, ticket, result, drive, line, port, restarts>>

(* Locking the mutex it has already is undefined for a std::mutex: the     *)
(* thread waits for ever, or lock() throws what no caller catches.         *)
Relock(t) ==
  /\ pc[t] = "lock" /\ mutex_sis = t
  /\ Goto(t, "escaped")
  /\ UNCHANGED <<mutex_sis, unowned, depth, calls, ticket, rcvd, result>>
  /\ UNCHANGED <<drive, line, port, restarts>>

Purge(t) ==
  /\ pc[t] = "purge"
  /\ port' = <<>>
  /\ Goto(t, "write")
  /\ UNCHANGED <<mutex_sis, unowned, depth, calls, ticket, rcvd, result, drive, line, restarts>>

Write(t) ==
  /\ pc[t] = "write"
  /\ drive' = Append(drive, Req(t))
  /\ Goto(t, "wait")
  /\ UNCHANGED <<mutex_sis, unowned, depth, calls, ticket, rcvd, result, line, port, restarts>>

(* Break (591), an error event (595) or an exception of CSerial.           *)
SerialFails(t) ==
  /\ Exchanging(t) /\ "serial" \in Faults
  /\ Throw(t)
  /\ UNCHANGED <<calls, ticket, drive, line, port, restarts>>

(* What the loop makes of the bytes it has, lines 612-646.  Whatever does  *)
(* not begin with the start of a telegram is read as some length.          *)
Misframed(got) == got[1].no # 1

TooShort(t, got) == \* the length is still 0, or is 0
  /\ \/ Len(got) = 1
     \/ got[1].of.status = "bare"
     \/ Misframed(got)
  /\ Throw(t)

Incomplete(t, got) ==
  /\ Len(got) > 1
  /\ (Len(got) = 2 /\ got[1].of.status # "bare") \/ Misframed(got)
  /\ rcvd' = [rcvd EXCEPT ![t] = got]
  /\ UNCHANGED <<pc, mutex_sis, unowned, depth, result>>

\* Mutant: the retry does not unlock before it locks again.
CompleteLocked(t, got) ==
  /\ Len(got) > 2
  /\ \/ /\ got[3].of.status = "busy"
        /\ depth' = [depth EXCEPT ![t] = @ + 1]
        /\ Goto(t, "lock")
        /\ UNCHANGED <<mutex_sis, unowned, rcvd, result>>
     \/ /\ got[3].of.status = "refused"
        /\ Throw(t)
     \/ /\ got[3].of.status \in {"ok", "bare"}
        /\ result' = [result EXCEPT ![t] = "returned"]
        /\ rcvd' = [rcvd EXCEPT ![t] = got]
        /\ Goto(t, "unlock")
        /\ UNCHANGED <<mutex_sis, unowned, depth>>

Complete(t, got) ==
  /\ Len(got) > 2
  /\ \/ /\ got[3].of.status = "busy" \* 0x800C, 0x800B, 0x8001: once more
        /\ Unlock(t)
        /\ depth' = [depth EXCEPT ![t] = @ + 1]
        /\ Goto(t, "lock")
        /\ UNCHANGED <<rcvd, result>>
     \/ /\ got[3].of.status = "refused"
        /\ Throw(t)
     \/ /\ got[3].of.status \in {"ok", "bare"}
        /\ result' = [result EXCEPT ![t] = "returned"]
        /\ rcvd' = [rcvd EXCEPT ![t] = got]
        /\ Goto(t, "unlock")
        /\ UNCHANGED <<mutex_sis, unowned, depth>>

(* WaitEvent reports received bytes; Read takes all that have come.  A     *)
(* WaitEvent that times out changes nothing (RS232_READ_LOOPS_MAX is not   *)
(* used): the loop goes round again.                                       *)
Receive(t) ==
  /\ pc[t] = "wait" /\ port # <<>>
  /\ LET got == rcvd[t] \o port IN
       TooShort(t, got) \/ Incomplete(t, got) \/ Complete(t, got)
  /\ port' = <<>>
  /\ UNCHANGED <<calls, ticket, drive, line, restarts>>

\* Mutant: the unlock at the end is missing.
ReleaseKeeps(t) ==
  /\ pc[t] = "unlock"
  /\ Goto(t, IF depth[t] = 0 THEN "idle" ELSE "unwind")
  /\ UNCHANGED <<mutex_sis, unowned, depth, calls, ticket, rcvd, result>>
  /\ UNCHANGED <<drive, line, port, restarts>>

(* Line 652, for the innermost call ...                                    *)
Release(t) ==
  /\ pc[t] = "unlock"
  /\ Unlock(t)
  /\ Goto(t, IF depth[t] = 0 THEN "idle" ELSE "unwind")
  /\ UNCHANGED <<depth, calls, ticket, rcvd, result, drive, line, port, restarts>>

\* Mutant: one unlock too many.
UnwindOnce(t) ==
  /\ pc[t] = "unwind"
  /\ Unlock(t)
  /\ depth' = [depth EXCEPT ![t] = @ - 1]
  /\ Goto(t, IF depth[t] = 0 THEN "idle" ELSE "unwind")
  /\ UNCHANGED <<calls, ticket, rcvd, result, drive, line, port, restarts>>

(* ... and for each call around it, which has unlocked at line 638.        *)
Unwind(t) ==
  /\ pc[t] = "unwind"
  /\ Unlock(t)
  /\ depth' = [depth EXCEPT ![t] = @ - 1]
  /\ Goto(t, IF depth[t] = 1 THEN "idle" ELSE "unwind")
  /\ UNCHANGED <<calls, ticket, rcvd, result, drive, line, port, restarts>>
-----------------------------------------------------------------------------
(* The drive answers each request at most once, in order.                  *)
Answer ==
  /\ drive # <<>>
  /\ \E s \in Status :
       /\ s = "busy" => depth[Head(drive)[1]] < MaxRetries
       /\ line' = line \o Pieces([to |-> Head(drive), status |-> s])
  /\ drive' = Tail(drive)
  /\ UNCHANGED <<threadVars, port, restarts>>

Lose ==
  /\ "lost" \in Faults /\ drive # <<>>
  /\ drive' = Tail(drive)
  /\ UNCHANGED <<threadVars, line, port, restarts>>

(* Some pieces arrive together.                                            *)
Arrive ==
  /\ \E n \in 1..Len(line) :
       /\ line[n].no = 1 => "short" \in Faults
       /\ port' = port \o SubSeq(line, 1, n)
       /\ line' = SubSeq(line, n + 1, Len(line))
  /\ UNCHANGED <<threadVars, drive, restarts>>

(* The program is ended and started again: a new object, mutex and buffer. *)
Restart ==
  /\ restarts < MaxRestarts
  /\ restarts' = restarts + 1
  /\ pc' = [t \in Thread |-> "idle"]
  /\ mutex_sis' = Nobody /\ unowned' = FALSE
  /\ depth' = [t \in Thread |-> 0]
  /\ rcvd' = [t \in Thread |-> <<>>]
  /\ result' = [t \in Thread |-> "none"]
  /\ port' = <<>>
  /\ IF "late" \in Faults
       THEN UNCHANGED <<drive, line>> ELSE drive' = <<>> /\ line' = <<>>
  /\ UNCHANGED <<calls, ticket>>

ThreadStep(t) ==
  \/ Lock(t) \/ Relock(t) \/ Purge(t) \/ Write(t) \/ SerialFails(t)
  \/ Receive(t) \/ Release(t) \/ Unwind(t)

Next ==
  \/ \E t \in Thread : Call(t) \/ ThreadStep(t)
  \/ Answer \/ Lose \/ Arrive \/ Restart

Spec == Init /\ [][Next]_vars

(* The operating system runs every thread and hands the mutex on; the      *)
(* drive answers and its bytes arrive.  Nothing forces a call or a fault.  *)
Fairness ==
  /\ \A t \in Thread :
       /\ SF_vars(Lock(t))
       /\ WF_vars(Purge(t) \/ Write(t) \/ Receive(t) \/ Release(t) \/ Unwind(t))
  /\ WF_vars(Answer) /\ WF_vars(Arrive)

FairSpec == Spec /\ Fairness
-----------------------------------------------------------------------------
(* Every variable has a value of its kind; in particular the unlocks of    *)
(* the calls around a retry are counted right (lines 638-652).             *)
TypeOK ==
  /\ pc \in [Thread -> {"idle", "lock", "purge", "write", "wait", "unlock",
                        "unwind", "escaped"}]
  /\ mutex_sis \in Thread \cup {Nobody}
  /\ unowned \in BOOLEAN
  /\ depth \in [Thread -> Nat]
  /\ calls \in Nat /\ ticket \in [Thread -> Nat]
  /\ rcvd \in [Thread -> Seq(Piece)]
  /\ result \in [Thread -> {"none", "failed", "returned"}]
  /\ drive \in Seq(Request) /\ line \in Seq(Piece) /\ port \in Seq(Piece)
  /\ restarts \in Nat

(* "Lock mutex to set the semaphore" (line 560): as long as no thread has  *)
(* unlocked a mutex it did not have, no two threads use the port at once.  *)
ExchangesSerialized ==
  ~unowned => \A t, u \in Thread : Exchanging(t) /\ Exchanging(u) => t = u

(* Nothing in a reaction is compared with the request (lines 627-646).     *)
(* All the same, what an exchange returns was sent in answer to its own    *)
(* request, with the same proviso.                                         *)
AnswerIsForRequest ==
  ~unowned =>
    \A t \in Thread : result[t] = "returned" => rcvd[t][3].of.to = Req(t)

(* Purge (line 572) cannot remove what has not arrived: an exchange starts *)
(* on a line on which nothing of an earlier one is still to come.          *)
FreeMeansQuiet == mutex_sis = Nobody /\ ~unowned => Quiet

(* ExchangeService, as the callers see it: the mutex names the thread that *)
(* is served, and what has been returned is told from its third piece.     *)
At == [t \in Thread |-> IF Exchanging(t) THEN "inside" ELSE pc[t]]
AnswerOf ==
  [t \in Thread |-> IF result[t] = "returned" THEN rcvd[t][3].of.to ELSE <<t, 0>>]

Service == INSTANCE ExchangeService WITH
  at <- At, holder <- mutex_sis, tries <- depth, count <- calls,
  asked <- ticket, how <- result, from <- AnswerOf, void <- unowned

(* transceiving implements what Wrapper and SISProtocol take it for: one   *)
(* call at a time, its own answer or an exception, nobody served after     *)
(* that (lines 555-653).                                                   *)
ImplementsService == Service!Spec

(* A thread has left with the mutex (and perhaps calls again), or one      *)
(* waits for a reaction nobody will send: the loop (582-649) has no limit. *)
Stuck ==
  \/ \E t \in Thread : /\ mutex_sis = t /\ depth[t] = 0
                      /\ pc[t] \in {"idle", "lock", "escaped"}
  \/ \E t \in Thread : pc[t] = "wait" /\ Quiet

(* A call that waits for the mutex returns, unless the port gets stuck.    *)
CallsReturn == \A t \in Thread : pc[t] = "lock" ~> pc[t] = "idle" \/ Stuck

(* "Unlock mutex to unset the semaphore" (line 651): between calls the     *)
(* mutex is free.                                                          *)
IdleMeansUnlocked ==
  (\A t \in Thread : pc[t] = "idle") => mutex_sis = Nobody
=============================================================================
