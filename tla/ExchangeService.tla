-------------------------- MODULE ExchangeService --------------------------
(***************************************************************************)
(* What SISProtocol::transceiving promises the functions built on it       *)
(* (get_parameter_data, set_parameter_data and through them Wrapper.cpp):  *)
(* calls are served one at a time, and each ends with the answer to its    *)
(* own request or with an exception.  After an exception nobody is served  *)
(* again until the program is restarted, and after a call that was tried   *)
(* more than once the promise is void.                                     *)
(***************************************************************************)
EXTENDS Naturals

CONSTANTS Thread, Nobody

VARIABLES
  at,      \* where each call is
  holder,  \* the thread that is served, or was when it failed
  tries,   \* times a call was put back to wait
  count,   \* calls made
  asked,   \* the number of each thread's last call
  how,     \* how it has ended: "none", "failed" or "returned"
  from,    \* the call whose answer it has returned
  void     \* the promise is void

vars == <<at, holder, tries, count, asked, how, from, void>>

Init ==
  /\ at = [t \in Thread |-> "idle"]
  /\ holder = Nobody
  /\ tries = [t \in Thread |-> 0]
  /\ count = 0 /\ asked = [t \in Thread |-> 0]
  /\ how = [t \in Thread |-> "none"]
  /\ from = [t \in Thread |-> <<t, 0>>]
  /\ void = FALSE

Move(t, here, there) == at[t] = here /\ at' = [at EXCEPT ![t] = there]

Call(t) ==
  /\ Move(t, "idle", "lock")
  /\ count' = count + 1 /\ asked' = [asked EXCEPT ![t] = count + 1]
  /\ how' = [how EXCEPT ![t] = "none"]
  /\ from' = [from EXCEPT ![t] = <<t, 0>>]
  /\ UNCHANGED <<holder, tries, void>>

Enter(t) ==
  /\ Move(t, "lock", "inside")
  /\ holder = Nobody /\ holder' = t
  /\ UNCHANGED <<tries, count, asked, how, from, void>>

\* A thread that has failed before waits for itself.
Hang(t) ==
  /\ Move(t, "lock", "escaped") /\ holder = t
  /\ UNCHANGED <<holder, tries, count, asked, how, from, void>>

TryAgain(t) ==
  /\ Move(t, "inside", "lock")
  /\ holder = t /\ holder' = Nobody
  /\ tries' = [tries EXCEPT ![t] = @ + 1]
  /\ UNCHANGED <<count, asked, how, from, void>>

Succeed(t) ==
  /\ Move(t, "inside", "unlock") /\ holder = t
  /\ how' = [how EXCEPT ![t] = "returned"]
  /\ from' = [from EXCEPT ![t] = <<t, asked[t]>>]
  /\ UNCHANGED <<holder, tries, count, asked, void>>

Leave(t) ==
  /\ Move(t, "unlock", IF tries[t] = 0 THEN "idle" ELSE "unwind")
  /\ holder = t /\ holder' = Nobody
  /\ UNCHANGED <<tries, count, asked, how, from, void>>

\* The holder stays the holder.
Fail(t) ==
  /\ Move(t, "inside", "idle") /\ holder = t
  /\ how' = [how EXCEPT ![t] = "failed"]
  /\ tries' = [tries EXCEPT ![t] = 0]
  /\ UNCHANGED <<holder, count, asked, from, void>>

Restart ==
  /\ at' = [t \in Thread |-> "idle"]
  /\ holder' = Nobody
  /\ tries' = [t \in Thread |-> 0]
  /\ how' = [t \in Thread |-> "none"]
  /\ from' = [t \in Thread |-> <<t, 0>>]
  /\ void' = FALSE
  /\ UNCHANGED <<count, asked>>

\* From the end of a call that was tried again on, anything may happen.
Void == void' /\ (void \/ \E t \in Thread : at[t] = "unwind")

Next ==
  \/ \E t \in Thread : \/ Call(t) \/ Enter(t) \/ Hang(t) \/ TryAgain(t)
                       \/ Succeed(t) \/ Leave(t) \/ Fail(t)
  \/ Restart \/ Void

Spec == Init /\ [][Next]_vars
=============================================================================
