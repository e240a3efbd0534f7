--------------------------- MODULE MCSISExchange ---------------------------
(* Finite instances of SISExchange: two drives with different values, one   *)
(* address without a drive, and a list of drive 1 that comes in segments.   *)
EXTENDS SISExchange

WorkerOnly == {"worker"}

Value1 == [setid |-> 1, par |-> "value"]
Value2 == [setid |-> 2, par |-> "value"]
List1  == [setid |-> 1, par |-> "list"]
Value3 == [setid |-> 3, par |-> "value"]

AllRequests == {Value1, Value2, List1, Value3}
ListRequest == {List1}
OneTwo == {1, 2}
None == {}
OnlyValue1 == {Value1}

\* The value of drive 1 ends in 255, so that a telegram announced one byte
\* shorter has the same sum; that of drive 2 makes the checksum zero.
Answers ==
  [r \in Request |->
     CASE r = List1  -> <<<<4, 0, 8>>, <<0, 7, 1>>>>
       [] r = Value2 -> <<<<58, 34>>>>
       [] OTHER      -> <<<<1, 255>>>>]

LateOrDamaged == {"damaged", "late"}
Noise == {"lost", "dropped", "damaged"}

\* Every byte but the length, and the length alone.
NotLength == (1..16) \ {3}
OnlyLength == {3}
=============================================================================
