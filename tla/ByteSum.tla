------------------------------- MODULE ByteSum -------------------------------
(***************************************************************************)
(* The sum both implementations of the protocol check a telegram with: its *)
(* bytes are added from the first to the last, and the lowest byte of what *)
(* comes out is kept.                                                      *)
(***************************************************************************)
EXTENDS Integers, Sequences

Byte == 0..255

\* The sum of the first i bytes, for every i.
PartialSums(bytes) ==
  LET sum[i \in 0..Len(bytes)] ==
        IF i = 0 THEN 0 ELSE (sum[i - 1] + bytes[i]) % 256
  IN  sum

Total(bytes) == PartialSums(bytes)[Len(bytes)]
=============================================================================
