--------------------------- MODULE MCDriveSession ---------------------------
(* Finite instances of DriveSession: two tabs, a basic pair, one realtime   *)
(* parameter and one that only drive 1 has.                                 *)
EXTENDS DriveSession, TLC

CONSTANTS idn, modes, motor, speed, extra

OneTwo == 1..2
None == {}
Either == BOOLEAN
ParameterSeq == <<idn, modes, motor, speed, extra>>
RealTime == <<speed>>
Known == {idn, modes, motor, speed}
BothProtocols == {"ASCII", "SIS"}
OnlySIS == {"SIS"}

\* Every drive has the lists, its motor's serial number and the speed.
FirstHasExtra == [a \in Bus |-> IF a = 1 THEN Par ELSE Par \ {extra}]
=============================================================================
