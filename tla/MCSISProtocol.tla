--------------------------- MODULE MCSISProtocol ---------------------------
(* A drive with one parameter of each width and lists of each width: 36 is *)
(* an S and a P parameter, as S-0-0036 and P-0-0036 are.                   *)
EXTENDS SISProtocol

Speed == <<"S", 36>>
Other == <<"P", 36>>
Mode  == <<"S", 32>>
Count == <<"P", 1370>>
Text  == <<"S", 95>>
Modes == <<"P", 4019>>
Speeds == <<"P", 4007>>

Parameters == {Speed, Other, Mode, Count, Text, Modes, Speeds}

Kind(name, digits) == [datalen |-> name, scale |-> digits]

Attributes ==
  [p \in Parameters |->
     CASE p = Speed  -> Kind("param4", 2) [] p = Other -> Kind("param8", 0)
       [] p = Mode   -> Kind("param2", 1) [] p = Count -> Kind("res1", 0)
       [] p = Text   -> Kind("list1", 0)  [] p = Modes -> Kind("list2", 0)
       [] p = Speeds -> Kind("list4", 2)]

\* A list holds its length, its capacity and its elements: here one of two
\* or three.
Holds(b) ==
  [p \in Parameters |->
     CASE p = Speed  -> <<b, 0, 1, b>> [] p = Other -> <<3, b, 0, b, b, b, b, b>>
       [] p = Mode   -> <<7, b>>       [] p = Count -> <<b>>
       [] p = Text   -> <<2, 0, 4, 0, 79, 75, 0, 0>>
       [] p = Modes  -> <<4, 0, 6, 0, 1, b, b, 0, 9, 9>>
       [] p = Speeds -> <<4, 0, 12, 0, b, 1, 1, b, 2, 2, 2, 2, 3, 3, 3, 3>>]

TwoStates == {Holds(0), Holds(255)}

Number(n, d) == [num |-> n, dec |-> d]

\* Whole numbers at the edges of the widths, fractions, a negative number.
Written ==
  {Number(0, 0), Number(200, 0), Number(40000, 0), Number(65537, 0),
   Number(29, 2), Number(41, 1), Number(-5, 0)}

OneToFour == 1..4
Anything == {"refused", "serial"}
=============================================================================
