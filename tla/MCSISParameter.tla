--------------------------- MODULE MCSISParameter ---------------------------
(* Finite instances of SISParameter: the kinds of attribute that             *)
(* driveconstants.inc has, with operation data at the edges of each size.    *)
EXTENDS SISParameter

A(display, size, list, decimals) ==
  [display |-> display, size |-> size, list |-> list, decimals |-> decimals]

None == {}

\* The kinds in driveconstants.inc; decimals are 0 or not.
Kinds ==
  {A("binary", 2, FALSE, 0), A("char", 1, TRUE, 0), A("idn", 2, FALSE, 0), A("idn", 2, TRUE, 0)}
  \cup {A("uint", n, list, d) : n \in {2, 4}, list \in BOOLEAN, d \in {0, 4}}
  \cup {A("int", n, list, d) : n \in {2, 4}, list \in BOOLEAN, d \in {0, 3}}
  \cup {A("hex", n, list, 0) : n \in {2, 4}, list \in BOOLEAN}

\* The kinds no entry of driveconstants.inc has but a drive may use.
MoreKinds ==
  Kinds \cup {A("binary", 1, FALSE, 0), A("binary", 4, TRUE, 0), A("hex", 1, TRUE, 0)}

UnsignedWord == {A("uint", 2, FALSE, 0)}
Integral == {a \in Kinds : ~a.list /\ a.decimals = 0 /\ a.display \in {"uint", "int"}}
Unspecified == {A("uint", 4, FALSE, 4)}

Bytes1 == {<<0>>, <<5>>, <<127>>, <<128>>, <<255>>}
Bytes2 == {<<0, 0>>, <<1, 0>>, <<4, 0>>, <<255, 127>>, <<0, 128>>, <<255, 255>>, <<57, 48>>,
           <<0, 1>>, <<8, 2>>}
Bytes4 == {<<0, 0, 0, 0>>, <<1, 0, 0, 0>>, <<255, 255, 255, 127>>, <<1, 0, 0, 128>>,
           <<255, 255, 255, 255>>, <<210, 2, 150, 73>>, <<0, 128, 0, 0>>, <<0, 1, 2, 3>>}
Single(size) == CASE size = 1 -> Bytes1 [] size = 2 -> Bytes2 [] size = 4 -> Bytes4

\* Lists of up to two of these elements, and one whose length needs both bytes.
ValuesOf(a, elements) ==
  IF ~a.list THEN elements
  ELSE {<<>>, [i \in 1..260 |-> (i * 7) % 128]} \cup {x \o y : x \in elements, y \in elements}

EdgeValues(a) == ValuesOf(a, Single(a.size))

\* Unsigned numbers below half their range; a single word, the kind of S-0-0393,
\* has every number up to 255 and the bit patterns of decimal digits up to 11111.
LowerHalf(a) ==
  ValuesOf(a, {v \in Single(a.size) : a.display = "uint" => v[a.size] < 128})
  \cup IF a \in UnsignedWord
       THEN {<<n % 256, n \div 256>> : n \in 0..255 \cup {1000, 1011, 1100, 1111, 10101, 11111}}
       ELSE {}
=============================================================================
