---------------------------- MODULE SISParameter ----------------------------
(***************************************************************************)
(* What a SIS exchange makes of a parameter: NewerParseSISResponse turns   *)
(* the bytes of a reaction into the text that is stored and shown, and     *)
(* BuildSISTelegram turns a text that is written into bytes                *)
(* (source/sis.pas, source/common.pas).  One parameter of one drive, its   *)
(* record in the store, and the texts that are read and written.           *)
(*                                                                         *)
(* A text is the format it is printed in and what it prints, one item per  *)
(* element: a number for "dec", "fixed" and "idn", the bytes for "bin",    *)
(* "binNoB" (without its final b), "hex" and "char".                       *)
(***************************************************************************)
EXTENDS ByteSum

CONSTANTS
  Attributes,  \* attributes of drive parameters: [display, size, list, decimals]
  Values(_),   \* attribute -> the operation data to look at
  MayEdit,     \* attributes of the parameters the user edits
  Undescribed, \* those whose built-in record (S-7-xxxx) has the attribute 0
  CommandMode, \* the attribute of S-0-0393 if the setup handles it
  NotTyped

Display == {"binary", "uint", "int", "hex", "char", "idn"}

ASSUME ParameterAssumption ==
  /\ \A a \in Attributes :
       /\ a.display \in Display /\ a.size \in {1, 2, 4}
       /\ a.list \in BOOLEAN /\ a.decimals \in 0..15
       /\ a.display = "idn" => a.size = 2
       /\ a.display = "char" => a.size = 1
       /\ a.display = "binary" /\ a.list => a.size > 1
       /\ \A v \in Values(a) : v \in Seq(Byte) /\ Len(v) % a.size = 0 /\ Len(v) < 65536
       /\ ~a.list => \A v \in Values(a) : Len(v) = a.size
  /\ MayEdit \cup Undescribed \cup CommandMode \subseteq Attributes
  /\ \A a \in MayEdit : ~a.list /\ a \notin Undescribed
  /\ \A a \in Undescribed : a.list \/ a.size > 1
  /\ \A a \in CommandMode :
       /\ a.display = "uint" /\ a.size = 2 /\ ~a.list /\ a.decimals = 0
       /\ a \notin Undescribed
  /\ NotTyped \notin Seq(Byte)

VARIABLES
  attr,     \* the parameter's attribute in the drive
  value,    \* the operation data in the drive, little endian
  stored,   \* the Value of its record in the store
  typed     \* the operation data whose text the user typed last

vars == <<attr, value, stored, typed>>

Text(format, items) == [fmt |-> format, items |-> items]
NoText == Text("none", << >>)

\* What is made of data whose type is not known: no branch applies.
Undecoded == Text("undecoded", << >>)

\* What a record without an attribute gets when it is first saved.
AttributeDefault == [display |-> "uint", size |-> 2, list |-> FALSE, decimals |-> 0]

Init ==
  /\ attr \in Attributes
  /\ value \in Values(attr)
  /\ stored = NoText
  /\ typed = NotTyped

-----------------------------------------------------------------------------
(* NewerParseSISResponse.                                                  *)

Word(lo, hi) == lo + 256 * hi

\* What the i-th byte of a number counts.
Weight == <<1, 256, 65536, 256 * 65536>>

\* The i-th element of n bytes behind the first skip bytes.
Element(s, skip, n, i) == SubSeq(s, skip + (i - 1) * n + 1, skip + i * n)

\* The bytes below the most significant one.
Low(bytes) ==
  CASE Len(bytes) = 1 -> 0
    [] Len(bytes) = 2 -> bytes[1]
    [] Len(bytes) = 4 -> Word(bytes[1], bytes[2]) + 65536 * bytes[3]

Top(bytes) == bytes[Len(bytes)]

\* Mutant: a word is not sign-extended on its way to DDW.Signed.
SignedWordUnextended(bytes) ==
  (IF Top(bytes) >= 128 /\ Len(bytes) # 2 THEN Top(bytes) - 256 ELSE Top(bytes))
    * Weight[Len(bytes)] + Low(bytes)

\* DB.Signed, DW.Signed or DDW.Signed, as many bytes as there are.
Signed(bytes) ==
  (IF Top(bytes) >= 128 THEN Top(bytes) - 256 ELSE Top(bytes))
    * Weight[Len(bytes)] + Low(bytes)

\* How a display prints: a byte in binary loses its b to the Delete that takes
\* the last comma from the other formats; hexadecimal has no decimals.
Format(a) ==
  CASE a.display = "binary" -> IF a.size = 1 THEN "binNoB" ELSE "bin"
    [] a.display \in {"uint", "int"} -> IF a.decimals = 0 THEN "dec" ELSE "fixed"
    [] OTHER -> a.display

\* One element as its format prints it; a list of bytes has its own branch, in
\* which they stay unsigned.
Item(a, bytes) ==
  CASE a.display = "idn" -> Word(bytes[1], bytes[2])
    [] a.display \in {"uint", "int"} -> IF a.list /\ a.size = 1 THEN bytes[1] ELSE Signed(bytes)
    [] OTHER -> bytes

\* A list comes with its length in bytes and another word in front.
Prefix(a) == IF a.list THEN 4 ELSE 0

Decoded(a, s) ==
  LET length == IF a.list THEN Word(s[1], s[2]) ELSE a.size
  IN Text(Format(a), [i \in 1..(length \div a.size) |->
                        Item(a, Element(s, Prefix(a), a.size, i))])

\* What a drive sends for an element: a list or a text has two words in front.
Payload(list, bytes) ==
  IF list THEN <<Len(bytes) % 256, Len(bytes) \div 256, 64, 0>> \o bytes ELSE bytes

-----------------------------------------------------------------------------
(* Numbers and texts of common.pas.                                        *)

\* Bits of a non-negative number, read as if they were decimal digits.
BitsAsDigits(number) ==
  LET read[n \in 0..number] == IF n = 0 THEN 0 ELSE 10 * read[n \div 2] + (n % 2)
  IN  read[number]

Digits(number) ==
  LET digits[n \in 0..number] ==
        IF n < 10 THEN <<n>> ELSE Append(digits[n \div 10], n % 10)
  IN  digits[number]

\* BinaryStringToDecimal of a decimal number: only its leading 0s and 1s count.
BinaryStringToDecimal(number) ==
  LET digits == Digits(number)
      read[i \in 0..Len(digits)] ==
        IF i = 0 THEN 0
        ELSE IF \E j \in 1..i : digits[j] > 1 THEN read[i - 1]
        ELSE 2 * read[i - 1] + digits[i]
  IN  read[Len(digits)]

\* StrToIntDef(text, 0): a decimal number, or bits without their b; nothing else.
\* More than ten digits are out of the range of a longint.
StrToIntDef(text) ==
  CASE text.fmt = "dec" /\ Len(text.items) = 1 -> text.items[1]
    [] text.fmt = "binNoB" /\ Len(text.items) = 1 -> BitsAsDigits(text.items[1][1])
    [] OTHER -> 0

\* The i-th byte of a longint in two's complement.
ByteOf(n, i) == (n \div Weight[i]) % 256

\* Mutant: always the four bytes of DDW are sent.
WrittenFour(a, n) == [i \in 1..4 |-> ByteOf(n, i)]

\* Mutant: the most significant byte first.
WrittenSwapped(a, n) == [i \in 1..a.size |-> ByteOf(n, a.size + 1 - i)]

\* The user data of a write of a single value: the low bytes of DDW.
Written(a, n) == [i \in 1..a.size |-> ByteOf(n, i)]

-----------------------------------------------------------------------------
\* A read of the value: by the timer, for the list, or blocking.  GetDriveData
\* asks for the attribute only of a parameter without a record, and every
\* parameter on the list has one, if only the built-in one.  Without an attribute
\* in it the data are not decoded, or as a word once the record was saved with the
\* default one (drive.pas 682).
ReadData ==
  /\ LET data == Payload(attr.list, value)
     IN  stored' \in IF attr \in Undescribed THEN {Undecoded, Decoded(AttributeDefault, data)}
                     ELSE {Decoded(attr, data)}
  /\ UNCHANGED <<attr, value, typed>>

\* vleParamDetailsEditingDone: the user types what would be shown for v.  The
\* reaction to a write has no data, and that is what is stored.
Edit(v) ==
  LET text == Decoded(attr, v)
  IN /\ attr \in MayEdit
     /\ stored # NoText /\ text # stored
     /\ value' = Written(attr, StrToIntDef(text))
     /\ stored' = NoText
     /\ typed' = v
     /\ UNCHANGED attr

TargetPosAfter(n) == (n \div 4) % 2

\* Command value mode, read blocking; a read that fails gives no text.
CommandValueModes ==
  LET shown == Decoded(attr, value).items[1]
  IN {0, IF shown < 0 THEN 0 ELSE BinaryStringToDecimal(shown)}

\* Mutant: the next bit.
SetupWrongBit ==
  /\ attr \in CommandMode
  /\ \E raw \in CommandValueModes :
       /\ TargetPosAfter(raw) = 0
       /\ value' = Written(attr, BitsAsDigits(raw + 8))
  /\ typed' = NotTyped
  /\ UNCHANGED <<attr, stored>>

\* SetActiveDriveNumber over SIS: read the command value mode, set TargetPosAfter
\* if it is not set, write the bits without a b (DirectDrive is false).
Setup ==
  /\ attr \in CommandMode
  /\ \E raw \in CommandValueModes :
       /\ TargetPosAfter(raw) = 0
       /\ value' = Written(attr, BitsAsDigits(raw + 4))
  /\ typed' = NotTyped
  /\ UNCHANGED <<attr, stored>>

Next ==
  \/ ReadData
  \/ \E v \in Values(attr) : Edit(v)
  \/ Setup

Spec == Init /\ [][Next]_vars

-----------------------------------------------------------------------------
(* What the attribute promises (common.pas 286-296).                       *)

\* The value of an element, most significant byte last.
Unsigned(bytes) ==
  LET sum[i \in 0..Len(bytes)] == IF i = 0 THEN 0 ELSE sum[i - 1] + bytes[i] * Weight[i]
  IN  sum[Len(bytes)]

TwosComplement(bytes) ==
  IF bytes[Len(bytes)] < 128 THEN Unsigned(bytes)
  ELSE -1 - Unsigned([i \in DOMAIN bytes |-> 255 - bytes[i]])

\* The text a reader of the attribute expects for the operation data v.
Expected(a, v) ==
  LET element(i) == [j \in 1..a.size |-> v[(i - 1) * a.size + j]]
  IN Text(Format(a), [i \in 1..(Len(v) \div a.size) |->
       CASE a.display = "int" -> TwosComplement(element(i))
         [] a.display \in {"uint", "idn"} -> Unsigned(element(i))
         [] OTHER -> element(i)])

TypeOK ==
  /\ attr \in Attributes
  /\ value \in Seq(Byte) /\ Len(value) % attr.size = 0
  /\ ~attr.list => Len(value) = attr.size
  /\ stored.fmt \in {"none", "undecoded", "bin", "binNoB", "dec", "fixed", "hex", "char", "idn"}
  /\ \A i \in DOMAIN stored.items :
       IF stored.fmt \in {"dec", "fixed", "idn"} THEN stored.items[i] \in Int
       ELSE stored.items[i] \in Seq(Byte)
  /\ typed \in Seq(Byte) \cup {NotTyped}

\* What a read stores is what the attribute says of the drive's data: no element
\* of a list is skipped, shifted or cut, and a number keeps its sign (sis.pas
\* 1029-1183 against common.pas 286-296).  It says nothing of a parameter whose
\* record has no attribute of the drive.
ShownIsValue ==
  [][ReadData /\ attr \notin Undescribed => stored' = Expected(attr, value)]_vars

\* The set-up leaves TargetPosAfter set, although what it writes are the bits of
\* a number it has read from a decimal text, as a decimal number (main.pas
\* 4606-4619: "We need TargetPosAfter = 1").
TargetPosAfterIsSet == [][Setup => TargetPosAfter(value'[1]) = 1]_vars

\* "Edit value field to update data." (main.lfm 700): after a write the drive has
\* the value whose text was typed.
WriteTakesEffect == typed # NotTyped => value = typed
=============================================================================
