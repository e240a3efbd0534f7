-------------------------------- MODULE TGM --------------------------------
(***************************************************************************)
(* The telegrams of the SIS library (Telegrams.h, Telegrams_Bitfields.h):  *)
(* how numbers become payload bytes and back, and what the bytes of a      *)
(* command are.  A byte is 0..255, a number of the widths UINT8 to UINT64  *)
(* the sequence of its bytes, the lowest first.                            *)
(***************************************************************************)
EXTENDS ByteSum, SequencesExt

\* n shifted right by 0, 8, ... 56 bits.
Shifted(n) ==
  LET rest[i \in 1..8] == IF i = 1 THEN n ELSE rest[i - 1] \div 256
  IN  rest

\* The k lowest bytes of n in two's complement, at most 8.
ToBytes(n, k) == [i \in 1..k |-> Shifted(n)[i] % 256]

Lowest(b, k) == [i \in 1..k |-> IF i <= Len(b) THEN b[i] ELSE 0]

\* b as a signed number of 8 bytes.
SignExtended(b) ==
  [i \in 1..8 |-> IF i <= Len(b) THEN b[i]
                  ELSE IF b[Len(b)] >= 128 THEN 255 ELSE 0]

\* a | b, of two bytes.
BitOr(a, b) ==
  LET bit(w) == IF (a \div w) % 2 = 1 \/ (b \div w) % 2 = 1 THEN w ELSE 0
  IN  bit(1) + bit(2) + bit(4) + bit(8) + bit(16) + bit(32) + bit(64) + bit(128)
-----------------------------------------------------------------------------
(* struct Data: its constructors and conversions.                          *)

Data8(u) == Lowest(u, 1)
Data16(u) == Lowest(u, 2)

\* Mutant: the two bytes in the middle are swapped.
Data32Swapped(u) == <<u[1], u[3], u[2], u[4]>>

Data32(u) == Lowest(u, 4)

\* The last byte is shifted by 54 (line 97), which leaves it times four.
Data64(u) == Append(Lowest(u, 7), (u[8] * 4) % 256)

toUINT8(d) == Lowest(d, 1)
toUINT16(d) == Lowest(d, 2)
toUINT32(d) == Lowest(d, 4)

(* Each byte is shifted as an int (line 131), by 32 to 56 for the upper    *)
(* four.  That is undefined: the shift goes by its count modulo 32, or     *)
(* gives 0.  The int, once negative, fills the upper half.                 *)
toUINT64(d) ==
  LET b == Lowest(d, 8)
      low == [i \in 1..4 |-> BitOr(b[i], b[i + 4])]
  IN  {SignExtended(low), SignExtended(Lowest(b, 4))}
-----------------------------------------------------------------------------
(* The bit fields of a command.                                            *)

TypeCommand == 0
SercosParamVar == {"S", "P"}
Datablock_IdentNumber == 1
Datablock_Attribute == 3
Datablock_OperationData == 7

HeaderControl(type) == type * 16
SercosParamControl(datablock) == 4 + datablock * 8 \* TxProgress_Final

SercosParamIdent(var, num) ==
  (num % 4096) + (IF var = "P" THEN 32768 ELSE 0)

(* What get_parameter_attributes takes from an attribute.                  *)
DataLen(attr) == attr[3] % 8
ScaleFactor(attr) == attr[4] % 16

Datalen == \* "2ByteParam" is 1, ... "8ByteList" is 7
  [res1 |-> 0, param2 |-> 1, param4 |-> 2, param8 |-> 3,
   list1 |-> 4, list2 |-> 5, list4 |-> 6, list8 |-> 7]
-----------------------------------------------------------------------------
(* Header and payloads of commands.                                        *)

SIS_ADDR_MASTER == 0
SIS_ADDR_SLAVE == 1
SIS_ADDR_UNIT == 1

Service ==
  [INIT_COMM |-> 3, PARAM_READ |-> 16, LIST_READ |-> 17,
   LIST_WRITE |-> 30, PARAM_WRITE |-> 31]

SercosParam(block, var, num, data) ==
  <<SercosParamControl(block), SIS_ADDR_SLAVE, 0>>
    \o ToBytes(SercosParamIdent(var, num), 2) \o data

SercosList(block, var, num, offset, size, data) ==
  <<SercosParamControl(block), SIS_ADDR_SLAVE, 0>>
    \o ToBytes(SercosParamIdent(var, num), 2)
    \o ToBytes(offset, 2) \o ToBytes(size, 2) \o data

Subservice(addr, number, data) == <<addr, number>> \o data

(* A header with set_DatL for this payload; CS is still 0.                 *)
Header(service, payload) ==
  <<2, 0, Len(payload) % 256, Len(payload) % 256,
    HeaderControl(TypeCommand), service, SIS_ADDR_MASTER, SIS_ADDR_SLAVE>>

Map(service, payload) == Header(service, payload) \o payload

\* Mutant: the sum leaves the payload's last byte out.
calc_checksumShort(tgm) ==
  [tgm EXCEPT ![2] = (256 - Total(Front(tgm))) % 256]

calc_checksum(tgm) == [tgm EXCEPT ![2] = (256 - Total(tgm)) % 256]
=============================================================================
