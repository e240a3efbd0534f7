---------------------------- MODULE SISProtocol ----------------------------
(***************************************************************************)
(* class SISProtocol: reading and writing parameters and list elements     *)
(* (SISProtocol.cpp 62-339, 408-552).  Each call is a chain of exchanges;  *)
(* an exchange is one step here (Transceive has its parts).  The telegrams *)
(* are those of TGM, byte for byte, and the drive, which is external,      *)
(* decodes them.  execute_command is in Wrapper.                          *)
(***************************************************************************)
EXTENDS TGM

CONSTANTS
  Parameter,  \* the drive's parameters, <<variant, number>>
  Attribute,  \* [datalen, scale] of each parameter
  Initial,    \* what the drive holds at first: a set of functions
  Numbers,    \* what a caller writes: num / 10^dec
  Positions,  \* of list elements
  Faults,     \* "refused": an error reaction; "serial": anything else
  MaxCalls    \* bound: calls made

ASSUME ParameterAssumption == Parameter \subseteq SercosParamVar \X (0..4095)
\* No list of 8-byte elements: what a drive makes of a header that comes as an
\* element of that size, with four bytes of data, is not known.
ASSUME AttributeAssumption ==
  Attribute \in [Parameter -> [datalen : DOMAIN Datalen \ {"list8"}, scale : 0..15]]
ASSUME NumberAssumption == Numbers \subseteq [num : Int, dec : 0..15]
ASSUME PositionAssumption == Positions \subseteq Nat \ {0}
ASSUME FaultAssumption == Faults \subseteq {"refused", "serial"}

VARIABLES
  call,   \* the call in progress or ended last, its arguments
  step,   \* its next exchange
  local,  \* datalen, scalefactor, and new_header of set_parameter_listsize
  out,    \* how the last call ended, and what it returned
  drive,  \* operation data of each parameter; a list with its header
  before, \* history: drive when the call began
  calls

vars == <<call, step, local, out, drive, before, calls>>

Lists == {p \in Parameter : Attribute[p].datalen \in {"list1", "list2", "list4"}}
Scalars == Parameter \ Lists
-----------------------------------------------------------------------------
(* The drive.                                                              *)

LengthOf(p) ==
  CASE Attribute[p].datalen \in {"res1", "list1"} -> 1
    [] Attribute[p].datalen \in {"param2", "list2"} -> 2
    [] Attribute[p].datalen \in {"param4", "list4"} -> 4
    [] OTHER -> 8

ASSUME InitialAssumption ==
  \A d \in Initial :
    /\ d \in [Parameter -> Seq(Byte)]
    /\ \A p \in Parameter :
         IF p \in Lists THEN Len(d[p]) >= 4 ELSE Len(d[p]) = LengthOf(p)

Load(t) == SubSeq(t, 9, Len(t))
Word(load, i) == load[i] + 256 * load[i + 1]

(* What a command is about, as the drive reads it.                         *)
Addressed(load) ==
  <<IF Word(load, 4) >= 32768 THEN "P" ELSE "S", Word(load, 4) % 4096>>
OffsetIn(load) == Word(load, 6)
SizeIn(load) == Word(load, 8)

\* "The sum of all telegram symbols always equals 0" (Telegrams.h 283).
Accepts(t) == Total(t) = 0 /\ t[3] = Len(t) - 8

\* An element that lies beyond the end of its list is refused.
Carries(t) ==
  /\ Accepts(t)
  /\ t[6] \in {Service.LIST_READ, Service.LIST_WRITE} =>
       OffsetIn(Load(t)) + SizeIn(Load(t)) <= Len(drive[Addressed(Load(t))])

AttributeBytes(p) ==
  <<1, 0, Datalen[Attribute[p].datalen], Attribute[p].scale>>

\* The bytes of a list after a write: its capacity cannot be changed.
ListAfter(old, offset, data) ==
  [i \in DOMAIN old |-> IF i \in {3, 4} \/ i \notin offset + 1 .. offset + Len(data)
                        THEN old[i] ELSE data[i - offset]]

(* What the drive sends in answer to t, and what it holds then.            *)
Reacts(t) ==
  LET load == Load(t)
      p == Addressed(load)
      offset == OffsetIn(load)
      Answer(data) == [data |-> data, drive |-> drive]
      Store(bytes) == [data |-> <<>>, drive |-> [drive EXCEPT ![p] = bytes]]
  IN CASE t[6] = Service.PARAM_READ /\ (load[1] \div 8) = Datablock_Attribute ->
            Answer(AttributeBytes(p))
       [] t[6] = Service.PARAM_READ /\ (load[1] \div 8) = Datablock_OperationData ->
            Answer(drive[p])
       [] t[6] = Service.PARAM_WRITE -> Store(SubSeq(load, 6, Len(load)))
       [] t[6] = Service.LIST_READ -> Answer(SubSeq(drive[p], offset + 1, offset + SizeIn(load)))
       [] t[6] = Service.LIST_WRITE ->
            Store(ListAfter(drive[p], offset, SubSeq(load, 10, Len(load))))
-----------------------------------------------------------------------------
(* The conversions of the class.                                           *)

(* std::pow(10, d).                                                        *)
Power ==
  LET power[d \in 0..15] == IF d = 0 THEN 1 ELSE 10 * power[d - 1]
  IN  power

\* Mutant: no sign is extended.
get_sized_dataUnsigned(data, datalen) == {Lowest(data, datalen) \o [i \in 1..(8 - datalen) |-> 0]}

get_sized_data(data, datalen) ==
  CASE datalen = 1 -> {SignExtended(toUINT8(data))}
    [] datalen = 2 -> {SignExtended(toUINT16(data))}
    [] datalen = 8 -> toUINT64(data)
    [] OTHER       -> {SignExtended(toUINT32(data))}

\* Mutant: words are written as 32 bits.
set_sized_dataWide(datalen, inval) ==
  CASE datalen \in {2, 4} -> Data32(inval)
    [] datalen = 8 -> Data64(inval)
    [] OTHER       -> Data8(inval)

set_sized_data(datalen, inval) ==
  CASE datalen = 2 -> Data16(inval)
    [] datalen = 4 -> Data32(inval)
    [] datalen = 8 -> Data64(inval)
    [] OTHER       -> Data8(inval)

(* static_cast<UINT64>(_data * std::pow(10, scalefactor)).  The product of *)
(* a fraction and 100 or more may lie just below the whole number meant    *)
(* (0.29 * 100, 4.1 * 100), and is then cut to the next lower one.  The    *)
(* cast of a negative number is undefined: its two's complement, or 2^63.  *)
Scaled(v, scale) == (v.num * Power[scale]) \div Power[v.dec]

Converted(v, scale) ==
  IF v.num < 0
    THEN {ToBytes(-Scaled([v EXCEPT !.num = -v.num], scale), 8),
          <<0, 0, 0, 0, 0, 0, 0, 128>>}
    ELSE LET n == Scaled(v, scale)
         IN  {ToBytes(n, 8)} \cup
             (IF scale > 1 /\ v.num % Power[v.dec] # 0 /\ n > 0
                THEN {ToBytes(n - 1, 8)} ELSE {})
-----------------------------------------------------------------------------
Idle == [of |-> "none"]
NoLocal == [datalen |-> 1, scale |-> 0, header |-> <<>>]

Init ==
  /\ call = Idle /\ step = "idle" /\ local = NoLocal
  /\ out = [ended |-> "none", value |-> <<>>, dec |-> 0]
  /\ drive \in Initial /\ before = drive
  /\ calls = 0

Begin(c, first) ==
  /\ step = "idle" /\ calls < MaxCalls
  /\ calls' = calls + 1
  /\ call' = c /\ step' = first /\ local' = NoLocal
  /\ out' = [ended |-> "none", value |-> <<>>, dec |-> 0]
  /\ before' = drive
  /\ UNCHANGED drive

CallReadParameter ==
  \E p \in Parameter, type \in {"UINT32", "UINT64", "DOUBLE", "text"} :
    /\ (p \in Lists) = (type = "text")
    /\ Begin([of |-> "read_parameter", par |-> p, type |-> type],
             IF type = "text" THEN "data" ELSE "attributes")

CallReadListelm ==
  \E p \in Lists, pos \in Positions, type \in {"UINT32", "UINT64", "DOUBLE"} :
    Begin([of |-> "read_listelm", par |-> p, pos |-> pos, type |-> type],
          "attributes")

(* The overloads for UINT32 and UINT64 convert to DOUBLE and call this     *)
(* one.                                                                    *)
CallWriteParameter ==
  \E p \in Scalars, v \in Numbers :
    Begin([of |-> "write_parameter", par |-> p, value |-> v], "attributes")

CallWriteListelm ==
  \E p \in Lists, pos \in Positions, v \in Numbers :
    Begin([of |-> "write_listelm", par |-> p, pos |-> pos, value |-> v],
          "attributes")

CallSetBaudrate ==
  \E mask \in {0, 1, 2, 4, 8} :
    Begin([of |-> "set_baudrate", mask |-> mask], "baudrate")
-----------------------------------------------------------------------------
(* The command of each exchange (transceive_param, transceive_list).       *)

ParamTelegram(service, block, data) ==
  calc_checksum(Map(service, SercosParam(block, call.par[1], call.par[2], data)))

ListTelegram(service, offset, data) ==
  calc_checksum(Map(service,
    SercosList(Datablock_OperationData, call.par[1], call.par[2],
               offset, local.datalen, data)))

AttributesTelegram == ParamTelegram(Service.PARAM_READ, Datablock_Attribute, <<>>)

\* Mutant: elements are counted from the start of the list.
ListOffsetFromZero == (call.pos - 1) * local.datalen

ListOffset == call.pos * local.datalen

DataTelegrams ==
  CASE call.of = "read_parameter" ->
         {ParamTelegram(Service.PARAM_READ, Datablock_OperationData, <<>>)}
    [] call.of = "read_listelm" ->
         {ListTelegram(Service.LIST_READ, ListOffset, <<>>)}
    [] call.of = "write_parameter" ->
         {ParamTelegram(Service.PARAM_WRITE, Datablock_OperationData,
                        set_sized_data(local.datalen, u)) :
            u \in Converted(call.value, local.scale)}
    [] call.of = "write_listelm" ->
         {ListTelegram(Service.LIST_WRITE, ListOffset,
                       set_sized_data(local.datalen, u)) :
            u \in Converted(call.value, local.scale)}

(* set_baudrate does not call calc_checksum: the drive does not answer,    *)
(* and no step but Throws follows.                                         *)
BaudrateTelegram ==
  Map(Service.INIT_COMM, Subservice(SIS_ADDR_UNIT, 7, <<call.mask>>))

Telegrams ==
  CASE step = "attributes" -> {AttributesTelegram}
    [] step = "header" -> {ListTelegram(Service.LIST_READ, 0, <<>>)}
    [] step = "resize" -> {ListTelegram(Service.LIST_WRITE, 0, local.header)}
    [] step = "data" -> DataTelegrams
    [] step = "baudrate" -> {BaudrateTelegram}
    [] OTHER -> {}
-----------------------------------------------------------------------------
Return(value, dec) ==
  /\ step' = "idle"
  /\ out' = [ended |-> "returned", value |-> value, dec |-> dec]
  /\ UNCHANGED <<call, local, before, calls>>

(* get_parameter_attributes.                                               *)
LengthByCode(code) ==
  CASE code \in {Datalen.list2, Datalen.param2} -> 2
    [] code \in {Datalen.list4, Datalen.param4} -> 4
    [] code \in {Datalen.list8, Datalen.param8} -> 8
    [] OTHER -> 1

GetAttributes ==
  /\ step = "attributes" /\ Carries(AttributesTelegram)
  /\ LET attr == toUINT32(Reacts(AttributesTelegram).data) IN
       local' = [local EXCEPT !.datalen = LengthByCode(DataLen(attr)),
                              !.scale = ScaleFactor(attr)]
  /\ step' = IF call.of = "write_listelm" THEN "header" ELSE "data"
  /\ UNCHANGED <<call, out, drive, before, calls>>

(* What the overloads make of INT64 response, as a number of 8 bytes and a *)
(* power of ten.                                                           *)
Result(response) ==
  CASE call.type = "UINT32" -> [value |-> Lowest(response, 4), dec |-> 0]
    [] call.type = "UINT64" -> [value |-> response, dec |-> 0]
    [] call.type = "DOUBLE" -> [value |-> response, dec |-> local.scale]

Read ==
  /\ step = "data" /\ call.of \in {"read_parameter", "read_listelm"}
  /\ \E t \in Telegrams :
       /\ Carries(t)
       /\ UNCHANGED drive
       /\ IF call.type = "text" THEN Return(Reacts(t).data, 0)
          ELSE \E r \in get_sized_data(Reacts(t).data, local.datalen) :
                 Return(Result(r).value, Result(r).dec)

\* Mutant: the length counts the elements before the one that is written.
NewLengthShort == ((call.pos - 1) * local.datalen) % 65536

(* The length set_parameter_listsize gives a list, in bytes.               *)
NewLength == (call.pos * local.datalen) % 65536

(* set_parameter_listsize, whose fifth argument is never given: the list   *)
(* is to end with the element that is written.  Lists of one or two bytes  *)
(* ask for that much of the header, so that param_size_max is 0.           *)
GetListsize ==
  /\ step = "header"
  /\ \E t \in Telegrams :
       /\ Carries(t)
       /\ LET header == toUINT32(Reacts(t).data)
              max == header[3] + 256 * header[4]
          IN IF NewLength >= max
               THEN step' = "data" /\ UNCHANGED local
               ELSE /\ step' = "resize"
                    /\ local' = [local EXCEPT !.header = ToBytes(NewLength, 2) \o SubSeq(header, 3, 4)]
  /\ UNCHANGED <<call, out, drive, before, calls>>

SetListsize ==
  /\ step = "resize"
  /\ \E t \in Telegrams : Carries(t) /\ drive' = Reacts(t).drive
  /\ step' = "data"
  /\ UNCHANGED <<call, local, out, before, calls>>

Write ==
  /\ step = "data" /\ call.of \in {"write_parameter", "write_listelm"}
  /\ \E t \in Telegrams : Carries(t) /\ drive' = Reacts(t).drive
  /\ Return(<<>>, 0)

(* An exchange throws, and so does the call.  The drive may have done what *)
(* it was told if only its reaction was hit.                               *)
Throws ==
  /\ step # "idle"
  /\ \E kind \in Faults :
       /\ out' = [ended |-> kind, value |-> <<>>, dec |-> 0]
       /\ \/ UNCHANGED drive
          \/ /\ kind = "serial" /\ step \in {"resize", "data"}
             /\ \E t \in Telegrams : Carries(t) /\ drive' = Reacts(t).drive
  /\ step' = "idle"
  /\ UNCHANGED <<call, local, before, calls>>

Next ==
  \/ CallReadParameter \/ CallReadListelm \/ CallWriteParameter
  \/ CallWriteListelm \/ CallSetBaudrate
  \/ GetAttributes \/ Read \/ GetListsize \/ SetListsize \/ Write
  \/ Throws

Spec == Init /\ [][Next]_vars
-----------------------------------------------------------------------------
(* Every variable has a value of its kind.  In particular no command is    *)
(* longer than the port's buffer (check_boundaries, line 657).             *)
TypeOK ==
  /\ step \in {"idle", "attributes", "header", "resize", "data", "baudrate"}
  /\ local.datalen \in {1, 2, 4, 8} /\ local.scale \in 0..15
  /\ local.header \in Seq(Byte) /\ out.value \in Seq(Byte)
  /\ out.ended \in {"none", "returned"} \cup Faults
  /\ DOMAIN drive = Parameter
  /\ \A p \in Parameter :
       /\ drive[p] \in Seq(Byte)
       /\ Len(drive[p]) = Len(before[p])
  /\ \A t \in Telegrams : Len(t) <= 254

Returned(of) == step = "idle" /\ call.of = of /\ out.ended = "returned"

\* b as a signed integer of 8, 16 or 32 bits.
Signed(b) ==
  LET k == Len(b)
      top == IF b[k] >= 128 THEN b[k] - 256 ELSE b[k]
  IN  CASE k = 1 -> top
        [] k = 2 -> b[1] + 256 * top
        [] k = 4 -> b[1] + 256 * (b[2] + 256 * (b[3] + 256 * top))

\* toUINT64 is right below 2^31, and for nothing else (line 131).
Narrow(b) == Len(b) <= 4 \/ (b[4] < 128 /\ \A i \in 5..8 : b[i] = 0)

(* The drive answers to every command, for its bytes sum up to 0 (Telegrams.h *)
(* 282-284), except to set_baudrate's.                                     *)
CommandsAccepted ==
  \A t \in Telegrams : step # "baudrate" => Accepts(t)

(* The numbers a double holds and line 97 does not damage: below 2^48.     *)
Exact(v, scale) == v.num >= 0 /\ Shifted(Scaled(v, scale))[7] = 0

(* A call of write_parameter that returns has put the number into the      *)
(* parameter it names and into no other, in the parameter's width and      *)
(* scale; a fraction may be one unit of the last digit lower (line 285).   *)
WrittenIsHeld ==
  Returned("write_parameter") /\ Exact(call.value, Attribute[call.par].scale) =>
    LET p == call.par
        n == Scaled(call.value, Attribute[p].scale)
        fraction == call.value.num % Power[call.value.dec] # 0
    IN  \E m \in {n} \cup (IF fraction /\ Attribute[p].scale > 1 THEN {n - 1} ELSE {}) :
          drive = [before EXCEPT ![p] = ToBytes(m, LengthOf(p))]

(* A read that returns delivers the number the drive holds, with its sign  *)
(* and, to the overload for DOUBLE, its decimals (lines 88-256).           *)
ReadIsHeld ==
  \A of \in {"read_parameter", "read_listelm"} :
    Returned(of) /\ call.type # "text" =>
      LET p == call.par
          bytes == IF of = "read_parameter" THEN drive[p]
                   ELSE SubSeq(drive[p], call.pos * LengthOf(p) + 1, (call.pos + 1) * LengthOf(p))
      IN  Narrow(bytes) =>
            /\ out.value = ToBytes(Signed(Lowest(bytes, IF Len(bytes) < 4 THEN Len(bytes) ELSE 4)),
                                   IF call.type = "UINT32" THEN 4 ELSE 8)
            /\ out.dec = IF call.type = "DOUBLE" THEN Attribute[p].scale ELSE 0

\* A list: two bytes for its length, two for its capacity, then elements.
ListLength(bytes) == bytes[1] + 256 * bytes[2]
CapacityOf(bytes) == bytes[3] + 256 * bytes[4]

\* The elements of a list of four bytes that its header counts.
Elements(bytes) ==
  [i \in 1..(ListLength(bytes) \div 4) |-> SubSeq(bytes, 4 * i + 1, 4 * i + 4)]

(* A call of write_listelm that returns leaves a list of four bytes that   *)
(* ends with the element it was given, longer or shorter than it was:      *)
(* retain_following_segments is false (lines 473-476).  Wrapper.h 314,     *)
(* "List length will not be extended automatically", is not true of these  *)
(* lists.  It is true of the last element there is room for (line 479) and *)
(* of lists of one or two bytes, which ask for too little of the header to *)
(* see the capacity (line 461): they keep their length.  Elements are      *)
(* counted from the start of the header of four bytes, so that the 11th of *)
(* four bytes is at 0x2C (line 334; Telegrams.h 570 has 0x28).             *)
ListEndsWithWritten ==
  Returned("write_listelm") =>
    LET p == call.par
        offset == call.pos * LengthOf(p)
        list == Elements(drive[p])
        n == Scaled(call.value, Attribute[p].scale)
    IN  IF LengthOf(p) = 4 /\ offset < CapacityOf(drive[p])
          THEN /\ Len(list) = call.pos
               /\ Exact(call.value, Attribute[p].scale) =>
                    \E m \in {n} \cup (IF Attribute[p].scale > 1 THEN {n - 1} ELSE {}) :
                      Last(list) = ToBytes(m, 4)
          ELSE offset >= 4 /\ offset < 65536 => ListLength(drive[p]) = ListLength(before[p])

(* Whatever call is in progress, and however it ends: no other parameter   *)
(* changes, and of a list only the element that is written and, if it is   *)
(* one of four bytes, its length.                                          *)
NothingElseChanged ==
  call # Idle =>
    \A p \in Parameter :
      /\ call.of \notin {"write_parameter", "write_listelm"} \/ p # call.par =>
           drive[p] = before[p]
      /\ p \in Lists /\ call.of = "write_listelm" =>
           \A i \in (DOMAIN drive[p]) \ (IF LengthOf(p) = 4 THEN {1, 2} ELSE {}) :
             i \notin call.pos * LengthOf(p) + 1 .. (call.pos + 1) * LengthOf(p) =>
               drive[p][i] = before[p][i]
=============================================================================
