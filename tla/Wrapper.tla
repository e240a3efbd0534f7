------------------------------ MODULE Wrapper ------------------------------
(***************************************************************************)
(* The functions of the Indradrive API (Wrapper.cpp) and the commands of   *)
(* the drive they execute (SISProtocol::execute_command).  A function is a *)
(* list of steps; a step reads or writes one parameter or list element     *)
(* (SISProtocol has their bytes, Transceive their parts) or polls, and may *)
(* throw.  The drive, its PLC and the torque switch are external.          *)
(***************************************************************************)
EXTENDS Integers, Sequences

CONSTANTS
  Thread,       \* threads of the application
  Controllers,  \* those that call more than the get functions
  Changing,     \* the functions they call
  Getting,      \* the get functions the others call
  RunSequences, \* sequences to write: the direction of each element
  Faults,       \* "refused", "serial": exchanges; "command", "torque": drive
  InitialModes, \* operation modes the drive may be in at first
  Capacity,     \* elements a list of the drive has room for
  InitialLengths, \* elements the lists may count at first
  MaxCalls      \* bound: calls made by the controllers

ASSUME ThreadAssumption == Controllers \subseteq Thread
ASSUME BoundAssumption == Capacity \in Nat \ {0} /\ MaxCalls \in Nat
ASSUME LengthAssumption == InitialLengths \subseteq 1..Capacity
ASSUME FunctionAssumption ==
  /\ Changing \subseteq
       {"sequencer_activate", "sequencer_init", "sequencer_write",
        "sequencer_softtrigger", "sequencer_hardtrigger", "speedcontrol_activate",
        "speedcontrol_init", "speedcontrol_write", "set_stdenvironment", "clear_error"}
  /\ Getting \subseteq {"sequencer_getstatus", "get_drivemode", "get_opstate",
                        "get_speed", "get_diagnostic_msg", "get_diagnostic_num"}
  /\ RunSequences \subseteq Seq({"cw", "ccw"})

VARIABLES
  ref,       \* the object and its port: "null", "closed", "open"
  call,      \* last function each thread called, its arguments
  todo,      \* the steps of it that are left
  result,    \* error code it returned
  abandoned, \* mutex_sis stays locked (Transceive)
  drive,     \* parameters, lists, commands, level and torque
  plc,       \* the PLC program that runs the sequence
  calls,
  edges,     \* history: rising edges of P-0-1372 during the last call
  broken     \* history: a function that executes commands did not end well

threadVars == <<ref, call, todo, result, abandoned>>
vars == <<threadVars, drive, plc, calls, edges, broken>>
-----------------------------------------------------------------------------
DRIVEMODE_SEQUENCER == 59
DRIVEMODE_SPEEDCONTROL == 2

Parameter == {"S32", "S36", "S44", "S138", "S265", "S349",
              "P1200", "P1203", "P1370", "P1371", "P1372"}
List == {"P4006", "P4007", "P4008", "P4009", "P4018", "P4019", "P4063", "P1389"}
Command == {"S99", "S420", "S422"}
Activates == {"sequencer_activate", "speedcontrol_activate"}
Executes == Activates \cup {"clear_error"}

Block == [Err_NoError |-> 0, OpenByCOM |-> 1, Close |-> 2, SeqInit |-> 6,
          SeqWrite |-> 7, VelCInit |-> 8, VelCWrite |-> 9, GetStatus |-> 10,
          Invalid_Pointer |-> 12]

set_error(block) == block * 16 + 1
-----------------------------------------------------------------------------
(* Steps.                                                                  *)
Read(p) == <<[do |-> "read", of |-> p]>>
Write(p, v) == <<[do |-> "write", of |-> p, val |-> v]>>
WriteElm(l, pos, v) == <<[do |-> "elm", of |-> l, pos |-> pos, val |-> v]>>
\* Read p; leave out the steps that follow if it is v.
Unless(p, v, steps) ==
  <<[do |-> "unless", of |-> p, val |-> v, skip |-> Len(steps)]>> \o steps
Await(c, status) == <<[do |-> "await", of |-> c, val |-> status]>>
\* Read P-0-1410 until its bit 0, bSeqFinished, is not set.
WhileFinished == <<[do |-> "poll", of |-> "P1410"]>>

\* Mutant: the command is not deleted.
execute_commandOnce(c) == <<[do |-> "start", of |-> c]>> \o Await(c, "ok")

execute_command(c) ==
  <<[do |-> "start", of |-> c]>> \o Await(c, "ok")
    \o <<[do |-> "delete", of |-> c]>> \o Await(c, "notset")

\* Mutant: the mode is written without a look at the current one.
change_opmodeAlways(mode) ==
  execute_command("S420") \o Write("S32", mode) \o execute_command("S422")

change_opmode(mode) ==
  Unless("S32", mode,
         execute_command("S420") \o Write("S32", mode) \o execute_command("S422"))

(* SPEEDUNITS: rotary, preferred scaling, revolutions, minutes, at the     *)
(* motor is 2 in bits 0 to 6 of S-0-0044.                                  *)
Matches(p, current, v) == IF p = "S44" THEN current % 128 = v ELSE current = v

change_units == Unless("S44", 2, Write("S44", 2))
change_language == Write("S265", 1)

(* The limits, speeds, accelerations, jerks and delays that a caller gives *)
(* call number k are k itself.                                             *)
speedcontrol_init(k) == change_units \o Write("S138", k) \o Write("S349", k)

sequencer_init(k) ==
  speedcontrol_init(k) \o Write("P1371", 0) \o Write("P1372", 0)

\* Mutant: the direction of an element is written to the one before.
WriteElementEarly(k, i, direction) ==
  WriteElm("P4007", i, k) \o WriteElm("P4008", i, k) \o WriteElm("P4063", i, k)
    \o WriteElm("P4009", i, k) \o WriteElm("P4019", i, direction)
    \o WriteElm("P4006", i, 0) \o WriteElm("P4018", i, 0)
    \o WriteElm("P4063", i, 0) \o WriteElm("P1389", i, k)

(* Lines 144-168 for i - 1.  P-0-4063 is written twice.                    *)
WriteElement(k, i, direction) ==
  WriteElm("P4007", i, k) \o WriteElm("P4008", i, k) \o WriteElm("P4063", i, k)
    \o WriteElm("P4009", i, k) \o WriteElm("P4019", i + 1, direction)
    \o WriteElm("P4006", i, 0) \o WriteElm("P4018", i, 0)
    \o WriteElm("P4063", i, 0) \o WriteElm("P1389", i, k)

sequencer_write(k, directions) ==
  LET Nine(i) == WriteElement(k, i, directions[i])
  IN  WriteElm("P4019", 1, "cw")
        \o [j \in 1..9 * Len(directions) |-> Nine((j + 8) \div 9)[((j - 1) % 9) + 1]]
        \o Write("P1370", Len(directions))

\* Mutant: the trigger is not reset before it is set.
sequencer_softtriggerNoReset ==
  Write("P1371", 0) \o WhileFinished \o Write("P1371", 1)
    \o Write("P1372", 1) \o WhileFinished

(* The loops are left when bit 0 is clear: & 0b100000 >> 5 and             *)
(* & 0b1000 >> 3 are both & 1.  iterations is never counted.               *)
sequencer_softtrigger ==
  Write("P1371", 0) \o Write("P1372", 0) \o WhileFinished
    \o Write("P1371", 1) \o Write("P1372", 0) \o Write("P1372", 1)
    \o WhileFinished

sequencer_hardtrigger ==
  Write("P1371", 0) \o Write("P1372", 0) \o Write("P1371", 1) \o Read("P1410")

speedcontrol_write(k, direction) ==
  Write("P1200", direction) \o Write("P1203", k) \o Write("S36", k)

set_stdenvironment == change_units \o change_language
clear_error == execute_command("S99")
sequencer_activate == change_opmode(DRIVEMODE_SEQUENCER)
speedcontrol_activate == change_opmode(DRIVEMODE_SPEEDCONTROL)
sequencer_getstatus == Read("P1410")
get_drivemode == Read("S32")
get_opstate == Read("P115")
get_speed == Read("S40")
get_diagnostic_msg == Read("S95")
get_diagnostic_num == Read("S390")

(* Call number k of function f, with a sequence of directions.             *)
Steps(f, k, directions) ==
  CASE f = "sequencer_activate" -> sequencer_activate
    [] f = "sequencer_init" -> sequencer_init(k)
    [] f = "sequencer_write" -> sequencer_write(k, directions)
    [] f = "sequencer_softtrigger" -> sequencer_softtrigger
    [] f = "sequencer_hardtrigger" -> sequencer_hardtrigger
    [] f = "sequencer_getstatus" -> sequencer_getstatus
    [] f = "speedcontrol_activate" -> speedcontrol_activate
    [] f = "speedcontrol_init" -> speedcontrol_init(k)
    [] f = "speedcontrol_write" -> speedcontrol_write(k, Head(directions))
    [] f = "set_stdenvironment" -> set_stdenvironment
    [] f = "get_drivemode" -> get_drivemode
    [] f = "get_opstate" -> get_opstate
    [] f = "get_speed" -> get_speed
    [] f = "get_diagnostic_msg" -> get_diagnostic_msg
    [] f = "get_diagnostic_num" -> get_diagnostic_num
    [] f = "clear_error" -> clear_error

(* The error block each function names when it catches an exception.       *)
ErrorBlock(f) ==
  CASE f \in {"sequencer_activate", "sequencer_init"} -> Block.SeqInit
    [] f \in {"sequencer_write", "sequencer_softtrigger",
              "sequencer_hardtrigger", "sequencer_getstatus"} -> Block.SeqWrite
    [] f \in {"speedcontrol_activate", "speedcontrol_init"} -> Block.VelCInit
    [] f = "speedcontrol_write" -> Block.VelCWrite
    [] OTHER -> Block.GetStatus
-----------------------------------------------------------------------------
(* The drive.                                                              *)

\* Mutant: positions count from 0.
LengthAfterFromZero(l, pos) ==
  IF l = "P4019" \/ pos >= Capacity THEN drive.list[l].len ELSE pos - 1

(* set_parameter_listsize: a list of four bytes ends with the element that *)
(* is written, unless this fills it; one of two bytes keeps its length     *)
(* (SISProtocol has the bytes).                                            *)
LengthAfter(l, pos) ==
  IF l = "P4019" \/ pos >= Capacity THEN drive.list[l].len ELSE pos

(* The element at ListOffset = _elm_pos * datalen, which counts from the   *)
(* start of a header of four bytes.  P-0-4019 has elements of two bytes,   *)
(* so that its position 1 is the second half of the header, the capacity,  *)
(* and no element (0); the other lists have elements of four bytes.        *)
ElementAt(l, pos) == IF l = "P4019" THEN pos - 1 ELSE pos

(* What the drive cannot be told: to change its mode outside of            *)
(* parameterization, to enter that with torque (SISProtocol.cpp 354), or   *)
(* to write an element it has no room for.                                 *)
Admissible(s) ==
  /\ s.do = "write" /\ s.of = "S32" => drive.level = "param"
  /\ s.do = "start" /\ s.of = "S420" => ~drive.torque
  /\ s.do = "elm" => ElementAt(s.of, s.pos) <= Capacity

Resized(s) == [drive EXCEPT !.list[s.of].len = LengthAfter(s.of, s.pos)]

(* What the drive may hold after it has done s.  It keeps the capacity of  *)
(* a list.  A command that is set already may run again or keep its status.*)
Performed(s) ==
  CASE s.do = "write"  -> {[drive EXCEPT !.par[s.of] = s.val]}
    [] s.do = "elm"    -> {[Resized(s) EXCEPT !.list[s.of].elm = [i \in 1..Capacity |->
                             IF i = ElementAt(s.of, s.pos) THEN s.val ELSE @[i]]]}
    [] s.do = "start"  -> {[drive EXCEPT !.cmd[s.of] = "busy"]} \cup
                            (IF drive.cmd[s.of] = "notset" THEN {} ELSE {drive})
    [] s.do = "delete" -> {[drive EXCEPT !.cmd[s.of] = "clearing"]}
    [] OTHER           -> {drive}

Idle == [of |-> "none", no |-> 0, directions |-> <<>>]

Init ==
  /\ ref = "null" /\ abandoned = FALSE
  /\ call = [t \in Thread |-> Idle]
  /\ todo = [t \in Thread |-> <<>>]
  /\ result = [t \in Thread |-> 0]
  /\ \E mode \in InitialModes, units \in {0, 130}, torque \in BOOLEAN,
        n \in InitialLengths :
       drive = [par |-> [p \in Parameter |-> CASE p = "S32" -> mode
                                               [] p = "S44" -> units
                                               [] p = "P1200" -> "cw"
                                               [] OTHER -> 0],
                list |-> [l \in List |-> [len |-> n,
                                          elm |-> [i \in 1..Capacity |->
                                            IF l = "P4019" THEN "cw" ELSE 0]]],
                cmd |-> [c \in Command |-> "notset"],
                level |-> "op", torque |-> torque /\ "torque" \in Faults]
  /\ plc = "ready"
  /\ calls = 0
  /\ edges = [t \in Thread |-> 0] /\ broken = FALSE
-----------------------------------------------------------------------------
(* The object.                                                             *)

Ends(t, f, code) ==
  /\ todo[t] = <<>>
  /\ call' = [call EXCEPT ![t] = [Idle EXCEPT !.of = f]]
  /\ result' = [result EXCEPT ![t] = code]
  /\ UNCHANGED <<todo, drive, plc, calls, edges, broken>>

init(t) ==
  /\ ref = "null"
  /\ ref' = "closed" /\ abandoned' = FALSE
  /\ Ends(t, "init", 0)

(* SISProtocol::open may fail when it has opened the port already.         *)
open(t) ==
  /\ \/ ref = "closed" /\ ref' = "open" /\ Ends(t, "open", 0)
     \/ ref # "null" /\ ref' \in {ref, "open"} /\ Ends(t, "open", set_error(Block.OpenByCOM))
     \/ ref = "null" /\ ref' = ref /\ Ends(t, "open", set_error(Block.Invalid_Pointer))
  /\ UNCHANGED abandoned

(* close deletes the object, and its mutex with it, without a look at the  *)
(* other threads: here it is called when they have returned, and nobody    *)
(* uses the pointer any more.                                              *)
close(t) ==
  /\ \A u \in Thread : todo[u] = <<>>
  /\ \/ ref # "null" /\ ref' = "null" /\ abandoned' = FALSE /\ Ends(t, "close", 0)
     \/ ref = "open" /\ UNCHANGED <<ref, abandoned>> /\ Ends(t, "close", set_error(Block.Close))
     \/ ref = "null" /\ UNCHANGED <<ref, abandoned>>
          /\ Ends(t, "close", set_error(Block.Invalid_Pointer))

Invoke(t, c) ==
  /\ todo[t] = <<>>
  /\ call' = [call EXCEPT ![t] = c]
  /\ IF ref = "null"
       THEN UNCHANGED todo /\ result' = [result EXCEPT ![t] = set_error(Block.Invalid_Pointer)]
       ELSE /\ todo' = [todo EXCEPT ![t] = Steps(c.of, c.no, c.directions)]
            /\ result' = [result EXCEPT ![t] = 0]
  /\ edges' = [edges EXCEPT ![t] = 0]
  /\ UNCHANGED <<ref, abandoned, drive, plc, broken>>

Change(t) ==
  /\ calls < MaxCalls /\ calls' = calls + 1
  /\ \E f \in Changing :
       \E d \in (CASE f = "sequencer_write" -> RunSequences
                   [] f = "speedcontrol_write" -> {<<"cw">>, <<"ccw">>}
                   [] OTHER -> {<<>>}) :
         Invoke(t, [of |-> f, no |-> calls + 1, directions |-> d])

Get(t) ==
  /\ \E f \in Getting : Invoke(t, [Idle EXCEPT !.of = f])
  /\ UNCHANGED calls
-----------------------------------------------------------------------------
(* The steps of a function.                                                *)

Ready(t, kinds) ==
  /\ todo[t] # <<>> /\ Head(todo[t]).do \in kinds
  /\ ref = "open" /\ ~abandoned

Goes(t, rest) ==
  /\ todo' = [todo EXCEPT ![t] = rest]
  /\ UNCHANGED <<ref, call, result, abandoned, plc, calls>>

Look(t) ==
  /\ Ready(t, {"read", "unless"})
  /\ LET s == Head(todo[t]) IN
       Goes(t, IF s.do = "unless" /\ Matches(s.of, drive.par[s.of], s.val)
                 THEN SubSeq(todo[t], s.skip + 2, Len(todo[t])) ELSE Tail(todo[t]))
  /\ UNCHANGED <<drive, edges, broken>>

Triggers(s) == s.do = "write" /\ s.of = "P1372" /\ s.val > drive.par["P1372"]

Perform(t) ==
  /\ Ready(t, {"write", "elm", "start", "delete"})
  /\ LET s == Head(todo[t]) IN
       /\ Admissible(s)
       /\ drive' \in Performed(s)
       /\ edges' = [edges EXCEPT ![t] = IF Triggers(s) THEN @ + 1 ELSE @]
  /\ Goes(t, Tail(todo[t]))
  /\ UNCHANGED broken

Returns(t, code) ==
  /\ todo' = [todo EXCEPT ![t] = <<>>]
  /\ result' = [result EXCEPT ![t] = code]
  /\ broken' = (broken \/ call[t].of \in Executes)
  /\ UNCHANGED <<ref, call, plc, calls, edges>>

\* Mutant: the loop goes on until the command has been carried out.
PendingUntilOk(status) == status # "ok"

Pending(status) == status \in {"busy", "clearing"}

(* The loops of execute_command, whose iterations are not counted either.  *)
(* Its own exceptions leave the mutex unlocked.                            *)
CheckCommand(t) ==
  /\ Ready(t, {"await"})
  /\ LET s == Head(todo[t])
         status == drive.cmd[s.of]
     IN  /\ ~Pending(status)
         /\ IF status = s.val
              THEN Goes(t, Tail(todo[t])) /\ UNCHANGED <<edges, broken>>
              ELSE Returns(t, set_error(ErrorBlock(call[t].of))) /\ UNCHANGED abandoned
  /\ UNCHANGED drive

CheckFinished(t) ==
  /\ Ready(t, {"poll"}) /\ plc # "finished"
  /\ Goes(t, Tail(todo[t]))
  /\ UNCHANGED <<drive, edges, broken>>

Throws(t) ==
  /\ Returns(t, set_error(ErrorBlock(call[t].of)))
  /\ abandoned' = TRUE

(* transceiving throws: at a closed port (after it has locked the mutex),  *)
(* at what the drive cannot be told.  An element it has no room for leaves *)
(* the length of the list alone (LengthAfter) ...                          *)
Rejected(t) ==
  /\ todo[t] # <<>> /\ ~abandoned
  /\ ref = "closed" \/ (ref = "open" /\ ~Admissible(Head(todo[t])))
  /\ UNCHANGED drive
  /\ Throws(t)

(* ... and when an exchange fails, in the middle of the step or after the  *)
(* drive has done it.                                                      *)
Fails(t) ==
  /\ todo[t] # <<>> /\ ref = "open" /\ ~abandoned
  /\ LET s == Head(todo[t]) IN
       \/ {"refused", "serial"} \cap Faults # {} /\ UNCHANGED drive
       \/ /\ {"refused", "serial"} \cap Faults # {} /\ s.do = "elm"
          /\ drive' = Resized(s)
       \/ "serial" \in Faults /\ Admissible(s) /\ drive' \in Performed(s)
  /\ Throws(t)
-----------------------------------------------------------------------------
(* The application is ended and started again.                             *)
Restart ==
  /\ broken' = (broken \/ \E t \in Thread : todo[t] # <<>> /\ call[t].of \in Executes)
  /\ ref' = "null" /\ abandoned' = FALSE
  /\ call' = [t \in Thread |-> Idle]
  /\ todo' = [t \in Thread |-> <<>>]
  /\ result' = [t \in Thread |-> 0]
  /\ edges' = [t \in Thread |-> 0]
  /\ UNCHANGED <<drive, plc, calls>>

(* S-0-0420 enters parameterization, S-0-0422 leaves it.                   *)
LevelAfter(c) ==
  CASE c = "S420" -> "param" [] c = "S422" -> "op" [] OTHER -> drive.level

CommandEnds(c) ==
  /\ Pending(drive.cmd[c])
  /\ \/ /\ drive.cmd[c] = "clearing"
        /\ drive' = [drive EXCEPT !.cmd[c] = "notset"]
     \/ /\ drive.cmd[c] = "busy"
        /\ drive' = [drive EXCEPT !.cmd[c] = "ok", !.level = LevelAfter(c)]
     \/ /\ drive.cmd[c] = "busy" /\ "command" \in Faults
        /\ \E status \in {"error", "canceled"} : drive' = [drive EXCEPT !.cmd[c] = status]
  /\ UNCHANGED <<threadVars, plc, calls, edges, broken>>

SwitchTorque ==
  /\ "torque" \in Faults /\ drive.level = "op"
  /\ drive' = [drive EXCEPT !.torque = ~@]
  /\ UNCHANGED <<threadVars, plc, calls, edges, broken>>

(* P-0-1372 or, with P-0-1371 set, the hardware input starts the sequence. *)
PlcStarts ==
  /\ plc = "ready" /\ drive.par["P1372"] + drive.par["P1371"] > 0
  /\ plc' = "started"
  /\ UNCHANGED <<threadVars, drive, calls, edges, broken>>

PlcFinishes ==
  /\ plc = "started" /\ plc' = "finished"
  /\ UNCHANGED <<threadVars, drive, calls, edges, broken>>

PlcIsReady ==
  /\ plc = "finished" /\ drive.par["P1372"] = 0 /\ plc' = "ready"
  /\ UNCHANGED <<threadVars, drive, calls, edges, broken>>

Proceeds(t) == Look(t) \/ Perform(t) \/ CheckCommand(t) \/ CheckFinished(t) \/ Rejected(t)

Next ==
  \/ \E t \in Controllers : init(t) \/ open(t) \/ close(t) \/ Change(t)
  \/ \E t \in Thread \ Controllers : Get(t)
  \/ \E t \in Thread : Proceeds(t) \/ Fails(t)
  \/ Restart
  \/ \E c \in Command : CommandEnds(c)
  \/ SwitchTorque \/ PlcStarts \/ PlcFinishes \/ PlcIsReady

Spec == Init /\ [][Next]_vars

(* Threads go on, commands of the drive end, its PLC notices a reset.      *)
Fairness ==
  /\ \A t \in Thread : WF_vars(Proceeds(t))
  /\ \A c \in Command : WF_vars(CommandEnds(c))
  /\ WF_vars(PlcIsReady)

FairSpec == Spec /\ Fairness
-----------------------------------------------------------------------------
(* Every variable has a value of its kind; the header of a list never      *)
(* counts less than one or more than it has room for.                      *)
TypeOK ==
  /\ ref \in {"null", "closed", "open"} /\ abandoned \in BOOLEAN
  /\ \A t \in Thread :
       /\ call[t].no \in 0..calls
       /\ todo[t] # <<>> => ref # "null" /\ result[t] = 0
       /\ result[t] \in {0} \cup {set_error(b) : b \in 1..12}
  /\ \A l \in List : drive.list[l].len \in 1..Capacity
  /\ \A c \in Command : drive.cmd[c] \in {"notset", "busy", "ok", "error", "canceled", "clearing"}
  /\ drive.level \in {"op", "param"} /\ drive.torque \in BOOLEAN
  /\ plc \in {"ready", "started", "finished"} /\ calls \in 0..MaxCalls

Returned(t, f) == todo[t] = <<>> /\ call[t].of = f /\ result[t] = 0
InProgress(t, fs) == todo[t] # <<>> /\ call[t].of \in fs

(* Executed commands are deleted and parameterization is left again        *)
(* (SISProtocol.cpp 375-388, Wrapper.cpp 634-641), so that the drive is    *)
(* found in operation once every such function so far has ended well.      *)
NothingLeftBehind ==
  ~broken /\ (\A t \in Thread : ~InProgress(t, Executes)) =>
    drive.level = "op" /\ \A c \in Command : drive.cmd[c] = "notset"

(* "operation change should be mainly triggered if required only"          *)
(* (Wrapper.cpp 630-631): the mode is written to the drive's flash only    *)
(* if it is another one, whatever the history of failures and restarts.    *)
FlashOnlyOnChange ==
  \A t \in Controllers :
    todo[t] # <<>> /\ Head(todo[t]).do = "write" /\ Head(todo[t]).of = "S32" =>
      drive.par["S32"] # Head(todo[t]).val

(* "Writes the whole run sequence into the device" (Wrapper.h 307): when   *)
(* sequencer_write has returned, the drive holds the elements of that call *)
(* and their number, whatever an earlier call had written or broken off;   *)
(* P-0-4063 holds the delays, which are 0.  The lists of four bytes count  *)
(* that many elements, however many they counted before                    *)
(* (SISProtocol.cpp 473-479), unless the sequence fills them.              *)
SequenceWhole ==
  \A t \in Controllers : Returned(t, "sequencer_write") =>
    LET k == call[t].no
        directions == call[t].directions
        n == Len(directions)
        Holds(l, i) == drive.list[l].elm[i]
    IN  /\ drive.par["P1370"] = n
        /\ \A i \in 1..n :
             /\ \A l \in {"P4007", "P4008", "P4009", "P1389"} : Holds(l, i) = k
             /\ \A l \in {"P4006", "P4018", "P4063"} : Holds(l, i) = 0
             /\ Holds("P4019", i) = directions[i]
        /\ n \in 1..(Capacity - 1) =>
             \A l \in List \ {"P4019"} : drive.list[l].len = n

(* A software trigger that succeeds has raised P-0-1372 exactly once,      *)
(* whatever value an earlier call had left there (Wrapper.cpp 225-229).    *)
TriggeredOnce ==
  \A t \in Controllers : Returned(t, "sequencer_softtrigger") => edges[t] = 1

(* A function returns, unless the mutex is abandoned or the trigger finds  *)
(* the sequence finished already (line 239): bit 0 stays set then.         *)
CallsReturn ==
  \A t \in Thread :
    todo[t] # <<>> ~>
      \/ todo[t] = <<>> \/ abandoned
      \/ todo[t] = WhileFinished /\ plc = "finished"

(* "bDriveStarted was not set. Input parameters cannot be accepted." (line *)
(* 238): a software trigger that succeeds has seen the sequence started.   *)
TriggeredMeansStarted ==
  \A t \in Controllers : Returned(t, "sequencer_softtrigger") => plc # "ready"
=============================================================================
