---------------------------- MODULE DriveSession ----------------------------
(***************************************************************************)
(* The data collection of DriveTop: the connection, the drive tab, the     *)
(* timer that walks through DCStatus, the work queued for the worker       *)
(* thread, the per-address data store and the parameter list on screen     *)
(* (apps/drivetop/main.pas with source/drive.pas and source/common.pas).   *)
(*                                                                         *)
(* A stored or shown value is abstracted to the drive that reported it.    *)
(* The wire is one step per exchange; CommWorker has the threads.          *)
(***************************************************************************)
EXTENDS Naturals, Sequences, SequencesExt

CONSTANTS
  Drives,            \* 1..MAXDRIVES: drive numbers, and the bus addresses
  Tabs,              \* the drive numbers that have a tab
  Bus,               \* the addresses of the drives on the wire
  Parameters,        \* the parameters, as the sorted list shows them
  Implements,        \* address on the bus -> the parameters of that drive
  PARAMLIST, MODELIST, MOTORSERIAL,   \* S-0-0017, S-0-0292, P-0-4088
  REALTIMEDRIVEDATA, \* the parameters read at every tick
  Defaults,          \* the parameters described in the built-in table
  AutoLoads,         \* the settings of chkAutoLoadDriveData to look at
  Saved,             \* the drives whose SN_<serial>.par exists
  Protocols,         \* the serial protocols offered: ASCII, SIS
  Lossy,             \* an answer may fail to arrive
  MayReaddress,      \* the user uses the address buttons
  MaxClicks,         \* bound: user actions
  MaxBacklog,        \* bound: items still queued when the timer fires
  Empty,             \* the empty text
  Garbled,           \* a SIS error reply, decoded as if it were data
  NotShown,          \* no line in lvParameters
  NoItem             \* the worker has no finished item in hand

Par == Range(Parameters)
BASICDRIVEDATA == <<MOTORSERIAL, MODELIST>>
Mode == {"ASCII", "SIS"}
Value == Bus \union {Empty, Garbled}

ASSUME DriveAssumption ==
  /\ Drives \subseteq Nat \ {0} /\ Tabs \subseteq Drives /\ Bus \subseteq Drives
  /\ Parameters \in Seq(Par) /\ REALTIMEDRIVEDATA \in Seq(Par)
  /\ Implements \in [Bus -> SUBSET Par]
  /\ {PARAMLIST, MODELIST, MOTORSERIAL} \subseteq Par
  /\ Defaults \subseteq Par
  /\ Saved \subseteq Bus /\ Protocols \subseteq Mode
  /\ AutoLoads \in SUBSET BOOLEAN /\ Lossy \in BOOLEAN /\ MayReaddress \in BOOLEAN
  /\ MaxClicks \in Nat /\ MaxBacklog \in Nat
ASSUME SentinelAssumption ==
  /\ Empty \notin Drives /\ Garbled \notin Drives /\ Empty # Garbled
  /\ NotShown \notin Value /\ 0 \notin Bus

Item == [mode : Mode, setid : Drives, par : Par, sub : {"data", "attr", "text"}]
Outcome == [error : BOOLEAN, value : Value]
Record == [known : BOOLEAN, value : Value, text : BOOLEAN]

VARIABLES
  conn,              \* FActiveSerialConnection: "None" or a protocol
  ActiveDriveNumber,
  address,           \* DriveList[n].DRIVEADDRESS
  autoLoad,          \* chkAutoLoadDriveData.Checked
  selected,          \* the drive that answers ASCII commands, 0 if none
  DCStatus,
  ui,                \* 0, or the basic parameter GetDriveData is reading
  queue,             \* FASCIIQueue and FSISQueue
  done,              \* the item handed to OnWorkComplete, with its outcome
  store,             \* IDNDriveList[1..MAXDRIVES]
  view,              \* lvParameters: the value shown, or NotShown
  motorSerial,       \* DriveList[n].MOTORSERIAL
  sisButtons,        \* the SIS connect buttons are enabled
  clicks             \* user actions so far

link == <<conn, selected, sisButtons>>
tab == <<ActiveDriveNumber, address, autoLoad>>
data == <<store, view, motorSerial>>
work == <<queue, done>>
vars == <<link, tab, data, work, DCStatus, ui, clicks>>

Absent == [known |-> FALSE, value |-> Empty, text |-> FALSE]
DefaultRecord == [known |-> TRUE, value |-> Empty, text |-> TRUE]

Init ==
  /\ conn = "None" /\ sisButtons = TRUE
  /\ selected \in Bus \union {0}
  /\ ActiveDriveNumber \in Tabs
  /\ address = [n \in Drives |-> n]
  /\ autoLoad \in AutoLoads
  /\ DCStatus = "dcNone" /\ ui = 0
  /\ queue = [m \in Mode |-> <<>>] /\ done = NoItem
  /\ store = [a \in Drives |-> [p \in Par |-> Absent]]
  /\ view = [p \in Par |-> NotShown]
  /\ motorSerial = [n \in Drives |-> Empty]
  /\ clicks = 0

-----------------------------------------------------------------------------
(* The data store.                                                         *)

\* SaveDriveRegisterData: a new record takes its texts from the built-in table.
SaveDriveRegisterData(st, a, p, sub, v) ==
  LET old == st[a][p]
      told == IF sub = "text" THEN v # Empty ELSE old.text
  IN [st EXCEPT ![a][p] =
        [known |-> TRUE,
         value |-> IF sub = "data" THEN v ELSE old.value,
         text |-> told \/ (~old.known /\ p \in Defaults)]]

\* The records of a drive that SN_<serial>.par holds, if the file exists.
OnDisk(serial, p) ==
  IF serial \in Saved /\ p \in Implements[serial]
  THEN [known |-> TRUE, value |-> serial, text |-> TRUE] ELSE Absent

Merged(fromDrive, fromDisk) ==
  [known |-> fromDrive.known \/ fromDisk.known,
   value |-> IF fromDrive.value # Empty THEN fromDrive.value ELSE fromDisk.value,
   text |-> fromDrive.text \/ fromDisk.text]

\* ProcessDiskDriveData(n, false): fill up the map of drive n from the file
\* of the serial number stored under the address of drive n.
ProcessDiskDriveData(st, n) ==
  LET serial == st[address[n]][MOTORSERIAL].value
  IN IF \A p \in Par : ~st[n][p].known THEN st
     ELSE [st EXCEPT ![n] = [p \in Par |-> Merged(st[n][p], OnDisk(serial, p))]]

Listed(v) == IF v \in Bus THEN Implements[v] ELSE {}

\* The list of the drive, to which the basic and realtime data are added.
Candidates(st, setid) ==
  Listed(st[setid][PARAMLIST].value) \union Range(BASICDRIVEDATA)
                                     \union Range(REALTIMEDRIVEDATA)

\* Mutant: the built-in record is put back over what the drive reported.
KeptDefaultFirst(r, p) ==
  IF p \in Defaults THEN DefaultRecord ELSE IF r.known THEN r ELSE Absent

Kept(r, p) == IF r.known THEN r ELSE IF p \in Defaults THEN DefaultRecord ELSE Absent

\* ProcessIDNList of the list stored under setid: keep what is on the list.
\* setid is an address; the code takes it for a drive number, too.
ProcessIDNList(st, setid) ==
  LET driveaddress == address[setid]
  IN [st EXCEPT ![setid] = [p \in Par |->
        IF p \in Candidates(st, setid) THEN Kept(st[driveaddress][p], p) ELSE Absent]]

\* lvParameters after ProcessIDNList has refilled it.
Listing(st, setid) ==
  [p \in Par |-> IF st[setid][p].known THEN st[setid][p].value ELSE NotShown]

HasRecords(st, setid) == \E p \in Par : st[setid][p].known

-----------------------------------------------------------------------------
(* The wire.                                                               *)

\* Mutant: the telegram is addressed when it is sent, to the drive then active.
ResponderActive(mode, setid) ==
  IF mode # conn THEN 0
  ELSE IF mode = "ASCII" THEN selected
  ELSE IF address[ActiveDriveNumber] \in Bus THEN address[ActiveDriveNumber] ELSE 0

\* A SIS telegram carries the address; an ASCII command goes to the selected drive.
Responder(mode, setid) ==
  IF mode # conn THEN 0
  ELSE IF mode = "ASCII" THEN selected
  ELSE IF setid \in Bus THEN setid ELSE 0

NoAnswer == [error |-> FALSE, value |-> Empty]

\* What an exchange can end in. A failed one leaves ERROR empty and no data; an
\* error reply is recognised in ASCII and taken for data in SIS.
Outcomes(mode, setid, p) ==
  LET d == Responder(mode, setid)
      answer == IF p \in Implements[d] THEN [error |-> FALSE, value |-> d]
                ELSE IF mode = "SIS" THEN [error |-> FALSE, value |-> Garbled]
                ELSE [error |-> TRUE, value |-> Empty]
  IN IF d = 0 THEN {NoAnswer}
     ELSE {answer} \union (IF Lossy THEN {NoAnswer} ELSE {})

\* BCD:xx makes the addressed drive listen and the others stop listening.
SelectDrive(protocol, a) ==
  \/ selected' = IF protocol # "ASCII" THEN selected ELSE IF a \in Bus THEN a ELSE 0
  \/ Lossy /\ selected' = selected

-----------------------------------------------------------------------------
(* What the user does. The UI thread is in no handler while ui = 0.        *)

Click == ui = 0 /\ clicks < MaxClicks /\ clicks' = clicks + 1

\* btnConnectSerialClick: DCStatus is set before the port is opened.
Connect(m) ==
  /\ Click /\ conn = "None"
  /\ m \in Protocols /\ (m = "SIS" => sisButtons)
  /\ DCStatus' = "dcBasic"
  /\ \/ /\ conn' = m /\ sisButtons' = FALSE
        /\ SelectDrive(m, address[ActiveDriveNumber])
     \/ UNCHANGED link
  /\ UNCHANGED <<tab, data, work, ui>>

\* btnStopClick: the queues keep what is in them.
Stop ==
  /\ Click /\ conn # "None"
  /\ conn' = "None"
  /\ UNCHANGED <<selected, sisButtons, tab, data, work, DCStatus, ui>>

\* btnRefreshDriveDataClick
Refresh ==
  /\ Click /\ DCStatus' = "dcIDN"
  /\ UNCHANGED <<link, tab, data, work, ui>>

\* UpDownDriveAddressClick; the code has no upper limit but the byte.
ChangeAddress(a) ==
  /\ Click /\ conn = "None" /\ MayReaddress
  /\ a \in Drives /\ a \in {address[ActiveDriveNumber] + 1, address[ActiveDriveNumber] - 1}
  /\ address' = [address EXCEPT ![ActiveDriveNumber] = a]
  /\ UNCHANGED <<link, ActiveDriveNumber, autoLoad, data, work, DCStatus, ui>>

\* The check box; it is read when a motor serial is processed.
CheckAutoLoad ==
  /\ Click /\ autoLoad' \in AutoLoads \ {autoLoad}
  /\ UNCHANGED <<link, ActiveDriveNumber, address, data, work, DCStatus, ui>>

\* TabControl1Change: select the drive, then show what the store has of it.
ChangeTab(n) ==
  LET a == address[n]
      loads == autoLoad /\ motorSerial[n] # motorSerial[ActiveDriveNumber]
      loaded == IF loads THEN ProcessIDNList(ProcessDiskDriveData(store, n), a) ELSE store
      cleaned == ProcessIDNList(loaded, a)
  IN /\ Click /\ n # ActiveDriveNumber
     /\ ActiveDriveNumber' = n
     /\ SelectDrive(conn, a)
     /\ store' = cleaned /\ view' = Listing(cleaned, a)
     /\ DCStatus' = IF HasRecords(cleaned, a) THEN "dcIDNData" ELSE DCStatus
     /\ UNCHANGED <<conn, sisButtons, address, autoLoad, motorSerial, work, ui>>

-----------------------------------------------------------------------------
(* ProcessCommResult: store an answer and show it; the motor serial loads   *)
(* the file of that drive and cleans up the list.                           *)

\* Mutant: the answers for every drive are shown, not only the active one's.
ProcessCommResultAnyDrive(a, p, sub, v) ==
  LET saved == SaveDriveRegisterData(store, a, p, sub, v)
      visible == sub = "data"
      serial == visible /\ p = MOTORSERIAL
      loads == serial /\ autoLoad
      loaded == IF loads
                THEN ProcessIDNList(ProcessDiskDriveData(saved, ActiveDriveNumber), a)
                ELSE saved
      list == IF loads THEN Listing(loaded, a) ELSE view
  IN /\ store' = loaded
     /\ view' = IF visible /\ list[p] # NotShown THEN [list EXCEPT ![p] = v] ELSE list
     /\ motorSerial' = IF serial THEN [motorSerial EXCEPT ![ActiveDriveNumber] = v]
                                 ELSE motorSerial
     /\ DCStatus' = IF loads /\ HasRecords(loaded, a) THEN "dcIDNData" ELSE DCStatus

ProcessCommResult(a, p, sub, v) ==
  LET saved == SaveDriveRegisterData(store, a, p, sub, v)
      visible == sub = "data" /\ a = address[ActiveDriveNumber]
      serial == visible /\ p = MOTORSERIAL
      loads == serial /\ autoLoad
      loaded == IF loads
                THEN ProcessIDNList(ProcessDiskDriveData(saved, ActiveDriveNumber), a)
                ELSE saved
      list == IF loads THEN Listing(loaded, a) ELSE view
  IN /\ store' = loaded
     /\ view' = IF visible /\ list[p] # NotShown THEN [list EXCEPT ![p] = v] ELSE list
     /\ motorSerial' = IF serial THEN [motorSerial EXCEPT ![ActiveDriveNumber] = v]
                                 ELSE motorSerial
     /\ DCStatus' = IF loads /\ HasRecords(loaded, a) THEN "dcIDNData" ELSE DCStatus

-----------------------------------------------------------------------------
(* GetDriveData, the handler of the timer.                                  *)

Reads(pars, sub) ==
  [i \in DOMAIN pars |-> [mode |-> conn, setid |-> address[ActiveDriveNumber],
                          par |-> pars[i], sub |-> sub]]

Stored(p) == store[address[ActiveDriveNumber]][p]

When(needed, reads) == IF needed THEN reads ELSE <<>>

\* Mutant: the motor serial is read again although it is known.
DataReadsSerial ==
  LET again(p) == Stored(p).value = Empty \/ p \notin {PARAMLIST, MODELIST}
      reads(p) == When(~Stored(p).known, Reads(<<p>>, "attr"))
                    \o When(again(p), Reads(<<p>>, "data"))
  IN FlattenSeq([i \in DOMAIN Parameters |->
                   When(view[Parameters[i]] # NotShown, reads(Parameters[i]))])

\* dcIDNData: the attributes and the value of every parameter on the list.
DataReads ==
  LET again(p) == Stored(p).value = Empty \/ p \notin {MOTORSERIAL, PARAMLIST, MODELIST}
      reads(p) == When(~Stored(p).known, Reads(<<p>>, "attr"))
                    \o When(again(p), Reads(<<p>>, "data"))
  IN FlattenSeq([i \in DOMAIN Parameters |->
                   When(view[Parameters[i]] # NotShown, reads(Parameters[i]))])

\* dcIDNAttribute: name, unit and limits, here one text.
TextReads ==
  LET reads(p) == When(view[p] # NotShown /\ ~Stored(p).text, Reads(<<p>>, "text"))
  IN FlattenSeq([i \in DOMAIN Parameters |-> reads(Parameters[i])])

\* The reads of the stage, and the stage that follows.
StageReads ==
  CASE DCStatus = "dcIDN" -> Reads(<<PARAMLIST>>, "data")
    [] DCStatus = "dcIDNData" -> DataReads
    [] DCStatus = "dcIDNAttribute" -> TextReads
    [] OTHER -> <<>>

\* Mutant: the commented-out stage that reads the modes is still entered.
NextStageModes ==
  CASE DCStatus = "dcBasic" -> "dcModes"
    [] DCStatus = "dcIDNData" -> "dcIDNAttribute"
    [] OTHER -> "dcNone"

NextStage ==
  CASE DCStatus = "dcBasic" -> "dcIDN"
    [] DCStatus = "dcIDNData" -> "dcIDNAttribute"
    [] OTHER -> "dcNone"

\* The part of GetDriveData after the basic or realtime reads; the realtime
\* reads went in with priority, each one at the head.
Collect(first) ==
  /\ queue' = [queue EXCEPT ![conn] = Reverse(first) \o @ \o StageReads]
  /\ DCStatus' = NextStage
  /\ UNCHANGED <<link, tab, data, done, clicks>>

Tick ==
  /\ ui = 0 /\ conn # "None"
  /\ Len(queue["ASCII"]) + Len(queue["SIS"]) <= MaxBacklog
  /\ IF DCStatus = "dcBasic"
     THEN ui' = 1 /\ UNCHANGED <<link, tab, data, work, DCStatus, clicks>>
     ELSE ui' = 0 /\ Collect(Reads(REALTIMEDRIVEDATA, "data"))

\* A blocking read; only the data is copied back, so an error becomes no data.
BasicRead ==
  /\ ui \in DOMAIN BASICDRIVEDATA
  /\ \E o \in Outcomes(conn, address[ActiveDriveNumber], BASICDRIVEDATA[ui]) :
       ProcessCommResult(address[ActiveDriveNumber], BASICDRIVEDATA[ui], "data", o.value)
  /\ ui' = ui + 1
  /\ UNCHANGED <<link, tab, work, clicks>>

BasicDone ==
  /\ ui = Len(BASICDRIVEDATA) + 1
  /\ ui' = 0 /\ Collect(<<>>)

-----------------------------------------------------------------------------
(* The worker thread.                                                       *)

\* SIS work first; the exchange itself is one step here.
Serve(m) ==
  /\ done = NoItem /\ queue[m] # <<>>
  /\ m = "SIS" \/ queue["SIS"] = <<>>
  /\ LET item == Head(queue[m])
     IN \E o \in Outcomes(m, item.setid, item.par) :
          done' = [item |-> item, outcome |-> o]
  /\ queue' = [queue EXCEPT ![m] = Tail(@)]
  /\ UNCHANGED <<link, tab, data, DCStatus, ui, clicks>>

\* OnWorkComplete, through Synchronize: only while the UI thread is idle.
Complete ==
  /\ ui = 0 /\ done # NoItem
  /\ done' = NoItem
  /\ IF done.outcome.error THEN UNCHANGED <<data, DCStatus>>
     ELSE ProcessCommResult(done.item.setid, done.item.par, done.item.sub, done.outcome.value)
  /\ UNCHANGED <<link, tab, queue, ui, clicks>>

-----------------------------------------------------------------------------
User ==
  \/ \E m \in Mode : Connect(m)
  \/ Stop \/ Refresh \/ CheckAutoLoad
  \/ \E a \in Drives : ChangeAddress(a)
  \/ \E n \in Tabs : ChangeTab(n)

Timer == Tick \/ BasicRead \/ BasicDone

Worker == Complete \/ \E m \in Mode : Serve(m)

Next == User \/ Timer \/ Worker

Spec == Init /\ [][Next]_vars

\* The timer keeps firing and the handlers return; the worker thread runs.
Fairness == WF_vars(Timer) /\ WF_vars(Worker)

FairSpec == Spec /\ Fairness

-----------------------------------------------------------------------------
TypeOK ==
  /\ conn \in Mode \union {"None"} /\ sisButtons \in BOOLEAN
  /\ selected \in Bus \union {0}
  /\ ActiveDriveNumber \in Tabs /\ address \in [Drives -> Drives]
  /\ autoLoad \in BOOLEAN
  /\ DCStatus \in {"dcNone", "dcBasic", "dcIDN", "dcIDNData", "dcIDNAttribute"}
  /\ ui \in 0..Len(BASICDRIVEDATA) + 1 /\ clicks \in 0..MaxClicks
  /\ queue \in [Mode -> Seq(Item)]
  /\ done \in [item : Item, outcome : Outcome] \union {NoItem}
  /\ store \in [Drives -> [Par -> Record]]
  /\ view \in [Par -> Value \union {NotShown}]
  /\ motorSerial \in [Drives -> Value]

\* A value is stored under the address of the drive that reported it, however
\* the tab is switched while answers are outstanding (main.pas 4220-4229).
StoredFromItsDrive ==
  \A a \in Drives, p \in Par : store[a][p].value \in {a, Empty, Garbled}

\* The list on screen shows what the store has of the drive of the active tab:
\* answers for other drives, tab changes and clean-ups keep the two together
\* (main.pas 3908-3929, 3977, 4001-4008).
ViewMatchesStore ==
  \A p \in Par : view[p] # NotShown => view[p] = Stored(p).value

\* An answer, or the lack of one, is processed for this parameter in this step.
Processed(a, p) ==
  \/ /\ ui \in DOMAIN BASICDRIVEDATA
     /\ p = BASICDRIVEDATA[ui] /\ a = address[ActiveDriveNumber]
  \/ /\ done # NoItem /\ done' = NoItem
     /\ done.item.setid = a /\ done.item.par = p /\ done.item.sub = "data"

\* The clean-up of the list drops the parameter, which is not on it.
Dropped(a, p) == ~store'[a][p].known /\ p \notin Candidates(store, a)'

\* An empty value is filled up from the file of the drive's motor.
FilledUp(a, p) ==
  /\ autoLoad /\ store[a][p].value = Empty
  /\ store'[a][p].value = OnDisk(store'[a][MOTORSERIAL].value, p).value

\* Switching tabs, cleaning up the list and loading the file never lose or
\* replace a value that was read from a drive and is still on its list
\* (main.pas 3871-3906: save to a temporary array, clear, put back).
ValuesOnlyFromAnswers ==
  [][\A a \in Drives, p \in Par : store'[a][p].value # store[a][p].value =>
       Processed(a, p) \/ Dropped(a, p) \/ FilledUp(a, p)]_vars

\* Once connected, the collection comes to rest: every stage is followed by
\* the next and none restarts it for ever (main.pas 1724-1832, 1787, 3936).
CollectionSettles ==
  (conn # "None" /\ DCStatus # "dcNone") ~> (conn = "None" \/ DCStatus = "dcNone")
=============================================================================
