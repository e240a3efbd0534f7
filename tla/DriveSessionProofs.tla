------------------------- MODULE DriveSessionProofs -------------------------
(***************************************************************************)
(* Proofs about DriveSession, for any drives, parameters, files, number of *)
(* user actions and lost answers, over SIS and with the drive numbers for  *)
(* addresses: every value is stored under the drive that reported it, the  *)
(* list on screen shows what the store has of the active drive, and only   *)
(* an answer replaces a value that is still on the drive's list.  The      *)
(* argument: an answer carries the address it was asked for; each of the   *)
(* operations on the store, alone, keeps such a store (Proper); each keeps *)
(* the values that are shown, or the list is filled anew (ViewInv); and    *)
(* each leaves a value, drops it with its line of the list, or fills it up *)
(* where there was none (Explained).  The variables keep their kinds with  *)
(* any protocol and addresses, too.                                        *)
(***************************************************************************)
EXTENDS DriveSession, ByteSumProofs, TLAPS

(* What a drive, or the lack of an answer, may leave under address a.      *)
Own(a) == {a, Empty, Garbled}

(* A store: a record for each address and parameter.                       *)
Shaped(st) == st = [a \in Drives |-> [p \in Par |-> st[a][p]]]
OwnValues(st) == \A a \in Drives, p \in Par : st[a][p].value \in Own(a)
Proper(st) == Shaped(st) /\ OwnValues(st)

(* Addresses are drive numbers, the protocol is SIS, and the answer in the *)
(* hands of the worker is one of the drive it was addressed to.            *)
Inv ==
  /\ Proper(store)
  /\ address = [n \in Drives |-> n]
  /\ ActiveDriveNumber \in Drives
  /\ conn \in {"None", "SIS"}
  /\ done # NoItem => done.outcome.value \in Own(done.item.setid)

-----------------------------------------------------------------------------
(* The operations on the store.                                            *)

\* SaveDriveRegisterData, for an address that has a drive number or not.
LEMMA SaveProper ==
  ASSUME NEW st, Proper(st), NEW a, NEW p, NEW sub, NEW v \in Own(a)
  PROVE  Proper(SaveDriveRegisterData(st, a, p, sub, v))
  <1> DEFINE r == [known |-> TRUE,
                   value |-> IF sub = "data" THEN v ELSE st[a][p].value,
                   text |-> (IF sub = "text" THEN v # Empty ELSE st[a][p].text)
                              \/ (~st[a][p].known /\ p \in Defaults)]
             new == [st EXCEPT ![a][p] = r]
  <1>1. SaveDriveRegisterData(st, a, p, sub, v) = new
    BY DEF SaveDriveRegisterData
  <1>2. r.value = IF sub = "data" THEN v ELSE st[a][p].value
    OBVIOUS
  <1>3. a \in Drives /\ p \in Par => r.value \in Own(a)
    BY <1>2 DEF Proper, OwnValues
  <1> HIDE DEF r
  <1>4. Shaped(new)
    BY DEF Proper, Shaped
  <1>5. ASSUME NEW b \in Drives, NEW q \in Par
        PROVE  new[b][q] = IF b = a /\ q = p THEN r ELSE st[b][q]
    BY DEF Proper, Shaped
  <1> HIDE DEF new
  <1>6. OwnValues(new)
    BY <1>3, <1>5 DEF Proper, OwnValues
  <1> QED BY <1>1, <1>4, <1>6 DEF Proper

\* A file holds the values of the drive whose motor it is named after.
LEMMA OnDiskOwn ==
  ASSUME NEW a \in Drives, NEW serial \in Own(a), NEW p
  PROVE  OnDisk(serial, p).value \in Own(a)
  BY DriveAssumption, SentinelAssumption DEF OnDisk, Absent, Own

\* ProcessDiskDriveData: the serial stored under a drive's address is its own.
LEMMA DiskProper ==
  ASSUME NEW st, Proper(st), address = [n \in Drives |-> n], NEW n \in Drives
  PROVE  Proper(ProcessDiskDriveData(st, n))
  <1> DEFINE serial == st[n][MOTORSERIAL].value
             merged == [p \in Par |-> Merged(st[n][p], OnDisk(serial, p))]
             new == [st EXCEPT ![n] = merged]
  <1>1. MOTORSERIAL \in Par
    BY DriveAssumption
  <1>2. serial \in Own(n)
    BY <1>1 DEF Proper, OwnValues
  <1>3. ASSUME NEW p \in Par PROVE merged[p].value \in Own(n)
    <2>1. merged[p].value \in {st[n][p].value, OnDisk(serial, p).value}
      BY DEF Merged
    <2> QED BY <1>2, <2>1, OnDiskOwn DEF Proper, OwnValues
  <1>4. ProcessDiskDriveData(st, n) \in {st, new}
    BY DEF ProcessDiskDriveData
  <1> HIDE DEF serial
  <1>5. merged = [p \in Par |-> merged[p]]
    OBVIOUS
  <1> HIDE DEF merged
  <1>6. Shaped(new)
    BY <1>5 DEF Proper, Shaped
  <1>7. ASSUME NEW b \in Drives, NEW q \in Par
        PROVE  new[b][q] = IF b = n THEN merged[q] ELSE st[b][q]
    BY DEF Proper, Shaped
  <1> HIDE DEF new
  <1>8. OwnValues(new)
    BY <1>3, <1>7 DEF Proper, OwnValues
  <1> QED BY <1>4, <1>6, <1>8 DEF Proper

\* ProcessIDNList: what it keeps, it keeps in its place.
LEMMA ListProper ==
  ASSUME NEW st, Proper(st), address = [n \in Drives |-> n], NEW setid \in Drives
  PROVE  Proper(ProcessIDNList(st, setid))
  <1> DEFINE kept == [p \in Par |-> IF p \in Candidates(st, setid)
                                      THEN Kept(st[setid][p], p) ELSE Absent]
             new == [st EXCEPT ![setid] = kept]
  <1>1. ProcessIDNList(st, setid) = new
    BY DEF ProcessIDNList
  <1>2. ASSUME NEW p \in Par PROVE kept[p].value \in Own(setid)
    <2>1. kept[p] \in {st[setid][p], DefaultRecord, Absent}
      BY DEF Kept
    <2> QED BY <2>1 DEF DefaultRecord, Absent, Own, Proper, OwnValues
  <1>3. kept = [p \in Par |-> kept[p]]
    OBVIOUS
  <1> HIDE DEF kept
  <1>4. Shaped(new)
    BY <1>3 DEF Proper, Shaped
  <1>5. ASSUME NEW b \in Drives, NEW q \in Par
        PROVE  new[b][q] = IF b = setid THEN kept[q] ELSE st[b][q]
    BY DEF Proper, Shaped
  <1> HIDE DEF new
  <1>6. OwnValues(new)
    BY <1>2, <1>5 DEF Proper, OwnValues
  <1> QED BY <1>1, <1>4, <1>6 DEF Proper

\* ProcessCommResult of an answer for address a: save, load, clean up.
LEMMA CommResultProper ==
  ASSUME Inv, NEW a, NEW p, NEW sub, NEW v \in Own(a), ProcessCommResult(a, p, sub, v)
  PROVE  Proper(store')
  <1> DEFINE saved == SaveDriveRegisterData(store, a, p, sub, v)
             loads == sub = "data" /\ a = address[ActiveDriveNumber]
                        /\ p = MOTORSERIAL /\ autoLoad
             disk == ProcessDiskDriveData(saved, ActiveDriveNumber)
  <1>1. store' = IF loads THEN ProcessIDNList(disk, a) ELSE saved
    BY DEF ProcessCommResult
  <1>2. Proper(saved)
    BY SaveProper DEF Inv
  <1>3. loads => a \in Drives
    BY DEF Inv
  <1> HIDE DEF saved
  <1>4. Proper(disk)
    BY <1>2, DiskProper DEF Inv
  <1> HIDE DEF disk
  <1>5. loads => Proper(ProcessIDNList(disk, a))
    BY <1>3, <1>4, ListProper DEF Inv
  <1> HIDE DEF loads
  <1> QED BY <1>1, <1>2, <1>5

\* Over SIS the drive that answers is the one that was addressed.
LEMMA OutcomeOwn ==
  ASSUME Inv, NEW mode, NEW setid, NEW p, NEW o \in Outcomes(mode, setid, p)
  PROVE  o.value \in Own(setid)
  <1>1. Responder(mode, setid) \in {0, setid}
    BY DEF Inv, Responder
  <1>2. o.value \in {Empty, Garbled, Responder(mode, setid)}
    BY DEF Outcomes, NoAnswer
  <1>3. Responder(mode, setid) = 0 => o = NoAnswer
    BY DEF Outcomes
  <1> QED BY <1>1, <1>2, <1>3 DEF NoAnswer, Own

-----------------------------------------------------------------------------
(* The steps.                                                              *)

LEMMA InitInv == Init => Inv
  <1> SUFFICES ASSUME Init PROVE Inv
    OBVIOUS
  <1>1. Proper(store)
    BY DEF Init, Absent, Proper, Shaped, OwnValues, Own
  <1>2. ActiveDriveNumber \in Drives
    BY DriveAssumption DEF Init
  <1> QED BY <1>1, <1>2 DEF Init, Inv

\* The store of a drive that has been chosen is loaded and cleaned up.
LEMMA ChangeTabProper ==
  ASSUME Inv, NEW n \in Tabs, ChangeTab(n)
  PROVE  Proper(store')
  <1>1. n \in Drives /\ address[n] = n
    BY DriveAssumption DEF Inv
  <1> DEFINE loads == autoLoad /\ motorSerial[n] # motorSerial[ActiveDriveNumber]
             disk == ProcessDiskDriveData(store, n)
             loaded == IF loads THEN ProcessIDNList(disk, n) ELSE store
  <1>2. store' = ProcessIDNList(loaded, n)
    BY <1>1 DEF ChangeTab
  <1>3. Proper(disk)
    BY <1>1, DiskProper DEF Inv
  <1> HIDE DEF disk
  <1>4. Proper(ProcessIDNList(disk, n))
    BY <1>1, <1>3, ListProper DEF Inv
  <1>5. Proper(loaded)
    BY <1>4 DEF Inv
  <1> HIDE DEF loaded
  <1> QED BY <1>1, <1>2, <1>5, ListProper DEF Inv

\* Every action keeps the values in their places, as long as the user changes
\* no address and connects over SIS only.
LEMMA NextInv ==
  ASSUME Protocols \subseteq {"SIS"}, MayReaddress = FALSE, Inv, [Next]_vars
  PROVE  Inv'
  <1> USE DEF tab, link, data, work
  <1>1. ASSUME NEW m \in Mode, Connect(m) PROVE Inv'
    <2>1. UNCHANGED <<store, address, ActiveDriveNumber, done>>
      BY <1>1 DEF Connect
    <2>2. conn' \in {"None", "SIS"}
      BY <1>1 DEF Connect, Inv
    <2> QED BY <2>1, <2>2 DEF Inv
  <1>2. CASE Stop \/ Refresh \/ CheckAutoLoad \/ Tick \/ BasicDone
    <2>1. UNCHANGED <<store, address, ActiveDriveNumber, done>>
      BY <1>2 DEF Stop, Refresh, CheckAutoLoad, Tick, BasicDone, Collect
    <2>2. conn' \in {"None", "SIS"}
      BY <1>2 DEF Stop, Refresh, CheckAutoLoad, Tick, BasicDone, Collect, Inv
    <2> QED BY <2>1, <2>2 DEF Inv
  <1>3. ASSUME NEW a \in Drives, ChangeAddress(a) PROVE FALSE
    BY <1>3 DEF ChangeAddress
  <1>4. ASSUME NEW n \in Tabs, ChangeTab(n) PROVE Inv'
    <2>1. UNCHANGED <<address, done, conn>> /\ ActiveDriveNumber' \in Drives
      BY <1>4, DriveAssumption DEF ChangeTab
    <2> QED BY <1>4, <2>1, ChangeTabProper DEF Inv
  <1>5. CASE BasicRead
    <2>1. UNCHANGED <<address, done, conn, ActiveDriveNumber>>
      BY <1>5 DEF BasicRead
    <2>2. PICK o \in Outcomes(conn, address[ActiveDriveNumber], BASICDRIVEDATA[ui]) :
            ProcessCommResult(address[ActiveDriveNumber], BASICDRIVEDATA[ui], "data", o.value)
      BY <1>5 DEF BasicRead
    <2>3. Proper(store')
      BY <2>2, OutcomeOwn, CommResultProper
    <2> QED BY <2>1, <2>3 DEF Inv
  <1>6. ASSUME NEW m \in Mode, Serve(m) PROVE Inv'
    <2>1. UNCHANGED <<store, address, conn, ActiveDriveNumber>>
      BY <1>6 DEF Serve
    <2>2. PICK o \in Outcomes(m, Head(queue[m]).setid, Head(queue[m]).par) :
            done' = [item |-> Head(queue[m]), outcome |-> o]
      BY <1>6 DEF Serve
    <2>3. o.value \in Own(Head(queue[m]).setid)
      BY OutcomeOwn
    <2>4. done'.outcome.value \in Own(done'.item.setid)
      BY <2>2, <2>3
    <2> QED BY <2>1, <2>4 DEF Inv
  <1>7. CASE Complete
    <2>1. UNCHANGED <<address, conn, ActiveDriveNumber>> /\ done' = NoItem
      BY <1>7 DEF Complete
    <2>2. CASE done.outcome.error
      <3>1. store' = store
        BY <1>7, <2>2 DEF Complete
      <3> QED BY <2>1, <3>1 DEF Inv
    <2>3. CASE ~done.outcome.error
      <3>1. /\ ProcessCommResult(done.item.setid, done.item.par, done.item.sub,
                                 done.outcome.value)
            /\ done.outcome.value \in Own(done.item.setid)
        BY <1>7, <2>3 DEF Complete, Inv
      <3>2. Proper(store')
        BY <3>1, CommResultProper
      <3> QED BY <2>1, <3>2 DEF Inv
    <2> QED BY <2>2, <2>3
  <1>8. CASE UNCHANGED vars
    BY <1>8 DEF vars, Inv
  <1> QED
    BY <1>1, <1>2, <1>3, <1>4, <1>5, <1>6, <1>7, <1>8 DEF Next, User, Timer, Worker

\* However the tab is switched while answers are outstanding (main.pas
\* 4220-4229), over SIS and with unchanged addresses a value is found under the
\* drive that reported it.
THEOREM ValuesStay ==
  ASSUME Protocols \subseteq {"SIS"}, MayReaddress = FALSE
  PROVE  Spec => []StoredFromItsDrive
  <1>1. Inv /\ [Next]_vars => Inv'
    BY NextInv
  <1>2. Inv => StoredFromItsDrive
    BY DEF Inv, Proper, OwnValues, Own, StoredFromItsDrive
  <1> QED BY <1>1, <1>2, InitInv, PTL DEF Spec

-----------------------------------------------------------------------------
(* The list on screen.                                                     *)

ViewInv == view = [p \in Par |-> view[p]] /\ ViewMatchesStore

\* An answer that is not shown changes no value of the active drive.
LEMMA SaveHidden ==
  ASSUME Inv, NEW a, NEW p, NEW sub, NEW v, NEW q \in Par,
         ~(sub = "data" /\ a = ActiveDriveNumber /\ p = q)
  PROVE  SaveDriveRegisterData(store, a, p, sub, v)[ActiveDriveNumber][q].value
           = store[ActiveDriveNumber][q].value
  <1> DEFINE d == ActiveDriveNumber
             text == (IF sub = "text" THEN v # Empty ELSE store[a][p].text)
                       \/ (~store[a][p].known /\ p \in Defaults)
             r == [known |-> TRUE,
                   value |-> IF sub = "data" THEN v ELSE store[a][p].value,
                   text |-> text]
             new == [store EXCEPT ![a][p] = r]
  <1>1. SaveDriveRegisterData(store, a, p, sub, v) = new
    BY DEF SaveDriveRegisterData
  <1> HIDE DEF text
  <1>2. d \in Drives
    BY DEF Inv
  <1>3. new[d][q] = IF d = a /\ q = p THEN r ELSE store[d][q]
    BY <1>2 DEF Inv, Proper, Shaped
  <1> HIDE DEF new
  <1>4. new[d][q].value = store[d][q].value
    BY <1>3
  <1> QED BY <1>1, <1>4

\* An answer that is shown is what the store has of its parameter from now on.
LEMMA SaveShown ==
  ASSUME Inv, NEW a \in Drives, NEW p \in Par, NEW v
  PROVE  LET saved == SaveDriveRegisterData(store, a, p, "data", v)
         IN  saved[a][p].value = v /\ saved[a][p].known = TRUE
  <1> DEFINE text == store[a][p].text \/ (~store[a][p].known /\ p \in Defaults)
             r == [known |-> TRUE, value |-> v, text |-> text]
             new == [store EXCEPT ![a][p] = r]
  <1>1. SaveDriveRegisterData(store, a, p, "data", v) = new
    BY DEF SaveDriveRegisterData
  <1> HIDE DEF text
  <1>2. new[a][p] = r
    BY DEF Inv, Proper, Shaped
  <1> HIDE DEF new
  <1>3. new[a][p].value = v /\ new[a][p].known = TRUE
    BY <1>2
  <1> QED BY <1>1, <1>3

LEMMA MergedKnown ==
  ASSUME NEW x, NEW y, x.known = TRUE
  PROVE  Merged(x, y).known = TRUE
  <1> DEFINE k == x.known \/ y.known
             w == IF x.value # Empty THEN x.value ELSE y.value
             t == x.text \/ y.text
  <1>1. Merged(x, y) = [known |-> k, value |-> w, text |-> t]
    BY DEF Merged
  <1>2. k = TRUE
    BY Zenon
  <1> HIDE DEF k, w, t
  <1>3. [known |-> k, value |-> w, text |-> t].known = k
    OBVIOUS
  <1> QED BY <1>1, <1>2, <1>3, Zenon

\* The serial number a drive has just reported survives the loading of its file
\* and the clean-up of its list.
LEMMA SerialKept ==
  ASSUME Inv, NEW st, Proper(st), NEW v,
         st[ActiveDriveNumber][MOTORSERIAL].value = v,
         st[ActiveDriveNumber][MOTORSERIAL].known = TRUE
  PROVE  LET disk == ProcessDiskDriveData(st, ActiveDriveNumber)
         IN  ProcessIDNList(disk, ActiveDriveNumber)[ActiveDriveNumber][MOTORSERIAL].value = v
  <1> DEFINE d == ActiveDriveNumber
             disk == ProcessDiskDriveData(st, d)
             merged == [p \in Par |-> Merged(st[d][p], OnDisk(v, p))]
  <1>1. d \in Drives /\ address[d] = d /\ MOTORSERIAL \in Par
    BY DriveAssumption DEF Inv
  <1>2. disk = [st EXCEPT ![d] = merged]
    BY <1>1 DEF ProcessDiskDriveData
  <1>3. disk[d][MOTORSERIAL] = Merged(st[d][MOTORSERIAL], OnDisk(v, MOTORSERIAL))
    BY <1>1, <1>2 DEF Proper, Shaped
  <1>4. v = Empty => OnDisk(v, MOTORSERIAL).value = Empty
    BY DriveAssumption, SentinelAssumption DEF OnDisk, Absent
  <1>5. disk[d][MOTORSERIAL].value = v
    BY <1>3, <1>4 DEF Merged
  <1>6. disk[d][MOTORSERIAL].known = TRUE
    <2>1. Merged(st[d][MOTORSERIAL], OnDisk(v, MOTORSERIAL)).known = TRUE
      BY MergedKnown
    <2> QED BY <1>3, <2>1, Zenon
  <1>7. Shaped(disk)
    BY <1>1, DiskProper DEF Inv, Proper
  <1> HIDE DEF disk, merged
  <1>8. MOTORSERIAL \in Candidates(disk, d)
    <2>1. MOTORSERIAL \in Range(BASICDRIVEDATA)
      BY DEF Range, BASICDRIVEDATA
    <2> QED BY <2>1, Zenon DEF Candidates
  <1>9. ProcessIDNList(disk, d)[d][MOTORSERIAL] = Kept(disk[d][MOTORSERIAL], MOTORSERIAL)
    BY <1>1, <1>7, <1>8 DEF ProcessIDNList, Shaped
  <1>10. Kept(disk[d][MOTORSERIAL], MOTORSERIAL) = disk[d][MOTORSERIAL]
    BY <1>6 DEF Kept
  <1> QED BY <1>5, <1>9, <1>10 DEF disk

\* What is shown of an answer is what is stored, with and without a clean-up.
LEMMA CommResultShown ==
  ASSUME Inv, ViewInv, NEW a, NEW p, NEW sub, NEW v \in Own(a),
         ProcessCommResult(a, p, sub, v), UNCHANGED <<address, ActiveDriveNumber>>
  PROVE  ViewInv'
  <1> DEFINE d == ActiveDriveNumber
             saved == SaveDriveRegisterData(store, a, p, sub, v)
             visible == sub = "data" /\ a = d
             loads == visible /\ p = MOTORSERIAL /\ autoLoad
             loaded == IF loads THEN ProcessIDNList(ProcessDiskDriveData(saved, d), a)
                       ELSE saved
             list == IF loads THEN Listing(loaded, a) ELSE view
  <1>1. d \in Drives /\ address[d] = d /\ address'[d] = d /\ d' = d
    BY DEF Inv
  <1>2. /\ store' = loaded
        /\ view' = IF visible /\ list[p] # NotShown THEN [list EXCEPT ![p] = v] ELSE list
    BY <1>1, Zenon DEF ProcessCommResult
  <1>3. \A q \in Par : view[q] # NotShown => view[q] = store[d][q].value
    BY <1>1 DEF ViewInv, ViewMatchesStore, Stored
  <1>4. Proper(saved)
    BY SaveProper DEF Inv
  <1>5. list = [q \in Par |-> list[q]]
    BY DEF ViewInv, Listing
  <1>6. view' = [q \in Par |-> view'[q]]
    BY <1>2, <1>5
  <1>7. ASSUME NEW q \in Par, view'[q] # NotShown PROVE view'[q] = store'[d][q].value
    <2>1. CASE visible /\ q = p
      <3>1. view'[q] = v /\ list[p] # NotShown
        BY <1>2, <1>5, <1>7, <2>1
      <3>2. saved[d][p].value = v /\ saved[d][p].known = TRUE
        BY <1>1, <2>1, SaveShown
      <3>3. CASE loads
        <4>1. loaded = ProcessIDNList(ProcessDiskDriveData(saved, d), d)
          BY <2>1, <3>3
        <4>2. q = MOTORSERIAL
          BY <2>1, <3>3
        <4> HIDE DEF saved, loaded, list
        <4>3. ProcessIDNList(ProcessDiskDriveData(saved, d), d)[d][MOTORSERIAL].value = v
          BY <1>4, <2>1, <3>2, <4>2, SerialKept
        <4> QED BY <1>2, <3>1, <4>1, <4>2, <4>3
      <3>4. CASE ~loads
        BY <1>2, <2>1, <3>1, <3>2, <3>4
      <3> QED BY <3>3, <3>4
    <2>2. CASE ~(visible /\ q = p)
      <3>1. view'[q] = list[q]
        BY <1>2, <1>5, <2>2
      <3>2. CASE loads
        BY <1>2, <1>7, <3>1, <3>2 DEF Listing
      <3>3. CASE ~loads
        <4>1. saved[d][q].value = store[d][q].value
          BY <2>2, SaveHidden
        <4> QED BY <1>2, <1>3, <1>7, <3>1, <3>3, <4>1
      <3> QED BY <3>2, <3>3
    <2> QED BY <2>1, <2>2
  <1> HIDE DEF saved, loaded, list
  <1>8. ViewMatchesStore'
    BY <1>1, <1>7 DEF ViewMatchesStore, Stored
  <1> QED BY <1>6, <1>8 DEF ViewInv

LEMMA NextShown ==
  ASSUME MayReaddress = FALSE, Inv, ViewInv, [Next]_vars
  PROVE  ViewInv'
  <1> USE DEF tab, link, data, work
  <1>1. ASSUME UNCHANGED <<store, view, address, ActiveDriveNumber>> PROVE ViewInv'
    BY <1>1 DEF ViewInv, ViewMatchesStore, Stored
  <1>2. ASSUME NEW n \in Tabs, ChangeTab(n) PROVE ViewInv'
    <2>1. n \in Drives /\ address[n] = n
      BY DriveAssumption DEF Inv
    <2>2. view' = Listing(store', n) /\ ActiveDriveNumber' = n /\ address'[n] = n
      BY <1>2, <2>1 DEF ChangeTab
    <2> QED BY <2>2 DEF Listing, ViewInv, ViewMatchesStore, Stored
  <1>3. CASE BasicRead
    <2>1. PICK o \in Outcomes(conn, address[ActiveDriveNumber], BASICDRIVEDATA[ui]) :
            ProcessCommResult(address[ActiveDriveNumber], BASICDRIVEDATA[ui], "data", o.value)
      BY <1>3 DEF BasicRead
    <2>2. UNCHANGED <<address, ActiveDriveNumber>>
      BY <1>3 DEF BasicRead
    <2> QED BY <2>1, <2>2, OutcomeOwn, CommResultShown
  <1>4. CASE Complete
    <2>1. UNCHANGED <<address, ActiveDriveNumber>>
      BY <1>4 DEF Complete
    <2>2. CASE done.outcome.error
      BY <1>1, <1>4, <2>1, <2>2 DEF Complete
    <2>3. CASE ~done.outcome.error
      <3>1. /\ ProcessCommResult(done.item.setid, done.item.par, done.item.sub,
                                 done.outcome.value)
            /\ done.outcome.value \in Own(done.item.setid)
        BY <1>4, <2>3 DEF Complete, Inv
      <3> QED BY <2>1, <3>1, CommResultShown
    <2> QED BY <2>2, <2>3
  <1>5. CASE \/ \E m \in Mode : Connect(m) \/ Serve(m)
             \/ Stop \/ Refresh \/ CheckAutoLoad \/ Tick \/ BasicDone \/ UNCHANGED vars
    BY <1>1, <1>5 DEF Connect, Serve, Stop, Refresh, CheckAutoLoad, Tick, BasicDone,
                      Collect, vars
  <1>6. ASSUME NEW a \in Drives, ChangeAddress(a) PROVE FALSE
    BY <1>6 DEF ChangeAddress
  <1> QED BY <1>2, <1>3, <1>4, <1>5, <1>6 DEF Next, User, Timer, Worker

\* Answers for other drives, tab changes, clean-ups and loaded files keep the
\* list on screen and the store of the active drive together (main.pas
\* 3908-3929, 3977, 4001-4008).
THEOREM ScreenAgrees ==
  ASSUME Protocols \subseteq {"SIS"}, MayReaddress = FALSE
  PROVE  Spec => []ViewMatchesStore
  <1>1. Init => Inv /\ ViewInv
    BY InitInv DEF Init, ViewInv, ViewMatchesStore
  <1>2. Inv /\ ViewInv /\ [Next]_vars => (Inv /\ ViewInv)'
    BY NextInv, NextShown
  <1>3. ViewInv => ViewMatchesStore
    BY DEF ViewInv
  <1> QED BY <1>1, <1>2, <1>3, PTL DEF Spec

-----------------------------------------------------------------------------
(* What changes a stored value.                                            *)

(* A record nobody has written has no value.                               *)
Sound(r) == r.known \in BOOLEAN /\ (r.known = FALSE => r.value = Empty)
Blank(st) == \A a \in Drives, p \in Par : Sound(st[a][p])

(* From st to new, a value stays, or its parameter is dropped from the     *)
(* list, or it comes from the file of the drive's motor.                   *)
Explained(st, new, a, p) ==
  \/ new[a][p].value = st[a][p].value
  \/ ~new[a][p].known /\ p \notin Candidates(new, a)
  \/ st[a][p].value = Empty /\ new[a][p].value = OnDisk(new[a][MOTORSERIAL].value, p).value

LEMMA SaveBlank ==
  ASSUME NEW st, Proper(st), Blank(st), NEW a, NEW p, NEW sub, NEW v
  PROVE  Blank(SaveDriveRegisterData(st, a, p, sub, v))
  <1> DEFINE w == IF sub = "data" THEN v ELSE st[a][p].value
             text == (IF sub = "text" THEN v # Empty ELSE st[a][p].text)
                       \/ (~st[a][p].known /\ p \in Defaults)
             r == [known |-> TRUE, value |-> w, text |-> text]
             new == [st EXCEPT ![a][p] = r]
  <1>1. SaveDriveRegisterData(st, a, p, sub, v) = new
    BY DEF SaveDriveRegisterData
  <1> HIDE DEF text, w
  <1>2. Sound(r)
    BY DEF Sound
  <1>3. ASSUME NEW b \in Drives, NEW q \in Par
        PROVE  new[b][q] = IF b = a /\ q = p THEN r ELSE st[b][q]
    BY DEF Proper, Shaped
  <1> HIDE DEF r, new
  <1> QED BY <1>1, <1>2, <1>3 DEF Blank

LEMMA MergedSound ==
  ASSUME NEW x, NEW y, Sound(x), Sound(y)
  PROVE  Sound(Merged(x, y))
  <1> DEFINE k == x.known \/ y.known
             w == IF x.value # Empty THEN x.value ELSE y.value
             t == x.text \/ y.text
  <1>1. Merged(x, y) = [known |-> k, value |-> w, text |-> t]
    BY DEF Merged
  <1>2. k \in BOOLEAN /\ (k = FALSE => x.known = FALSE /\ y.known = FALSE)
    BY Zenon DEF Sound
  <1>3. k = FALSE => w = Empty
    BY <1>2 DEF Sound
  <1> HIDE DEF k, w, t
  <1>4. /\ [known |-> k, value |-> w, text |-> t].known = k
        /\ [known |-> k, value |-> w, text |-> t].value = w
    OBVIOUS
  <1> QED BY <1>1, <1>2, <1>3, <1>4, Zenon DEF Sound

LEMMA DiskBlank ==
  ASSUME NEW st, Proper(st), Blank(st), address = [n \in Drives |-> n], NEW n \in Drives
  PROVE  Blank(ProcessDiskDriveData(st, n))
  <1> DEFINE serial == st[n][MOTORSERIAL].value
             merged == [p \in Par |-> Merged(st[n][p], OnDisk(serial, p))]
             new == [st EXCEPT ![n] = merged]
  <1>1. ProcessDiskDriveData(st, n) \in {st, new}
    BY DEF ProcessDiskDriveData
  <1>2. ASSUME NEW p PROVE Sound(OnDisk(serial, p))
    BY DEF Sound, OnDisk, Absent
  <1>3. ASSUME NEW p \in Par PROVE Sound(merged[p])
    BY <1>2, MergedSound DEF Blank
  <1> HIDE DEF merged
  <1>4. ASSUME NEW b \in Drives, NEW q \in Par
        PROVE  new[b][q] = IF b = n THEN merged[q] ELSE st[b][q]
    BY DEF Proper, Shaped
  <1> HIDE DEF new
  <1> QED BY <1>1, <1>3, <1>4 DEF Blank

LEMMA ListBlank ==
  ASSUME NEW st, Proper(st), Blank(st), address = [n \in Drives |-> n], NEW setid \in Drives
  PROVE  Blank(ProcessIDNList(st, setid))
  <1> DEFINE kept == [p \in Par |-> IF p \in Candidates(st, setid)
                                      THEN Kept(st[setid][p], p) ELSE Absent]
             new == [st EXCEPT ![setid] = kept]
  <1>1. ProcessIDNList(st, setid) = new
    BY DEF ProcessIDNList
  <1>2. ASSUME NEW p \in Par PROVE Sound(kept[p])
    <2>1. kept[p] \in {st[setid][p], DefaultRecord, Absent}
      BY DEF Kept
    <2>2. Sound(DefaultRecord) /\ Sound(Absent)
      BY DEF DefaultRecord, Absent, Sound
    <2> QED BY <2>1, <2>2 DEF Blank
  <1> HIDE DEF kept
  <1>3. ASSUME NEW b \in Drives, NEW q \in Par
        PROVE  new[b][q] = IF b = setid THEN kept[q] ELSE st[b][q]
    BY DEF Proper, Shaped
  <1> HIDE DEF new
  <1> QED BY <1>1, <1>2, <1>3 DEF Blank

\* What ProcessIDNList keeps has its value; what it drops is on no later list,
\* for the list itself may only get shorter.
LEMMA ListKeeps ==
  ASSUME NEW st, Proper(st), Blank(st), address = [n \in Drives |-> n], NEW d \in Drives
  PROVE  LET new == ProcessIDNList(st, d)
         IN  /\ Candidates(new, d) \subseteq Candidates(st, d)
             /\ \A p \in Par : IF p \in Candidates(st, d)
                               THEN new[d][p].value = st[d][p].value
                               ELSE new[d][p] = Absent
             /\ \A a \in Drives \ {d} : new[a] = st[a]
  <1> DEFINE kept == [p \in Par |-> IF p \in Candidates(st, d)
                                      THEN Kept(st[d][p], p) ELSE Absent]
             new == [st EXCEPT ![d] = kept]
  <1>1. ProcessIDNList(st, d) = new
    BY DEF ProcessIDNList
  <1>2. new[d] = kept /\ \A a \in Drives \ {d} : new[a] = st[a]
    BY DEF Proper, Shaped
  <1>3. ASSUME NEW p \in Par, p \in Candidates(st, d)
        PROVE  kept[p].value = st[d][p].value
    <2>1. kept[p] = Kept(st[d][p], p)
      BY <1>3
    <2>2. Sound(st[d][p])
      BY DEF Blank
    <2> QED BY <2>1, <2>2 DEF Kept, Sound, DefaultRecord, Absent
  <1>4. ASSUME NEW p \in Par, p \notin Candidates(st, d) PROVE kept[p] = Absent
    BY <1>4
  <1> HIDE DEF kept, new
  <1>5. Candidates(new, d) \subseteq Candidates(st, d)
    <2>1. PARAMLIST \in Par
      BY DriveAssumption
    <2>2. kept[PARAMLIST].value \in {st[d][PARAMLIST].value, Empty}
      BY <2>1, <1>3, <1>4 DEF Absent
    <2>3. Listed(Empty) = {}
      BY DriveAssumption, SentinelAssumption DEF Listed
    <2>4. Listed(kept[PARAMLIST].value) \subseteq Listed(st[d][PARAMLIST].value)
      BY <2>2, <2>3
    <2> QED BY <1>2, <2>4 DEF Candidates
  <1> QED BY <1>1, <1>2, <1>3, <1>4, <1>5

\* The file fills up empty values, and never the serial number that names it.
LEMMA DiskFills ==
  ASSUME NEW st, Proper(st), address = [n \in Drives |-> n], NEW d \in Drives
  PROVE  LET new == ProcessDiskDriveData(st, d)
         IN  /\ new[d][MOTORSERIAL].value = st[d][MOTORSERIAL].value
             /\ \A p \in Par :
                  \/ new[d][p].value = st[d][p].value
                  \/ /\ st[d][p].value = Empty
                     /\ new[d][p].value = OnDisk(st[d][MOTORSERIAL].value, p).value
             /\ \A a \in Drives \ {d} : new[a] = st[a]
  <1> DEFINE serial == st[d][MOTORSERIAL].value
             merged == [p \in Par |-> Merged(st[d][p], OnDisk(serial, p))]
             new == [st EXCEPT ![d] = merged]
  <1>1. ProcessDiskDriveData(st, d) \in {st, new}
    BY DEF ProcessDiskDriveData
  <1>2. new[d] = merged /\ \A a \in Drives \ {d} : new[a] = st[a]
    BY DEF Proper, Shaped
  <1>3. ASSUME NEW p \in Par
        PROVE  \/ merged[p].value = st[d][p].value
               \/ st[d][p].value = Empty /\ merged[p].value = OnDisk(serial, p).value
    BY DEF Merged
  <1>4. merged[MOTORSERIAL].value = serial
    <2>1. MOTORSERIAL \in Par
      BY DriveAssumption
    <2>2. serial = Empty => OnDisk(serial, MOTORSERIAL).value = Empty
      BY DriveAssumption, SentinelAssumption DEF OnDisk, Absent
    <2> QED BY <1>3, <2>1, <2>2
  <1> HIDE DEF merged, new
  <1> QED BY <1>1, <1>2, <1>3, <1>4

LEMMA SerialListed ==
  ASSUME NEW st, NEW d
  PROVE  MOTORSERIAL \in Candidates(st, d)
  <1>1. MOTORSERIAL \in Range(BASICDRIVEDATA)
    BY DEF Range, BASICDRIVEDATA
  <1> QED BY <1>1, Zenon DEF Candidates

\* Nothing is lost without a reason when the list is cleaned up once more.
LEMMA ListExplained ==
  ASSUME NEW st, NEW mid, Proper(mid), Blank(mid), address = [n \in Drives |-> n],
         NEW d \in Drives,
         \A a \in Drives, p \in Par : Explained(st, mid, a, p)
  PROVE  \A a \in Drives, p \in Par : Explained(st, ProcessIDNList(mid, d), a, p)
  <1> DEFINE new == ProcessIDNList(mid, d)
  <1>1. /\ Candidates(new, d) \subseteq Candidates(mid, d)
        /\ \A p \in Par : IF p \in Candidates(mid, d)
                          THEN new[d][p].value = mid[d][p].value
                          ELSE new[d][p] = Absent
        /\ \A a \in Drives \ {d} : new[a] = mid[a]
    BY ListKeeps
  <1> HIDE DEF new
  <1>2. ASSUME NEW a \in Drives \ {d}, NEW p \in Par PROVE Explained(st, new, a, p)
    <2>1. new[a] = mid[a]
      BY <1>1
    <2>2. Candidates(new, a) = Candidates(mid, a)
      BY <2>1 DEF Candidates
    <2>3. Explained(st, mid, a, p)
      OBVIOUS
    <2> QED BY <2>1, <2>2, <2>3 DEF Explained
  <1>3. ASSUME NEW p \in Par, p \notin Candidates(mid, d) PROVE Explained(st, new, d, p)
    <2>1. new[d][p] = Absent /\ p \notin Candidates(new, d)
      BY <1>1, <1>3
    <2>2. ~new[d][p].known
      BY <2>1 DEF Absent
    <2> QED BY <2>1, <2>2 DEF Explained
  <1>4. ASSUME NEW p \in Par, p \in Candidates(mid, d) PROVE Explained(st, new, d, p)
    <2>1. new[d][p].value = mid[d][p].value
      BY <1>1, <1>4
    <2>2. MOTORSERIAL \in Par /\ MOTORSERIAL \in Candidates(mid, d)
      BY DriveAssumption, SerialListed
    <2>3. new[d][MOTORSERIAL].value = mid[d][MOTORSERIAL].value
      BY <1>1, <2>2
    <2>4. Explained(st, mid, d, p)
      OBVIOUS
    <2> QED BY <1>4, <2>1, <2>3, <2>4 DEF Explained
  <1> QED BY <1>2, <1>3, <1>4 DEF new

\* The file is loaded, then the list is cleaned up.
LEMMA LoadExplained ==
  ASSUME NEW st, Proper(st), Blank(st), address = [n \in Drives |-> n], NEW d \in Drives
  PROVE  LET new == ProcessIDNList(ProcessDiskDriveData(st, d), d)
         IN  /\ Proper(new) /\ Blank(new)
             /\ \A a \in Drives, p \in Par : Explained(st, new, a, p)
  <1> DEFINE disk == ProcessDiskDriveData(st, d)
  <1>1. Proper(disk) /\ Blank(disk)
    BY DiskProper, DiskBlank
  <1>2. /\ disk[d][MOTORSERIAL].value = st[d][MOTORSERIAL].value
        /\ \A p \in Par :
             \/ disk[d][p].value = st[d][p].value
             \/ /\ st[d][p].value = Empty
                /\ disk[d][p].value = OnDisk(st[d][MOTORSERIAL].value, p).value
        /\ \A a \in Drives \ {d} : disk[a] = st[a]
    BY DiskFills
  <1> HIDE DEF disk
  <1>3. ASSUME NEW a \in Drives, NEW p \in Par PROVE Explained(st, disk, a, p)
    <2>1. CASE a = d
      BY <1>2, <2>1 DEF Explained
    <2>2. CASE a # d
      BY <1>2, <2>2 DEF Explained
    <2> QED BY <2>1, <2>2
  <1>4. \A a \in Drives, p \in Par : Explained(st, ProcessIDNList(disk, d), a, p)
    BY <1>1, <1>3, ListExplained
  <1>5. Proper(ProcessIDNList(disk, d)) /\ Blank(ProcessIDNList(disk, d))
    BY <1>1, ListProper, ListBlank
  <1> QED BY <1>4, <1>5 DEF disk

\* A change of the store that the actions account for.
Accounted(a, p) == Processed(a, p) \/ Dropped(a, p) \/ FilledUp(a, p)
Change == \A a \in Drives, p \in Par :
            store'[a][p].value # store[a][p].value => Accounted(a, p)

\* A change that is explained from store to store' is one of Dropped and FilledUp.
LEMMA ExplainedAccounts ==
  ASSUME NEW a, NEW p, NEW st, st[a][p].value = store[a][p].value,
         Explained(st, store', a, p), address' = address,
         \/ autoLoad
         \/ store'[a][p].value = st[a][p].value
         \/ ~store'[a][p].known /\ p \notin Candidates(store', a),
         store'[a][p].value # store[a][p].value
  PROVE  Dropped(a, p) \/ FilledUp(a, p)
  <1>1. Candidates(store, a)' = Candidates(store', a)
    BY DEF Candidates
  <1> QED BY <1>1 DEF Explained, Dropped, FilledUp

\* An answer changes the value of its own parameter, if it is data.
LEMMA SaveElsewhere ==
  ASSUME NEW st, Proper(st), NEW a, NEW p, NEW sub, NEW v,
         NEW b \in Drives, NEW q \in Par, ~(sub = "data" /\ b = a /\ q = p)
  PROVE  SaveDriveRegisterData(st, a, p, sub, v)[b][q].value = st[b][q].value
  <1> DEFINE w == IF sub = "data" THEN v ELSE st[a][p].value
             text == (IF sub = "text" THEN v # Empty ELSE st[a][p].text)
                       \/ (~st[a][p].known /\ p \in Defaults)
             r == [known |-> TRUE, value |-> w, text |-> text]
             new == [st EXCEPT ![a][p] = r]
  <1>1. SaveDriveRegisterData(st, a, p, sub, v) = new
    BY DEF SaveDriveRegisterData
  <1>2. b = a /\ q = p => w = st[b][q].value
    OBVIOUS
  <1> HIDE DEF text, w
  <1>3. new[b][q] = IF b = a /\ q = p THEN r ELSE st[b][q]
    BY DEF Proper, Shaped
  <1>4. r.value = w
    OBVIOUS
  <1> HIDE DEF r, new
  <1> QED BY <1>1, <1>2, <1>3, <1>4

\* ProcessCommResult: apart from the answered parameter, values are dropped or
\* filled up, and a record without a value stays without.
LEMMA CommResultAccounts ==
  ASSUME Inv, Blank(store), NEW a, NEW p, NEW sub, NEW v \in Own(a),
         ProcessCommResult(a, p, sub, v), address' = address
  PROVE  /\ Blank(store')
         /\ \A b \in Drives, q \in Par :
              store'[b][q].value # store[b][q].value =>
                (sub = "data" /\ b = a /\ q = p) \/ Dropped(b, q) \/ FilledUp(b, q)
  <1> DEFINE saved == SaveDriveRegisterData(store, a, p, sub, v)
             loads == sub = "data" /\ a = address[ActiveDriveNumber]
                        /\ p = MOTORSERIAL /\ autoLoad
             new == ProcessIDNList(ProcessDiskDriveData(saved, ActiveDriveNumber), a)
  <1>1. store' = IF loads THEN new ELSE saved
    BY DEF ProcessCommResult
  <1>2. Proper(saved) /\ Blank(saved)
    BY SaveProper, SaveBlank DEF Inv
  <1>3. ASSUME NEW b \in Drives, NEW q \in Par, ~(sub = "data" /\ b = a /\ q = p)
        PROVE  saved[b][q].value = store[b][q].value
    BY <1>3, SaveElsewhere DEF Inv
  <1>4. loads => autoLoad /\ a = ActiveDriveNumber /\ a \in Drives
    BY DEF Inv
  <1> HIDE DEF saved
  <1>5. CASE ~loads
    BY <1>1, <1>2, <1>3, <1>5
  <1>6. CASE loads
    <2>1. Blank(new) /\ \A b \in Drives, q \in Par : Explained(saved, new, b, q)
      BY <1>2, <1>4, <1>6, LoadExplained DEF Inv
    <2>2. store' = new /\ autoLoad
      BY <1>1, <1>4, <1>6
    <2> HIDE DEF new, loads
    <2>3. ASSUME NEW b \in Drives, NEW q \in Par, store'[b][q].value # store[b][q].value,
                 ~(sub = "data" /\ b = a /\ q = p)
          PROVE  Dropped(b, q) \/ FilledUp(b, q)
      <3>1. saved[b][q].value = store[b][q].value
        BY <1>3, <2>3
      <3>2. Explained(saved, store', b, q)
        BY <2>1, <2>2
      <3> QED BY <2>2, <2>3, <3>1, <3>2, ExplainedAccounts
    <2> QED BY <2>1, <2>2, <2>3
  <1> QED BY <1>5, <1>6

\* TabControl1Change: the file is loaded only if the user wants it to be.
LEMMA ChangeTabAccounts ==
  ASSUME Inv, Blank(store), NEW n \in Tabs, ChangeTab(n)
  PROVE  Blank(store') /\ Change
  <1>1. n \in Drives /\ address[n] = n /\ address' = address
    BY DriveAssumption DEF Inv, ChangeTab
  <1> DEFINE loads == autoLoad /\ motorSerial[n] # motorSerial[ActiveDriveNumber]
             new == ProcessIDNList(ProcessDiskDriveData(store, n), n)
             loaded == IF loads THEN new ELSE store
             cleaned == ProcessIDNList(loaded, n)
  <1>2. store' = cleaned
    BY <1>1 DEF ChangeTab
  <1>3. Proper(new) /\ Blank(new) /\ \A a \in Drives, p \in Par : Explained(store, new, a, p)
    BY <1>1, LoadExplained DEF Inv
  <1>4. \A a \in Drives, p \in Par : Explained(store, store, a, p)
    BY DEF Explained
  <1> HIDE DEF new
  <1>5. /\ Proper(loaded) /\ Blank(loaded)
        /\ \A a \in Drives, p \in Par : Explained(store, loaded, a, p)
    BY <1>3, <1>4 DEF Inv
  <1>6. ~autoLoad => loaded = store
    OBVIOUS
  <1> HIDE DEF loaded
  <1>7. Blank(cleaned)
    BY <1>1, <1>5, ListBlank DEF Inv
  <1>8. \A a \in Drives, p \in Par : Explained(store, cleaned, a, p)
    BY <1>1, <1>5, ListExplained DEF Inv
  <1>9. ASSUME ~autoLoad, NEW a \in Drives, NEW p \in Par
        PROVE  \/ cleaned[a][p].value = store[a][p].value
               \/ ~cleaned[a][p].known /\ p \notin Candidates(cleaned, a)
    <2>1. /\ Candidates(cleaned, n) \subseteq Candidates(store, n)
          /\ IF p \in Candidates(store, n) THEN cleaned[n][p].value = store[n][p].value
                                           ELSE cleaned[n][p] = Absent
          /\ \A b \in Drives \ {n} : cleaned[b] = store[b]
      BY <1>1, <1>6, <1>9, ListKeeps DEF Inv
    <2>2. ~Absent.known
      BY DEF Absent
    <2> HIDE DEF cleaned
    <2> QED BY <2>1, <2>2
  <1> HIDE DEF cleaned
  <1>10. ASSUME NEW a \in Drives, NEW p \in Par, store'[a][p].value # store[a][p].value
         PROVE  Dropped(a, p) \/ FilledUp(a, p)
    <2>1. Explained(store, store', a, p)
      BY <1>2, <1>8
    <2>2. \/ autoLoad
          \/ store'[a][p].value = store[a][p].value
          \/ ~store'[a][p].known /\ p \notin Candidates(store', a)
      BY <1>2, <1>9
    <2> QED BY <1>1, <1>10, <2>1, <2>2, ExplainedAccounts
  <1> QED BY <1>2, <1>7, <1>10 DEF Change, Accounted

\* Every step accounts for the values it changes.
LEMMA NextAccounts ==
  ASSUME MayReaddress = FALSE, Inv, Blank(store), [Next]_vars
  PROVE  Blank(store') /\ Change
  <1> USE DEF tab, link, data, work
  <1>1. ASSUME UNCHANGED store PROVE Blank(store') /\ Change
    BY <1>1 DEF Change
  <1>2. ASSUME NEW n \in Tabs, ChangeTab(n) PROVE Blank(store') /\ Change
    BY <1>2, ChangeTabAccounts
  <1>3. CASE BasicRead
    <2>1. PICK o \in Outcomes(conn, address[ActiveDriveNumber], BASICDRIVEDATA[ui]) :
            ProcessCommResult(address[ActiveDriveNumber], BASICDRIVEDATA[ui], "data", o.value)
      BY <1>3 DEF BasicRead
    <2>2. address' = address /\ ui \in DOMAIN BASICDRIVEDATA
      BY <1>3 DEF BasicRead
    <2>3. o.value \in Own(address[ActiveDriveNumber])
      BY OutcomeOwn
    <2>4. /\ Blank(store')
          /\ \A b \in Drives, q \in Par :
               store'[b][q].value # store[b][q].value =>
                 \/ b = address[ActiveDriveNumber] /\ q = BASICDRIVEDATA[ui]
                 \/ Dropped(b, q) \/ FilledUp(b, q)
      BY <2>1, <2>2, <2>3, CommResultAccounts
    <2> QED BY <2>2, <2>4 DEF Change, Accounted, Processed
  <1>4. CASE Complete
    <2>1. address' = address /\ done # NoItem /\ done' = NoItem
      BY <1>4 DEF Complete
    <2>2. CASE done.outcome.error
      BY <1>1, <1>4, <2>2 DEF Complete
    <2>3. CASE ~done.outcome.error
      <3>1. /\ ProcessCommResult(done.item.setid, done.item.par, done.item.sub,
                                 done.outcome.value)
            /\ done.outcome.value \in Own(done.item.setid)
        BY <1>4, <2>3 DEF Complete, Inv
      <3>2. /\ Blank(store')
            /\ \A b \in Drives, q \in Par :
                 store'[b][q].value # store[b][q].value =>
                   \/ done.item.sub = "data" /\ b = done.item.setid /\ q = done.item.par
                   \/ Dropped(b, q) \/ FilledUp(b, q)
        BY <2>1, <3>1, CommResultAccounts
      <3> QED BY <2>1, <3>2 DEF Change, Accounted, Processed
    <2> QED BY <2>2, <2>3
  <1>5. CASE \/ \E m \in Mode : Connect(m) \/ Serve(m)
             \/ Stop \/ Refresh \/ CheckAutoLoad \/ Tick \/ BasicDone \/ UNCHANGED vars
    BY <1>1, <1>5 DEF Connect, Serve, Stop, Refresh, CheckAutoLoad, Tick, BasicDone,
                      Collect, vars
  <1>6. ASSUME NEW a \in Drives, ChangeAddress(a) PROVE FALSE
    BY <1>6 DEF ChangeAddress
  <1> QED BY <1>2, <1>3, <1>4, <1>5, <1>6 DEF Next, User, Timer, Worker

\* Switching tabs, cleaning up the list and loading the file of a motor never
\* lose or replace a value that was read from a drive and is still on its list,
\* over SIS and with unchanged addresses (main.pas 3871-3906: save to a
\* temporary array, clear, put back).
THEOREM OnlyAnswersChange ==
  ASSUME Protocols \subseteq {"SIS"}, MayReaddress = FALSE
  PROVE  Spec => ValuesOnlyFromAnswers
  <1>1. Init => Inv /\ Blank(store)
    <2>1. Sound(Absent)
      BY DEF Sound, Absent
    <2>2. Init => store = [a \in Drives |-> [p \in Par |-> Absent]]
      BY DEF Init
    <2>3. Init => Blank(store)
      BY <2>1, <2>2 DEF Blank
    <2> QED BY <2>3, InitInv
  <1>2. Inv /\ Blank(store) /\ [Next]_vars => (Inv /\ Blank(store))'
    BY NextInv, NextAccounts
  <1>3. Inv /\ Blank(store) /\ [Next]_vars
          => [\A a \in Drives, p \in Par : store'[a][p].value # store[a][p].value =>
                Processed(a, p) \/ Dropped(a, p) \/ FilledUp(a, p)]_vars
    BY NextAccounts DEF Change, Accounted
  <1> QED BY <1>1, <1>2, <1>3, PTL DEF Spec, ValuesOnlyFromAnswers

-----------------------------------------------------------------------------
(* The kinds of the variables, with any protocol and addresses.            *)

Store == [Drives -> [Par -> Record]]

\* A record of the store is one of its kinds.
LEMMA Records ==
  /\ Absent \in Record /\ DefaultRecord \in Record
  /\ \A known, text \in BOOLEAN : \A v \in Value :
       [known |-> known, value |-> v, text |-> text] \in Record
  /\ \A r \in Record : /\ r.known \in BOOLEAN /\ r.value \in Value /\ r.text \in BOOLEAN
                       /\ \A p : Kept(r, p) \in Record
                       /\ \A s \in Record : Merged(r, s) \in Record
  BY DEF Absent, DefaultRecord, Record, Value, Kept, Merged

\* A record is put into its place.
LEMMA SaveTyped ==
  ASSUME NEW st \in Store, NEW a \in Drives, NEW p \in Par, NEW sub, NEW v \in Value
  PROVE  SaveDriveRegisterData(st, a, p, sub, v) \in Store
  <1> DEFINE old == st[a][p]
             value == IF sub = "data" THEN v ELSE old.value
             text == (IF sub = "text" THEN v # Empty ELSE old.text)
                       \/ (~old.known /\ p \in Defaults)
             r == [known |-> TRUE, value |-> value, text |-> text]
  <1>1. SaveDriveRegisterData(st, a, p, sub, v) = [st EXCEPT ![a][p] = r]
    BY DEF SaveDriveRegisterData
  <1>2. old \in Record
    BY DEF Store
  <1>3. value \in Value /\ text \in BOOLEAN
    <2> HIDE DEF old
    <2> QED BY <1>2, Records
  <1> HIDE DEF value, text
  <1>4. r \in Record
    BY <1>3, Records
  <1> HIDE DEF r
  <1> QED BY <1>1, <1>4 DEF Store

\* ProcessDiskDriveData
LEMMA DiskTyped ==
  ASSUME NEW st \in Store, address \in [Drives -> Drives], NEW n \in Drives
  PROVE  ProcessDiskDriveData(st, n) \in Store
  <1> DEFINE serial == st[address[n]][MOTORSERIAL].value
             merged == [p \in Par |-> Merged(st[n][p], OnDisk(serial, p))]
  <1>1. ProcessDiskDriveData(st, n) \in {st, [st EXCEPT ![n] = merged]}
    BY DEF ProcessDiskDriveData
  <1>2. ASSUME NEW p \in Par PROVE OnDisk(serial, p) \in Record
    <2>1. serial \in Saved => serial \in Value
      BY DriveAssumption DEF Value
    <2> HIDE DEF serial
    <2> QED BY <2>1, Records DEF OnDisk
  <1> HIDE DEF serial
  <1>3. \A p \in Par : st[n][p] \in Record
    BY DEF Store
  <1>4. merged \in [Par -> Record]
    BY <1>2, <1>3, Records
  <1> HIDE DEF merged
  <1> QED BY <1>1, <1>4 DEF Store

\* ProcessIDNList
LEMMA ListTyped ==
  ASSUME NEW st \in Store, address \in [Drives -> Drives], NEW setid \in Drives
  PROVE  ProcessIDNList(st, setid) \in Store
  <1> DEFINE from == address[setid]
             kept == [p \in Par |-> IF p \in Candidates(st, setid)
                                      THEN Kept(st[from][p], p) ELSE Absent]
  <1>1. ProcessIDNList(st, setid) = [st EXCEPT ![setid] = kept]
    BY DEF ProcessIDNList
  <1>2. from \in Drives
    OBVIOUS
  <1> HIDE DEF from
  <1>3. \A p \in Par : st[from][p] \in Record
    BY <1>2 DEF Store
  <1>4. kept \in [Par -> Record]
    BY <1>3, Records
  <1> HIDE DEF kept
  <1> QED BY <1>1, <1>4 DEF Store

\* The list on screen after it has been filled.
LEMMA ListingTyped ==
  ASSUME NEW st \in Store, NEW setid \in Drives
  PROVE  Listing(st, setid) \in [Par -> Value \union {NotShown}]
  <1>1. \A p \in Par : st[setid][p] \in Record
    BY DEF Store
  <1> QED BY <1>1, Records DEF Listing

\* The stages there are.
Stages == {"dcNone", "dcBasic", "dcIDN", "dcIDNData", "dcIDNAttribute"}

TypeInv == TypeOK /\ (ui # 0 => conn # "None")

\* What an answer or its lack is processed into.
LEMMA CommResultTyped ==
  ASSUME TypeOK, NEW a \in Drives, NEW p \in Par, NEW sub, NEW v \in Value,
         ProcessCommResult(a, p, sub, v)
  PROVE  /\ store' \in Store /\ view' \in [Par -> Value \union {NotShown}]
         /\ motorSerial' \in [Drives -> Value] /\ DCStatus' \in Stages
  <1> DEFINE saved == SaveDriveRegisterData(store, a, p, sub, v)
             visible == sub = "data" /\ a = address[ActiveDriveNumber]
             serial == visible /\ p = MOTORSERIAL
             loads == serial /\ autoLoad
             disk == ProcessDiskDriveData(saved, ActiveDriveNumber)
             loaded == IF loads THEN ProcessIDNList(disk, a) ELSE saved
             list == IF loads THEN Listing(loaded, a) ELSE view
  <1>1. /\ store \in Store /\ view \in [Par -> Value \union {NotShown}]
        /\ motorSerial \in [Drives -> Value] /\ DCStatus \in Stages
        /\ address \in [Drives -> Drives] /\ ActiveDriveNumber \in Drives
    BY DriveAssumption DEF TypeOK, Store, Stages
  <1>2. /\ store' = loaded
        /\ view' = IF visible /\ list[p] # NotShown THEN [list EXCEPT ![p] = v] ELSE list
        /\ motorSerial' = IF serial THEN [motorSerial EXCEPT ![ActiveDriveNumber] = v]
                                    ELSE motorSerial
        /\ DCStatus' = IF loads /\ HasRecords(loaded, a) THEN "dcIDNData" ELSE DCStatus
    BY DEF ProcessCommResult
  <1>3. saved \in Store
    BY <1>1, SaveTyped
  <1> HIDE DEF saved
  <1>4. disk \in Store
    BY <1>1, <1>3, DiskTyped
  <1> HIDE DEF disk
  <1>5. loaded \in Store
    BY <1>1, <1>3, <1>4, ListTyped
  <1> HIDE DEF loaded
  <1>6. list \in [Par -> Value \union {NotShown}]
    BY <1>1, <1>5, ListingTyped
  <1> HIDE DEF list, loads, serial, visible
  <1> QED BY <1>1, <1>2, <1>5, <1>6 DEF Stages

\* What an exchange ends in.
LEMMA OutcomesTyped ==
  ASSUME TypeOK, NEW mode, NEW setid, NEW p, NEW o \in Outcomes(mode, setid, p)
  PROVE  o \in Outcome
  <1>1. Responder(mode, setid) \in Bus \union {0}
    BY DEF TypeOK, Responder
  <1>2. NoAnswer \in Outcome
    BY DEF NoAnswer, Outcome, Value
  <1> DEFINE d == Responder(mode, setid)
             answer == IF p \in Implements[d] THEN [error |-> FALSE, value |-> d]
                       ELSE IF mode = "SIS" THEN [error |-> FALSE, value |-> Garbled]
                       ELSE [error |-> TRUE, value |-> Empty]
  <1>3. o = NoAnswer \/ (d # 0 /\ o = answer)
    BY DEF Outcomes
  <1> HIDE DEF d
  <1>4. d # 0 => d \in Value
    BY <1>1 DEF Value, d
  <1>5. d # 0 => answer \in Outcome
    BY <1>4 DEF Outcome, Value
  <1> HIDE DEF answer
  <1> QED BY <1>2, <1>3, <1>5

\* The items that a read of some parameters puts into a queue.
LEMMA ReadsTyped ==
  ASSUME TypeOK, conn # "None", NEW pars \in Seq(Par), NEW sub \in {"data", "attr", "text"}
  PROVE  Reads(pars, sub) \in Seq(Item)
  <1> DEFINE at == address[ActiveDriveNumber]
             item(p) == [mode |-> conn, setid |-> at, par |-> p, sub |-> sub]
  <1>1. conn \in Mode /\ at \in Drives
    BY DriveAssumption DEF TypeOK
  <1> HIDE DEF at
  <1>2. \A p \in Par : item(p) \in Item
    BY <1>1 DEF Item
  <1>3. Reads(pars, sub) = [i \in DOMAIN pars |-> item(pars[i])]
    BY DEF Reads, at
  <1> HIDE DEF item
  <1>4. DOMAIN pars = 1..Len(pars) /\ Len(pars) \in Nat
    OBVIOUS
  <1>5. [i \in 1..Len(pars) |-> item(pars[i])] \in Seq(Item)
    <2>1. \A i \in 1..Len(pars) : item(pars[i]) \in Item
      BY <1>2
    <2> QED BY <1>4, <2>1
  <1> QED BY <1>3, <1>4, <1>5

\* FlattenSeq puts the items of its sequences into one.
LEMMA FlattenTyped ==
  ASSUME NEW S, NEW seqs \in Seq(Seq(S))
  PROVE  FlattenSeq(seqs) \in Seq(S)
  <1> DEFINE n == Len(seqs)
             Step(f, i) == IF i = 1 THEN seqs[i] ELSE f[i - 1] \o seqs[i]
             Flat(f, m) == f = [i \in 1..m |-> Step(f, i)]
             flatten == CHOOSE f : Flat(f, n)
             U == {m \in Nat : \E f : Flat(f, m)}
  <1>1. n \in Nat /\ \A i \in 1..n : seqs[i] \in Seq(S)
    OBVIOUS
  <1>2. FlattenSeq(seqs) = IF n = 0 THEN seqs ELSE flatten[n]
    BY DEF FlattenSeq
  <1> HIDE DEF n
  <1>3. 0 \in U
    <2> DEFINE f == [i \in 1..0 |-> <<>>]
    <2>1. Flat(f, 0)
      OBVIOUS
    <2> HIDE DEF f, Flat
    <2> QED BY <2>1
  <1>4. ASSUME NEW m \in Nat, m \in U PROVE m + 1 \in U
    <2>1. PICK f : Flat(f, m)
      BY <1>4
    <2> DEFINE g == [i \in 1..(m + 1) |-> IF i <= m THEN f[i] ELSE Step(f, m + 1)]
    <2>2. ASSUME NEW i \in 1..(m + 1) PROVE g[i] = Step(g, i)
      <3>1. CASE i <= m
        <4>1. g[i] = f[i] /\ (i # 1 => g[i - 1] = f[i - 1])
          BY <3>1
        <4>2. i \in 1..m
          BY <3>1
        <4>3. f[i] = Step(f, i)
          <5> HIDE DEF Step
          <5> QED BY <2>1, <4>2
        <4> HIDE DEF g
        <4> QED BY <4>1, <4>3
      <3>2. CASE ~(i <= m)
        <4>1. i = m + 1 /\ g[i] = Step(f, i) /\ (i # 1 => g[i - 1] = f[i - 1])
          <5> HIDE DEF Step
          <5> QED BY <3>2
        <4> HIDE DEF g
        <4> QED BY <4>1
      <3> QED BY <3>1, <3>2
    <2>3. Flat(g, m + 1)
      <3>1. g = [i \in 1..(m + 1) |-> g[i]]
        OBVIOUS
      <3> HIDE DEF g, Step
      <3> QED BY <2>2, <3>1
    <2> HIDE DEF g, Flat
    <2> QED BY <2>3
  <1>5. Flat(flatten, n)
    <2>1. Nat \subseteq U
      <3> HIDE DEF U
      <3> QED BY <1>3, <1>4, Induction
    <2>2. \E f : Flat(f, n)
      <3> HIDE DEF Flat
      <3> QED BY <1>1, <2>1
    <2> HIDE DEF Flat
    <2> QED BY <2>2
  <1> HIDE DEF flatten
  <1> DEFINE T == {i \in 0..n : i # 0 => flatten[i] \in Seq(S)}
  <1>6. 0 \in T
    BY <1>1
  <1>7. ASSUME NEW i \in 0..(n - 1), i \in T PROVE i + 1 \in T
    <2>1. i + 1 \in 1..n /\ seqs[i + 1] \in Seq(S)
      BY <1>1
    <2>a. flatten[i + 1] = Step(flatten, i + 1)
      <3> HIDE DEF Step
      <3> QED BY <1>5, <2>1
    <2>2. flatten[i + 1] = IF i = 0 THEN seqs[i + 1] ELSE flatten[i] \o seqs[i + 1]
      BY <2>a
    <2>3. i # 0 => flatten[i] \in Seq(S)
      BY <1>7
    <2>4. flatten[i + 1] \in Seq(S)
      BY <2>1, <2>2, <2>3
    <2> QED BY <1>1, <2>1, <2>4
  <1>8. n \in T
    <2> HIDE DEF T
    <2>1. 0..n \subseteq T
      BY <1>1, <1>6, <1>7, InductionUpTo
    <2> QED BY <1>1, <2>1
  <1>9. n = 0 => seqs = <<>>
    BY DEF n
  <1> QED BY <1>1, <1>2, <1>8, <1>9

\* The reads of every stage.
LEMMA StageReadsTyped ==
  ASSUME TypeOK, conn # "None"
  PROVE  StageReads \in Seq(Item)
  <1>1. ASSUME NEW reads \in [Par -> Seq(Item)]
        PROVE  FlattenSeq([i \in DOMAIN Parameters |-> reads[Parameters[i]]]) \in Seq(Item)
    <2> DEFINE seqs == [i \in 1..Len(Parameters) |-> reads[Parameters[i]]]
    <2>1. Parameters \in Seq(Par)
      BY DriveAssumption
    <2>2. \A i \in 1..Len(Parameters) : reads[Parameters[i]] \in Seq(Item)
      BY <1>1, <2>1
    <2>3. seqs \in Seq(Seq(Item))
      BY <2>1, <2>2
    <2>4. [i \in DOMAIN Parameters |-> reads[Parameters[i]]] = seqs
      BY <2>1
    <2> HIDE DEF seqs
    <2> QED BY <2>3, <2>4, FlattenTyped
  <1> DEFINE one(p, sub) == Reads(<<p>>, sub)
  <1>2. ASSUME NEW p \in Par, NEW sub \in {"data", "attr", "text"}
        PROVE  one(p, sub) \in Seq(Item)
    <2>1. <<p>> \in Seq(Par)
      OBVIOUS
    <2> QED BY <2>1, ReadsTyped
  <1>3. <<>> \in Seq(Item)
    OBVIOUS
  <1> HIDE DEF one
  <1>4. \A c, r : r \in Seq(Item) => When(c, r) \in Seq(Item)
    BY <1>3 DEF When
  <1>5. DataReads \in Seq(Item)
    <2> DEFINE again(p) == Stored(p).value = Empty
                             \/ p \notin {MOTORSERIAL, PARAMLIST, MODELIST}
               reads(p) == When(view[p] # NotShown,
                                When(~Stored(p).known, one(p, "attr"))
                                  \o When(again(p), one(p, "data")))
    <2>1. ASSUME NEW p \in Par PROVE reads(p) \in Seq(Item)
      <3> DEFINE A == When(~Stored(p).known, one(p, "attr"))
                 B == When(again(p), one(p, "data"))
      <3>1. A \in Seq(Item) /\ B \in Seq(Item)
        BY <1>2, <1>4
      <3> HIDE DEF A, B
      <3>2. A \o B \in Seq(Item)
        BY <3>1
      <3> QED BY <1>4, <3>2 DEF A, B
    <2>2. DataReads = FlattenSeq([i \in DOMAIN Parameters |-> reads(Parameters[i])])
      BY DEF DataReads, one
    <2> HIDE DEF reads
    <2> DEFINE all == [p \in Par |-> reads(p)]
    <2>3. all \in [Par -> Seq(Item)] /\ \A p \in Par : all[p] = reads(p)
      BY <2>1
    <2> HIDE DEF all
    <2>4. DataReads = FlattenSeq([i \in DOMAIN Parameters |-> all[Parameters[i]]])
      <3>1. \A i \in DOMAIN Parameters : Parameters[i] \in Par
        BY DriveAssumption
      <3>2. [i \in DOMAIN Parameters |-> reads(Parameters[i])]
              = [i \in DOMAIN Parameters |-> all[Parameters[i]]]
        BY <2>3, <3>1
      <3> QED BY <2>2, <3>2
    <2> QED BY <1>1, <2>3, <2>4
  <1>6. TextReads \in Seq(Item)
    <2> DEFINE reads(p) == When(view[p] # NotShown /\ ~Stored(p).text, one(p, "text"))
    <2>1. \A p \in Par : reads(p) \in Seq(Item)
      BY <1>2, <1>4
    <2>2. TextReads = FlattenSeq([i \in DOMAIN Parameters |-> reads(Parameters[i])])
      BY DEF TextReads, one
    <2> HIDE DEF reads
    <2> DEFINE all == [p \in Par |-> reads(p)]
    <2>3. all \in [Par -> Seq(Item)] /\ \A p \in Par : all[p] = reads(p)
      BY <2>1
    <2> HIDE DEF all
    <2>4. TextReads = FlattenSeq([i \in DOMAIN Parameters |-> all[Parameters[i]]])
      <3>1. \A i \in DOMAIN Parameters : Parameters[i] \in Par
        BY DriveAssumption
      <3>2. [i \in DOMAIN Parameters |-> reads(Parameters[i])]
              = [i \in DOMAIN Parameters |-> all[Parameters[i]]]
        BY <2>3, <3>1
      <3> QED BY <2>2, <3>2
    <2> QED BY <1>1, <2>3, <2>4
  <1>7. Reads(<<PARAMLIST>>, "data") \in Seq(Item)
    BY <1>2, DriveAssumption DEF one
  <1> QED BY <1>3, <1>5, <1>6, <1>7 DEF StageReads

\* The part of GetDriveData after its first reads.
LEMMA CollectTyped ==
  ASSUME TypeOK, conn # "None", NEW first \in Seq(Item), Collect(first)
  PROVE  /\ queue' \in [Mode -> Seq(Item)] /\ DCStatus' \in Stages
         /\ UNCHANGED <<link, tab, data, done, clicks>>
  <1>1. conn \in Mode /\ queue \in [Mode -> Seq(Item)]
    BY DEF TypeOK
  <1>2. Reverse(first) \in Seq(Item)
    <2> DEFINE n == Len(first)
    <2>1. n \in Nat /\ \A i \in 1..n : (n - i) + 1 \in 1..n /\ first[(n - i) + 1] \in Item
      OBVIOUS
    <2> QED BY <2>1 DEF Reverse
  <1>3. StageReads \in Seq(Item)
    BY StageReadsTyped
  <1>4. queue[conn] \in Seq(Item)
    BY <1>1
  <1> DEFINE long == Reverse(first) \o queue[conn] \o StageReads
  <1>5. long \in Seq(Item)
    BY <1>2, <1>3, <1>4
  <1>6. queue' = [queue EXCEPT ![conn] = long]
    BY DEF Collect
  <1> HIDE DEF long
  <1>7. queue' \in [Mode -> Seq(Item)]
    BY <1>1, <1>5, <1>6
  <1>8. DCStatus' \in Stages
    BY DEF Collect, NextStage, Stages
  <1> QED BY <1>7, <1>8 DEF Collect

LEMMA TypeInit == Init => TypeInv
  <1> SUFFICES ASSUME Init PROVE TypeInv
    OBVIOUS
  <1>1. Empty \in Value /\ Absent \in Record
    BY Records DEF Value
  <1>2. Tabs \subseteq Drives /\ AutoLoads \subseteq BOOLEAN /\ MaxClicks \in Nat
    BY DriveAssumption
  <1>3. Len(BASICDRIVEDATA) = 2
    BY DEF BASICDRIVEDATA
  <1>4. queue \in [Mode -> Seq(Item)]
    BY DEF Init
  <1> QED BY <1>1, <1>2, <1>3, <1>4 DEF Init, TypeInv, TypeOK

LEMMA TypeNext == TypeInv /\ [Next]_vars => TypeInv'
  <1> SUFFICES ASSUME TypeInv, [Next]_vars PROVE TypeInv'
    OBVIOUS
  <1> USE DEF tab, link, data, work
  <1>0. /\ TypeOK /\ (ui # 0 => conn # "None")
        /\ Tabs \subseteq Drives /\ AutoLoads \subseteq BOOLEAN /\ MaxClicks \in Nat
        /\ Protocols \subseteq Mode
    BY DriveAssumption DEF TypeInv
  <1>a. Len(BASICDRIVEDATA) = 2 /\ DOMAIN BASICDRIVEDATA = {1, 2}
        /\ BASICDRIVEDATA \in Seq(Par)
    BY DriveAssumption DEF BASICDRIVEDATA
  <1>b. /\ store \in Store /\ motorSerial \in [Drives -> Value]
        /\ address \in [Drives -> Drives] /\ ActiveDriveNumber \in Tabs
        /\ address[ActiveDriveNumber] \in Drives
    BY <1>0 DEF TypeOK, Store
  <1>c. Click => clicks' \in 0..MaxClicks /\ ui = 0
    BY <1>0 DEF Click, TypeOK
  <1>d. ASSUME NEW protocol, NEW a, SelectDrive(protocol, a)
        PROVE  selected' \in Bus \union {0}
    BY <1>0, <1>d DEF SelectDrive, TypeOK
  <1> USE <1>0
  <1>1. ASSUME NEW m \in Mode, Connect(m) PROVE TypeInv'
    <2>1. selected' \in Bus \union {0}
      BY <1>1, <1>d DEF Connect, TypeOK
    <2> QED BY <1>1, <1>c, <2>1 DEF Connect, TypeInv, TypeOK
  <1>2. CASE Stop
    BY <1>2, <1>c DEF Stop, TypeInv, TypeOK
  <1>3. CASE Refresh
    BY <1>3, <1>c DEF Refresh, TypeInv, TypeOK
  <1>4. CASE CheckAutoLoad
    BY <1>4, <1>c DEF CheckAutoLoad, TypeInv, TypeOK
  <1>5. ASSUME NEW a \in Drives, ChangeAddress(a) PROVE TypeInv'
    BY <1>5, <1>c DEF ChangeAddress, TypeInv, TypeOK
  <1>6. ASSUME NEW n \in Tabs, ChangeTab(n) PROVE TypeInv'
    <2> DEFINE a == address[n]
               loads == autoLoad /\ motorSerial[n] # motorSerial[ActiveDriveNumber]
               disk == ProcessDiskDriveData(store, n)
               loaded == IF loads THEN ProcessIDNList(disk, a) ELSE store
               cleaned == ProcessIDNList(loaded, a)
    <2>1. /\ Click /\ ActiveDriveNumber' = n /\ SelectDrive(conn, a)
          /\ store' = cleaned /\ view' = Listing(cleaned, a)
          /\ DCStatus' = IF HasRecords(cleaned, a) THEN "dcIDNData" ELSE DCStatus
          /\ UNCHANGED <<conn, sisButtons, address, autoLoad, motorSerial, work, ui>>
      BY <1>6 DEF ChangeTab
    <2>2. a \in Drives
      BY <1>b
    <2> HIDE DEF a
    <2>3. disk \in Store
      BY <1>b, DiskTyped
    <2> HIDE DEF disk
    <2>4. loaded \in Store
      BY <1>b, <2>2, <2>3, ListTyped
    <2> HIDE DEF loaded
    <2>5. cleaned \in Store
      BY <1>b, <2>2, <2>4, ListTyped
    <2> HIDE DEF cleaned
    <2>6. view' \in [Par -> Value \union {NotShown}]
      BY <2>1, <2>2, <2>5, ListingTyped
    <2>7. selected' \in Bus \union {0}
      BY <2>1, <1>d
    <2> QED BY <1>c, <2>1, <2>5, <2>6, <2>7 DEF TypeInv, TypeOK, Store
  <1>7. CASE Tick
    <2>1. CASE DCStatus = "dcBasic"
      BY <1>7, <1>a, <2>1 DEF Tick, TypeInv, TypeOK
    <2>2. CASE DCStatus # "dcBasic"
      <3>1. Collect(Reads(REALTIMEDRIVEDATA, "data")) /\ ui' = 0 /\ conn # "None"
        BY <1>7, <2>2 DEF Tick
      <3>2. Reads(REALTIMEDRIVEDATA, "data") \in Seq(Item)
        BY <3>1, DriveAssumption, ReadsTyped
      <3>3. /\ queue' \in [Mode -> Seq(Item)] /\ DCStatus' \in Stages
            /\ UNCHANGED <<link, tab, data, done, clicks>>
        BY <3>1, <3>2, CollectTyped
      <3> QED BY <1>a, <3>1, <3>3 DEF TypeInv, TypeOK, Stages
    <2> QED BY <2>1, <2>2
  <1>8. CASE BasicRead
    <2> DEFINE p == BASICDRIVEDATA[ui]
    <2>1. ui \in {1, 2} /\ ui' = ui + 1 /\ conn # "None"
          /\ UNCHANGED <<link, tab, work, clicks>>
      BY <1>8, <1>a DEF BasicRead
    <2>2. p \in Par
      BY <1>a, <2>1
    <2>3. PICK o \in Outcomes(conn, address[ActiveDriveNumber], p) :
                 ProcessCommResult(address[ActiveDriveNumber], p, "data", o.value)
      BY <1>8 DEF BasicRead
    <2> HIDE DEF p
    <2>4. o.value \in Value
      <3>1. o \in Outcome
        BY OutcomesTyped
      <3> QED BY <3>1 DEF Outcome
    <2>5. /\ store' \in Store /\ view' \in [Par -> Value \union {NotShown}]
          /\ motorSerial' \in [Drives -> Value] /\ DCStatus' \in Stages
      BY <1>b, <2>2, <2>3, <2>4, CommResultTyped
    <2> QED BY <1>a, <2>1, <2>5 DEF TypeInv, TypeOK, Store, Stages
  <1>9. CASE BasicDone
    <2>1. ui = 3 /\ ui' = 0 /\ Collect(<<>>) /\ conn # "None"
      BY <1>9, <1>a DEF BasicDone
    <2>2. <<>> \in Seq(Item)
      OBVIOUS
    <2>3. /\ queue' \in [Mode -> Seq(Item)] /\ DCStatus' \in Stages
          /\ UNCHANGED <<link, tab, data, done, clicks>>
      BY <2>1, <2>2, CollectTyped
    <2> QED BY <1>a, <2>1, <2>3 DEF TypeInv, TypeOK, Stages
  <1>10. ASSUME NEW m \in Mode, Serve(m) PROVE TypeInv'
    <2> DEFINE item == Head(queue[m])
    <2>1. queue \in [Mode -> Seq(Item)] /\ queue[m] \in Seq(Item) /\ queue[m] # <<>>
      BY <1>10 DEF Serve, TypeOK
    <2>2. item \in Item /\ Tail(queue[m]) \in Seq(Item)
      BY <2>1
    <2>3. PICK o \in Outcomes(m, item.setid, item.par) : done' = [item |-> item, outcome |-> o]
      BY <1>10 DEF Serve
    <2> HIDE DEF item
    <2>4. o \in Outcome
      BY OutcomesTyped
    <2>5. done' \in [item : Item, outcome : Outcome]
      BY <2>2, <2>3, <2>4
    <2>6. queue' = [queue EXCEPT ![m] = Tail(queue[m])]
      BY <1>10 DEF Serve
    <2> DEFINE rest == Tail(queue[m])
    <2>7. queue' \in [Mode -> Seq(Item)]
      <3>1. rest \in Seq(Item) /\ queue' = [queue EXCEPT ![m] = rest]
        BY <2>2, <2>6
      <3> HIDE DEF rest
      <3> QED BY <2>1, <3>1
    <2>8. UNCHANGED <<link, tab, data, DCStatus, ui, clicks>>
      BY <1>10 DEF Serve
    <2> QED BY <2>5, <2>7, <2>8 DEF TypeInv, TypeOK
  <1>11. CASE Complete
    <2> DEFINE i == done.item
               o == done.outcome
    <2>1. done # NoItem /\ done' = NoItem /\ UNCHANGED <<link, tab, queue, ui, clicks>>
      BY <1>11 DEF Complete
    <2>2. i \in Item /\ o \in Outcome
      BY <2>1 DEF TypeOK
    <2>3. CASE o.error
      <3>1. UNCHANGED <<data, DCStatus>>
        BY <1>11, <2>3 DEF Complete
      <3> QED BY <2>1, <3>1 DEF TypeInv, TypeOK
    <2>4. CASE ~o.error
      <3>1. ProcessCommResult(i.setid, i.par, i.sub, o.value)
        BY <1>11, <2>4 DEF Complete
      <3> HIDE DEF i, o
      <3>2. i.setid \in Drives /\ i.par \in Par /\ o.value \in Value
        BY <2>2 DEF Item, Outcome
      <3>3. /\ store' \in Store /\ view' \in [Par -> Value \union {NotShown}]
            /\ motorSerial' \in [Drives -> Value] /\ DCStatus' \in Stages
        BY <3>1, <3>2, CommResultTyped
      <3> QED BY <2>1, <3>3 DEF TypeInv, TypeOK, Store, Stages
    <2> QED BY <2>3, <2>4
  <1>12. CASE UNCHANGED vars
    BY <1>12 DEF vars, TypeInv, TypeOK
  <1> QED BY <1>1, <1>2, <1>3, <1>4, <1>5, <1>6, <1>7, <1>8, <1>9, <1>10, <1>11, <1>12
          DEF Next, User, Timer, Worker

\* The variables keep their kinds, whatever protocols, addresses and drives
\* there are: each item that GetDriveData queues is a read of a parameter by the
\* protocol that is connected, since GetDriveData runs only while one is, and
\* each answer is put into the records of a drive there is (main.pas 1695-1834,
\* 4153-4230).
THEOREM TypeCorrect == Spec => []TypeOK
  <1>1. Spec => []TypeInv
    BY TypeInit, TypeNext, PTL DEF Spec
  <1>2. TypeInv => TypeOK
    BY DEF TypeInv
  <1> QED BY <1>1, <1>2, PTL
=============================================================================
