# DriveTop and its SIS library in TLA+

This repository holds two programs that talk to Indramat/Rexroth drives over a
serial line with the SIS protocol: DriveTop (Free Pascal, Lazarus), which
commissions and diagnoses them, and a C++ library (`sis/`) through which other
applications control an Indradrive. This directory holds TLA+ modules of the
parts that are hard to get right, the TLC configurations that check them on
small instances, and TLAPS proofs. `PROJECT.json` lists the components, the
runs, the source lines of every definition, the hazards and the theorems.

    tlc -config CommWorkerSafety.cfg MCCommWorker.tla     # one run
    tlapm CommWorkerProofs.tla                            # one module's proofs

Line numbers below are those of `source/commworker.pas`, `source/sis.pas`,
`source/drive.pas`, `source/common.pas` and `apps/drivetop/main.pas` for
DriveTop, and of `sis/sis/SISProtocol.cpp`, `sis/sis/Telegrams.h`,
`sis/sis/Telegrams_Bitfields.h`, `sis/errors.h` and `sis/Wrapper.cpp` for the
library.

## 1. The system

### DriveTop

```
   user, timer                    worker thread
        |                              |
   TForm1 (main.pas) --AddWork--> two queues --> ProcessSIS / ProcessASCII --> port --> drives
        ^     |                        |                                         (one wire)
        |     +-- blocking calls: the exchange runs in the UI thread ---------------^
        +---------- OnWorkComplete, through Synchronize ------------------------+
        |
   data store per drive address, list on screen, files per motor serial
```

| Component | State | Operations | What is hard | What makes it correct |
|---|---|---|---|---|
| Work queues and worker thread (commworker.pas 77-182, 363-452, 455-565) | two queues of heap blocks, a lock, an auto-reset event, `FIsProcessing`, `FCurrentWorkData` | `AddWork` plain, priority, blocking; raw calls; `Execute`; `OnWorkComplete`; `IsAllFinished`; `Destroy` | two threads; one event for many items; a pointer handed over outside the lock; shutdown from the thread the worker synchronises with; an exchange that raises | one owner per item, no item lost or served twice, SIS before ASCII, no sleep on queued work, Destroy ends and leaks nothing |
| SIS exchange (commworker.pas 236-335, synaser `RecvBufferEx`) | bytes in the port, header, collected data | send, receive header, receive data, check, next segment, time out | lost, damaged, short and late reactions; lists in segments; two threads on the port | what is accepted is the answer to the request; nothing is left to be read by the next one; every exchange ends |
| SIS codec (sis.pas 202-430, 983-1201; conversions of common.pas) | the record of a parameter | build a telegram, decode a reaction, edit a value, set-up of S-0-0393 | sizes, signs, lists, decimals; texts that are shown in one notation and written in another | what is shown is what the attribute says; what is typed is what the drive gets |
| Connection, drive selection, data collection (main.pas 1011-1078, 1695-1834, 1879-1891, 3035-3144, 3223-3348, 3632-3653, 3817-3939, 4130-4360, 4531-4543) | protocol, active drive, addresses, `DCStatus`, queue, store, list on screen | connect, stop, refresh, change tab or address, timer, answers | answers that arrive after the drive was switched; a stage machine driven by timer, user and answers at once; addresses that are not drive numbers | values stay with the drive that sent them; screen and store agree; nothing read is lost; the collection comes to rest |
| Drive data store (common.pas 583-886, drive.pas 592-760) | a sorted map per drive address, one built-in table at 0 | save, load, clear | records filled from the built-in table | part of the above |
| Drive data on disk (main.pas 2699-2883) | files `SN_<motor serial>.par` | merge on load; save all at exit | saved only at exit; drives without serial share a file | no value of another drive; nothing lost |
| ASCII exchange (commworker.pas 184-234, 337-361; drive.pas 862-1194) | - | command, echo check, response parsing | the command names no drive; late answers; a failed write keeps its text | as for SIS |
| Drive commands and motion (main.pas 809-898, 1158-1212, 1960-2073) | strobe bit, command status | execute and wait, move, repeat | polling loops in the UI thread; read-modify-write over a line that loses answers | every command is ended or reported; a move is made once |
| Jogging (main.pas 4362-4499) | a manual-reset event, jog bits in the drive | press, release | nested message loops; priority inserts reverse press and release | the axis stops after the last release |
| Blocks and tables, VisualMotion/CLC, panels, tables of constants | - | - | sequential dialogs; a stub; display; data | - |
| `apps/simple`, `tools/`, `common/` | - | - | stand-alone tools and third-party code | - |

### The library for Indradrive

```
   application threads: one that controls, timers that read
        |
   Wrapper.cpp: sequencer_*, speedcontrol_*, set_stdenvironment, clear_error, get_*
        |       (each catches every exception and returns set_error(block))
   SISProtocol: execute_command; read/write_parameter, read/write_listelm
        |       (attribute, header and data: a chain of exchanges per call)
   SISProtocol::transceiving, under mutex_sis: purge, write, receive, retry
        |
   CSerial --> port --> drive and its PLC program
```

| Component | State | Operations | What is hard | What makes it correct |
|---|---|---|---|---|
| transceiving (SISProtocol.cpp 555-653) | `mutex_sis`, the reaction received so far, the recursion | lock, purge, write, receive, start over when the drive is busy, throw, unlock | threads on one port; a telegram in pieces; lock and unlock around a recursion; exceptions between them; no limit to waiting | exchanges do not overlap; a reaction is that of the request; the line is quiet when the mutex is free; calls return |
| Telegrams and parameters (SISProtocol.cpp 62-552, Telegrams.h, Telegrams_Bitfields.h) | the telegram; width and scale of the parameter; the list's header | the overloads of `read_parameter`, `read_listelm`, `write_parameter`, `write_listelm`; `set_baudrate` | shifts and casts at the edges of the widths; fractions; a list write is three exchanges | the drive accepts every command; what is written is held, what is read is what is held, and nothing else changes |
| The API (Wrapper.cpp, SISProtocol.cpp 342-405) | the object, its port, the error code | open, close and the 16 functions; `execute_command` | many exchanges per function, each of which may fail; commands of the drive that outlive a failure; polling loops; what the last call left in the drive | no command and no parameterization is left behind; the flash is spared; a sequence is whole; a trigger is one edge, and the sequence has started |
| Error texts, string helpers, sample programs | - | - | formatting; examples | - |

## 2. The modules

### DriveTop

**WorkQueue** is what the worker and its callers promise together: two queues
served by one server, SIS before ASCII, priority at the head, each item served
and completed once, and a close that drops the rest.

**CommWorker** has the two threads. A step is what one thread does between two
points where the other can see a difference; `wpc` and `upc` are the places. The
variables have the source's names (`FSISQueue`, `FLock`, `FEvent`,
`FIsProcessing`, `FCurrentWorkData`, `Terminated`, `WorkItem`); `heap` is the
state of the blocks `New` and `Dispose` handle, so that a leak and a double free
are visible. `ProcessRaises` is the exception of `BuildSISTelegram` for a write
to a read-only parameter (sis.pas 342), which no handler stops. The exchange is
a begin and an end. **CommWorkerProofs** proves it, **MCCommWorker** bounds it.

**ByteSum** is the sum of bytes modulo 256, one after the other, that both
programs use for their checksums; **ByteSumProofs** has what it is worth.

**SISTelegram** has the bytes of a telegram; **SISExchange** is `ProcessSIS`
over a port that is a buffer of bytes, for one thread or for two. Each blocking
receive is a step that takes the bytes once they are there, or a timeout that
throws away those that came, as `RecvBufferEx` does. The drive and the line are
external: a request has at most one reaction; it is delivered, lost, one byte
shorter, with one wrong byte (0, 1, 254, 255 or one less than it was), or late.
A drive starts a list over with each new exchange. **SISExchangeProofs** proves
its three properties.

**SISParameter** is one parameter: the bytes in the drive, the text in the store,
a read, an edit and the set-up of S-0-0393. A text is a format and what it
prints. `Expected` is the reference: the value as the attribute defines it.
`Weight` is what a byte counts for the `DDW` record that both directions lay over
the bytes. The conversions of common.pas are recursive functions of a number
(`BitsAsDigits`, `Digits`, `BinaryStringToDecimal`). **SISParameterProofs** proves
its properties.

**DriveSession** is the form: the user's buttons, the timer that walks through
`DCStatus` (`Tick`, and `BasicRead`/`BasicDone` for the stage that blocks), the
worker (`Serve`, `Complete`), the store per address, the list on screen and the
loading of files. A value is abstracted to the drive that reported it, so that
a mix-up shows; `Empty` is no data, `Garbled` a SIS error reply that is decoded
as data. Name, unit and limits of a parameter are one text. An exchange is one
step; CommWorker has the threads and SISExchange the bytes.
**DriveSessionProofs** proves its types and its three safety properties.

These models meet at the following points: WorkQueue's order is the order of
`queue` in DriveSession; the outcomes of an exchange there (`Outcomes`: the
answer, a failure that leaves no data, an error reply) are what SISExchange
shows an exchange to end in; what is done with the data is SISParameter's
subject.

### The library

**ExchangeService** is what `transceiving` promises the functions built on it:
one call is served at a time; it ends with the answer to its own request or with
an exception; after an exception nobody is served until the program is
restarted; after a call that was retried the promise is void.

**Transceive** is `transceiving` itself, for any number of threads. `pc` has a
place for each step at which another thread can come in; `depth` counts the
calls around a retry, each of which unlocks once more (652) after the retry has
unlocked already (638). An unlock of a mutex the thread does not have is
undefined: it does nothing or frees the mutex, and `unowned` remembers it. A
reaction is three pieces, because the code treats the first bytes (no length
yet, 612), the header and the payload differently. `ImplementsService` is the
refinement. **TransceiveProofs** proves it.

**TGM** has the telegrams of Telegrams.h and Telegrams_Bitfields.h as functions
to bytes: the header with its sums, the parameter and list services, the bit
fields, and the conversions of `TGM::Data` with the widths of C++. Shifts and
masks are divisions and remainders by powers of two (`Power`, `Shifted`), which
is what they are for the fields and bytes at hand.

**SISProtocol** is the class above `transceiving`: one call at a time, an action
per exchange. The commands are TGM's, byte for byte; the drive, which is
external, decodes them and holds the operation data of each parameter, a list
with its header. Where the code is undefined or depends on rounding
(`Scaled`, `Converted`, `toUINT64`), a conversion is the set of its outcomes.
**SISProtocolProofs** proves what a call of it promises.

**Wrapper** is the API. A function is the sequence of its steps (`Steps`), built
by the same names as in the code (`change_opmode`, `execute_command`); a step
reads or writes one parameter or element, looks at a value, waits for a command
or polls the PLC. Any step may fail (`Fails`, `Rejected`): the function returns
an error and the mutex is `abandoned`, which is what ExchangeService says of an
exception. An element is written at a position that counts from the start of the
list's header (`ElementAt`): for lists of four bytes position i is element i; for
P-0-4019, whose elements have two bytes (driveconstants.inc 346), it is element
i - 1, and position 1 is none. A drive is found with lists of any length there
may be (`InitialLengths`). The drive's commands, its parameterization level, the torque switch
and the PLC program are external actions. **WrapperProofs** proves its types for
any threads and its safety properties for one controlling thread.

## 3. The runs

| Run | Shows | Bounds |
|---|---|---|
| `commworker_safety` | types, one owner, no lost wake-up, idle test, no leak, and that the worker implements WorkQueue | three blocks, all reused after `Dispose`, so calls never end; none raises |
| `commworker_live` | every item is freed unless the worker has died; Destroy and blocking calls end | three items, each added once; one may raise |
| `session_safety` | types; values stay with their drive; list and store agree; nothing read is lost | two drives, five parameters, four user actions, at most two items queued when the timer fires, any exchange may fail, both settings of automatic loading |
| `session_settles` | the collection comes to rest | the same with drives that answer, both protocols, changing addresses |
| `sis_safety` | what is accepted is the answer, a failure leaves a prefix of it, the port is left clean | one thread, two drives, an address without a drive, a list in two segments, a refusal; any byte but the length may be hit |
| `sis_ends` | every exchange ends | a list; wrong lengths and late reactions, at most one too many on the line |
| `param_safety` | what is read is decoded as the attribute says; integers are written as typed; TargetPosAfter gets set | every kind of attribute in the table, operation data at the edges of each size, lists up to 260 bytes |
| `transceive_safety` | types and the count of unlocks; exchanges do not overlap; a reaction is that of its request; the line is quiet when the mutex is free; ExchangeService is implemented; a call returns unless the port is stuck | two threads, three exchanges, one retry each, one restart; every fault of drive, line and port but a reaction that outlives the program |
| `transceive_abandoned` | finding: an exception leaves the mutex locked | one call |
| `protocol_data` | commands are accepted; what is written is held; what is read is what is held; a list of four bytes ends with the element written, any other keeps its length; nothing else changes, also when a call fails half-way | two calls of any kind; parameters of 1, 2, 4 and 8 bytes and lists of 1, 2 and 4; numbers at the edges of the widths, fractions, a negative one; two contents of the drive |
| `wrapper_api` | types; nothing is left behind; the flash is spared; a sequence is whole; a trigger is one edge; functions return | two calls of any function by one thread while a timer reads; lists with room for three elements that are found full, sequences of one and of two elements; every fault, restarts |
| `wrapper_trigger` | finding: the trigger succeeds before the sequence has started | one thread, no fault |

The bounds are enough because the cases are few. Three items are one in hand,
one at a head and one that overtakes it; two drives are the visible one and
another; four actions are a connection, a switch away, a change and a switch
back; two segments are a last one and one that is not; the values of a codec are
those where a sign, a carry or a byte order shows. In the library, two threads
are one that has the mutex and one that waits for it or gets in between two
unlocks; three exchanges are those of both and one after them; two calls are one
that leaves something behind and one that finds it; a list that is found full is
cut by each of the sequences, and the second call lengthens or shortens it. `MaxClicks`, `MaxBacklog`,
`MaxLate`, `MaxCalls`, `MaxRetries` and `MaxRestarts` are the only counters that
are cut off. Deadlock is not checked where the program may wait for ever:
without a user and a connection, after Destroy, with an abandoned mutex, and
when the calls that are counted have been made.

**Fairness.** CommWorker: each step of a running thread is weakly fair, and
taking the contended lock strongly fair, because the operating system runs both
threads and hands a critical section on; nobody is forced to make a call, except
that Destroy, once begun, goes on. DriveSession: the timer fires and the worker
runs; the user need not act. SISExchange: threads run and bytes on the line
arrive; nobody is forced to call. Transceive: threads run, the contended mutex
is handed on (strong fairness of `Lock`, as with the critical section above), a
request in the drive is answered and bytes arrive, unless they are lost; no call
and no fault is forced. Wrapper: threads go on, the drive's commands end, and
its PLC notices that the trigger was reset; the sequence need not be started by
anybody.

## 4. The proofs

Each holds for every value of the constants that satisfies the assumptions named
in the modules and, where there are any, those in the last column.

| Theorem | States | Assumes |
|---|---|---|
| `CommWorkerProofs!Invariance` | `Spec => []Inv` | |
| `TypeCorrect` | no block is freed twice or before it was allocated | |
| `Ownership` | every live item has exactly one owner | |
| `NoSleepOnWork` | no lost wake-up | |
| `IdleIsIdle` | `IsAllFinished` only between exchanges | |
| `NoLeak` | Destroy leaves nothing allocated | no item raises |
| `Refinement` | CommWorker implements WorkQueue | |
| `TransceiveProofs!TypeCorrect` | types; as many unlocks as retries | |
| `Serialized` | exchanges do not overlap | |
| `Abandonment` | the mutex stays behind only with a thread that threw | |
| `StartsQuiet` | the line is quiet when the mutex is free | no reaction outlives the program |
| `OwnAnswer` | what is returned answers the request | the same |
| `Refinement` | Transceive implements ExchangeService | the same |
| `DriveSessionProofs!ValuesStay` | a value is stored under the drive that sent it | SIS; no address is changed |
| `ScreenAgrees` | the list on screen shows what is stored | the same |
| `OnlyAnswersChange` | only an answer replaces a value that is on the list | the same |
| `TypeCorrect` | types: what is queued and what is stored | |
| `ByteSumProofs!ChecksumExists` | every telegram can be given a checksum | |
| `OneWrongByteIsFound` | no single wrong byte passes it | |
| `SISExchangeProofs!TypeCorrect` | types, for any threads and faults | |
| `LeavesClean` | an exchange leaves nothing to be read | one thread; nothing late; the length undamaged |
| `AcceptedAnswers` | what is accepted is the answer, in all its segments | the same |
| `SISParameterProofs!TypeCorrect` | the data keep the width of the attribute | |
| `WritesTakeEffect` | the drive has the number that was typed | only whole numbers are edited |
| `TargetPosAfterSet` | the set-up of S-0-0393 leaves its bit set | |
| `Shown` | what is stored is what the attribute says | no number in the half of its range where the sign is printed wrongly |
| `SISProtocolProofs!TypeCorrect` | types; no command exceeds the port's buffer | |
| `Sent` | every command but the baud rate's is one the drive accepts | |
| `Written` | a write that returns is held, in the right width and scale | |
| `Delivered` | a read that returns has the number the drive holds | the offsets of the elements fit 16 bits |
| `ListEnds` | a list of four bytes ends with the element written last, unless that fills it; other lists keep their length | |
| `NothingElse` | no other parameter or element changes, also in a failure | the offsets of the elements fit 16 bits |
| `WrapperProofs!NothingIsLeftBehind` | while all activations have ended well, no command is left set and the drive is in operation between them | one controlling thread, any number of reading ones |
| `FlashIsSpared` | an operation mode is written only if it is another one | the same |
| `TriggersOnce` | a trigger that succeeds is one rising edge | the same |
| `SequencesAreWhole` | a sequence that was written is there, in every list, and the lists of four bytes end with it unless it fills them | the same |
| `TypeCorrect` | types, for any number of controlling threads | |

**CommWorkerProofs.** `OwnedOnce` is not inductive: that an insert does not
share a block needs that the item being added is in no queue, that the head
popped is the worker's only one needs that it holds none while it pops, and both
depend on where the threads are. `Inv` therefore adds `PCInv`: who has the lock
at which place (`LockPC`), which places exclude one another (`ThreadPC`), what
the locals hold there (`LocalPC`) and when `FIsProcessing` is set
(`ProcessingPC`). Lemmas say what inserting at either end and popping do to the
set of a sequence's elements and to its injectivity. `NoLeak` follows from
`Inv`, for at `freed` the queues are empty, nothing is being added and the worker
has exited or died, and the latter takes a raising item. The refinement maps
`serving` to the item in hand.

**TransceiveProofs.** `AnswerIsForRequest` speaks of a result; that it is the
right one has to be known from the purge on. `LineInv` therefore follows one
request: whoever is past the write has it in the drive, or its pieces on the
line, in the port and in `rcvd` put together are one reaction to it
(`InFlight`), and before the write all these are empty. This needs that only one
thread is there at all, which is `LockInv`, and that the unlocks of unwinding
calls are accounted for, which is `UnwindInv`. All of it is under the proviso
`~unowned`: the second unlock of a retried call (section 5) breaks the rest.
"late" is excluded because the mutex of a restarted program knows nothing of a
request its predecessor made. The refinement maps the places from purge to wait
to one and the returned telegram to the request it answers.

**DriveSessionProofs.** An answer carries the address it was asked for, so each
operation of the store, proved alone, keeps a store of which every value is its
drive's own (`Proper`); the files hold the values of the drive whose motor they
are named after. `ViewInv` adds the list: a value that is shown is changed by
the same step as the stored one, or the list is filled anew, and the serial
number that has just been reported survives the loading of its own file
(`SerialKept`). For `OnlyAnswersChange`, `Explained` is what an operation may do
to a value: leave it, drop it with its line, or fill it up from the file.
It carries over from one operation to the next because the list of the drive can
only get shorter by a clean-up (`ListKeeps`) and because a record nobody has
written holds no value (`Blank`). Both assumptions are needed: section 5 tells
what happens without them. `TypeCorrect` needs neither, but that `GetDriveData`
is under way only while a protocol is connected (`ui # 0 => conn # "None"`), for
what it queues is queued for that protocol; and that the reads of many parameters
put one after the other are a sequence of reads, however long the list is
(`FlattenTyped`).

**ByteSumProofs.** The sum is defined over the bytes one after the other, so what
it is for every telegram takes an induction. The library's theorems for that take
an operator and cannot be used; a set of natural numbers can: a set that has 0
and with each number the next one has them all (`Induction`, `InductionUpTo`),
because what it lacks would have a smallest member (`Smallest`). The other
modules use these two lemmas for what they define by recursion. A byte put in
place of another changes the sum by their difference (`TotalExcept`), which is never
a multiple of 256; both theorems follow.

**SISExchangeProofs.** What the line delivers is the reaction that was sent, or
its sum is wrong, or it is shorter than the length in it announces (`Arrived`,
from `OneWrongByteIsFound`); so the header is there whole or not at all, and the
data are taken whole or swept away by the timeout. `Inv` says for each place of
the exchange where the bytes of the one reaction may be (`Place`), and that the
data collected so far are those of the segments before this one (`Collected`).
The assumptions are those of section 5: two threads, a late reaction or a wrong length break it.

**SISParameterProofs.** `Inv` says that the bytes are as many as the attribute
says and that the store has a text. That the conversions are what their recursion
says, for every number, is an induction (`BitsDef`, `DigitsDef`, `BinaryDef`); the
bytes of an element, laid over each other with their weights, are its number in
two's complement (`SignedIsTwosComplement`). `TargetPosAfterSet` holds for an odd
reason: the bits of a value are read as decimal digits and the number they make
is written back, which is right for the lowest three bits only, because ten is
two modulo eight (`LowBits`). `WritesTakeEffect` is about whole numbers because the code does not read
back what it prints for the other displays, and `SignsAgree` leaves out the half
of the range where the sign it prints is not the attribute's.

**SISProtocolProofs.** The bytes of every command are computed once
(`CommandsFit`): their sum is zero and the length in them theirs, and the drive
decodes parameter, offset and data as they were put in. `Inv` then says of a call
under way which exchange comes next (`CallOK`, `StepOK`), that the length and the
scale it fetched are those of its parameter (`Fetched`), and that the drive holds what
it held when the call began, but for the length of a list about to be written
(`Held`). A command has 16 bits for the offset of an element, and the code does
not look whether it fits: `OffsetsFit` (the position times the size of an element
below 65536) is needed wherever the offset decides; `ListEnds` has it as a condition
for the lists that keep their length, since an offset that was cut may be the header's. Lists of 8-byte elements are excluded by
`AttributeAssumption` (section 5). Numbers are those below 2^48 (`Exact`).

**WrapperProofs.** What a function does later depends on what it found earlier,
so `Inv(m)` says at which step of which function the controlling thread `m` is
(`todo` is the rest of the function's steps) and what the drive is like there:
its commands and level (`CommandAt`, `ActivationAt`), its mode and its trigger
(`TriggerAt`). The lemmas first establish step by step what `change_opmode`,
`execute_command` and `softtrigger` consist of, and that every other function
consists of `Plain` steps, which touch none of this. One controller is needed:
two interleaved activations delete each other's commands. For `SequencesAreWhole`
the invariant is that every step of `sequencer_write` that is no longer left to do
has been done, and that its work is still there unless a later step of the same
call wrote in the same place (`Sequencing`). What remains is to find the last step
for each list and element, which matters: P-0-4063 is written twice, and each
write of an element also sets the length of its list (`WrittenLast`). `TypeCorrect`
has no need of a single controller: the steps that are left are steps there are
(`Right`), and the drive has for each parameter and list a value of its kind
(`Kind`, `ListKind`).

Every invariant and every action property that a passing run checks is proved,
under the assumptions in the table. Checked by TLC only: all liveness
(`EveryItemFreed`, `DestroyEnds`, `BlockingCallReturns`, `CollectionSettles`,
`ExchangeEnds`, both `CallsReturn`), because fairness and ENABLED are out of the
prover's reach. The prover cannot use operators declared RECURSIVE, the library's
induction theorems, which take an operator as a parameter, or modules of bit
operations; recursion is therefore written as functions, and shifts and masks
as divisions and remainders.

## 5. Where code and intention differ

Two runs are expected to end with a violation; `PROJECT.json` quotes the lines.

- `transceive_abandoned`: `mutex_sis` is locked at SISProtocol.cpp 561 and
  unlocked at 638 and 652 only. An exception in between leaves it locked; the
  next call waits for ever, or is undefined in the same thread. The other
  properties of the library therefore say "unless abandoned".
- `wrapper_trigger`: `>>` binds tighter than `&` (Wrapper.cpp 217, 239), so both
  loops of `sequencer_softtrigger` test bit 0; the second one ends before the
  drive has started. `iterations` is never incremented, there and in
  `execute_command` (SISProtocol.cpp 369, 384): if the sequence has finished
  before the second loop looks, it does not end.

The passing runs exclude the following by a named constant or a stated proviso.

In DriveTop:

- An item that raises is never freed, and ends the worker (sis.pas 342):
  `Raising` is empty for `NothingLeaked`, and `EveryItemFreed` leaves out a dead
  worker.
- Queued ASCII reads go to the drive that is selected when they are sent
  (commworker.pas 345): `StoredFromItsDrive` is checked over SIS.
- Without a motor serial number, the answer restarts the collection that asked
  for it (main.pas 1785-1787, 3632-3653): `CollectionSettles` is checked with
  drives that answer.
- Two threads on the port take each other's reactions (commworker.pas 141): the
  blocking call of the UI thread and the worker's exchange are not excluded from
  one another once the worker has released the lock. `sis_safety` has one thread.
- The second copy of the length is not compared and a reaction with length 0 is
  not checked at all (commworker.pas 268-282): with the length among `DamageAt`,
  `AcceptedIsAnswer` fails. (With "late" among the `Faults` it fails too: the
  port is not purged, line 255, and no address in a reaction is compared.)
- The status of a reaction is not looked at (commworker.pas 289): a refusal's
  code is the data (`Answer`). The data of a list that fails half-way stay in
  the work item (line 297), with no error, against "We receive all list data at
  once" (main.pas 4338).
- Unsigned numbers are printed signed (sis.pas 1167): `ShownIsValue` holds only
  below half the range (`LowerHalf`). What is shown in binary, hexadecimal, as
  a text or with decimals is written as 0 (sis.pas 383): `WriteTakesEffect` is
  checked for integers (`MayEdit`).
- Built-in records without an attribute count as described (main.pas 1780):
  their data are not decoded, or, once the record has been saved, with the
  default attribute (drive.pas 682, common.pas 860), as an unsigned word, which
  for a list is its length. `ShownIsValue` leaves them out (`Undescribed`).
- Over SIS, the bits of S-0-0393 are written as a decimal number (main.pas 4618):
  100 for bit 2. The bit is set all the same (`TargetPosAfterIsSet`), and others
  with it; a read that failed counts as 0.
- The answer with the parameter list does not reach the code that uses lists
  (main.pas 1757, 4338); it is used by the next clean-up.
- `ProcessIDNList` takes an address for a drive number (main.pas 3830): with
  changed addresses `StoredFromItsDrive` fails (`MayReaddress`).
- After Stop, the queued reads remain; they are answered by nobody and empty the
  stored values, or by the next connection.

In the library:

- A busy reaction unlocks the mutex before it starts over and each call around
  the retry unlocks again (SISProtocol.cpp 638, 652): a mutex the thread does
  not have, perhaps another thread's. `unowned` is the proviso of the safety
  properties of Transceive, and `void` that of ExchangeService.
- A reaction that comes after the program was restarted would answer another
  request; nothing in a reaction is compared ("late" is not among the `Faults`).
- A receive of four bytes or fewer is taken for a reaction without payload (612):
  a slow line is an exception, and with it the end of the connection.
- `set_baudrate` sends its telegram without a checksum (62-85): no drive accepts
  it (`CommandsAccepted` excludes that step).
- `toUINT64` shifts bytes as `int` (Telegrams.h 131) and the constructor for
  UINT64 shifts the highest byte by 54 (97): values from 2^31 up are wrong
  (`Narrow` in `ReadIsHeld`; the numbers written stay below).
- A fraction times its scale may be one unit low, and the cast of a negative
  number is undefined (SISProtocol.cpp 285): both are outcomes of `Converted`.
  Numbers too large for the parameter are cut silently. The integer overloads
  of reading ignore the scale that writing applies. Unsigned values in the upper
  half of the range are read negative.
- Wrapper.h 314: "List length will not be extended automatically. In case of list
  length is set too short, programming of all values might fail." The code does
  extend, and also cut, a list of four bytes to end with the element written
  (`retain_following_segments` is false, 473-476), in any order of positions. The
  remark is true of the last element there is room for (479) and of lists of 1-
  and 2-byte elements, which are never resized, because the request for their
  header asks for one or two bytes of it, so that the capacity reads as 0 (461).
  `ListEndsWithWritten` says both. The telegram for the header of a list of 8-byte
  elements announces 8 bytes and carries 4.
- Telegrams.h 570: "The 11th element of a list consisting of 4-byte elements should
  be handeled --> ListOffset=0x0028." The code sends the position times the size
  (334), 0x2C for the 11th, because the four bytes of the header come first.
  ListOffset there is the offset from the start of the header; with 0x28 the
  tenth element would be read and written.
- Because of these four bytes, position i is element i only in lists of 4-byte
  elements. In those of 1- and 2-byte elements low positions are bytes of the
  header: reading them gives the length or the capacity, writing them goes there.
  `ReadIsHeld` and `NothingElseChanged` speak of the bytes the code addresses, and
  the drive is assumed to refuse a change of the capacity (`ListAfter`).
  `sequencer_write` is such a caller: its first write, to position 1 of P-0-4019
  (Wrapper.cpp 139), goes to the capacity, and the position i + 2 of the others
  (156) is element i + 1. In Wrapper a drive keeps the capacity, whether it
  accepts that write or refuses it, which is one of the `Faults`. The length of
  P-0-4019 is never set; a drive that refuses an element beyond it is a fault too,
  and `SequenceWhole` says nothing of this length.
- After a mode change that failed behind the write of S-0-0032, the next
  activation finds the mode equal and succeeds, with the drive still in
  parameterization (Wrapper.cpp 632): `broken` is the proviso of
  `NothingLeftBehind`.
- `open` may fail after the port was opened (SISProtocol.cpp 30) and leaves it
  open; no property depends on it.
- `close` deletes the object under the threads that are inside it (Wrapper.cpp
  50): it is called here when they have returned.
- `speedcontrol_write` changes the direction before acceleration and speed
  (394). P-0-4063 is written twice, the delays over the first value (149, 165).
- Outside the models: `set_error` formats a message without its end
  (errors.h 46-52), the helpers pass the size of a pointer to `strcpy_s`, and
  the default arguments `new TGM::Data()` are never deleted.

## 6. What is not modelled, and why

- In DriveSession: the CLC connection (its serial command is a stub); writing
  files at exit; the file of drives without serial number (assumed absent);
  addresses outside the drives' numbers; a queue of more than `MaxBacklog` items
  at a tick, so the growth of the queue with a silent drive does not show.
  `ProcessControlMessages` only serves the edit control, so clicks are not
  handled within handlers.
- In SISExchange: `RecvBufferEx` is atomic once its bytes are there; a port
  closed in the middle of an exchange.
- In SISParameter: 8-byte, float and time data, for which the code decodes
  nothing; list writes (a ToDo in the code); refused or lost writes; the name,
  unit and limits, which the code decodes like data.
- In Transceive: the settings and the event mask of CSerial, which do not change
  during a connection. In SISProtocol: the overloads that read a text return the
  bytes that were read.
- In Wrapper: what the get functions make of the value they have read (the bits
  of OPSTATE, the numbers of `get_drivemode`), limits and speeds (each is the
  number of the call that wrote it), the error texts.
- Components of section 1 without a module: ASCII exchange, motion, jogging,
  files written at exit, blocks and tables (section 7); panels, tables of
  constants, VisualMotion (a stub), sample programs, stand-alone tools and
  third-party code, which have no behaviour of their own to check.

## 7. Plan

Written, in this order: WorkQueue, CommWorker with its proofs, DriveSession,
SISTelegram and SISExchange, SISParameter; then, for the library,
ExchangeService and Transceive with its proofs, TGM and SISProtocol, Wrapper;
then the proofs of DriveSession, SISExchange and Wrapper, ByteSum taken out of
the telegrams with what a checksum is worth, the proofs of SISParameter and
SISProtocol, and the types of all of them. What would come next:

1. **Jog**: press, release, the nested message loops and the shared event, over
   WorkQueue's priority insert, with lost writes and Stop. Property: after the
   last release the axis comes to rest; expected to fail in known ways.
2. **Motion**: `MoveDistance` with its strobe, `btnExecuteReps` with the wait for
   standstill, `CommandExecuteAndWait`, over a line that loses answers. Abstract
   specification: a move is made at most once per call.
3. **ASCIIExchange**: command, echo, selection, late answers, a failed write that
   keeps its text; with SISExchange an implementation of an abstract exchange
   that either returns the answer to its request or fails.
4. **DriveStore**: save at exit, files shared by drives without serial, the
   built-in table.
5. Wrapper over ExchangeService: a refinement that replaces `abandoned` by the
   state of the service.
