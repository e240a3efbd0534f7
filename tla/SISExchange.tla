----------------------------- MODULE SISExchange -----------------------------
(***************************************************************************)
(* TWorkerThread.ProcessSIS (source/commworker.pas): send a request,       *)
(* receive the reaction's header, then the user data it announces, check   *)
(* the checksum, and ask again until the last segment has come.  The       *)
(* serial port is a buffer of bytes; the drives and the line between are   *)
(* external and may lose, damage or delay a reaction.                      *)
(*                                                                         *)
(* ProcessSIS runs in the worker thread, which holds no lock meanwhile,    *)
(* and in the UI thread, for its blocking calls: each is a client here.    *)
(***************************************************************************)
EXTENDS SISTelegram

CONSTANTS
  Client,     \* the threads that call ProcessSIS
  Request,    \* what they ask for: the drive's address and a parameter
  Drive,      \* the addresses that answer
  Segments,   \* request -> the data of its reactions, one per segment
  Refused,    \* the requests a drive answers with an error status
  Faults,     \* what the line does: "lost", "dropped", "damaged", "late"
  DamageAt,   \* the positions of a telegram that noise hits
  MaxLate,    \* bound: reactions on the line when one more is given up
  NoRequest

ASSUME ExchangeAssumption ==
  /\ \A r \in Request : r.setid \in Nat /\ r.setid < 128
  /\ Drive \subseteq Nat
  /\ DOMAIN Segments = Request /\ Refused \subseteq Request
  /\ \A r \in Request :
       /\ Segments[r] \in Seq(Seq(Byte)) \ {<< >>}
       /\ \A i \in DOMAIN Segments[r] : Len(Segments[r][i]) < 240
  /\ Faults \subseteq {"lost", "dropped", "damaged", "late"}
  /\ DamageAt \subseteq Nat \ {0}
  /\ MaxLate \in Nat
  /\ NoRequest \notin Request

VARIABLES
  pc,         \* where each client is in ProcessSIS
  request,    \* the telegram it sends, SISSendData
  segment,    \* which segment of the answer its request is for
  header,     \* SISRetrieveHeader
  DATA,       \* the user data collected so far, and the result
  success,
  FBuffer,    \* the bytes that have arrived at the port
  line        \* the reactions that have not

vars == <<pc, request, segment, header, DATA, success, FBuffer, line>>

Init ==
  /\ pc = [c \in Client |-> "idle"]
  /\ request = [c \in Client |-> NoRequest]
  /\ segment = [c \in Client |-> 1]
  /\ header = [c \in Client |-> << >>]
  /\ DATA = [c \in Client |-> << >>]
  /\ success = [c \in Client |-> FALSE]
  /\ FBuffer = << >>
  /\ line = << >>

-----------------------------------------------------------------------------
(* The drives and the line.                                                *)

RefusalCode == <<9, 112>>

\* The reaction to request r, for one segment; a refusal has a status and a code.
Reaction(r, i) ==
  LET control == IF i = Len(Segments[r]) THEN 4 ELSE 0
      user == IF r \in Refused THEN <<1, 4, r.setid>> \o RefusalCode
              ELSE <<0, control, r.setid>> \o Segments[r][i]
  IN Telegram(16, 128, r.setid, 0, user)

\* What noise makes of a telegram: one byte is wrong.
Damaged(t) ==
  {[t EXCEPT ![i] = b] : i \in DamageAt \cap DOMAIN t,
                         b \in {0, 1, 254, 255}} \cup
  {[t EXCEPT ![i] = (@ + 255) % 256] : i \in DamageAt \cap DOMAIN t}

\* What may arrive of a reaction: the telegram, damaged or a byte short, or nothing.
Arrivals(t) ==
  {<<t>>}
  \cup (IF "lost" \in Faults THEN {<< >>} ELSE {})
  \cup (IF "dropped" \in Faults THEN {<<RemoveAt(t, j)>> : j \in DOMAIN t} ELSE {})
  \cup (IF "damaged" \in Faults THEN {<<d>> : d \in Damaged(t)} ELSE {})

\* What the line may deliver for a segment of a request: at most one telegram.
Delivered ==
  [r \in Request |-> [i \in DOMAIN Segments[r] |->
     IF r.setid \in Drive THEN Arrivals(Reaction(r, i)) ELSE {<< >>}]]

\* The driver of the serial port adds what arrives to the bytes to be read.
Arrive ==
  /\ line # << >>
  /\ FBuffer' = FBuffer \o Head(line)
  /\ line' = Tail(line)
  /\ UNCHANGED <<pc, request, segment, header, DATA, success>>

-----------------------------------------------------------------------------
(* ProcessSIS.                                                             *)

Call(c, r) ==
  /\ pc[c] = "idle"
  /\ request' = [request EXCEPT ![c] = r]
  /\ segment' = [segment EXCEPT ![c] = 1]
  /\ DATA' = [DATA EXCEPT ![c] = << >>]
  /\ success' = [success EXCEPT ![c] = FALSE]
  /\ pc' = [pc EXCEPT ![c] = "send"]
  /\ UNCHANGED <<header, FBuffer, line>>

\* SendBuffer; the port was not purged ("FComms.SynSer.Purge" is commented out).
Send(c) ==
  /\ pc[c] = "send"
  /\ \E d \in Delivered[request[c]][segment[c]] : line' = line \o d
  /\ pc' = [pc EXCEPT ![c] = "header"]
  /\ UNCHANGED <<request, segment, header, DATA, success, FBuffer>>

\* Mutant: DataReady is set once, before the loop, and not before every attempt.
FinishOnce(c, ok) ==
  /\ pc' = [pc EXCEPT ![c] = IF ok \/ segment[c] = 1 THEN "idle" ELSE "send"]
  /\ success' = [success EXCEPT ![c] = ok]

\* The end of the loop with this success; the data collected so far stay.
Finish(c, ok) ==
  /\ pc' = [pc EXCEPT ![c] = "idle"]
  /\ success' = [success EXCEPT ![c] = ok]

\* RecvBufferEx of n bytes: they are taken from the front.
Receive(n) == Len(FBuffer) >= n /\ FBuffer' = SubSeq(FBuffer, n + 1, Len(FBuffer))

\* A reaction without user data ends the exchange well, and unchecked.
RecvHeader(c) ==
  /\ pc[c] = "header"
  /\ Receive(HeaderLength)
  /\ header' = [header EXCEPT ![c] = SubSeq(FBuffer, 1, HeaderLength)]
  /\ IF DataLen(header'[c]) = 0
     THEN Finish(c, TRUE)
     ELSE pc' = [pc EXCEPT ![c] = "data"] /\ UNCHANGED success
  /\ UNCHANGED <<request, segment, DATA, line>>

CrcOK(h, user) == Total(h \o user) = 0

\* Mutant: every reaction ends the exchange, whatever its control byte says.
DataReadyAlways(h, user) == TRUE

\* Only services above 15 come in segments.
DataReady(h, user) ==
  Service(h) > 15 /\ Len(user) >= UserHeaderLength => LastTransmission(user[2])

\* Skip the user data header; its status is not looked at.
Extended(data, user) == data \o SubSeq(user, UserHeaderLength + 1, Len(user))

\* A drive asked once more after its last segment starts over.
NextSegment(c) == (segment[c] % Len(Segments[request[c]])) + 1

RecvData(c) ==
  LET user == SubSeq(FBuffer, 1, DataLen(header[c]))
  IN /\ pc[c] = "data"
     /\ Receive(DataLen(header[c]))
     /\ IF CrcOK(header[c], user)
        THEN /\ DATA' = [DATA EXCEPT ![c] = Extended(@, user)]
             /\ IF DataReady(header[c], user)
                THEN Finish(c, TRUE) /\ UNCHANGED segment
                ELSE /\ pc' = [pc EXCEPT ![c] = "send"]
                     /\ segment' = [segment EXCEPT ![c] = NextSegment(c)]
                     /\ UNCHANGED success
        ELSE Finish(c, FALSE) /\ UNCHANGED <<DATA, segment>>
     /\ UNCHANGED <<request, header, line>>

\* What a client waits for when it receives.
Wanted(c) == IF pc[c] = "header" THEN HeaderLength ELSE DataLen(header[c])

\* Mutant: the bytes that came before the timeout stay in the buffer.
TimeoutKeeps(c) ==
  /\ pc[c] \in {"header", "data"}
  /\ Len(FBuffer) < Wanted(c)
  /\ line = << >> \/ ("late" \in Faults /\ Len(line) <= MaxLate)
  /\ Finish(c, FALSE)
  /\ UNCHANGED <<request, segment, header, DATA, FBuffer, line>>

\* After ten seconds RecvBufferEx gives up; the bytes it got are gone.
Timeout(c) ==
  /\ pc[c] \in {"header", "data"}
  /\ Len(FBuffer) < Wanted(c)
  /\ line = << >> \/ ("late" \in Faults /\ Len(line) <= MaxLate)
  /\ FBuffer' = << >>
  /\ Finish(c, FALSE)
  /\ UNCHANGED <<request, segment, header, DATA, line>>

Step(c) == Send(c) \/ RecvHeader(c) \/ RecvData(c) \/ Timeout(c)

Next ==
  \/ \E c \in Client, r \in Request : Call(c, r)
  \/ \E c \in Client : Step(c)
  \/ Arrive

Spec == Init /\ [][Next]_vars

\* Threads run and bytes arrive; nobody is forced to make a call.
Fairness == WF_vars(Arrive) /\ \A c \in Client : WF_vars(Step(c))

FairSpec == Spec /\ Fairness

-----------------------------------------------------------------------------
Quiet == line = << >> /\ \A c \in Client : pc[c] = "idle"

Over(c) == pc[c] = "idle" /\ request[c] # NoRequest

TypeOK ==
  /\ pc \in [Client -> {"idle", "send", "header", "data"}]
  /\ request \in [Client -> Request \cup {NoRequest}]
  /\ segment \in [Client -> Nat \ {0}]
  /\ \A c \in Client : request[c] # NoRequest => segment[c] \in DOMAIN Segments[request[c]]
  /\ header \in [Client -> Seq(Byte)]
  /\ DATA \in [Client -> Seq(Byte)]
  /\ success \in [Client -> BOOLEAN]
  /\ FBuffer \in Seq(Byte)
  /\ line \in Seq(Seq(Byte))

\* The first i segments put together, for every i.
Joined(segments) ==
  LET joined[i \in 0..Len(segments)] ==
        IF i = 0 THEN << >> ELSE joined[i - 1] \o segments[i]
  IN joined

\* The data of all reactions; of a refusal it is the code, for the status is
\* not looked at.
Answer(r) ==
  IF r \in Refused THEN RefusalCode ELSE Joined(Segments[r])[Len(Segments[r])]

\* An exchange that ends well has exactly the data of the parameter it asked
\* for: every segment, in order, undamaged.  One that fails leaves the segments
\* that had come before (commworker.pas 278-305).
AcceptedIsAnswer ==
  \A c \in Client : Over(c) =>
    /\ IsPrefix(DATA[c], Answer(request[c]))
    /\ success[c] => DATA[c] = Answer(request[c])

\* Between exchanges nothing is left to be read: whatever the last one ended
\* in, the next one starts with the first byte of its own reaction.
NothingLeftToRead == Quiet => FBuffer = << >>

\* Every call returns, whatever the drive answers: the loop over the segments
\* ends (commworker.pas 253-311, with DataReady set before every attempt).
ExchangeEnds == \A c \in Client : pc[c] = "send" ~> pc[c] = "idle"
=============================================================================
