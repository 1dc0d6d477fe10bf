---------------------------- MODULE IdeDriverProofs ----------------------------
(***************************************************************************)
(* Proofs about the IDE driver, for every size of drive and of request,    *)
(* every length of the waits and any number of errors.                     *)
(***************************************************************************)
EXTENDS IdeDriver, TLAPS

(***************************************************************************)
(* The inductive invariant.                                                *)
(***************************************************************************)

Transfers == {"read", "write", "ident"}

\* Which request can be at which place.
PlacesOK ==
  /\ pc = "resetWait" => req.op = "init"
  /\ pc \in {"lbaWait", "countWait"} => req.op \in {"read", "write"}
  /\ pc \in {"cmdWait", "dataWait", "transfer", "check"} => req.op \in Transfers

\* What readSectors has stored and what it will still read make up its count.
CountsOK ==
  req.op = "read" =>
    /\ pc \in Waits => buffer = <<>> /\ remaining = req.count
    /\ pc = "transfer" => remaining > 0 /\ Len(buffer) + remaining = req.count
    /\ pc = "check" => remaining > 0 /\ Len(buffer) + remaining = req.count + 1
    /\ pc = "idle" => Len(buffer) <= req.count

\* Unless a wait ran out, the drive has the sector number and the count of the
\* request by the time it gets the command.
LatchedOK ==
  "timeout" \notin trouble =>
    /\ pc \in {"countWait", "cmdWait"} /\ req.op \in {"read", "write"} => lbaReg = req.lba
    /\ pc = "cmdWait" /\ req.op = "read" => countReg = req.count
    /\ pc \in {"dataWait", "transfer", "check"} /\ req.op = "write" => pos = req.lba

\* The first n sectors stored are those of the request.
Delivered(n) == \A i \in 1 .. n : buffer[i] = medium[req.lba + i - 1]

\* The drive is n sectors into the request, or has given it up.
Offers(n) == drq # "none" => /\ drq = "read"
                             /\ pos = req.lba + n
                             /\ left = req.count - n

\* The drive and readSectors stay in step as long as nothing goes wrong; the
\* sector just stored is right unless the status about to be read shows ERR.
InStep ==
  req.op = "read" /\ trouble = {} =>
    /\ pc = "dataWait" => Offers(0)
    /\ pc = "transfer" => Delivered(Len(buffer)) /\ Offers(Len(buffer))
    /\ pc = "check" /\ ~ErrorSeen => Delivered(Len(buffer)) /\ Offers(Len(buffer))

\* A sector given to the drive is stored, unless ERR will be set.
Stored ==
  req.op = "write" /\ "timeout" \notin trouble /\ pc = "check"
    => medium[req.lba] = req.data \/ err = 1

IInv ==
  /\ TypeOK
  /\ PlacesOK
  /\ CountsOK
  /\ LatchedOK
  /\ InStep
  /\ Stored
  /\ QuietReadDelivers
  /\ QuietWriteStores

(***************************************************************************)
(* Lemmas.                                                                 *)
(***************************************************************************)

\* A byte taken down by one is a byte.
LEMMA ByteWraps ==
  ASSUME NEW n \in Byte
  PROVE  (n + 255) % 256 \in Byte
BY DEF Byte

LEMMA ByteDown ==
  ASSUME NEW n \in Byte, n > 0
  PROVE  (n + 255) % 256 = n - 1
BY DEF Byte

\* A request's count is a byte.
LEMMA CountIsByte ==
  ASSUME MaxCount \in 1 .. 255, NEW n \in 1 .. MaxCount
  PROVE  n \in Byte
BY DEF Byte

USE IdeAssumption

\* The fields a request has follow from what it asks.
LEMMA RequestFields ==
  ASSUME TypeOK
  PROVE  /\ req.op = "read" => /\ req.lba \in LBA
                               /\ req.count \in 1 .. MaxCount
                               /\ req.lba + req.count - 1 \in LBA
         /\ req.op = "write" => req.lba \in LBA /\ req.data \in Data
BY DEF TypeOK, ReadRequest, WriteRequest, OtherRequest, NoRequest, LBA

\* Sequences of S stay so when an element of S is appended.
LEMMA AppendType ==
  ASSUME NEW S, NEW s \in Seq(S), NEW e \in S
  PROVE  /\ Append(s, e) \in Seq(S)
         /\ Len(Append(s, e)) = Len(s) + 1
         /\ Append(s, e)[Len(s) + 1] = e
         /\ \A i \in 1 .. Len(s) : Append(s, e)[i] = s[i]
OBVIOUS

\* What the data port offers is a sector content.
LEMMA OfferedType == TypeOK => Offered \in Content /\ Garbage \in Content
BY DEF TypeOK, Offered, Content

LEMMA InitIInv == Init => IInv
<1> SUFFICES ASSUME Init PROVE IInv
  OBVIOUS
<1>1. TypeOK
  BY DEF Init, TypeOK, NoRequest, LBA, Byte, Content
<1>2. PlacesOK /\ CountsOK /\ LatchedOK /\ InStep /\ Stored
  BY DEF Init, PlacesOK, CountsOK, LatchedOK, InStep, Stored, NoRequest, Waits, Transfers
<1>3. QuietReadDelivers /\ QuietWriteStores
  BY DEF Init, QuietReadDelivers, QuietWriteStores, Returned, NoRequest
<1> QED BY <1>1, <1>2, <1>3 DEF IInv

LEMMA TypeStep == TypeOK /\ PlacesOK /\ CountsOK /\ [Next]_vars => TypeOK'
<1> SUFFICES ASSUME TypeOK, PlacesOK, CountsOK, [Next]_vars PROVE TypeOK'
  OBVIOUS
<1> USE DEF TypeOK, driver, drive
<1>1. CASE CallRead
  <2>1. PICK r \in ReadRequest : Begin(r, "lbaWait", r.count)
    BY <1>1 DEF CallRead
  <2>2. r.count \in Byte
    <3>1. r.count \in 1 .. MaxCount
      BY DEF ReadRequest
    <3> QED BY <3>1, CountIsByte
  <2>3. <<>> \in Seq(Content)
    OBVIOUS
  <2> QED BY <1>1, <2>1, <2>2, <2>3 DEF CallRead, Begin, Waits
<1>2. CASE CallWrite
  BY <1>2 DEF CallWrite, Begin, Waits, Byte, Content
<1>3. CASE CallIdent
  BY <1>3 DEF CallIdent, Begin, OtherRequest, Waits, Byte, Content
<1>4. CASE CallInit
  BY <1>4 DEF CallInit, Begin, DriveReset, Fails, OtherRequest, Waits, Byte, Content, LBA
<1>5. CASE PollAgain
  BY <1>5 DEF PollAgain, StatusReads
<1>6. CASE TimeOut
  BY <1>6 DEF TimeOut, StatusReads, Return, Waits
<1>7. CASE SetLba
  BY <1>7, RequestFields DEF SetLba, Proceed, PlacesOK, Waits
<1>8. CASE SetCount
  BY <1>8, RequestFields DEF SetCount, Proceed, PlacesOK, Waits
<1>9. CASE SendCommand
  <2>1. pc' = "dataWait" /\ polls' = POLLS /\ UNCHANGED <<req, remaining, buffer, result, trouble>>
    BY <1>9 DEF SendCommand, Proceed
  <2>2. CASE AcceptRead
    BY <2>1, <2>2 DEF AcceptRead, OfferSector, Fails, Waits, LBA
  <2>3. CASE AcceptWrite
    BY <2>1, <2>3 DEF AcceptWrite, Fails, Waits
  <2>4. CASE AcceptIdent
    BY <2>1, <2>4 DEF AcceptIdent, Fails, Waits
  <2> QED BY <1>9, <2>2, <2>3, <2>4 DEF SendCommand
<1>10. CASE StartTransfer
  BY <1>10 DEF StartTransfer, Proceed
<1>11. CASE ResetDone
  BY <1>11 DEF ResetDone, Return
<1>12. CASE ReadSector
  <2>1. buffer' \in Seq(Content)
    <3>1. buffer' = Append(buffer, Offered) \/ buffer' = Append(buffer, Garbage)
      BY <1>12 DEF ReadSector
    <3> QED BY <3>1, OfferedType, AppendType
  <2>2. CASE SectorTaken
    <3>0. /\ pc' = "check" /\ trouble' \subseteq {"timeout", "early", "shown"}
          /\ UNCHANGED <<req, polls, remaining, result, lbaReg, countReg, medium>>
      BY <1>12, <2>2 DEF ReadSector, SectorTaken
    <3>1. CASE err = 0 /\ left > 1
      <4>1. OfferSector(pos + 1, left - 1, MaxGap)
        BY <2>2, <3>1 DEF SectorTaken
      <4>2. left - 1 \in 0 .. MaxCount /\ busy' \in Nat
        BY <4>1, <3>1 DEF OfferSector
      <4> QED BY <2>1, <3>0, <4>1, <4>2 DEF OfferSector, Fails, LBA
    <3>2. CASE ~(err = 0 /\ left > 1)
      BY <2>1, <2>2, <3>0, <3>2 DEF SectorTaken
    <3> QED BY <3>1, <3>2
  <2>3. CASE UNCHANGED drive
    BY <1>12, <2>1, <2>3 DEF ReadSector
  <2> QED BY <1>12, <2>2, <2>3 DEF ReadSector
<1>13. CASE WriteSector
  BY <1>13, RequestFields DEF WriteSector, SectorGiven, Fails
<1>14. CASE CheckRead
  <2>1. remaining' \in Byte
    <3> DEFINE d0 == IF ErrorSeen THEN ShowErrorsD0 ELSE remaining
    <3>1. d0 \in Byte
      BY DEF ShowErrorsD0, Byte
    <3>2. remaining' = remaining \/ remaining' = (d0 + 255) % 256
      BY <1>14 DEF CheckRead
    <3> HIDE DEF d0
    <3> QED BY <3>1, <3>2, ByteWraps
  <2>2. trouble' \subseteq {"timeout", "early", "shown"} /\ busy' \in Nat
    BY <1>14 DEF CheckRead, StatusReads
  <2> QED BY <1>14, <2>1, <2>2 DEF CheckRead, Return
<1>15. CASE CheckWrite
  BY <1>15 DEF CheckWrite, StatusReads, Return
<1>16. CASE UNCHANGED vars
  BY <1>16 DEF vars
<1> QED BY <1>1, <1>2, <1>3, <1>4, <1>5, <1>6, <1>7, <1>8, <1>9, <1>10, <1>11, <1>12,
           <1>13, <1>14, <1>15, <1>16 DEF Next, DriverStep

LEMMA PlacesStep == TypeOK /\ PlacesOK /\ [Next]_vars => PlacesOK'
BY DEF TypeOK, PlacesOK, Next, DriverStep, vars, driver, drive, Waits, Transfers, CallRead,
   CallWrite, CallIdent, CallInit, Begin, ReadRequest, WriteRequest, PollAgain, TimeOut,
   Return, SetLba, SetCount, SendCommand, StartTransfer, ResetDone, Proceed, ReadSector,
   WriteSector, CheckRead, CheckWrite

\* The count after the status read that follows a sector.
LEMMA CheckReadCounts ==
  ASSUME TypeOK, CountsOK, CheckRead, req.op = "read"
  PROVE  /\ ErrorSeen => remaining' = 0
         /\ ~ErrorSeen => remaining' = remaining - 1
         /\ remaining' = 0 => pc' = "idle" /\ result' = "ok"
         /\ remaining' # 0 => pc' = "transfer"
<1>1. /\ pc = "check"
      /\ remaining' = ((IF ErrorSeen THEN ShowErrorsD0 ELSE remaining) + 255) % 256
      /\ IF remaining' = 0 THEN Return("ok") ELSE pc' = "transfer"
  BY DEF CheckRead
<1>2. remaining > 0 /\ remaining \in Byte
  BY <1>1 DEF CountsOK, TypeOK
<1>3. (remaining + 255) % 256 = remaining - 1
  BY <1>2, ByteDown
<1>4. (1 + 255) % 256 = 0
  OBVIOUS
<1> QED BY <1>1, <1>3, <1>4 DEF ShowErrorsD0, Return

LEMMA CountsStep == TypeOK /\ PlacesOK /\ CountsOK /\ [Next]_vars => CountsOK'
<1> SUFFICES ASSUME TypeOK, PlacesOK, CountsOK, [Next]_vars PROVE CountsOK'
  OBVIOUS
<1> USE DEF Waits
<1>1. CASE CallRead
  <2>1. PICK r \in ReadRequest : Begin(r, "lbaWait", r.count)
    BY <1>1 DEF CallRead
  <2> QED BY <2>1 DEF CountsOK, Begin
<1>2. CASE CallWrite \/ CallIdent \/ CallInit
  BY <1>2 DEF CountsOK, CallWrite, CallIdent, CallInit, Begin, WriteRequest
<1>3. CASE PollAgain \/ SetLba \/ SetCount \/ SendCommand
  BY <1>3 DEF CountsOK, PollAgain, SetLba, SetCount, SendCommand, Proceed
<1>4. CASE TimeOut \/ StartTransfer
  BY <1>4, RequestFields DEF CountsOK, TimeOut, Return, StartTransfer, Proceed
<1>5. CASE ReadSector
  <2>1. /\ pc = "transfer" /\ pc' = "check" /\ UNCHANGED <<req, remaining>>
        /\ \E e \in Content : buffer' = Append(buffer, e)
    BY <1>5, OfferedType DEF ReadSector
  <2>2. Len(buffer') = Len(buffer) + 1
    BY <2>1, AppendType DEF TypeOK
  <2> QED BY <2>1, <2>2, RequestFields DEF CountsOK, TypeOK, Byte
<1>6. CASE CheckRead
  <2>1. CASE req.op = "read"
    <3>1. /\ pc = "check" /\ UNCHANGED <<req, buffer>>
      BY <1>6 DEF CheckRead
    <3>2. Len(buffer) \in Nat
      BY DEF TypeOK
    <3> QED BY <1>6, <2>1, <3>1, <3>2, CheckReadCounts, RequestFields, SMTT(60) DEF CountsOK, TypeOK, Byte
  <2>2. CASE req.op # "read"
    BY <1>6, <2>2 DEF CheckRead, CountsOK
  <2> QED BY <2>1, <2>2
<1>7. CASE WriteSector \/ CheckWrite \/ ResetDone
  BY <1>7 DEF CountsOK, WriteSector, CheckWrite, ResetDone, PlacesOK
<1>8. CASE UNCHANGED vars
  BY <1>8 DEF vars, driver, CountsOK
<1> QED BY <1>1, <1>2, <1>3, <1>4, <1>5, <1>6, <1>7, <1>8 DEF Next, DriverStep

LEMMA LatchedStep == TypeOK /\ PlacesOK /\ LatchedOK /\ [Next]_vars => LatchedOK'
<1> SUFFICES ASSUME TypeOK, PlacesOK, LatchedOK, [Next]_vars PROVE LatchedOK'
  OBVIOUS
<1>1. CASE CallRead \/ CallWrite \/ CallIdent \/ CallInit
  BY <1>1 DEF LatchedOK, CallRead, CallWrite, CallIdent, CallInit, Begin
<1>2. CASE PollAgain \/ TimeOut
  BY <1>2 DEF LatchedOK, PollAgain, TimeOut
<1>3. CASE SetLba \/ SetCount
  BY <1>3 DEF LatchedOK, SetLba, SetCount, Proceed
<1>4. CASE SendCommand
  BY <1>4 DEF LatchedOK, SendCommand, Proceed, AcceptWrite
<1>5. CASE StartTransfer \/ ResetDone
  BY <1>5 DEF LatchedOK, StartTransfer, ResetDone, Return, Proceed, drive
<1>6. CASE ReadSector \/ CheckRead
  BY <1>6 DEF LatchedOK, ReadSector, CheckRead, Return
<1>7. CASE WriteSector \/ CheckWrite
  BY <1>7 DEF LatchedOK, WriteSector, SectorGiven, CheckWrite, Return
<1>8. CASE UNCHANGED vars
  BY <1>8 DEF vars, driver, drive, LatchedOK
<1> QED BY <1>1, <1>2, <1>3, <1>4, <1>5, <1>6, <1>7, <1>8 DEF Next, DriverStep

LEMMA InStepStep == IInv /\ [Next]_vars => InStep'
<1> SUFFICES ASSUME IInv, [Next]_vars, req'.op = "read", trouble' = {}
             PROVE  /\ pc' = "dataWait" => Offers(0)'
                    /\ pc' = "transfer" => Delivered(Len(buffer))' /\ Offers(Len(buffer))'
                    /\ pc' = "check" /\ ~ErrorSeen'
                         => Delivered(Len(buffer))' /\ Offers(Len(buffer))'
  BY DEF InStep
<1> USE DEF IInv, Waits
<1>1. CASE CallRead \/ CallWrite \/ CallIdent \/ CallInit
  BY <1>1 DEF CallRead, CallWrite, CallIdent, CallInit, Begin
<1>2. CASE TimeOut
  BY <1>2 DEF TimeOut
<1>3. CASE PollAgain
  BY <1>3 DEF PollAgain, InStep, Offers
<1>4. CASE SetLba \/ SetCount \/ ResetDone
  BY <1>4 DEF SetLba, SetCount, ResetDone, Proceed, Return
<1>5. CASE SendCommand
  <2>1. /\ pc = "cmdWait" /\ pc' = "dataWait" /\ UNCHANGED <<req, trouble>>
        /\ lbaReg = req.lba /\ countReg = req.count
    BY <1>5 DEF SendCommand, Proceed, LatchedOK
  <2>2. AcceptRead
    BY <1>5, <2>1 DEF SendCommand
  <2>3. drq' # "none" => drq' = "read" /\ pos' = lbaReg /\ left' = countReg
    BY <2>2 DEF AcceptRead, OfferSector
  <2>4. req.lba \in Int /\ req.count \in Int
    BY <2>1, RequestFields DEF LBA
  <2> QED BY <2>1, <2>3, <2>4 DEF Offers
<1>6. CASE StartTransfer
  <2>1. /\ pc = "dataWait" /\ pc' = "transfer" /\ drq # "none"
        /\ UNCHANGED <<req, buffer, trouble, medium, drq, pos, left>>
    BY <1>6 DEF StartTransfer, Proceed, Ready, drive
  <2>2. buffer = <<>> /\ Offers(0)
    BY <2>1 DEF CountsOK, InStep
  <2> QED BY <2>1, <2>2 DEF Offers, Delivered
<1>7. CASE ReadSector
  <2>1. /\ pc = "transfer" /\ pc' = "check" /\ UNCHANGED <<req, remaining>>
        /\ NotBusy /\ drq # "none" /\ buffer' = Append(buffer, Offered)
        /\ SectorTaken /\ UNCHANGED trouble
    BY <1>7 DEF ReadSector
  <2>2. /\ Delivered(Len(buffer)) /\ drq = "read"
        /\ pos = req.lba + Len(buffer) /\ left = req.count - Len(buffer)
        /\ Len(buffer) \in Nat /\ req.lba \in Int /\ req.count \in Int
    BY <2>1, RequestFields DEF InStep, Offers, TypeOK, LBA
  <2>3. /\ Len(buffer') = Len(buffer) + 1
        /\ buffer'[Len(buffer) + 1] = Offered
        /\ \A i \in 1 .. Len(buffer) : buffer'[i] = buffer[i]
    BY <2>1, OfferedType, AppendType DEF TypeOK
  <2>4. UNCHANGED medium
    BY <2>1 DEF SectorTaken
  <2>5. CASE err = 0
    <3>1. Delivered(Len(buffer))'
      <4>1. SUFFICES ASSUME NEW i \in 1 .. Len(buffer) + 1
                     PROVE  buffer'[i] = medium[req.lba + i - 1]
        BY <2>1, <2>3, <2>4 DEF Delivered
      <4>2. CASE i \in 1 .. Len(buffer)
        BY <2>2, <2>3, <4>2 DEF Delivered
      <4>3. CASE i = Len(buffer) + 1
        <5>1. Offered = medium[pos]
          BY <2>2, <2>5 DEF Offered
        <5> QED BY <2>2, <2>3, <4>3, <5>1
      <4> QED BY <2>2, <4>2, <4>3
    <3>2. drq' # "none" => drq' = "read" /\ pos' = pos + 1 /\ left' = left - 1
      BY <2>1, <2>5 DEF SectorTaken, OfferSector
    <3>3. drq' # "none" => /\ drq' = "read"
                           /\ pos' = req'.lba + Len(buffer')
                           /\ left' = req'.count - Len(buffer')
      <4>1. req' = req
        BY <2>1
      <4>2. \A a, b, c \in Int : a + b + 1 = a + (b + 1) /\ c - b - 1 = c - (b + 1)
        OBVIOUS
      <4>3. drq' # "none" => /\ drq' = "read"
                             /\ pos' = req.lba + (Len(buffer) + 1)
                             /\ left' = req.count - (Len(buffer) + 1)
        BY <2>2, <3>2, <4>2, SMTT(60)
      <4> QED BY <2>3, <4>1, <4>3
    <3>4. Offers(Len(buffer))'
      BY <3>3 DEF Offers
    <3> QED BY <2>1, <3>1, <3>4
  <2>6. CASE err # 0
    <3>1. busy' = 0 /\ err' = 1
      BY <2>1, <2>6 DEF SectorTaken, NotBusy, TypeOK
    <3> QED BY <2>1, <3>1 DEF ErrorSeen, NotBusy
  <2> QED BY <2>5, <2>6
<1>8. CASE CheckRead
  <2>1. /\ pc = "check" /\ trouble = {} /\ ~ErrorSeen
        /\ UNCHANGED <<req, buffer, medium, drq, pos, left>>
    BY <1>8 DEF CheckRead
  <2>2. pc' \in {"idle", "transfer"}
    BY <1>8 DEF CheckRead, Return
  <2> QED BY <2>1, <2>2 DEF InStep, Delivered, Offers
<1>9. CASE WriteSector \/ CheckWrite
  BY <1>9 DEF WriteSector, CheckWrite
<1>10. CASE UNCHANGED vars
  BY <1>10 DEF vars, driver, drive, InStep, Delivered, Offers, ErrorSeen, NotBusy
<1> QED BY <1>1, <1>2, <1>3, <1>4, <1>5, <1>6, <1>7, <1>8, <1>9, <1>10 DEF Next, DriverStep

LEMMA StoredStep == IInv /\ [Next]_vars => Stored'
<1> SUFFICES ASSUME IInv, [Next]_vars PROVE Stored'
  OBVIOUS
<1>1. CASE WriteSector
  <2>1. /\ pc = "transfer" /\ req.op = "write" /\ SectorGiven(req.data)
        /\ UNCHANGED <<req, trouble>>
    BY <1>1 DEF WriteSector
  <2>2. "timeout" \notin trouble => pos = req.lba
    BY <2>1 DEF IInv, LatchedOK
  <2>3. pos \in LBA /\ medium \in [LBA -> Data]
    BY DEF IInv, TypeOK
  <2> QED BY <2>1, <2>2, <2>3 DEF Stored, SectorGiven
<1>2. CASE ReadSector
  BY <1>2 DEF ReadSector, Stored
<1>3. CASE UNCHANGED vars
  BY <1>3 DEF vars, driver, drive, IInv, Stored
<1>4. [Next]_vars => WriteSector \/ ReadSector \/ UNCHANGED vars \/ pc' # "check"
  BY DEF Next, DriverStep, CallRead, CallWrite, CallIdent, CallInit, Begin, PollAgain, TimeOut,
     Waits, Return, SetLba, SetCount, SendCommand, StartTransfer, ResetDone, Proceed,
     CheckRead, CheckWrite
<1> QED BY <1>1, <1>2, <1>3, <1>4 DEF Stored

LEMMA QuietStep == IInv /\ [Next]_vars => QuietReadDelivers' /\ QuietWriteStores'
<1> SUFFICES ASSUME IInv, [Next]_vars PROVE QuietReadDelivers' /\ QuietWriteStores'
  OBVIOUS
<1> USE DEF QuietReadDelivers, QuietWriteStores, Returned
<1>1. CASE CheckRead
  <2>1. CASE req.op = "read" /\ trouble' = {} /\ pc' = "idle"
    <3>1. /\ pc = "check" /\ trouble = {} /\ ~ErrorSeen /\ UNCHANGED <<req, buffer, medium>>
      BY <1>1, <2>1 DEF CheckRead
    <3>2. Delivered(Len(buffer))
      BY <2>1, <3>1 DEF IInv, InStep
    <3>3. Len(buffer) = req.count
      <4>1. remaining' = remaining - 1 /\ remaining' = 0
        BY <1>1, <2>1, <3>1, CheckReadCounts DEF IInv
      <4>2. Len(buffer) + remaining = req.count + 1 /\ remaining \in Int /\ Len(buffer) \in Int
        BY <2>1, <3>1 DEF IInv, CountsOK, TypeOK, Byte
      <4>3. req.count \in Int
        BY <2>1, RequestFields DEF IInv
      <4> QED BY <4>1, <4>2, <4>3
    <3> QED BY <2>1, <3>1, <3>2, <3>3 DEF Delivered
  <2> QED BY <1>1, <2>1 DEF CheckRead
<1>2. CASE CheckWrite
  <2>1. CASE trouble' = {} /\ result' = "ok"
    <3>1. /\ pc = "check" /\ req.op = "write" /\ UNCHANGED <<req, medium>>
          /\ NotBusy /\ ~ErrorSeen /\ trouble = {}
      BY <1>2, <2>1 DEF CheckWrite, Return
    <3>2. medium[req.lba] = req.data
      BY <3>1 DEF IInv, Stored, ErrorSeen
    <3> QED BY <3>1, <3>2
  <2> QED BY <1>2, <2>1 DEF CheckWrite, Return
<1>3. CASE TimeOut
  BY <1>3 DEF TimeOut
<1>4. CASE ResetDone
  BY <1>4 DEF ResetDone, IInv, PlacesOK
<1>5. CASE UNCHANGED vars
  BY <1>5 DEF vars, driver, drive, IInv
<1>6. [Next]_vars => CheckRead \/ CheckWrite \/ TimeOut \/ ResetDone \/ UNCHANGED vars \/ pc' # "idle"
  BY DEF Next, DriverStep, CallRead, CallWrite, CallIdent, CallInit, Begin, PollAgain,
     Waits, SetLba, SetCount, SendCommand, StartTransfer, Proceed, ReadSector, WriteSector
<1> QED BY <1>1, <1>2, <1>3, <1>4, <1>5, <1>6

(***************************************************************************)
(* Theorems.                                                               *)
(***************************************************************************)

\* The invariant holds of every behaviour.
THEOREM IInvHolds == Spec => []IInv
<1>1. IInv /\ [Next]_vars => IInv'
  BY TypeStep, PlacesStep, CountsStep, LatchedStep, InStepStep, StoredStep, QuietStep DEF IInv
<1> QED BY <1>1, InitIInv, PTL DEF Spec

\* Every variable keeps its type.
THEOREM TypeCorrect == Spec => []TypeOK
<1>1. IInv => TypeOK
  BY DEF IInv
<1> QED BY <1>1, IInvHolds, PTL

\* readSectors stores no more sectors than it is asked for, however many of
\* them fail or come late.
THEOREM ReadsStayInBuffer == Spec => []NoOverrun
<1>1. IInv => NoOverrun
  <2> SUFFICES ASSUME IInv, req.op = "read" PROVE Len(buffer) <= req.count
    BY DEF NoOverrun
  <2>1. /\ Len(buffer) \in Nat /\ remaining \in Nat /\ req.count \in Nat
        /\ pc \in Waits \cup {"idle", "transfer", "check"}
    BY RequestFields DEF IInv, TypeOK, Byte
  <2> QED BY <2>1 DEF IInv, CountsOK
<1> QED BY <1>1, IInvHolds, PTL

\* A read that came back quietly delivered what it was asked for.
THEOREM QuietReadsDeliver == Spec => []QuietReadDelivers
<1>1. IInv => QuietReadDelivers
  BY DEF IInv
<1> QED BY <1>1, IInvHolds, PTL

\* A write that came back quietly is on the medium.
THEOREM QuietWritesStore == Spec => []QuietWriteStores
<1>1. IInv => QuietWriteStores
  BY DEF IInv
<1> QED BY <1>1, IInvHolds, PTL

\* A sector changes only under a write, and only the one it names unless a
\* wait of that write ran out.
THEOREM WritesHitTheNamedSector == Spec => OnlyTheNamedSector
<1> DEFINE Named == \A s \in LBA : medium'[s] # medium[s] =>
                      /\ req.op = "write"
                      /\ medium'[s] = req.data
                      /\ "timeout" \notin trouble => s = req.lba
<1>1. IInv /\ [Next]_vars => Named
  <2> SUFFICES ASSUME IInv, [Next]_vars PROVE Named
    OBVIOUS
  <2>1. CASE WriteSector
    <3>1. pc = "transfer" /\ req.op = "write" /\ SectorGiven(req.data)
      BY <2>1 DEF WriteSector
    <3>2. "timeout" \notin trouble => pos = req.lba
      BY <3>1 DEF IInv, LatchedOK
    <3>3. medium \in [LBA -> Data]
      BY DEF IInv, TypeOK
    <3> QED BY <3>1, <3>2, <3>3 DEF SectorGiven
  <2>2. CASE UNCHANGED medium
    BY <2>2
  <2>3. [Next]_vars => WriteSector \/ UNCHANGED medium
    BY DEF Next, DriverStep, vars, drive, CallRead, CallWrite, CallIdent, CallInit, DriveReset,
       PollAgain, TimeOut, SetLba, SetCount, SendCommand, AcceptRead, AcceptWrite, AcceptIdent,
       StartTransfer, ResetDone, ReadSector, SectorTaken, CheckRead, CheckWrite
  <2> QED BY <2>1, <2>2, <2>3
<1>2. IInv /\ [Next]_vars => [Named]_vars
  BY <1>1
<1> QED BY <1>2, IInvHolds, PTL DEF Spec, OnlyTheNamedSector
===============================================================================
