------------------------------- MODULE IdeDriver -------------------------------
(***************************************************************************)
(* The monitor's IDE driver (src/boot/disk/ide.s) and the drive it polls   *)
(* through the 8255: setIdeLba followed by readSectors or writeSectors, as *)
(* setLBA's callers, rdSectors and wrSectors run them, initIdeDrive and    *)
(* getDriveIdent.  A step of the driver is what it does between two looks  *)
(* at the status register.  The drive is slow at will: its busy time is    *)
(* counted in the status reads that still find BUSY set, so the polling    *)
(* loops can run out at any point; it may fail a command or a sector.      *)
(***************************************************************************)
EXTENDS Integers, Sequences

CONSTANTS
  LastLBA,   \* the drive has sectors 0..LastLBA
  MaxCount,  \* bound: sectors asked for in a request
  Data,      \* what a sector can hold
  Garbage,   \* what the data port delivers when the drive has no data for it
  Identity,  \* the answer to the identify command
  POLLS,     \* status reads before a wait gives up: delayThree, 0x1000
  MaxBusy,   \* bound: status reads that find a drive busy with a command
  MaxGap,    \* bound: the same between two sectors, and after a written one
  MaxErrors  \* bound: commands and sectors the drive fails in a behaviour

ASSUME IdeAssumption ==
  /\ LastLBA \in Nat
  /\ MaxCount \in 1 .. 255
  /\ Garbage \notin Data /\ Identity \notin Data
  /\ POLLS \in Nat \ {0}
  /\ MaxBusy \in Nat /\ MaxGap \in Nat /\ MaxErrors \in Nat

LBA     == 0 .. LastLBA
Content == Data \cup {Garbage, Identity}

\* A sector count is a byte of D0: SUBI.B #1 adds 255 to it.
Byte == 0 .. 255

ReadRequest  == {r \in [op : {"read"}, lba : LBA, count : 1 .. MaxCount] :
                   r.lba + r.count - 1 <= LastLBA}
WriteRequest == [op : {"write"}, lba : LBA, data : Data]
OtherRequest == [op : {"init", "ident"}]
NoRequest    == [op |-> "none"]

VARIABLES
  \* the driver
  pc,        \* the wait or transfer the code is at
  req,       \* the last request
  polls,     \* register D6 in the two wait loops: the looks that are left
  remaining, \* register D0 in readSectors: the sectors still to be read
  buffer,    \* the sectors stored at A2 by this request
  result,    \* how the last request came back: Z is "ok", NZ "error"
  trouble,   \* history: what this request met, see below
  \* the drive
  lbaReg,    \* the sector number latched in its registers
  countReg,  \* the sector count latched in its registers
  busy,      \* BUSY stays set for this many status reads
  drq,       \* DRQ, once BUSY clears: the data it offers or wants, or "none"
  err,       \* the ERR bit, once BUSY clears
  pos, left, \* the sector being transferred, and how many the command has left
  medium,    \* the sectors
  errors     \* how many commands and sectors it has failed

driver == <<pc, req, polls, remaining, buffer, result, trouble>>
drive  == <<lbaReg, countReg, busy, drq, err, pos, left, medium, errors>>
vars   == <<driver, drive>>

(***************************************************************************)
(* trouble holds "timeout" once a wait has run out, "early" once the       *)
(* driver has used the data port without DRQ or looked for an error while  *)
(* BUSY was set, and "shown" once showErrors has told the operator.        *)
(***************************************************************************)

(***************************************************************************)
(* The drive.                                                              *)
(***************************************************************************)
\* n status reads; while BUSY is set the other bits mean nothing.
StatusReads(n) == busy' = IF busy > n THEN busy - n ELSE 0

Fails == errors < MaxErrors /\ errors' = errors + 1

\* Sector p will be offered: readable, unreadable (ERR together with DRQ), or
\* not found, which ends the command.
OfferSector(p, n, delay) ==
  /\ busy' \in 0 .. delay
  /\ \/ /\ p \in LBA
        /\ drq' = "read" /\ pos' = p /\ left' = n
        /\ \/ err' = 0 /\ UNCHANGED errors
           \/ err' = 1 /\ Fails
     \/ /\ drq' = "none" /\ pos' = 0 /\ left' = 0 /\ err' = 1
        /\ IF p \in LBA THEN Fails ELSE UNCHANGED errors

\* The driver has read the 512 bytes of a sector; a failed one is the last.
SectorTaken ==
  /\ IF err = 0 /\ left > 1
       THEN OfferSector(pos + 1, left - 1, MaxGap)
       ELSE /\ drq' = "none" /\ left' = 0
            /\ UNCHANGED <<busy, err, pos, errors>>
  /\ UNCHANGED <<lbaReg, countReg, medium>>

AcceptRead ==
  /\ OfferSector(lbaReg, countReg, MaxBusy)
  /\ UNCHANGED <<lbaReg, countReg, medium>>

AcceptWrite ==
  /\ busy' \in 0 .. MaxBusy
  /\ pos' = lbaReg
  /\ left' = countReg
  /\ \/ drq' = "write" /\ err' = 0 /\ UNCHANGED errors
     \/ drq' = "none" /\ err' = 1 /\ Fails
  /\ UNCHANGED <<lbaReg, countReg, medium>>

AcceptIdent ==
  /\ busy' \in 0 .. MaxBusy
  /\ left' = 1
  /\ \/ drq' = "ident" /\ err' = 0 /\ UNCHANGED errors
     \/ drq' = "none" /\ err' = 1 /\ Fails
  /\ UNCHANGED <<lbaReg, countReg, pos, medium>>

\* The drive has the 512 bytes of a write, and is busy storing them.
SectorGiven(d) ==
  /\ busy' \in 0 .. MaxGap
  /\ drq' = "none"
  /\ left' = 0
  /\ \/ medium' = [medium EXCEPT ![pos] = d] /\ UNCHANGED <<err, errors>>
     \/ err' = 1 /\ Fails /\ UNCHANGED medium
  /\ UNCHANGED <<lbaReg, countReg, pos>>

\* The reset line: whatever the drive was doing, it starts over.
DriveReset ==
  /\ busy' \in 0 .. MaxBusy
  /\ drq' = "none"
  /\ left' = 0
  /\ \/ err' = 0 /\ UNCHANGED errors
     \/ err' = 1 /\ Fails
  /\ lbaReg' = 0 /\ countReg' = 1
  /\ UNCHANGED <<pos, medium>>

(***************************************************************************)
(* Requests.                                                               *)
(***************************************************************************)
Init ==
  /\ pc = "idle"
  /\ req = NoRequest
  /\ polls = POLLS
  /\ remaining = 0
  /\ buffer = <<>>
  /\ result = "none"
  /\ trouble = {}
  /\ lbaReg = 0 /\ countReg = 1
  /\ busy \in 0 .. MaxBusy
  /\ drq = "none" /\ err = 0 /\ pos = 0 /\ left = 0
  /\ medium \in [LBA -> Data]
  /\ errors = 0

Begin(r, entry, n) ==
  /\ pc = "idle"
  /\ req' = r
  /\ pc' = entry
  /\ polls' = POLLS
  /\ remaining' = n
  /\ buffer' = <<>>
  /\ result' = "none"
  /\ trouble' = {}

CallRead  == /\ \E r \in ReadRequest : Begin(r, "lbaWait", r.count)
             /\ UNCHANGED drive
CallWrite == /\ \E r \in WriteRequest : Begin(r, "lbaWait", 0)
             /\ UNCHANGED drive
CallIdent == /\ Begin([op |-> "ident"], "cmdWait", 0)
             /\ UNCHANGED drive
CallInit  == /\ Begin([op |-> "init"], "resetWait", 0)
             /\ DriveReset

Return(r) == pc' = "idle" /\ result' = r

(***************************************************************************)
(* waitNotBusy and waitDataReqRdy.                                         *)
(***************************************************************************)
Waits == {"lbaWait", "countWait", "cmdWait", "dataWait", "resetWait"}

NotBusy == busy = 0

\* The look that ends the wait the driver is in.
Ready == NotBusy /\ (pc = "dataWait" => drq # "none")

\* Mutant: the loop count is not taken down.
PollAgainForever ==
  /\ pc \in Waits
  /\ ~Ready
  /\ StatusReads(1)
  /\ UNCHANGED driver
  /\ UNCHANGED <<lbaReg, countReg, drq, err, pos, left, medium, errors>>

\* Mutant: the loop goes round once more after D6 reaches 0.
PollAgainOnceMore ==
  /\ pc \in Waits
  /\ ~Ready
  /\ polls' = polls - 1
  /\ StatusReads(1)
  /\ UNCHANGED <<pc, req, remaining, buffer, result, trouble>>
  /\ UNCHANGED <<lbaReg, countReg, drq, err, pos, left, medium, errors>>

PollAgain ==
  /\ pc \in Waits
  /\ ~Ready
  /\ polls > 1
  /\ polls' = polls - 1
  /\ StatusReads(1)
  /\ UNCHANGED <<pc, req, remaining, buffer, result, trouble>>
  /\ UNCHANGED <<lbaReg, countReg, drq, err, pos, left, medium, errors>>

\* The wait runs out: showErrors reads the status once more, and the routine
\* returns NZ.  setIdeLba's callers do not look, and go on to the transfer
\* with the sector number of an earlier request in the drive.
TimeOut ==
  /\ pc \in Waits
  /\ ~Ready
  /\ polls = 1
  /\ polls' = POLLS
  /\ StatusReads(2)
  /\ trouble' = trouble \cup {"timeout", "shown"}
  /\ IF pc = "lbaWait"
       THEN pc' = "countWait" /\ UNCHANGED result
       ELSE Return("error")
  /\ UNCHANGED <<req, remaining, buffer>>
  /\ UNCHANGED <<lbaReg, countReg, drq, err, pos, left, medium, errors>>

\* The wait w is over and the code goes on to where.
Proceed(w, where) ==
  /\ pc = w
  /\ Ready
  /\ pc' = where
  /\ polls' = POLLS
  /\ UNCHANGED <<req, remaining, buffer, result, trouble>>

(***************************************************************************)
(* setIdeLba, readSectors, writeSectors, getDriveIdent, initIdeDrive.      *)
(***************************************************************************)
\* Mutant: a byte of the sector number is left out (a byte of 1 bit here).
SetLbaLowByte ==
  /\ Proceed("lbaWait", "countWait")
  /\ lbaReg' = req.lba % 2
  /\ UNCHANGED <<countReg, busy, drq, err, pos, left, medium, errors>>

SetLba ==
  /\ Proceed("lbaWait", "countWait")
  /\ lbaReg' = req.lba
  /\ UNCHANGED <<countReg, busy, drq, err, pos, left, medium, errors>>

\* writeSectors asks for one sector, whatever its caller wants.
SetCount ==
  /\ Proceed("countWait", "cmdWait")
  /\ countReg' = IF req.op = "read" THEN req.count ELSE 1
  /\ UNCHANGED <<lbaReg, busy, drq, err, pos, left, medium, errors>>

SendCommand ==
  /\ Proceed("cmdWait", "dataWait")
  /\ \/ req.op = "read"  /\ AcceptRead
     \/ req.op = "write" /\ AcceptWrite
     \/ req.op = "ident" /\ AcceptIdent

StartTransfer ==
  /\ Proceed("dataWait", "transfer")
  /\ UNCHANGED drive

ResetDone ==
  /\ pc = "resetWait"
  /\ Ready
  /\ polls' = POLLS
  /\ Return("ok")
  /\ UNCHANGED <<req, remaining, buffer, trouble>>
  /\ UNCHANGED drive

\* What a 512 byte read of the data port delivers.
Offered ==
  IF err = 1 THEN Garbage
  ELSE IF drq = "ident" THEN Identity ELSE medium[pos]

\* readSector: 256 words from the data port, whether the drive has them or
\* not: the loop over the sectors waits for DRQ before the first one only.
ReadSector ==
  /\ pc = "transfer"
  /\ req.op \in {"read", "ident"}
  /\ pc' = "check"
  /\ IF NotBusy /\ drq # "none"
       THEN /\ buffer' = Append(buffer, Offered)
            /\ SectorTaken
            /\ UNCHANGED trouble
       ELSE /\ buffer' = Append(buffer, Garbage)
            /\ trouble' = trouble \cup {"early"}
            /\ UNCHANGED drive
  /\ UNCHANGED <<req, polls, remaining, result>>

WriteSector ==
  /\ pc = "transfer"
  /\ req.op = "write"
  /\ pc' = "check"
  /\ SectorGiven(req.data)
  /\ UNCHANGED <<req, polls, remaining, buffer, result, trouble>>

\* Mutant: the bit tested is not ERR.
ErrorNeverSeen == NotBusy /\ err = 2

ErrorSeen == NotBusy /\ err = 1

\* Mutant: showErrors leaves D0 at 0.
ShowErrorsD0Zero == 0

\* showErrors returns NZ with 1 in D0.
ShowErrorsD0 == 1

\* The status read after a sector.  An error is shown and D0, which is also
\* the count of sectors, becomes 1.
CheckRead ==
  /\ pc = "check"
  /\ req.op \in {"read", "ident"}
  /\ StatusReads(1)
  /\ trouble' = IF ErrorSeen THEN trouble \cup {"shown"} ELSE trouble
  /\ IF req.op = "ident"
       THEN Return("ok") /\ UNCHANGED remaining
       ELSE /\ remaining' = ((IF ErrorSeen THEN ShowErrorsD0 ELSE remaining) + 255) % 256
            /\ IF remaining' = 0
                 THEN Return("ok")
                 ELSE pc' = "transfer" /\ UNCHANGED result
  /\ UNCHANGED <<req, polls, buffer>>
  /\ UNCHANGED <<lbaReg, countReg, drq, err, pos, left, medium, errors>>

\* writeSectors looks at the status at once, while the drive may be storing.
CheckWrite ==
  /\ pc = "check"
  /\ req.op = "write"
  /\ StatusReads(1)
  /\ trouble' = trouble \cup (IF ErrorSeen THEN {"shown"} ELSE {})
                        \cup (IF NotBusy THEN {} ELSE {"early"})
  /\ Return(IF ErrorSeen THEN "error" ELSE "ok")
  /\ UNCHANGED <<req, polls, remaining, buffer>>
  /\ UNCHANGED <<lbaReg, countReg, drq, err, pos, left, medium, errors>>

DriverStep ==
  \/ PollAgain \/ TimeOut
  \/ SetLba \/ SetCount \/ SendCommand \/ StartTransfer \/ ResetDone
  \/ ReadSector \/ WriteSector \/ CheckRead \/ CheckWrite

Next ==
  \/ CallRead \/ CallWrite \/ CallIdent \/ CallInit
  \/ DriverStep

Spec == Init /\ [][Next]_vars

\* The driver has the processor to itself, and its loops need no event.
FairSpec == Spec /\ WF_vars(DriverStep)

-------------------------------------------------------------------------------
(***************************************************************************)
(* Properties.                                                             *)
(***************************************************************************)

\* Every variable keeps its type, and a read is never ahead of its count.
TypeOK ==
  /\ pc \in Waits \cup {"idle", "transfer", "check"}
  /\ req \in ReadRequest \cup WriteRequest \cup OtherRequest \cup {NoRequest}
  /\ polls \in 1 .. POLLS
  /\ remaining \in Byte
  /\ buffer \in Seq(Content)
  /\ result \in {"none", "ok", "error"}
  /\ trouble \subseteq {"timeout", "early", "shown"}
  /\ lbaReg \in LBA
  /\ countReg \in 1 .. MaxCount
  /\ busy \in Nat
  /\ drq \in {"none", "read", "write", "ident"}
  /\ err \in {0, 1}
  /\ pos \in LBA
  /\ left \in 0 .. MaxCount
  /\ medium \in [LBA -> Data]
  /\ errors \in 0 .. MaxErrors

Returned(op, r) == pc = "idle" /\ req.op = op /\ result = r

\* A read that returned Z, without a wait that ran out, an early look or a
\* message on the way, stored the sectors asked for, all of them, whatever an
\* earlier request left behind in the drive: a half read command, a write
\* whose data it still wants, another sector number.
QuietReadDelivers ==
  (Returned("read", "ok") /\ trouble = {}) =>
    /\ Len(buffer) = req.count
    /\ \A i \in 1 .. req.count : buffer[i] = medium[req.lba + i - 1]

\* The same of a write: the sector is on the medium.
QuietWriteStores ==
  (Returned("write", "ok") /\ trouble = {}) => medium[req.lba] = req.data

\* A sector changes only under a write request, and, unless a wait of this
\* very request ran out, only the sector the request names.
OnlyTheNamedSector ==
  [][ \A s \in LBA : medium'[s] # medium[s] =>
        /\ req.op = "write"
        /\ medium'[s] = req.data
        /\ "timeout" \notin trouble => s = req.lba ]_vars

\* Whatever the drive does in the middle of a read, no more sectors are stored
\* at the caller's address than it asked for.
NoOverrun == req.op = "read" => Len(buffer) <= req.count

\* No request is stuck on a drive that never becomes ready.
EveryRequestReturns == pc # "idle" ~> pc = "idle"

\* The comment of readSectors: "Z on success, NZ BSR error routine if problem".
\* A read that returned Z had no problem to show.
ZMeansSuccess == Returned("read", "ok") => "shown" \notin trouble
===============================================================================
