--------------------------------- MODULE Xmodem ---------------------------------
(***************************************************************************)
(* The XMODEM programs of CP/M (src/cpmfs/cmodem): sendfile at one end of  *)
(* a serial line and rcvfile at the other.  Either line may lose or change *)
(* a byte.  receive() answers an unsigned char, so a timeout reads as the  *)
(* byte 255 and is never equal to TIMEOUT: the loops that wait for a quiet *)
(* line do not end, and a byte that is missing passes for 255.             *)
(***************************************************************************)
EXTENDS XmodemCheck, SequencesExt

CONSTANTS
  File,        \* the bytes of the file sent
  CrcFlags,    \* modes the receiver is started in: cmodem -r or cmodem -r -crc
  SECSIZ,      \* bytes in a sector: 128
  NSECTS,      \* sectors in the receiver's buffer: 8
  RETRYMAX,    \* tries of a sector: 10
  ERRORMAX,    \* errors in a row the receiver accepts: 10
  REQUESTMAX,  \* waits for the first request: 10
  Noise,       \* bound: the values a changed byte takes
  MaxFaults    \* bound: bytes lost or changed on the lines

ASSUME XmodemAssumption ==
  /\ {SECSIZ, NSECTS, RETRYMAX, ERRORMAX, REQUESTMAX} \subseteq Nat \ {0}
  /\ MaxFaults \in Nat
  /\ Noise \subseteq Bytes
  /\ CrcFlags \subseteq BOOLEAN
  /\ File \in Seq(Bytes)
  /\ (Len(File) + SECSIZ - 1) \div SECSIZ < 255   \* bound: sector numbers do not wrap

SOH == 1
EOT == 4
ACK == 6
NAK == 21
CRC == 67
CTRL_Z  == 26
TIMEOUT == -1

\* Mutant: receive() answers an int.
TimedOutInt == TIMEOUT

\* What receive() answers after a timeout.
TimedOut == TIMEOUT % 256

VARIABLES
  s,        \* sendfile: pc, crc_flag, sectnum, attempts
  r,        \* rcvfile: pc and its variables, see Receiving
  down,     \* bytes on the line to the receiver
  up,       \* bytes on the line to the sender
  faults,   \* bytes lost or changed so far
  guessed   \* history: the sectors stored of which a byte was missing

vars == <<s, r, down, up, faults, guessed>>

(***************************************************************************)
(* Sectors.                                                                *)
(***************************************************************************)
Sectors == (Len(File) + SECSIZ - 1) \div SECSIZ

\* The sectors of the file, the last one filled with CTRL_Z.
Sector ==
  [n \in 1 .. Sectors |->
     [j \in 1 .. SECSIZ |-> IF (n - 1) * SECSIZ + j <= Len(File) THEN File[(n - 1) * SECSIZ + j] ELSE CTRL_Z]]

\* Bytes sent after the bytes of a sector.
CheckLen(crc_flag) == IF crc_flag THEN 2 ELSE 1

\* What is sent of sector n: its number, then the record.
Record(crc_flag, n) == Sector[n] \o CheckBytes(crc_flag, Sector[n])

Frame ==
  [crc_flag \in BOOLEAN |-> [n \in 1 .. Sectors |-> <<SOH, n, 255 - n>> \o Record(crc_flag, n)]]

(***************************************************************************)
(* The lines.                                                              *)
(***************************************************************************)
\* What becomes of bytes sent: at most one of them is lost or changed.
Damaged(bytes) ==
  UNION {{RemoveAt(bytes, i)} \cup {ReplaceAt(bytes, i, b) : b \in Noise \ {bytes[i]}} : i \in DOMAIN bytes}

Arrivals(bytes) ==
  {<<bytes, 0>>} \cup IF faults = MaxFaults THEN {} ELSE {<<damaged, 1>> : damaged \in Damaged(bytes)}

SendDown(bytes) ==
  \E sent \in {bytes} : \E a \in Arrivals(sent) : down' = down \o a[1] /\ faults' = faults + a[2]
SendUp(byte)    == \E a \in Arrivals(<<byte>>) : up' = up \o a[1] /\ faults' = faults + a[2]

(***************************************************************************)
(* sendfile.                                                               *)
(***************************************************************************)
Purging == {"error", "duplicate"}

\* receive() of the sender waits 10 seconds for an answer and the receiver 5 for a
\* byte: the sender times out only when the receiver has nothing left to do.
ReceiverIdle ==
  r.pc \in {"over", "aborted"} \/ (down = <<>> /\ r.pc \in {"off", "first"} \cup Purging)

\* receive(): a byte of the other end, or what a timeout reads as.
Answers == IF up # <<>> THEN {Head(up)} ELSE IF ReceiverIdle THEN {TimedOut} ELSE {}

Rest(line) == IF line = <<>> THEN line ELSE Tail(line)

\* purgeline() drops a request that is already there.
StartSending ==
  /\ s.pc = "off"
  /\ s' = [s EXCEPT !.pc = "request"]
  /\ up' = <<>>
  /\ UNCHANGED <<r, down, faults, guessed>>

\* Sector n for the first time, or EOT after the last one.
Proceed(crc_flag, n) ==
  /\ s' = [pc |-> IF n <= Sectors THEN "sector" ELSE "eot",
           crc_flag |-> crc_flag, sectnum |-> n, attempts |-> 1]
  /\ SendDown(IF n <= Sectors THEN Frame[crc_flag][n] ELSE <<EOT>>)

Stop(pc) == s' = [s EXCEPT !.pc = pc] /\ UNCHANGED <<down, faults>>

Request ==
  /\ s.pc = "request"
  /\ up' = Rest(up)
  /\ \E rqst \in Answers :
       IF rqst \in {NAK, CRC} THEN Proceed(rqst = CRC, 1)
       ELSE /\ s' = [s EXCEPT !.attempts = @ + 1, !.pc = IF s.attempts + 1 = REQUESTMAX THEN "aborted" ELSE @]
            /\ UNCHANGED <<down, faults>>
  /\ UNCHANGED <<r, guessed>>

\* Mutants: any answer but NAK accepts the sector; a try is not counted.
AckedAny(answer) == answer # NAK
AgainUncounted   == s

Acked(answer) == answer = ACK
Again         == [s EXCEPT !.attempts = @ + 1]

\* The last try counts as failed even when it is accepted.
SectorSent ==
  /\ s.pc = "sector"
  /\ up' = Rest(up)
  /\ \E answer \in Answers :
       IF s.attempts = RETRYMAX THEN Stop("aborted")
       ELSE IF Acked(answer) THEN Proceed(s.crc_flag, s.sectnum + 1)
       ELSE s' = Again /\ SendDown(Frame[s.crc_flag][s.sectnum])
  /\ UNCHANGED <<r, guessed>>

EotSent ==
  /\ s.pc = "eot"
  /\ up' = Rest(up)
  /\ \E answer \in Answers :
       IF s.attempts = RETRYMAX THEN Stop("aborted")
       ELSE IF Acked(answer) THEN Stop("done")
       ELSE s' = Again /\ SendDown(<<EOT>>)
  /\ UNCHANGED <<r, guessed>>

(***************************************************************************)
(* rcvfile.  r.record is what has arrived of the sector being received.    *)
(***************************************************************************)
Hold == UNCHANGED <<up, faults>>

RequestByte == IF r.crc_flag THEN CRC ELSE NAK

StartReceiving ==
  /\ r.pc = "off"
  /\ r' = [r EXCEPT !.pc = "first"]
  /\ down' = <<>>
  /\ SendUp(RequestByte)
  /\ UNCHANGED <<s, guessed>>

\* Each call of receive(): the next byte, or what a timeout reads as.
Incoming == IF down = <<>> THEN TimedOut ELSE Head(down)

Reading(pc) == r.pc = pc /\ down' = Rest(down) /\ UNCHANGED s

\* write() of the whole buffer.
Save == [r EXCEPT !.stored = @ \o r.buffer, !.buffer = <<>>]

First ==
  /\ Reading("first")
  /\ UNCHANGED guessed
  /\ CASE Incoming = SOH     -> r' = [r EXCEPT !.pc = "number"] /\ Hold
       [] Incoming = EOT     -> r' = [Save EXCEPT !.pc = "over"] /\ SendUp(ACK)
       [] Incoming = TIMEOUT -> r' = [r EXCEPT !.pc = "error"] /\ Hold
       [] OTHER              -> UNCHANGED r /\ Hold

Number ==
  /\ Reading("number")
  /\ r' = [r EXCEPT !.pc = "complement", !.sectcurr = Incoming]
  /\ Hold /\ UNCHANGED guessed

\* Mutant: the numbers are not compared with the one that is expected.
NumberedAny(sectcomp) == IF r.sectcurr + sectcomp = 255 THEN "data" ELSE "error"

\* What the number of a sector and its complement lead to.
Numbered(sectcomp) ==
  IF r.sectcurr + sectcomp # 255 THEN "error"
  ELSE IF r.sectcurr = (r.sectnum + 1) % 256 THEN "data"
  ELSE IF r.sectcurr = r.sectnum THEN "duplicate"
  ELSE "error"

Complement ==
  /\ Reading("complement")
  /\ r' = [r EXCEPT !.pc = Numbered(Incoming), !.record = <<>>, !.missing = FALSE]
  /\ Hold /\ UNCHANGED guessed

\* Mutant: the second byte of the CRC is left out.
GoodRecordShort(record) ==
  IF r.crc_flag THEN Crc(SubSeq(record, 1, SECSIZ + 1)) = {}
  ELSE Checksum(SubSeq(record, 1, SECSIZ)) = record[SECSIZ + 1]

\* The CRC over data and check bytes is 0, or the checksum is that of the data.
GoodRecord(record) ==
  IF r.crc_flag THEN Crc(record) = {} ELSE Checksum(SubSeq(record, 1, SECSIZ)) = record[SECSIZ + 1]

\* Mutant: the buffer is written one sector too late.
StoredLate(data) ==
  LET more == [r EXCEPT !.pc = "first", !.errors = 0, !.sectnum = r.sectcurr, !.buffer = Append(@, data)]
  IN  IF Len(more.buffer) > NSECTS
      THEN [more EXCEPT !.stored = @ \o more.buffer, !.buffer = <<>>] ELSE more

\* A good sector joins the buffer, which is written when it is full.
Stored(data) ==
  LET more == [r EXCEPT !.pc = "first", !.errors = 0, !.sectnum = r.sectcurr, !.buffer = Append(@, data)]
  IN  IF Len(more.buffer) = NSECTS
      THEN [more EXCEPT !.stored = @ \o more.buffer, !.buffer = <<>>] ELSE more

Data ==
  /\ Reading("data")
  /\ LET record  == Append(r.record, Incoming)
         missing == r.missing \/ down = <<>>
     IN  IF Len(record) < SECSIZ + CheckLen(r.crc_flag)
         THEN /\ r' = [r EXCEPT !.record = record, !.missing = missing]
              /\ Hold /\ UNCHANGED guessed
         ELSE IF GoodRecord(record)
         THEN /\ r' = Stored(SubSeq(record, 1, SECSIZ))
              /\ guessed' = IF missing THEN guessed \cup {r.sectcurr} ELSE guessed
              /\ SendUp(ACK)
         ELSE /\ r' = [r EXCEPT !.pc = "error"]
              /\ Hold /\ UNCHANGED guessed

\* receive(1) until the line is quiet, then ACK.
PurgeDuplicate ==
  /\ Reading("duplicate")
  /\ UNCHANGED guessed
  /\ IF Incoming = TIMEOUT THEN r' = [r EXCEPT !.pc = "first"] /\ SendUp(ACK)
     ELSE UNCHANGED r /\ Hold

\* receive(1) until the line is quiet, then the request again; ERRORMAX ends it.
PurgeError ==
  /\ Reading("error")
  /\ UNCHANGED guessed
  /\ IF Incoming = TIMEOUT
     THEN /\ r' = [r EXCEPT !.errors = @ + 1, !.pc = IF r.errors + 1 = ERRORMAX THEN "aborted" ELSE "first"]
          /\ SendUp(RequestByte)
     ELSE UNCHANGED r /\ Hold

Init ==
  /\ s = [pc |-> "off", crc_flag |-> FALSE, sectnum |-> 1, attempts |-> 0]
  /\ r \in [pc : {"off"}, crc_flag : CrcFlags, sectnum : {0}, sectcurr : {0}, record : {<<>>},
            missing : {FALSE}, buffer : {<<>>}, stored : {<<>>}, errors : {0}]
  /\ down = <<>> /\ up = <<>>
  /\ faults = 0
  /\ guessed = {}

Sending   == StartSending \/ Request \/ SectorSent \/ EotSent
Receiving ==
  \/ StartReceiving \/ First \/ Number \/ Complement \/ Data \/ PurgeDuplicate \/ PurgeError

Next == Sending \/ Receiving

\* Both programs run: each is a loop with timeouts.
Spec == Init /\ [][Next]_vars /\ WF_vars(Sending) /\ WF_vars(Receiving)

(***************************************************************************)
(* Properties.                                                             *)
(***************************************************************************)
Block == [1 .. SECSIZ -> Bytes]

SendState ==
  [pc : {"off", "request", "sector", "eot", "done", "aborted"}, crc_flag : BOOLEAN,
   sectnum : 1 .. Sectors + 1, attempts : 0 .. RETRYMAX + REQUESTMAX]

ReceiveState ==
  [pc : {"off", "first", "number", "complement", "data", "over", "aborted"} \cup Purging,
   crc_flag : CrcFlags, sectnum : Bytes, sectcurr : Bytes, record : Seq(Bytes), missing : BOOLEAN,
   buffer : Seq(Block), stored : Seq(Block), errors : 0 .. ERRORMAX]

\* Every field has its type, and the receiver's buffer is written when full.
TypeOK ==
  /\ s \in SendState
  /\ r \in ReceiveState
  /\ Len(r.record) < SECSIZ + CheckLen(r.crc_flag)
  /\ Len(r.buffer) < NSECTS
  /\ down \in Seq(Bytes) /\ up \in Seq(Bytes)
  /\ faults \in 0 .. MaxFaults
  /\ guessed \subseteq Bytes

Received == r.stored \o r.buffer

\* What rcvfile keeps is a prefix of the file, sector by sector, except for the
\* sectors of which a byte was missing: a byte that times out reads as 255 and can
\* pass the check.  At most one byte of a transmission is lost or changed: two
\* changes in one sector that leave its checksum alone are outside this.
StoredOrGuessed == \A n \in DOMAIN Received : n \in guessed \/ Received[n] = Sector[n]

\* When sendfile reports success the receiver has closed its file and it has no
\* fewer sectors than were sent: an EOT that the receiver took from a damaged sector
\* is answered once, and never a second time for the real one.  It may have more: a
\* sector whose ACK was lost may come again damaged and pass for the one after it.
SenderDoneDelivered == s.pc = "done" => r.pc = "over" /\ Len(r.stored) >= Sectors

\* A receiver that met one error waits for a TIMEOUT that receive() cannot answer:
\* it never asks again, never counts to ERRORMAX and stores nothing more.
ErrorsAreFinal == [][r.pc \in Purging => r' = r /\ Len(up') <= Len(up)]_vars

\* sendfile always ends, whatever the line and the receiver do.
SenderEnds == <>(s.pc \in {"done", "aborted"})

\* A transfer that has started on a line without faults ends with both sides done.
LosslessDelivers ==
  (s.pc = "sector" /\ faults = 0) ~> (faults > 0 \/ (s.pc = "done" /\ r.pc = "over" /\ r.stored = Sector))

================================================================================
