------------------------------ MODULE BiosBuffer ------------------------------
(***************************************************************************)
(* The disk buffer of the CP/M-68K BIOS (src/bios/buffer.s) under its      *)
(* callers, functions 13, 14 and 21 of src/bios/bios.s, and above the      *)
(* monitor's trap #15, which moves HDD sectors.  A step is the code        *)
(* between two monitor traps; a trap may fail, and the BIOS does not look  *)
(* at its result; the machine may be rebooted between any two steps.       *)
(***************************************************************************)
EXTENDS CpmRequests

CONSTANTS
  BUFF_COUNT,  \* buffers: 4 in buffer.i
  BUFF_SECS,   \* HDD sectors in a buffer: 8 in buffer.i
  SEQ_MOD,     \* values of the 32 bit lruSequence: 2^32 in the code
  MaxFaults    \* bound: monitor traps that may fail in a behaviour

ASSUME BufferAssumption ==
  /\ BUFF_COUNT \in Nat \ {0}
  /\ BUFF_SECS \in Nat \ {0}
  /\ SEQ_MOD \in Nat \ {0}
  /\ MaxFaults \in Nat

Slot  == 0 .. BUFF_COUNT - 1
Index == 0 .. BUFF_SECS - 1

\* An unused entry's D+LBA, 0xFFFFFFFF, compares as -1.
NoDLBA == -1

\* A fill at LastDLBA reads on past it.
MediumDLBA == 0 .. LastDLBA + BUFF_SECS - 1

VARIABLES
  fdlba,         \* T_FDLBA
  ldlba,         \* T_LDLBA
  dirtyBits,     \* T_DIRTY_BITS, as the set of the bits that are set
  lruSeq,        \* T_LRU_SEQ
  buffers,       \* the memory at T_ADDRESS
  lruSequence,   \* the master sequence
  disk,          \* what the drives hold
  call,          \* the BIOS function being executed and its arguments
  result,        \* the CP/M sector the last read left at dma
  pc,            \* where the code is, at the head of a step
  a1,            \* register A1: the buffer being worked on
  d4,            \* register D4: the next dirty bit flush will test
  ret,           \* where flush returns to
  monitorStatus, \* "error" once a trap made for this call has failed
  faults         \* how many traps have failed

tableVars == <<fdlba, ldlba, dirtyBits, lruSeq, lruSequence>>
callVars  == <<call, result>>
regVars   == <<pc, a1, d4, ret>>
faultVars == <<monitorStatus, faults>>
vars == <<fdlba, ldlba, dirtyBits, lruSeq, lruSequence, buffers, disk, call,
          result, pc, a1, d4, ret, monitorStatus, faults>>

(***************************************************************************)
(* Operators of the lookup.                                                *)
(***************************************************************************)

\* The entries a D+LBA falls into.
Holders(s) == {b \in Slot : fdlba[b] <= s /\ s <= ldlba[b]}

CleanSlots == {b \in Slot : dirtyBits[b] = {}}

\* A two's complement reading of a sequence number: LRUs compare signed.
Signed(n) == IF 2 * n >= SEQ_MOD THEN n - SEQ_MOD ELSE n

\* b is the entry of S a scan in table order settles on: the first of those
\* with the least LRU value.
LeastRecent(b, S) ==
  /\ b \in S
  /\ \A o \in S : \/ Signed(lruSeq[b]) < Signed(lruSeq[o])
                  \/ /\ Signed(lruSeq[b]) = Signed(lruSeq[o])
                     /\ b <= o

First(b, S) == b \in S /\ \A o \in S : b <= o

\* The buffer's index of the requested HDD sector.
CallIndex == call.dlba - fdlba[a1]

(***************************************************************************)
(* Start up, and the requests.                                             *)
(***************************************************************************)
NoneHeld     == [b \in Slot |-> NoDLBA]
NoneDirty    == [b \in Slot |-> {}]
ZeroLru      == [b \in Slot |-> 0]
BlankBuffers == [b \in Slot |-> [i \in Index |-> [c \in Cpm |-> Blank]]]

Init ==
  /\ fdlba = NoneHeld
  /\ ldlba = NoneHeld
  /\ dirtyBits = NoneDirty
  /\ lruSeq = ZeroLru
  /\ lruSequence = 0
  /\ buffers = BlankBuffers
  /\ disk \in [MediumDLBA -> HddSector]
  /\ call = NoCall
  /\ result = Blank
  /\ pc = "idle"
  /\ a1 = 0
  /\ d4 = 0
  /\ ret = "done"
  /\ monitorStatus = "ok"
  /\ faults = 0

Enter(c, entry) ==
  /\ pc = "idle"
  /\ call' = c
  /\ pc' = entry
  /\ a1' = 0
  /\ monitorStatus' = "ok"
  /\ UNCHANGED <<tableVars, buffers, disk, result, d4, ret, faults>>

CallRead  == \E c \in ReadCall  : Enter(c, "find")
CallWrite == \E c \in WriteCall : Enter(c, "find")
CallFlush == \E c \in FlushCall : Enter(c, "flushAll")

\* A BIOS function returns, with 0 in D0 whatever happened.  The registers
\* mean nothing from here on.
Leave ==
  /\ call' = NoCall
  /\ pc' = "idle"
  /\ a1' = 0

(***************************************************************************)
(* findBuffer, and findLruBuffer where every buffer is dirty.              *)
(***************************************************************************)
\* Mutant: the bit counter is not cleared, and the first sector is passed over.
BeginFlushAtOne(b, return) ==
  /\ a1' = b
  /\ d4' = 1
  /\ ret' = return
  /\ pc' = "flush"

BeginFlush(b, return) ==
  /\ a1' = b
  /\ d4' = 0
  /\ ret' = return
  /\ pc' = "flush"

FindHit ==
  /\ pc = "find"
  /\ \E b \in Slot : First(b, Holders(call.dlba)) /\ a1' = b
  /\ pc' = "copy"
  /\ UNCHANGED <<tableVars, buffers, disk, callVars, d4, ret, faultVars>>

FindClean ==
  /\ pc = "find"
  /\ Holders(call.dlba) = {}
  /\ \E b \in Slot : LeastRecent(b, CleanSlots) /\ a1' = b
  /\ pc' = "fill"
  /\ UNCHANGED <<tableVars, buffers, disk, callVars, d4, ret, faultVars>>

\* Mutant: the least recently used buffer is reused without the flush.
FindDirtyUnflushed ==
  /\ pc = "find"
  /\ Holders(call.dlba) = {}
  /\ CleanSlots = {}
  /\ \E b \in Slot : LeastRecent(b, Slot) /\ a1' = b
  /\ pc' = "fill"
  /\ UNCHANGED <<tableVars, buffers, disk, callVars, d4, ret, faultVars>>

FindDirty ==
  /\ pc = "find"
  /\ Holders(call.dlba) = {}
  /\ CleanSlots = {}
  /\ \E b \in Slot : LeastRecent(b, Slot) /\ BeginFlush(b, "fill")
  /\ UNCHANGED <<tableVars, buffers, disk, callVars, faultVars>>

(***************************************************************************)
(* br1, bw1: read a full buffer from the HDD, starting at the sector asked *)
(* for.  If the trap fails at sector n, the sectors before it have         *)
(* arrived, anything may be in its place, and the rest is what it was.     *)
(***************************************************************************)
\* Mutant: the SUBQ is forgotten and the entry claims a sector too many.
FillWithLongEntry(n, bad) ==
  /\ pc = "fill"
  /\ buffers' = [buffers EXCEPT ![a1] =
       [i \in Index |-> IF i < n THEN disk[call.dlba + i]
                        ELSE IF i = n THEN bad ELSE buffers[a1][i]]]
  /\ fdlba' = [fdlba EXCEPT ![a1] = call.dlba]
  /\ ldlba' = [ldlba EXCEPT ![a1] = call.dlba + BUFF_SECS]
  /\ pc' = "copy"
  /\ UNCHANGED <<dirtyBits, lruSeq, lruSequence, disk, callVars, a1, d4, ret>>

FillWith(n, bad) ==
  /\ pc = "fill"
  /\ buffers' = [buffers EXCEPT ![a1] =
       [i \in Index |-> IF i < n THEN disk[call.dlba + i]
                        ELSE IF i = n THEN bad ELSE buffers[a1][i]]]
  /\ fdlba' = [fdlba EXCEPT ![a1] = call.dlba]
  /\ ldlba' = [ldlba EXCEPT ![a1] = call.dlba + BUFF_SECS - 1]
  /\ pc' = "copy"
  /\ UNCHANGED <<dirtyBits, lruSeq, lruSequence, disk, callVars, a1, d4, ret>>

Fill == FillWith(BUFF_SECS, [c \in Cpm |-> Blank]) /\ UNCHANGED faultVars

TrapFails ==
  /\ faults < MaxFaults
  /\ faults' = faults + 1
  /\ monitorStatus' = "error"

FillFails == (\E n \in Index, bad \in HddSector : FillWith(n, bad)) /\ TrapFails

(***************************************************************************)
(* br2: copy the CP/M sector out.  bw2: copy it in and mark it dirty.      *)
(***************************************************************************)
CopyOut ==
  /\ pc = "copy"
  /\ call.op = "read"
  /\ result' = buffers[a1][CallIndex][call.cpm]
  /\ lruSequence' = (lruSequence + 1) % SEQ_MOD
  /\ lruSeq' = [lruSeq EXCEPT ![a1] = lruSequence']
  /\ Leave
  /\ UNCHANGED <<fdlba, ldlba, dirtyBits, buffers, disk, d4, ret, faultVars>>

\* Mutant: the bit set is that of the D+LBA, not of the index in the buffer.
CopyInWrongBit ==
  /\ pc = "copy"
  /\ call.op = "write"
  /\ buffers' = [buffers EXCEPT ![a1][CallIndex][call.cpm] = call.data]
  /\ dirtyBits' = [dirtyBits EXCEPT ![a1] = @ \cup {call.dlba}]
  /\ Leave
  /\ UNCHANGED <<fdlba, ldlba, lruSeq, lruSequence, disk, result, d4, ret, faultVars>>

CopyIn ==
  /\ pc = "copy"
  /\ call.op = "write"
  /\ buffers' = [buffers EXCEPT ![a1][CallIndex][call.cpm] = call.data]
  /\ dirtyBits' = [dirtyBits EXCEPT ![a1] = @ \cup {CallIndex}]
  /\ IF call.type = WR_DIRECTORY
       THEN BeginFlush(a1, "done") /\ call' = call
       ELSE Leave /\ UNCHANGED <<d4, ret>>
  /\ UNCHANGED <<fdlba, ldlba, lruSeq, lruSequence, disk, result, faultVars>>

(***************************************************************************)
(* flush: write the dirty sectors of the A1 buffer, one trap each, then    *)
(* clear its dirty bits.                                                   *)
(***************************************************************************)
FlushSkip ==
  /\ pc = "flush"
  /\ d4 < BUFF_SECS
  /\ d4 \notin dirtyBits[a1]
  /\ d4' = d4 + 1
  /\ UNCHANGED <<tableVars, buffers, disk, callVars, pc, a1, ret, faultVars>>

FlushSector ==
  /\ pc = "flush"
  /\ d4 < BUFF_SECS
  /\ d4 \in dirtyBits[a1]
  /\ d4' = d4 + 1
  /\ UNCHANGED <<tableVars, buffers, callVars, pc, a1, ret>>

FlushWrite ==
  /\ FlushSector
  /\ disk' = [disk EXCEPT ![fdlba[a1] + d4] = buffers[a1][d4]]
  /\ UNCHANGED faultVars

FlushWriteFails == FlushSector /\ TrapFails /\ UNCHANGED disk

\* Mutant: the dirty bits are not cleared.
FlushEndStillDirty ==
  /\ pc = "flush"
  /\ d4 = BUFF_SECS
  /\ d4' = 0
  /\ ret' = "done"
  /\ \/ ret = "fill" /\ pc' = "fill" /\ UNCHANGED <<a1, call>>
     \/ ret = "next" /\ pc' = "flushAll" /\ a1' = a1 + 1 /\ call' = call
     \/ ret = "done" /\ Leave
  /\ UNCHANGED <<tableVars, buffers, disk, result, faultVars>>

FlushEnd ==
  /\ pc = "flush"
  /\ d4 = BUFF_SECS
  /\ dirtyBits' = [dirtyBits EXCEPT ![a1] = {}]
  /\ d4' = 0
  /\ ret' = "done"
  /\ \/ ret = "fill" /\ pc' = "fill" /\ UNCHANGED <<a1, call>>
     \/ ret = "next" /\ pc' = "flushAll" /\ a1' = a1 + 1 /\ call' = call
     \/ ret = "done" /\ Leave
  /\ UNCHANGED <<fdlba, ldlba, lruSeq, lruSequence, buffers, disk, result,
                 faultVars>>

(***************************************************************************)
(* flushAll: every buffer in table order.                                  *)
(***************************************************************************)
FlushAllDirty ==
  /\ pc = "flushAll"
  /\ a1 < BUFF_COUNT
  /\ dirtyBits[a1] # {}
  /\ BeginFlush(a1, "next")
  /\ UNCHANGED <<tableVars, buffers, disk, callVars, faultVars>>

\* Mutant: a clean entry branches back to the test, not past it.
FlushAllCleanStuck ==
  /\ pc = "flushAll"
  /\ a1 < BUFF_COUNT
  /\ dirtyBits[a1] = {}
  /\ UNCHANGED vars

FlushAllClean ==
  /\ pc = "flushAll"
  /\ a1 < BUFF_COUNT
  /\ dirtyBits[a1] = {}
  /\ a1' = a1 + 1
  /\ UNCHANGED <<tableVars, buffers, disk, callVars, pc, d4, ret, faultVars>>

FlushAllEnd ==
  /\ pc = "flushAll"
  /\ a1 = BUFF_COUNT
  /\ Leave
  /\ UNCHANGED <<tableVars, buffers, disk, result, d4, ret, faultVars>>

(***************************************************************************)
(* The machine is reset and CP/M boots again: function 0 runs initBuffers. *)
(* A sector write is all or nothing.                                       *)
(***************************************************************************)
Reboot ==
  /\ fdlba' = NoneHeld
  /\ ldlba' = NoneHeld
  /\ dirtyBits' = NoneDirty
  /\ lruSeq' = ZeroLru
  /\ lruSequence' = 0
  /\ buffers' = BlankBuffers
  /\ Leave
  /\ d4' = 0
  /\ ret' = "done"
  /\ monitorStatus' = "ok"
  /\ UNCHANGED <<disk, result, faults>>

BiosStep ==
  \/ FindHit \/ FindClean \/ FindDirty
  \/ Fill \/ FillFails
  \/ CopyOut \/ CopyIn
  \/ FlushSkip \/ FlushWrite \/ FlushWriteFails \/ FlushEnd
  \/ FlushAllDirty \/ FlushAllClean \/ FlushAllEnd

Next ==
  \/ CallRead \/ CallWrite \/ CallFlush
  \/ BiosStep
  \/ Reboot

Spec == Init /\ [][Next]_vars

\* The BIOS runs with no other task on the processor, and every monitor trap
\* it makes comes back.
FairSpec == Spec /\ WF_vars(BiosStep)

-------------------------------------------------------------------------------
(***************************************************************************)
(* Properties.                                                             *)
(***************************************************************************)

Sequence == 0 .. SEQ_MOD - 1

\* Every variable keeps its type: table entries name D+LBAs of the medium,
\* dirty bits stay inside a buffer, and the registers stay inside the table.
TypeOK ==
  /\ fdlba \in [Slot -> DLBA \cup {NoDLBA}]
  /\ ldlba \in [Slot -> MediumDLBA \cup {NoDLBA}]
  /\ dirtyBits \in [Slot -> SUBSET Index]
  /\ lruSeq \in [Slot -> Sequence]
  /\ lruSequence \in Sequence
  /\ buffers \in [Slot -> [Index -> HddSector]]
  /\ disk \in [MediumDLBA -> HddSector]
  /\ call \in Call \cup {NoCall}
  /\ result \in Data
  /\ pc \in {"idle", "find", "fill", "copy", "flush", "flushAll"}
  /\ a1 \in 0 .. BUFF_COUNT
  /\ d4 \in 0 .. BUFF_SECS
  /\ ret \in {"fill", "done", "next"}
  /\ monitorStatus \in {"ok", "error"}
  /\ faults \in 0 .. MaxFaults

\* When br2 or bw2 computes an address in the A1 buffer and the bit to set,
\* the requested sector lies inside that buffer, whichever of the lookup's
\* three ways led there.
CopyStaysInBuffer ==
  pc = "copy" => a1 \in Slot /\ CallIndex \in Index

\* "Flush it before reusing it": no entry marked dirty is reused.  An entry
\* found dirty is pointed at other sectors only after a flush has passed over
\* each of its marks.  The marks are all this follows: a flush that meets a
\* failed trap clears them too, and the sector it did not write is then lost.
NoDirtyReuse ==
  [][\A b \in Slot :
       fdlba'[b] # fdlba[b] /\ fdlba'[b] # NoDLBA => dirtyBits[b] = {}]_vars

\* While flushAll walks the table, every entry it has passed is clean, and
\* when function 21 returns none is dirty.
FlushAllLeavesClean ==
  (pc = "flushAll" \/ (pc = "flush" /\ ret = "next"))
    => \A b \in Slot : b < a1 => dirtyBits[b] = {}

\* A directory write (type 1) of which every trap succeeded is on the medium
\* when function 14 returns, whichever buffer took it and whatever else that
\* buffer had to write.
DirectoryDurable ==
  [][ pc = "flush" /\ ret = "done" /\ pc' = "idle" /\ d4 = BUFF_SECS
        /\ monitorStatus = "ok"
      => disk[call.dlba][call.cpm] = call.data ]_vars

\* No call is stuck in one of the table or dirty bit loops.
EveryCallReturns == pc # "idle" ~> pc = "idle"

(***************************************************************************)
(* The disk the program sees: the buffered copy of a sector, if there is   *)
(* one, and else the medium's.                                             *)
(***************************************************************************)
StoreOf(s) ==
  IF \E b \in Slot : fdlba[b] <= s /\ s <= ldlba[b]
    THEN LET b == CHOOSE h \in Slot : First(h, Holders(s))
         IN  buffers[b][s - fdlba[b]]
    ELSE disk[s]

Phase ==
  IF pc = "idle" THEN "idle"
  ELSE IF pc = "flush" /\ ret = "done" THEN "stored" ELSE "called"

Abstract == INSTANCE CpmDisk
  WITH store <- [s \in DLBA |-> StoreOf(s)],
       platter <- [s \in DLBA |-> disk[s]],
       phase <- Phase

\* With one HDD sector in a buffer and no failing trap, the buffer is
\* invisible: functions 13, 14 and 21 are those of one disk (CpmDisk), with
\* directory writes and flushes durable and a reboot losing only what had
\* not been written back.
BehavesAsDisk == Abstract!DiskSpec
===============================================================================
