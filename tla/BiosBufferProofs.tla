--------------------------- MODULE BiosBufferProofs ---------------------------
(***************************************************************************)
(* Proofs about the BIOS disk buffer for every number and size of buffers, *)
(* every disk and any number of failing monitor traps.                     *)
(***************************************************************************)
EXTENDS BiosBuffer, TLAPS

(***************************************************************************)
(* The inductive invariant.                                                *)
(***************************************************************************)

\* An unused entry has nothing to write; a used one covers BUFF_SECS sectors.
EntriesOK ==
  \A b \in Slot :
    \/ fdlba[b] = NoDLBA /\ ldlba[b] = NoDLBA /\ dirtyBits[b] = {}
    \/ fdlba[b] \in DLBA /\ ldlba[b] = fdlba[b] + BUFF_SECS - 1

Transfer == ReadCall \cup WriteCall

\* What the code knows of its registers and of the call at each place.
FindOK == pc = "find" => call \in Transfer
FillOK == pc = "fill" => call \in Transfer /\ a1 \in Slot /\ dirtyBits[a1] = {}
CopyOK == pc = "copy" => /\ call \in Transfer
                         /\ a1 \in Slot
                         /\ fdlba[a1] <= call.dlba
                         /\ call.dlba <= ldlba[a1]
FlushOK == pc = "flush" => /\ a1 \in Slot
                           /\ ret = "fill" => call \in Transfer
                           /\ ret = "next" => call \in FlushCall
FlushAllOK == pc = "flushAll" => call \in FlushCall
PlacesOK == FindOK /\ FillOK /\ CopyOK /\ FlushOK /\ FlushAllOK

\* While a directory write flushes its buffer: the buffer holds the new data,
\* its sector is marked dirty, and once the loop is past it and no trap has
\* failed the medium holds the new data too.
DirectoryOK ==
  pc = "flush" /\ ret = "done" =>
    /\ call \in WriteCall
    /\ fdlba[a1] \in DLBA
    /\ CallIndex \in dirtyBits[a1]
    /\ buffers[a1][CallIndex][call.cpm] = call.data
    /\ CallIndex < d4 /\ monitorStatus = "ok" => disk[call.dlba][call.cpm] = call.data

IInv ==
  /\ TypeOK
  /\ EntriesOK
  /\ PlacesOK
  /\ FlushAllLeavesClean
  /\ DirectoryOK

(***************************************************************************)
(* Lemmas.                                                                 *)
(***************************************************************************)

\* The sequence counter wraps inside its width.
LEMMA SequenceWraps ==
  ASSUME NEW m \in Nat \ {0}, NEW n \in 0 .. m - 1
  PROVE  (n + 1) % m \in 0 .. m - 1
OBVIOUS

USE RequestAssumption, BufferAssumption

LEMMA InitIInv == Init => IInv
<1> SUFFICES ASSUME Init PROVE IInv
  OBVIOUS
<1> USE DEF Init
<1>1. BlankBuffers \in [Slot -> [Index -> HddSector]]
  BY DEF BlankBuffers, HddSector
<1>2. TypeOK
  BY <1>1 DEF TypeOK, NoneHeld, NoneDirty, ZeroLru, Sequence, NoCall
<1>3. EntriesOK
  BY DEF EntriesOK, NoneHeld, NoneDirty
<1>4. PlacesOK
  BY DEF PlacesOK, FindOK, FillOK, CopyOK, FlushOK, FlushAllOK
<1>5. FlushAllLeavesClean /\ DirectoryOK
  BY DEF FlushAllLeavesClean, DirectoryOK
<1> QED BY <1>2, <1>3, <1>4, <1>5 DEF IInv

LEMMA CallStep ==
  ASSUME IInv, CallRead \/ CallWrite \/ CallFlush
  PROVE  IInv'
<1> USE DEF CallRead, CallWrite, CallFlush, Enter, tableVars
<1>1. TypeOK'
  <2>1. call' \in Call
    BY DEF Call
  <2> QED BY <2>1 DEF IInv, TypeOK
<1>2. EntriesOK'
  BY DEF IInv, EntriesOK
<1>3. PlacesOK'
  BY DEF IInv, PlacesOK, FindOK, FillOK, CopyOK, FlushOK, FlushAllOK, Transfer
<1>4. FlushAllLeavesClean' /\ DirectoryOK'
  BY DEF IInv, TypeOK, FlushAllLeavesClean, DirectoryOK, Slot
<1> QED BY <1>1, <1>2, <1>3, <1>4 DEF IInv
LEMMA FindStep ==
  ASSUME IInv, FindHit \/ FindClean \/ FindDirty
  PROVE  IInv'
<1> USE DEF FindHit, FindClean, FindDirty, BeginFlush, tableVars, callVars, faultVars,
            First, LeastRecent
<1>1. TypeOK'
  BY DEF IInv, TypeOK, Slot
<1>2. EntriesOK'
  BY DEF IInv, EntriesOK
<1>3. PlacesOK'
  BY DEF IInv, PlacesOK, FindOK, FillOK, CopyOK, FlushOK, FlushAllOK, Holders, CleanSlots
<1>4. FlushAllLeavesClean' /\ DirectoryOK'
  BY DEF FlushAllLeavesClean, DirectoryOK
<1> QED BY <1>1, <1>2, <1>3, <1>4 DEF IInv

LEMMA FillStep ==
  ASSUME IInv, Fill \/ FillFails
  PROVE  IInv'
<1>0. [c \in Cpm |-> Blank] \in HddSector
  BY DEF HddSector
<1> PICK n \in 0 .. BUFF_SECS, bad \in HddSector : FillWith(n, bad)
  BY <1>0 DEF Fill, FillFails, Index
<1> USE DEF FillWith, callVars, faultVars
<1>a. /\ call \in Transfer /\ a1 \in Slot /\ dirtyBits[a1] = {}
      /\ call.dlba \in DLBA
  BY DEF IInv, PlacesOK, FillOK, Transfer, ReadCall, WriteCall
<1>b. faults' \in 0 .. MaxFaults /\ monitorStatus' \in {"ok", "error"}
  BY DEF IInv, TypeOK, Fill, FillFails, TrapFails
<1>1. TypeOK'
  <2>1. buffers' \in [Slot -> [Index -> HddSector]]
    BY <1>a DEF IInv, TypeOK, DLBA, MediumDLBA, Index
  <2>2. fdlba' \in [Slot -> DLBA \cup {NoDLBA}] /\ ldlba' \in [Slot -> MediumDLBA \cup {NoDLBA}]
    BY <1>a DEF IInv, TypeOK, DLBA, MediumDLBA
  <2> QED BY <1>b, <2>1, <2>2 DEF IInv, TypeOK
<1>2. EntriesOK'
  BY <1>a DEF IInv, TypeOK, EntriesOK
<1>3. PlacesOK'
  BY <1>a DEF IInv, TypeOK, PlacesOK, FindOK, FillOK, CopyOK, FlushOK, FlushAllOK, DLBA
<1>4. FlushAllLeavesClean' /\ DirectoryOK'
  BY DEF FlushAllLeavesClean, DirectoryOK
<1> QED BY <1>1, <1>2, <1>3, <1>4 DEF IInv

\* At br2 and bw2 the requested sector is one of the A1 buffer's.
LEMMA CopyIndex ==
  ASSUME IInv, pc = "copy"
  PROVE  /\ a1 \in Slot
         /\ fdlba[a1] \in DLBA
         /\ call.dlba \in DLBA
         /\ call.cpm \in Cpm
         /\ CallIndex \in Index
<1>1. call \in Transfer /\ a1 \in Slot /\ fdlba[a1] <= call.dlba /\ call.dlba <= ldlba[a1]
  BY DEF IInv, PlacesOK, CopyOK
<1>2. call.dlba \in DLBA /\ call.cpm \in Cpm
  BY <1>1 DEF Transfer, ReadCall, WriteCall
<1>3. fdlba[a1] \in DLBA /\ ldlba[a1] = fdlba[a1] + BUFF_SECS - 1
  BY <1>1, <1>2 DEF IInv, EntriesOK, DLBA, NoDLBA
<1> QED BY <1>1, <1>2, <1>3 DEF CallIndex, Index, DLBA

LEMMA CopyOutStep ==
  ASSUME IInv, CopyOut
  PROVE  IInv'
<1> USE CopyIndex DEF CopyOut, Leave, faultVars
<1>1. TypeOK'
  <2>1. buffers[a1][CallIndex][call.cpm] \in Data
    BY DEF IInv, TypeOK, HddSector
  <2>2. lruSequence' \in Sequence
    BY SequenceWraps DEF IInv, TypeOK, Sequence
  <2> QED BY <2>1, <2>2 DEF IInv, TypeOK
<1>2. EntriesOK'
  BY DEF IInv, EntriesOK
<1>3. PlacesOK'
  BY DEF IInv, PlacesOK, FindOK, FillOK, CopyOK, FlushOK, FlushAllOK
<1>4. FlushAllLeavesClean' /\ DirectoryOK'
  BY DEF FlushAllLeavesClean, DirectoryOK
<1> QED BY <1>1, <1>2, <1>3, <1>4 DEF IInv

LEMMA CopyInStep ==
  ASSUME IInv, CopyIn
  PROVE  IInv'
<1> USE DEF CopyIn, faultVars
<1>a. /\ a1 \in Slot /\ fdlba[a1] \in DLBA
      /\ call.dlba \in DLBA /\ call.cpm \in Cpm /\ CallIndex \in Index
  BY CopyIndex
<1>b. call \in WriteCall
  BY DEF IInv, PlacesOK, CopyOK, Transfer, ReadCall
<1>c. \/ BeginFlush(a1, "done") /\ call' = call
      \/ Leave /\ UNCHANGED <<d4, ret>>
  OBVIOUS
<1>1. TypeOK'
  <2>1. buffers' \in [Slot -> [Index -> HddSector]]
    BY <1>a, <1>b DEF IInv, TypeOK, HddSector, WriteCall
  <2>2. dirtyBits' \in [Slot -> SUBSET Index]
    BY <1>a DEF IInv, TypeOK
  <2> QED BY <1>a, <1>c, <2>1, <2>2 DEF IInv, TypeOK, BeginFlush, Leave
<1>2. EntriesOK'
  BY <1>a DEF IInv, TypeOK, EntriesOK, NoDLBA, DLBA
<1>3. PlacesOK'
  BY <1>a, <1>c DEF PlacesOK, FindOK, FillOK, CopyOK, FlushOK, FlushAllOK, BeginFlush, Leave
<1>4. FlushAllLeavesClean'
  BY <1>c DEF FlushAllLeavesClean, BeginFlush, Leave
<1>5. DirectoryOK'
  <2>1. CASE Leave
    BY <2>1 DEF DirectoryOK, Leave
  <2>2. CASE BeginFlush(a1, "done") /\ call' = call
    <3>1. CallIndex' = CallIndex
      BY <2>2 DEF CallIndex, BeginFlush
    <3>2. CallIndex \in dirtyBits'[a1]
      BY <1>a DEF IInv, TypeOK
    <3>3. buffers'[a1][CallIndex][call.cpm] = call.data
      BY <1>a DEF IInv, TypeOK, HddSector
    <3> QED BY <1>a, <1>b, <2>2, <3>1, <3>2, <3>3 DEF DirectoryOK, BeginFlush, Index
  <2> QED BY <1>c, <2>1, <2>2
<1> QED BY <1>1, <1>2, <1>3, <1>4, <1>5 DEF IInv

\* A dirty sector of the A1 buffer is one of the medium's.
LEMMA FlushTarget ==
  ASSUME IInv, FlushSector
  PROVE  /\ a1 \in Slot
         /\ d4 \in Index
         /\ fdlba[a1] \in DLBA
         /\ fdlba[a1] + d4 \in MediumDLBA
<1>1. a1 \in Slot /\ d4 \in Index
  BY DEF FlushSector, IInv, TypeOK, PlacesOK, FlushOK, Index
<1>2. fdlba[a1] \in DLBA
  BY <1>1 DEF FlushSector, IInv, EntriesOK
<1> QED BY <1>1, <1>2 DEF DLBA, MediumDLBA, Index

LEMMA FlushStep ==
  ASSUME IInv, FlushSkip \/ FlushWrite \/ FlushWriteFails
  PROVE  IInv'
<1> USE DEF FlushSkip, FlushWrite, FlushWriteFails, FlushSector, TrapFails,
            tableVars, callVars, faultVars
<1>1. TypeOK'
  <2>1. disk' \in [MediumDLBA -> HddSector]
    BY FlushTarget DEF IInv, TypeOK
  <2>2. d4' \in 0 .. BUFF_SECS
    BY DEF IInv, TypeOK
  <2>3. faults' \in 0 .. MaxFaults /\ monitorStatus' \in {"ok", "error"}
    BY DEF IInv, TypeOK
  <2> QED BY <2>1, <2>2, <2>3 DEF IInv, TypeOK
<1>2. EntriesOK'
  BY DEF IInv, EntriesOK
<1>3. PlacesOK'
  BY DEF IInv, PlacesOK, FindOK, FillOK, CopyOK, FlushOK, FlushAllOK
<1>4. FlushAllLeavesClean'
  BY DEF IInv, FlushAllLeavesClean
<1>5. DirectoryOK'
  <2> SUFFICES ASSUME ret = "done" PROVE DirectoryOK'
    BY DEF DirectoryOK
  <2>1. /\ call \in WriteCall /\ fdlba[a1] \in DLBA /\ a1 \in Slot
        /\ CallIndex \in dirtyBits[a1] /\ CallIndex \in Index
        /\ buffers[a1][CallIndex][call.cpm] = call.data
        /\ call.dlba = fdlba[a1] + CallIndex
        /\ d4 \in Nat
    BY DEF IInv, TypeOK, DirectoryOK, PlacesOK, FlushOK, CallIndex, WriteCall, DLBA
  <2>2. CallIndex' = CallIndex
    BY DEF CallIndex
  <2>3. ASSUME CallIndex < d4', monitorStatus' = "ok"
        PROVE  disk'[call.dlba][call.cpm] = call.data
    <3>1. monitorStatus = "ok"
      BY <2>3
    <3>2. CASE CallIndex = d4
      <4>1. FlushWrite
        BY <2>1, <2>3, <3>2
      <4>2. call.dlba \in MediumDLBA
        BY <2>1, <3>2, <4>1, FlushTarget
      <4> QED BY <2>1, <3>2, <4>1, <4>2 DEF IInv, TypeOK
    <3>3. CASE CallIndex # d4
      <4>1. CallIndex < d4
        BY <2>1, <2>3, <3>3 DEF Index
      <4>2. disk[call.dlba][call.cpm] = call.data
        BY <3>1, <4>1 DEF IInv, DirectoryOK
      <4>3. disk'[call.dlba] = disk[call.dlba]
        <5>1. call.dlba # fdlba[a1] + d4
          BY <2>1, <3>3 DEF Index, DLBA
        <5>2. call.dlba \in MediumDLBA
          BY <2>1 DEF WriteCall, DLBA, MediumDLBA
        <5> QED BY <5>1, <5>2 DEF IInv, TypeOK
      <4> QED BY <4>2, <4>3
    <3> QED BY <3>2, <3>3
  <2> QED BY <2>1, <2>2, <2>3 DEF DirectoryOK
<1> QED BY <1>1, <1>2, <1>3, <1>4, <1>5 DEF IInv

LEMMA FlushEndStep ==
  ASSUME IInv, FlushEnd
  PROVE  IInv'
<1> USE DEF FlushEnd, Leave, faultVars
<1>a. a1 \in Slot
  BY DEF IInv, PlacesOK, FlushOK
<1>1. TypeOK'
  BY <1>a DEF IInv, TypeOK, Slot
<1>2. EntriesOK'
  BY <1>a DEF IInv, TypeOK, EntriesOK
<1>3. PlacesOK'
  BY <1>a DEF IInv, TypeOK, PlacesOK, FindOK, FillOK, CopyOK, FlushOK, FlushAllOK
<1>4. FlushAllLeavesClean'
  BY <1>a DEF IInv, TypeOK, FlushAllLeavesClean, Slot
<1>5. DirectoryOK'
  BY DEF DirectoryOK
<1> QED BY <1>1, <1>2, <1>3, <1>4, <1>5 DEF IInv

LEMMA FlushAllStep ==
  ASSUME IInv, FlushAllDirty \/ FlushAllClean \/ FlushAllEnd
  PROVE  IInv'
<1> USE DEF FlushAllDirty, FlushAllClean, FlushAllEnd, BeginFlush, Leave, tableVars, callVars,
            faultVars
<1>1. TypeOK'
  BY DEF IInv, TypeOK
<1>2. EntriesOK'
  BY DEF IInv, EntriesOK
<1>3. PlacesOK'
  BY DEF IInv, TypeOK, PlacesOK, FindOK, FillOK, CopyOK, FlushOK, FlushAllOK, Slot
<1>4. FlushAllLeavesClean'
  BY DEF IInv, TypeOK, FlushAllLeavesClean, Slot
<1>5. DirectoryOK'
  BY DEF DirectoryOK
<1> QED BY <1>1, <1>2, <1>3, <1>4, <1>5 DEF IInv

LEMMA RebootStep ==
  ASSUME IInv, Reboot
  PROVE  IInv'
<1> USE DEF Reboot, Leave
<1>1. TypeOK'
  <2>1. BlankBuffers \in [Slot -> [Index -> HddSector]]
    BY DEF BlankBuffers, HddSector
  <2> QED BY <2>1 DEF IInv, TypeOK, NoneHeld, NoneDirty, ZeroLru, Sequence
<1>2. EntriesOK'
  BY DEF EntriesOK, NoneHeld, NoneDirty
<1>3. PlacesOK'
  BY DEF PlacesOK, FindOK, FillOK, CopyOK, FlushOK, FlushAllOK
<1>4. FlushAllLeavesClean' /\ DirectoryOK'
  BY DEF FlushAllLeavesClean, DirectoryOK
<1> QED BY <1>1, <1>2, <1>3, <1>4 DEF IInv

LEMMA StutterStep ==
  ASSUME IInv, UNCHANGED vars
  PROVE  IInv'
BY DEF vars, IInv, TypeOK, EntriesOK, PlacesOK, FindOK, FillOK, CopyOK, FlushOK,
   FlushAllOK, FlushAllLeavesClean, DirectoryOK, CallIndex

LEMMA NextIInv == IInv /\ [Next]_vars => IInv'
<1> SUFFICES ASSUME IInv, [Next]_vars PROVE IInv'
  OBVIOUS
<1>1. CASE CallRead \/ CallWrite \/ CallFlush
  BY <1>1, CallStep
<1>2. CASE BiosStep
  BY <1>2, FindStep, FillStep, CopyOutStep, CopyInStep, FlushStep, FlushEndStep,
     FlushAllStep DEF BiosStep
<1>3. CASE Reboot
  BY <1>3, RebootStep
<1>4. CASE UNCHANGED vars
  BY <1>4, StutterStep
<1> QED BY <1>1, <1>2, <1>3, <1>4 DEF Next

LEMMA IInvHolds == Spec => []IInv
BY InitIInv, NextIInv, PTL DEF Spec

(***************************************************************************)
(* What follows from it.                                                   *)
(***************************************************************************)

\* Every variable keeps its type, whatever fails and whenever the machine is
\* rebooted.
THEOREM TypeCorrect == Spec => []TypeOK
<1>1. IInv => TypeOK
  BY DEF IInv
<1> QED BY <1>1, IInvHolds, PTL

\* The copy loops br3 and bw3, and BSET, stay inside the buffer they work on.
THEOREM CopiesStayInside == Spec => []CopyStaysInBuffer
<1>1. IInv => CopyStaysInBuffer
  BY CopyIndex DEF CopyStaysInBuffer
<1> QED BY <1>1, IInvHolds, PTL

\* Function 21 leaves no buffer dirty.
THEOREM FlushAllCleans == Spec => []FlushAllLeavesClean
<1>1. IInv => FlushAllLeavesClean
  BY DEF IInv
<1> QED BY <1>1, IInvHolds, PTL

\* No entry still marked dirty is pointed at other sectors.  A mark that a flush
\* cleared although its trap failed is gone, and with it the write.
THEOREM DirtyIsFlushedFirst == Spec => NoDirtyReuse
<1>1. ASSUME IInv, [Next]_vars,
             NEW b \in Slot, fdlba'[b] # fdlba[b], fdlba'[b] # NoDLBA
      PROVE  dirtyBits[b] = {}
  <2>1. CASE Fill \/ FillFails
    <3>0. [c \in Cpm |-> Blank] \in HddSector
      BY DEF HddSector
    <3>1. PICK n \in 0 .. BUFF_SECS, bad \in HddSector : FillWith(n, bad)
      BY <2>1, <3>0 DEF Fill, FillFails, Index
    <3>2. b = a1
      BY <1>1, <3>1 DEF FillWith, IInv, TypeOK
    <3> QED BY <1>1, <3>1, <3>2 DEF FillWith, IInv, PlacesOK, FillOK
  <2>2. CASE Reboot
    BY <1>1, <2>2 DEF Reboot, NoneHeld
  <2>3. CASE UNCHANGED fdlba
    BY <1>1, <2>3
  <2>4. [Next]_vars => Fill \/ FillFails \/ Reboot \/ UNCHANGED fdlba
    BY DEF Next, BiosStep, vars, tableVars, CallRead, CallWrite, CallFlush, Enter, FindHit,
       FindClean, FindDirty, CopyOut, CopyIn, FlushSkip, FlushWrite, FlushWriteFails,
       FlushSector, FlushEnd, FlushAllDirty, FlushAllClean, FlushAllEnd
  <2> QED BY <1>1, <2>1, <2>2, <2>3, <2>4
<1>2. IInv /\ [Next]_vars
        => [\A b \in Slot : fdlba'[b] # fdlba[b] /\ fdlba'[b] # NoDLBA
                            => dirtyBits[b] = {}]_vars
  BY <1>1
<1> QED BY <1>2, IInvHolds, PTL DEF Spec, NoDirtyReuse

\* A directory write whose traps succeed is on the medium when it returns.
THEOREM DirectoryWritesAreDurable == Spec => DirectoryDurable
<1> DEFINE Durable == pc = "flush" /\ ret = "done" /\ pc' = "idle" /\ d4 = BUFF_SECS
                        /\ monitorStatus = "ok"
                      => disk[call.dlba][call.cpm] = call.data
<1>1. IInv => Durable
  <2>1. ASSUME IInv, pc = "flush", ret = "done", d4 = BUFF_SECS
        PROVE  CallIndex < d4
    <3>1. a1 \in Slot /\ CallIndex \in dirtyBits[a1]
      BY <2>1 DEF IInv, PlacesOK, FlushOK, DirectoryOK
    <3>2. CallIndex \in Index
      BY <3>1, <2>1 DEF IInv, TypeOK
    <3> QED BY <2>1, <3>2 DEF Index
  <2> QED BY <2>1 DEF IInv, DirectoryOK
<1>2. IInv /\ [Next]_vars => [Durable]_vars
  BY <1>1
<1> QED BY <1>2, IInvHolds, PTL DEF Spec, DirectoryDurable

(***************************************************************************)
(* With one HDD sector in a buffer, and no failing trap, BiosBuffer        *)
(* implements the disk of CpmDisk, for any number of buffers, any disk and *)
(* any length of the sequence counter, reboots included.                   *)
(***************************************************************************)
OneSector == BUFF_SECS = 1 /\ MaxFaults = 0

(***************************************************************************)
(* The invariant the refinement rests on: no sector is in two buffers, and *)
(* a clean buffer is a copy of the medium.  Neither survives BUFF_SECS = 2.*)
(***************************************************************************)
Unique ==
  \A a, b \in Slot : fdlba[a] = fdlba[b] /\ fdlba[a] # NoDLBA => a = b

CleanCopies ==
  \A b \in Slot :
    fdlba[b] # NoDLBA /\ dirtyBits[b] = {} => buffers[b][0] = disk[fdlba[b]]

\* Between the lookup that missed and the fill, the sector stays absent.
StillMissing ==
  pc = "fill" \/ (pc = "flush" /\ ret = "fill")
    => \A b \in Slot : fdlba[b] # call.dlba

\* flush works on a used buffer; past its one sector, the medium has it.
FlushedCopy ==
  pc = "flush" => /\ fdlba[a1] # NoDLBA
                  /\ d4 = 1 => buffers[a1][0] = disk[fdlba[a1]]

RInv == Unique /\ CleanCopies /\ StillMissing /\ FlushedCopy

\* With one sector, an entry holds a D+LBA iff it starts there.
LEMMA HeldIffFirst ==
  ASSUME OneSector, IInv, NEW b \in Slot, NEW s \in DLBA
  PROVE  b \in Holders(s) <=> fdlba[b] = s
BY DEF OneSector, IInv, EntriesOK, Holders, NoDLBA, DLBA

LEMMA IndexIsZero ==
  ASSUME OneSector PROVE Index = {0} /\ MediumDLBA = DLBA
BY DEF OneSector, Index, MediumDLBA, DLBA

LEMMA InitRInv == Init => RInv
BY DEF Init, RInv, Unique, CleanCopies, StillMissing, FlushedCopy, NoneHeld

\* A trap cannot fail.
LEMMA NoFaults ==
  ASSUME OneSector, IInv PROVE ~TrapFails
BY DEF OneSector, IInv, TypeOK, TrapFails

LEMMA FindRInv ==
  ASSUME OneSector, IInv, RInv, FindHit \/ FindClean \/ FindDirty
  PROVE  RInv'
<1> USE DEF FindHit, FindClean, FindDirty, BeginFlush, tableVars, callVars
<1>1. Unique' /\ CleanCopies'
  BY DEF RInv, Unique, CleanCopies
<1>2. StillMissing'
  <2>1. CASE FindHit
    BY <2>1 DEF StillMissing
  <2>2. CASE FindClean \/ FindDirty
    <3>1. call.dlba \in DLBA
      BY <2>2 DEF IInv, PlacesOK, FindOK, Transfer, ReadCall, WriteCall
    <3>2. \A b \in Slot : fdlba[b] # call.dlba
      BY <2>2, <3>1, HeldIffFirst
    <3> QED BY <2>2, <3>2 DEF StillMissing
  <2> QED BY <2>1, <2>2
<1>3. FlushedCopy'
  <2>1. CASE FindDirty
    BY <2>1 DEF FlushedCopy, CleanSlots, LeastRecent, IInv, EntriesOK, DLBA, NoDLBA
  <2>2. CASE FindHit \/ FindClean
    BY <2>2 DEF FlushedCopy
  <2> QED BY <2>1, <2>2
<1> QED BY <1>1, <1>2, <1>3 DEF RInv

LEMMA FillRInv ==
  ASSUME OneSector, IInv, RInv, Fill
  PROVE  RInv'
<1> USE IndexIsZero DEF Fill, FillWith, callVars
<1>a. a1 \in Slot /\ dirtyBits[a1] = {} /\ call.dlba \in DLBA
      /\ \A b \in Slot : fdlba[b] # call.dlba
  BY DEF IInv, PlacesOK, FillOK, Transfer, ReadCall, WriteCall, RInv, StillMissing
<1>1. Unique'
  BY <1>a DEF IInv, TypeOK, RInv, Unique
<1>2. CleanCopies'
  <2>1. buffers'[a1][0] = disk[call.dlba]
    BY <1>a DEF IInv, TypeOK, OneSector, DLBA
  <2>2. \A b \in Slot : b # a1 => buffers'[b] = buffers[b] /\ fdlba'[b] = fdlba[b]
    BY <1>a DEF IInv, TypeOK
  <2>3. fdlba'[a1] = call.dlba
    BY <1>a DEF IInv, TypeOK
  <2> QED BY <2>1, <2>2, <2>3 DEF RInv, CleanCopies
<1>3. StillMissing' /\ FlushedCopy'
  BY DEF StillMissing, FlushedCopy
<1> QED BY <1>1, <1>2, <1>3 DEF RInv

LEMMA CopyRInv ==
  ASSUME OneSector, IInv, RInv, CopyOut \/ CopyIn
  PROVE  RInv'
<1> USE DEF CopyOut, CopyIn, BeginFlush, Leave
<1>a. a1 \in Slot /\ fdlba[a1] \in DLBA /\ CallIndex = 0
  BY CopyIndex, IndexIsZero
<1>1. Unique'
  BY DEF RInv, Unique
<1>2. CleanCopies'
  <2>1. CASE CopyOut
    BY <2>1 DEF RInv, CleanCopies
  <2>2. CASE CopyIn
    <3>1. dirtyBits'[a1] # {}
      BY <1>a, <2>2 DEF IInv, TypeOK
    <3>2. \A b \in Slot : b # a1 => buffers'[b] = buffers[b] /\ dirtyBits'[b] = dirtyBits[b]
      BY <1>a, <2>2 DEF IInv, TypeOK
    <3> QED BY <2>2, <3>1, <3>2 DEF RInv, CleanCopies
  <2> QED BY <2>1, <2>2
<1>3. StillMissing' /\ FlushedCopy'
  BY <1>a DEF StillMissing, FlushedCopy, NoDLBA, DLBA
<1> QED BY <1>1, <1>2, <1>3 DEF RInv

LEMMA FlushRInv ==
  ASSUME OneSector, IInv, RInv, FlushSkip \/ FlushWrite
  PROVE  RInv'
<1> USE DEF FlushSkip, FlushWrite, FlushSector, tableVars, callVars
<1>a. /\ a1 \in Slot /\ d4 = 0 /\ d4 \in Index
      /\ fdlba[a1] # NoDLBA /\ fdlba[a1] \in DLBA /\ fdlba[a1] \in MediumDLBA
  BY IndexIsZero DEF IInv, TypeOK, PlacesOK, FlushOK, RInv, FlushedCopy, OneSector, EntriesOK
<1>1. Unique' /\ StillMissing'
  BY DEF RInv, Unique, StillMissing
<1>2. CleanCopies' /\ FlushedCopy'
  <2>1. CASE FlushSkip
    <3>1. dirtyBits[a1] = {}
      BY <1>a, <2>1, IndexIsZero DEF IInv, TypeOK
    <3> QED BY <1>a, <2>1, <3>1 DEF RInv, CleanCopies, FlushedCopy
  <2>2. CASE FlushWrite
    <3>a. fdlba[a1] + d4 = fdlba[a1]
      BY <1>a DEF DLBA
    <3>1. disk' = [disk EXCEPT ![fdlba[a1]] = buffers[a1][0]]
      BY <1>a, <2>2, <3>a
    <3>2. disk'[fdlba[a1]] = buffers[a1][0]
      BY <1>a, <3>1 DEF IInv, TypeOK
    <3>3. ASSUME NEW b \in Slot, b # a1, fdlba[b] # NoDLBA
          PROVE  disk'[fdlba[b]] = disk[fdlba[b]]
      <4>1. fdlba[b] # fdlba[a1]
        BY <3>3, <1>a DEF RInv, Unique
      <4> QED BY <3>1, <4>1, <1>a, <3>3, IndexIsZero DEF IInv, TypeOK
    <3>4. UNCHANGED <<fdlba, dirtyBits, buffers, a1>>
      BY <2>2
    <3>5. ASSUME NEW b \in Slot, fdlba[b] # NoDLBA, dirtyBits[b] = {}
          PROVE  buffers[b][0] = disk'[fdlba[b]]
      BY <3>2, <3>3, <3>5 DEF RInv, CleanCopies
    <3>7. CleanCopies'
      BY <3>4, <3>5 DEF CleanCopies
    <3>6. FlushedCopy'
      BY <1>a, <3>2, <3>4 DEF FlushedCopy
    <3> QED BY <3>6, <3>7
  <2> QED BY <2>1, <2>2
<1> QED BY <1>1, <1>2 DEF RInv

LEMMA FlushEndRInv ==
  ASSUME OneSector, IInv, RInv, FlushEnd
  PROVE  RInv'
<1> USE DEF FlushEnd, Leave
<1>a. a1 \in Slot /\ buffers[a1][0] = disk[fdlba[a1]]
  BY DEF OneSector, IInv, PlacesOK, FlushOK, RInv, FlushedCopy
<1>1. Unique' /\ StillMissing' /\ FlushedCopy'
  BY DEF RInv, Unique, StillMissing, FlushedCopy
<1>2. CleanCopies'
  BY <1>a DEF RInv, CleanCopies, IInv, TypeOK
<1> QED BY <1>1, <1>2 DEF RInv

LEMMA FlushAllRInv ==
  ASSUME OneSector, IInv, RInv, FlushAllDirty \/ FlushAllClean \/ FlushAllEnd
  PROVE  RInv'
<1> USE DEF FlushAllDirty, FlushAllClean, FlushAllEnd, BeginFlush, Leave, tableVars, callVars
<1>1. Unique' /\ CleanCopies' /\ StillMissing'
  BY DEF RInv, Unique, CleanCopies, StillMissing
<1>2. FlushedCopy'
  <2>1. CASE FlushAllDirty
    <3>1. a1 \in Slot
      BY <2>1 DEF IInv, TypeOK, Slot
    <3> QED BY <2>1, <3>1 DEF FlushedCopy, IInv, EntriesOK, NoDLBA, DLBA
  <2>2. CASE FlushAllClean \/ FlushAllEnd
    BY <2>2 DEF FlushedCopy
  <2> QED BY <2>1, <2>2
<1> QED BY <1>1, <1>2 DEF RInv

LEMMA NextRInv ==
  ASSUME OneSector, IInv, RInv, [Next]_vars
  PROVE  RInv'
<1>1. CASE CallRead \/ CallWrite \/ CallFlush
  BY <1>1 DEF CallRead, CallWrite, CallFlush, Enter, tableVars, RInv, Unique, CleanCopies,
     StillMissing, FlushedCopy
<1>2. CASE BiosStep
  <2>1. ~FillFails /\ ~FlushWriteFails
    BY NoFaults DEF FillFails, FlushWriteFails
  <2> QED BY <1>2, <2>1, FindRInv, FillRInv, CopyRInv, FlushRInv, FlushEndRInv, FlushAllRInv
          DEF BiosStep
<1>3. CASE Reboot
  BY <1>3 DEF Reboot, Leave, NoneHeld, RInv, Unique, CleanCopies, StillMissing, FlushedCopy
<1>4. CASE UNCHANGED vars
  BY <1>4 DEF vars, RInv, Unique, CleanCopies, StillMissing, FlushedCopy
<1> QED BY <1>1, <1>2, <1>3, <1>4 DEF Next

(***************************************************************************)
(* The disk the program sees, before and after a step.                     *)
(***************************************************************************)

LEMMA StoreHeld ==
  ASSUME OneSector, IInv, RInv, NEW b \in Slot, NEW s \in DLBA, fdlba[b] = s
  PROVE  StoreOf(s) = buffers[b][0]
<1>1. \A h \in Slot : h \in Holders(s) <=> h = b
  BY HeldIffFirst DEF RInv, Unique, NoDLBA, DLBA
<1>2. First(b, Holders(s))
  BY <1>1 DEF First, Holders, Slot
<1>3. (CHOOSE h \in Slot : First(h, Holders(s))) = b
  BY <1>1, <1>2 DEF First
<1>4. \E h \in Slot : fdlba[h] <= s /\ s <= ldlba[h]
  BY <1>1 DEF Holders
<1>5. s - fdlba[b] = 0
  BY DEF DLBA
<1> QED BY <1>3, <1>4, <1>5 DEF StoreOf

LEMMA StoreMissed ==
  ASSUME OneSector, IInv, NEW s \in DLBA, \A b \in Slot : fdlba[b] # s
  PROVE  StoreOf(s) = disk[s]
BY HeldIffFirst DEF StoreOf, Holders

LEMMA StoreHeldNext ==
  ASSUME OneSector, IInv', RInv', NEW b \in Slot, NEW s \in DLBA, fdlba'[b] = s
  PROVE  StoreOf(s)' = buffers'[b][0]
<1>1. \A h \in Slot : fdlba'[h] <= s /\ s <= ldlba'[h] <=> h = b
  BY DEF OneSector, IInv, EntriesOK, NoDLBA, DLBA, RInv, Unique
<1>2. \A h \in Slot : h \in Holders(s)' <=> h = b
  BY <1>1 DEF Holders
<1>3. First(b, Holders(s))'
  BY <1>2 DEF First, Holders, Slot
<1>4. (CHOOSE h \in Slot : First(h, Holders(s)))' = b
  BY <1>2, <1>3 DEF First
<1>5. s - fdlba'[b] = 0
  BY DEF DLBA
<1> QED BY <1>1, <1>4, <1>5 DEF StoreOf

LEMMA StoreMissedNext ==
  ASSUME OneSector, IInv', NEW s \in DLBA, \A b \in Slot : fdlba'[b] # s
  PROVE  StoreOf(s)' = disk'[s]
BY DEF OneSector, IInv, EntriesOK, NoDLBA, DLBA, StoreOf

(***************************************************************************)
(* The simulation: each step of the BIOS is a step of the disk, or none.   *)
(***************************************************************************)
AbsStore   == [s \in DLBA |-> StoreOf(s)]
AbsPlatter == [s \in DLBA |-> disk[s]]

AbsUnchanged == AbsStore' = AbsStore /\ AbsPlatter' = AbsPlatter
AbsStutter   == AbsUnchanged /\ UNCHANGED <<call, Phase, result>>

\* Steps that touch neither the table's D+LBAs nor any data.
LEMMA SameDisk ==
  ASSUME UNCHANGED <<fdlba, ldlba, buffers, disk>>
  PROVE  AbsUnchanged
<1>1. \A s \in DLBA : StoreOf(s)' = StoreOf(s)
  BY DEF StoreOf, First, Holders
<1> QED BY <1>1 DEF AbsUnchanged, AbsStore, AbsPlatter

LEMMA CallSimulates ==
  ASSUME CallRead \/ CallWrite \/ CallFlush
  PROVE  \E c \in Call : Abstract!Request(c)
<1> USE DEF CallRead, CallWrite, CallFlush, Enter, tableVars
<1>1. call' \in Call
  BY DEF Call
<1>2. AbsUnchanged
  BY SameDisk
<1>3. Phase = "idle" /\ Phase' = "called"
  BY DEF Phase
<1>4. Abstract!Request(call')
  BY <1>2, <1>3 DEF Abstract!Request, AbsUnchanged, AbsStore, AbsPlatter
<1> QED BY <1>1, <1>4

LEMMA FindSimulates ==
  ASSUME FindHit \/ FindClean \/ FindDirty
  PROVE  AbsStutter
<1> USE DEF FindHit, FindClean, FindDirty, BeginFlush, tableVars, callVars
<1>1. AbsUnchanged
  BY SameDisk
<1>2. UNCHANGED <<call, result>> /\ Phase' = Phase
  BY DEF Phase
<1> QED BY <1>1, <1>2 DEF AbsStutter

LEMMA FillSimulates ==
  ASSUME OneSector, IInv, RInv, IInv', RInv', Fill
  PROVE  AbsStutter
<1> USE IndexIsZero DEF Fill, FillWith, callVars
<1>a. a1 \in Slot /\ dirtyBits[a1] = {} /\ call.dlba \in DLBA
      /\ \A b \in Slot : fdlba[b] # call.dlba
  BY DEF IInv, PlacesOK, FillOK, Transfer, ReadCall, WriteCall, RInv, StillMissing
<1>b. /\ fdlba'[a1] = call.dlba
      /\ buffers'[a1][0] = disk[call.dlba]
      /\ \A b \in Slot : b # a1 => fdlba'[b] = fdlba[b] /\ buffers'[b] = buffers[b]
  BY <1>a DEF IInv, TypeOK, OneSector, DLBA
<1>1. ASSUME NEW s \in DLBA PROVE StoreOf(s)' = StoreOf(s)
  <2>1. CASE s = call.dlba
    <3>1. StoreOf(s)' = buffers'[a1][0]
      BY <1>a, <1>b, <2>1, StoreHeldNext
    <3>2. StoreOf(s) = disk[s]
      BY <1>a, <2>1, StoreMissed
    <3> QED BY <1>b, <2>1, <3>1, <3>2
  <2>2. CASE s # call.dlba /\ \E b \in Slot : b # a1 /\ fdlba[b] = s
    <3>1. PICK b \in Slot : b # a1 /\ fdlba[b] = s
      BY <2>2
    <3>2. StoreOf(s) = buffers[b][0]
      BY <3>1, StoreHeld
    <3>3. StoreOf(s)' = buffers'[b][0]
      BY <1>b, <3>1, StoreHeldNext
    <3> QED BY <1>b, <3>1, <3>2, <3>3
  <2>3. CASE s # call.dlba /\ \A b \in Slot : b # a1 => fdlba[b] # s
    <3>1. StoreOf(s)' = disk'[s]
      BY <1>b, <2>3, StoreMissedNext
    <3>2. StoreOf(s) = disk[s]
      <4>1. CASE fdlba[a1] = s
        <5>1. StoreOf(s) = buffers[a1][0]
          BY <1>a, <4>1, StoreHeld
        <5> QED BY <1>a, <4>1, <5>1 DEF RInv, CleanCopies, NoDLBA, DLBA
      <4>2. CASE fdlba[a1] # s
        BY <2>3, <4>2, StoreMissed
      <4> QED BY <4>1, <4>2
    <3> QED BY <3>1, <3>2
  <2> QED BY <2>1, <2>2, <2>3
<1>2. AbsUnchanged
  BY <1>1 DEF AbsUnchanged, AbsStore, AbsPlatter
<1>3. UNCHANGED <<call, result>> /\ Phase' = Phase
  BY DEF Phase
<1> QED BY <1>2, <1>3 DEF AbsStutter

LEMMA CopyOutSimulates ==
  ASSUME OneSector, IInv, RInv, CopyOut
  PROVE  Abstract!Read
<1> USE DEF CopyOut, Leave
<1>1. /\ a1 \in Slot /\ fdlba[a1] \in DLBA /\ call.dlba \in DLBA
      /\ CallIndex = 0 /\ fdlba[a1] = call.dlba
  <2>1. a1 \in Slot /\ fdlba[a1] \in DLBA /\ call.dlba \in DLBA /\ CallIndex = 0
    BY CopyIndex, IndexIsZero
  <2> QED BY <2>1 DEF CallIndex, DLBA
<1>2. StoreOf(call.dlba) = buffers[a1][0]
  BY <1>1, StoreHeld
<1>3. AbsUnchanged
  BY SameDisk
<1>4. Phase = "called" /\ Phase' = "idle"
  BY DEF Phase
<1> QED BY <1>1, <1>2, <1>3, <1>4 DEF Abstract!Read, Abstract!Return, Abstract!NoCall,
        NoCall, AbsUnchanged, AbsStore, AbsPlatter

LEMMA CopyInSimulates ==
  ASSUME OneSector, IInv, RInv, IInv', RInv', CopyIn
  PROVE  Abstract!Write
<1> USE DEF CopyIn
<1>1. /\ a1 \in Slot /\ fdlba[a1] \in DLBA /\ call.dlba \in DLBA /\ call.cpm \in Cpm
      /\ CallIndex = 0 /\ fdlba[a1] = call.dlba
  <2>1. a1 \in Slot /\ fdlba[a1] \in DLBA /\ call.dlba \in DLBA /\ call.cpm \in Cpm
        /\ CallIndex = 0
    BY CopyIndex, IndexIsZero
  <2> QED BY <2>1 DEF CallIndex, DLBA
<1>2. /\ buffers'[a1][0] = [buffers[a1][0] EXCEPT ![call.cpm] = call.data]
      /\ \A b \in Slot : b # a1 => buffers'[b] = buffers[b]
  BY <1>1, IndexIsZero DEF IInv, TypeOK
<1>3. ASSUME NEW s \in DLBA
      PROVE  StoreOf(s)' = IF s = call.dlba
                             THEN [StoreOf(s) EXCEPT ![call.cpm] = call.data]
                             ELSE StoreOf(s)
  <2>1. CASE s = call.dlba
    BY <1>1, <1>2, <2>1, StoreHeld, StoreHeldNext
  <2>2. CASE s # call.dlba /\ \E b \in Slot : fdlba[b] = s
    <3>1. PICK b \in Slot : fdlba[b] = s
      BY <2>2
    <3>2. StoreOf(s) = buffers[b][0] /\ StoreOf(s)' = buffers'[b][0]
      BY <3>1, StoreHeld, StoreHeldNext
    <3> QED BY <1>1, <1>2, <2>2, <3>1, <3>2
  <2>3. CASE s # call.dlba /\ \A b \in Slot : fdlba[b] # s
    BY <2>3, StoreMissed, StoreMissedNext
  <2> QED BY <2>1, <2>2, <2>3
<1>4. AbsStore' = [AbsStore EXCEPT ![call.dlba][call.cpm] = call.data]
  BY <1>1, <1>3 DEF AbsStore
<1>5. AbsPlatter' = AbsPlatter
  BY DEF AbsPlatter
<1>6. Phase = "called"
  BY DEF Phase
<1>7. IF call.type = WR_DIRECTORY
        THEN Phase' = "stored" /\ call' = call
        ELSE call' = NoCall /\ Phase' = "idle"
  BY DEF Phase, BeginFlush, Leave
<1> QED BY <1>4, <1>5, <1>6, <1>7 DEF Abstract!Write, Abstract!Return, Abstract!NoCall,
        Abstract!WR_DIRECTORY, NoCall, WR_DIRECTORY, AbsStore, AbsPlatter

LEMMA FlushSkipSimulates ==
  ASSUME FlushSkip
  PROVE  AbsStutter
<1> USE DEF FlushSkip, tableVars, callVars
<1>1. AbsUnchanged
  BY SameDisk
<1>2. UNCHANGED <<call, result>> /\ Phase' = Phase
  BY DEF Phase
<1> QED BY <1>1, <1>2 DEF AbsStutter

LEMMA FlushWriteSimulates ==
  ASSUME OneSector, IInv, RInv, IInv', RInv', FlushWrite
  PROVE  \E s \in DLBA : Abstract!WriteBack(s)
<1> USE DEF FlushWrite, FlushSector, tableVars, callVars
<1>1. a1 \in Slot /\ d4 = 0 /\ fdlba[a1] \in DLBA /\ fdlba[a1] + d4 = fdlba[a1]
  BY FlushTarget, IndexIsZero DEF DLBA
<1>2. disk' = [disk EXCEPT ![fdlba[a1]] = buffers[a1][0]]
  BY <1>1
<1>3. StoreOf(fdlba[a1]) = buffers[a1][0]
  BY <1>1, StoreHeld
<1>4. ASSUME NEW s \in DLBA PROVE StoreOf(s)' = StoreOf(s)
  <2>1. CASE \E b \in Slot : fdlba[b] = s
    BY <2>1, StoreHeld, StoreHeldNext
  <2>2. CASE \A b \in Slot : fdlba[b] # s
    <3>1. s \in MediumDLBA /\ s # fdlba[a1]
      BY <1>1, <2>2, IndexIsZero
    <3>2. disk'[s] = disk[s]
      BY <1>2, <3>1 DEF IInv, TypeOK
    <3> QED BY <2>2, <3>2, StoreMissed, StoreMissedNext
  <2> QED BY <2>1, <2>2
<1>5. AbsStore' = AbsStore
  BY <1>4 DEF AbsStore
<1>6. AbsPlatter' = [AbsPlatter EXCEPT ![fdlba[a1]] = AbsStore[fdlba[a1]]]
  <2>1. AbsStore[fdlba[a1]] = buffers[a1][0]
    BY <1>1, <1>3 DEF AbsStore
  <2>2. disk = AbsPlatter /\ disk' = AbsPlatter'
    BY <1>2, IndexIsZero, ZenonT(60) DEF AbsPlatter, IInv, TypeOK
  <2> QED BY <1>2, <2>1, <2>2
<1>7. Phase # "idle" /\ Phase' = Phase
  BY DEF Phase
<1>8. Abstract!WriteBack(fdlba[a1])
  BY <1>1, <1>5, <1>6, <1>7 DEF Abstract!WriteBack, AbsStore, AbsPlatter
<1> QED BY <1>1, <1>8 DEF Abstract!WriteBack

LEMMA FlushEndSimulates ==
  ASSUME OneSector, IInv, RInv, FlushEnd
  PROVE  AbsStutter \/ Abstract!DirectoryWriteReturns
<1> USE DEF FlushEnd
<1>1. AbsUnchanged
  BY SameDisk
<1>2. CASE ret = "fill" \/ ret = "next"
  BY <1>1, <1>2 DEF AbsStutter, Phase
<1>3. CASE ret = "done"
  <2>1. a1 \in Slot /\ call.dlba \in DLBA /\ fdlba[a1] = call.dlba
    <3>1. a1 \in Slot /\ fdlba[a1] \in DLBA /\ call \in WriteCall /\ CallIndex \in dirtyBits[a1]
      BY <1>3 DEF IInv, PlacesOK, FlushOK, DirectoryOK
    <3>2. CallIndex = 0
      BY <3>1, IndexIsZero DEF IInv, TypeOK
    <3> QED BY <3>1, <3>2 DEF CallIndex, WriteCall, DLBA
  <2>2. buffers[a1][0] = disk[call.dlba]
    BY <2>1 DEF OneSector, RInv, FlushedCopy
  <2>3. StoreOf(call.dlba) = disk[call.dlba]
    BY <2>1, <2>2, StoreHeld
  <2>4. Phase = "stored" /\ Phase' = "idle" /\ call' = NoCall
    BY <1>3 DEF Phase, Leave
  <2> QED BY <1>1, <2>1, <2>3, <2>4 DEF Abstract!DirectoryWriteReturns, Abstract!Return,
          Abstract!NoCall, NoCall, AbsUnchanged, AbsStore, AbsPlatter
<1> QED BY <1>2, <1>3

LEMMA FlushAllSimulates ==
  ASSUME OneSector, IInv, RInv, FlushAllDirty \/ FlushAllClean \/ FlushAllEnd
  PROVE  AbsStutter \/ Abstract!FlushReturns
<1> USE DEF FlushAllDirty, FlushAllClean, FlushAllEnd, BeginFlush, tableVars, callVars
<1>1. AbsUnchanged
  BY SameDisk
<1>2. CASE FlushAllDirty \/ FlushAllClean
  BY <1>1, <1>2 DEF AbsStutter, Phase
<1>3. CASE FlushAllEnd
  <2>1. ASSUME NEW s \in DLBA PROVE StoreOf(s) = disk[s]
    <3>1. \A b \in Slot : dirtyBits[b] = {}
      BY <1>3 DEF IInv, FlushAllLeavesClean, Slot
    <3>2. CASE \E b \in Slot : fdlba[b] = s
      BY <3>1, <3>2, StoreHeld DEF RInv, CleanCopies, NoDLBA, DLBA
    <3>3. CASE \A b \in Slot : fdlba[b] # s
      BY <3>3, StoreMissed
    <3> QED BY <3>2, <3>3
  <2>2. AbsPlatter = AbsStore
    BY <2>1 DEF AbsPlatter, AbsStore
  <2>3. call.op = "flush"
    BY <1>3 DEF IInv, PlacesOK, FlushAllOK, FlushCall
  <2>4. Phase = "called" /\ Phase' = "idle" /\ call' = NoCall
    BY <1>3 DEF Phase, Leave
  <2> QED BY <1>1, <1>3, <2>2, <2>3, <2>4 DEF Abstract!FlushReturns, Abstract!Return,
          Abstract!NoCall, NoCall, AbsUnchanged, AbsStore, AbsPlatter
<1> QED BY <1>2, <1>3

LEMMA RebootSimulates ==
  ASSUME OneSector, IInv', Reboot
  PROVE  Abstract!Crash
<1> USE DEF Reboot, Leave
<1>1. \A s \in DLBA : StoreOf(s)' = disk[s]
  BY StoreMissedNext DEF NoneHeld, NoDLBA, DLBA
<1>2. AbsStore' = AbsPlatter /\ AbsPlatter' = AbsPlatter
  BY <1>1 DEF AbsStore, AbsPlatter
<1>3. Phase' = "idle"
  BY DEF Phase
<1> QED BY <1>2, <1>3 DEF Abstract!Crash, Abstract!Return, Abstract!NoCall, NoCall, AbsStore,
        AbsPlatter

LEMMA InitSimulates ==
  ASSUME OneSector, Init
  PROVE  Abstract!DiskInit
<1>1. IInv
  BY InitIInv
<1>2. \A s \in DLBA : StoreOf(s) = disk[s]
  BY <1>1, StoreMissed DEF Init, NoneHeld, NoDLBA, DLBA
<1>3. AbsStore = AbsPlatter
  BY <1>2 DEF AbsStore, AbsPlatter
<1>4. AbsPlatter \in [DLBA -> HddSector]
  BY IndexIsZero DEF Init, AbsPlatter
<1> QED BY <1>3, <1>4 DEF Init, Phase, Abstract!DiskInit, Abstract!Disk, Abstract!DLBA,
        Abstract!HddSector, Abstract!Cpm, Abstract!NoCall, NoCall, AbsStore, AbsPlatter,
        DLBA, HddSector, Cpm

LEMMA StepSimulates ==
  ASSUME OneSector, IInv, RInv, IInv', RInv', [Next]_vars
  PROVE  [Abstract!DiskNext]_(Abstract!diskVars)
<1>1. AbsStutter => UNCHANGED Abstract!diskVars
  BY DEF AbsStutter, AbsUnchanged, AbsStore, AbsPlatter, Abstract!diskVars
<1>2. ~FillFails /\ ~FlushWriteFails
  BY NoFaults DEF FillFails, FlushWriteFails
<1>3. UNCHANGED vars => AbsStutter
  BY SameDisk DEF vars, AbsStutter, Phase
<1>4. Abstract!Call = Call /\ Abstract!DLBA = DLBA
  BY DEF Abstract!Call, Abstract!ReadCall, Abstract!WriteCall, Abstract!FlushCall,
     Abstract!DLBA, Abstract!Cpm, Abstract!WriteType, Abstract!WR_NORMAL,
     Abstract!WR_DIRECTORY, Abstract!WR_NEW_BLOCK, Call, ReadCall, WriteCall, FlushCall,
     DLBA, Cpm, WriteType, WR_NORMAL, WR_DIRECTORY, WR_NEW_BLOCK
<1>5. Abstract!DiskNext \/ AbsStutter
  BY <1>2, <1>3, <1>4, CallSimulates, FindSimulates, FillSimulates, CopyOutSimulates,
     CopyInSimulates, FlushSkipSimulates, FlushWriteSimulates, FlushEndSimulates,
     FlushAllSimulates, RebootSimulates DEF Next, BiosStep, Abstract!DiskNext
<1> QED BY <1>1, <1>5

\* With one sector in a buffer the disk buffer is invisible: functions 13, 14
\* and 21 read back the last write, keep directory writes and flushes durable,
\* and lose at a reboot only what had not reached the medium.
THEOREM BufferImplementsDisk ==
  ASSUME OneSector
  PROVE  Spec => BehavesAsDisk
<1>1. Init => RInv
  BY InitRInv
<1>2. IInv /\ IInv' /\ RInv /\ [Next]_vars => RInv'
  BY NextRInv
<1>3. Init => Abstract!DiskInit
  BY InitSimulates
<1>4. IInv /\ IInv' /\ RInv /\ RInv' /\ [Next]_vars => [Abstract!DiskNext]_(Abstract!diskVars)
  BY StepSimulates
<1> QED BY <1>1, <1>2, <1>3, <1>4, IInvHolds, PTL
        DEF Spec, BehavesAsDisk, Abstract!DiskSpec
=================================================================================
