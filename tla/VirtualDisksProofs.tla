-------------------------- MODULE VirtualDisksProofs --------------------------
(***************************************************************************)
(* Proofs about the virtual disks, for every number of drives, slots and   *)
(* handles with no more slots than handles, every length of the images and *)
(* any number of failed opens and writes.                                  *)
(***************************************************************************)
EXTENDS VirtualDisksHistory, FiniteSetTheorems, TLAPS

(***************************************************************************)
(* The inductive invariant.                                                *)
(***************************************************************************)

\* What is being served at which place.
CallOK ==
  /\ pc = "idle" <=> call = NoCall
  /\ pc \in {"seek", "transfer"} => call \in ReadCall \cup WriteCall

\* Past the lookup the chosen slot is the drive's, without a file where one is
\* about to be opened and with one where it is used.
SlotOK ==
  /\ pc \in {"fopen", "touch", "seek", "transfer"} => slotId[slot] = call.drive
  /\ pc = "fopen" => slotFile[slot] = NoFile
  /\ pc \in {"seek", "transfer"} => slotFile[slot] # NoFile

SequenceOK == pc \in {"open", "fopen", "touch"} => seqLru < MaxCalls

UsedSlotsOK == \A s \in Slot : slotFile[s] # NoFile => slotId[s] # NoDrive

\* A handle's length is the directory's until the file has grown.
LengthOK ==
  \A h \in Handle :
    /\ bytenum[h] <= filelength[h]
    /\ name[h] # NoDrive =>
         /\ directory[name[h]] # NoImage
         /\ directory[name[h]] <= filelength[h]
         /\ h \notin changed => directory[name[h]] = filelength[h]

PositionOK == pc = "transfer" => bytenum[File] = Shorter(call.lba, filelength[File])

IInv ==
  /\ TypeOK
  /\ CallOK
  /\ SlotOK
  /\ SequenceOK
  /\ UsedSlotsOK
  /\ TableMatchesLibrary
  /\ LengthOK
  /\ PositionOK

(***************************************************************************)
(* Lemmas about the constants, the calls and the table.                    *)
(***************************************************************************)

USE DisksAssumption

\* No name of a call is taken for another, and a drive has a number.
LEMMA CallFields ==
  ASSUME TypeOK, CallOK, pc # "idle"
  PROVE  /\ call \in {InitCall} \cup ReadCall \cup WriteCall
         /\ call.drive \in Drive
         /\ call.op # "init" => call \in ReadCall \cup WriteCall
BY DEF TypeOK, CallOK, InitCall, NoCall, ReadCall, WriteCall, Drive

LEMMA TransferFields ==
  ASSUME call \in ReadCall \cup WriteCall
  PROVE  /\ call.lba \in Lba
         /\ call.op = "write" => call.data \in Written
BY DEF ReadCall, WriteCall

\* A drive or a length is a number, and -1 is none of them.
LEMMA Numbers ==
  /\ NoDrive \notin Drive
  /\ NoImage \notin Length
  /\ NoFile \notin Handle
  /\ 0 \in Slot
  /\ 0 \in Drive
  /\ 0 \in Length
BY DEF NoDrive, Drive, NoImage, Length, NoFile, Handle, Slot

\* While a handle is open on the drive looked up, the drive has a slot.
LEMMA OpenHasSlot ==
  ASSUME TypeOK, TableMatchesLibrary, UsedSlotsOK,
         NEW d \in Drive, NEW h \in OpenOn(d)
  PROVE  \E s \in Slot : slotFile[s] = h /\ slotId[s] = d
BY Numbers DEF TableMatchesLibrary, OpenOn, TypeOK

\* One handle at most is open on a drive.
LEMMA OneHandle ==
  ASSUME TypeOK, TableMatchesLibrary, UsedSlotsOK,
         NEW d \in Drive, NEW h \in OpenOn(d), NEW g \in OpenOn(d)
  PROVE  g = h
<1>1. PICK s \in Slot : slotFile[s] = h /\ slotId[s] = d  BY OpenHasSlot
<1>2. PICK t \in Slot : slotFile[t] = g /\ slotId[t] = d  BY OpenHasSlot
<1> QED  BY <1>1, <1>2, Numbers DEF TableMatchesLibrary

\* With every other slot at most holding a handle, one handle is free.
LEMMA HandleIsFree ==
  ASSUME TypeOK, TableMatchesLibrary, slotFile[slot] = NoFile
  PROVE  OpenOn(NoDrive) # {}
<1> SUFFICES ASSUME OpenOn(NoDrive) = {} PROVE FALSE
  OBVIOUS
<1> DEFINE T == Slot \ {slot}
           f == [h \in Handle |-> CHOOSE s \in Slot : slotFile[s] = h]
<1>1. \A h \in Handle : f[h] \in T /\ slotFile[f[h]] = h
  BY Numbers DEF TableMatchesLibrary, OpenOn, TypeOK
<1>2. f \in [Handle -> T]
  BY <1>1
<1>3. IsFiniteSet(Handle) /\ Cardinality(Handle) = FATFS_MAX_OPEN_FILES
  <2>1. 1 \in Int /\ FATFS_MAX_OPEN_FILES \in Int /\ FATFS_MAX_OPEN_FILES >= 1
    OBVIOUS
  <2> QED  BY <2>1, FS_Interval DEF Handle
<1>4. IsFiniteSet(Slot) /\ Cardinality(Slot) = MAX_OPEN_FAT
  <2>1. 0 \in Int /\ MAX_OPEN_FAT - 1 \in Int /\ MAX_OPEN_FAT - 1 >= 0
    OBVIOUS
  <2> QED  BY <2>1, FS_Interval DEF Slot
<1>5. IsFiniteSet(T) /\ Cardinality(T) = MAX_OPEN_FAT - 1
  BY <1>4, FS_RemoveElement DEF TypeOK
<1>6. Cardinality(T) < Cardinality(Handle)
  BY <1>3, <1>5
<1> HIDE DEF T, f
<1>7. PICK x, y \in Handle : x # y /\ f[x] = f[y]
  BY <1>2, <1>3, <1>5, <1>6, FS_PigeonHole
<1> QED  BY <1>1, <1>7

\* The handle a transfer works on is the one open on the drive it names.
LEMMA FileIsOpen ==
  ASSUME TypeOK, CallOK, SlotOK, TableMatchesLibrary, pc \in {"seek", "transfer"}
  PROVE  /\ File \in Handle
         /\ name[File] = call.drive
         /\ call.drive \in Drive
<1>1. File \in Handle
  BY DEF TypeOK, SlotOK, File
<1>2. call.drive \in Drive
  BY CallFields
<1> QED  BY <1>1, <1>2 DEF TypeOK, SlotOK, TableMatchesLibrary, File

\* fl_fclose of a slot's file: the directory takes over its length.
LEMMA FcloseEffect ==
  ASSUME IInv, NEW s \in Slot, slotFile[s] # NoFile, Fclose(slotFile[s])
  PROVE  LET v == slotFile[s]
         IN  /\ v \in Handle
             /\ name[v] = slotId[s]
             /\ name[v] \in Drive
             /\ name' = [name EXCEPT ![v] = NoDrive]
             /\ filelength' = [filelength EXCEPT ![v] = 0]
             /\ bytenum' = [bytenum EXCEPT ![v] = 0]
             /\ changed' = changed \ {v}
             /\ directory' = [directory EXCEPT ![name[v]] = filelength[v]]
<1> DEFINE v == slotFile[s]
<1>1. v \in Handle
  BY DEF IInv, TypeOK
<1>2. /\ directory' = LengthWritten(v)
      /\ name' = [name EXCEPT ![v] = NoDrive]
      /\ filelength' = [filelength EXCEPT ![v] = 0]
      /\ bytenum' = [bytenum EXCEPT ![v] = 0]
      /\ changed' = changed \ {v}
  BY DEF Fclose
<1>3. name[v] = slotId[s] /\ name[v] \in Drive
  BY <1>1 DEF IInv, TableMatchesLibrary, UsedSlotsOK, TypeOK
<1>4. directory' = [directory EXCEPT ![name[v]] = filelength[v]]
  <2>1. CASE v \in changed
    BY <1>2, <2>1 DEF LengthWritten
  <2>2. CASE v \notin changed
    <3>1. directory' = directory
      BY <1>2, <2>2 DEF LengthWritten
    <3>2. directory[name[v]] = filelength[v]
      BY <1>1, <1>3, <2>2, Numbers DEF IInv, LengthOK
    <3>3. directory \in [Drive -> Length \cup {NoImage}]
      BY DEF IInv, TypeOK
    <3> QED  BY <1>3, <3>1, <3>2, <3>3
  <2> QED  BY <2>1, <2>2
<1> QED  BY <1>1, <1>2, <1>3, <1>4

\* A transfer takes place at the LBA asked for, or at the end of the file.
LEMMA PositionIsLba ==
  ASSUME IInv, pc = "transfer"
  PROVE  /\ call.lba \in Lba
         /\ filelength[File] \in Length
         /\ bytenum[File] \in Lba
         /\ bytenum[File] <= filelength[File]
<1>1. call.lba \in Lba
  BY TransferFields DEF IInv, CallOK
<1>2. filelength[File] \in Length /\ bytenum[File] \in Length
  BY FileIsOpen DEF IInv, TypeOK
<1> QED  BY <1>1, <1>2, FileIsOpen DEF IInv, LengthOK, PositionOK, Shorter, Lba, Length

(***************************************************************************)
(* The invariant holds at the start and every step keeps it.               *)
(***************************************************************************)

LEMMA InitInv == Init => IInv
<1> SUFFICES ASSUME Init PROVE IInv
  OBVIOUS
<1>1. TypeOK
  <2>1. directory \in [Drive -> Length \cup {NoImage}]
    BY DEF Init, Length
  <2> QED  BY <2>1, Numbers DEF Init, TypeOK
<1>2. CallOK /\ SlotOK /\ SequenceOK
  BY DEF Init, CallOK, SlotOK, SequenceOK, InitCall, NoCall
<1>3. UsedSlotsOK /\ TableMatchesLibrary
  BY DEF Init, UsedSlotsOK, TableMatchesLibrary
<1>4. LengthOK /\ PositionOK
  BY DEF Init, LengthOK, PositionOK
<1> QED  BY <1>1, <1>2, <1>3, <1>4 DEF IInv

LEMMA ResetInv == IInv /\ Reset => IInv'
<1> SUFFICES ASSUME IInv, Reset PROVE IInv'
  OBVIOUS
<1> USE DEF Reset, Booted, diskVars
<1>1. TypeOK'
  BY Numbers DEF IInv, TypeOK
<1>2. CallOK' /\ SlotOK' /\ SequenceOK'
  BY DEF CallOK, SlotOK, SequenceOK, InitCall, NoCall
<1>3. UsedSlotsOK' /\ TableMatchesLibrary'
  BY DEF UsedSlotsOK, TableMatchesLibrary
<1>4. LengthOK' /\ PositionOK'
  BY DEF LengthOK, PositionOK
<1> QED  BY <1>1, <1>2, <1>3, <1>4 DEF IInv

LEMMA CallInv == IInv /\ (CallRead \/ CallWrite) => IInv'
<1> SUFFICES ASSUME IInv, NEW c \in ReadCall \cup WriteCall, Enter(c) PROVE IInv'
  BY DEF CallRead, CallWrite
<1> USE DEF IInv, Enter, tableVars, fileVars, diskVars
<1>1. TypeOK'
  BY DEF TypeOK
<1>2. c # NoCall
  BY DEF ReadCall, WriteCall, NoCall
<1>3. CallOK' /\ SlotOK' /\ SequenceOK'
  BY <1>2 DEF CallOK, SlotOK, SequenceOK
<1>4. UsedSlotsOK' /\ TableMatchesLibrary' /\ LengthOK' /\ PositionOK'
  BY DEF UsedSlotsOK, TableMatchesLibrary, LengthOK, PositionOK
<1> QED  BY <1>1, <1>3, <1>4

LEMMA OpenHitInv == IInv /\ OpenHit => IInv'
<1> SUFFICES ASSUME IInv, OpenHit PROVE IInv'
  OBVIOUS
<1> USE DEF IInv, OpenHit, tableVars, fileVars, diskVars, callVars
<1>1. TypeOK'
  BY DEF TypeOK
<1>2. slotId'[slot'] = call'.drive
  BY DEF First, SlotsOf
<1>3. CallOK' /\ SlotOK' /\ SequenceOK'
  BY <1>2 DEF CallOK, SlotOK, SequenceOK
<1>4. UsedSlotsOK' /\ TableMatchesLibrary' /\ LengthOK' /\ PositionOK'
  BY DEF UsedSlotsOK, TableMatchesLibrary, LengthOK, PositionOK
<1> QED  BY <1>1, <1>3, <1>4

LEMMA OpenEmptyInv == IInv /\ OpenEmpty => IInv'
<1> SUFFICES ASSUME IInv, OpenEmpty PROVE IInv'
  OBVIOUS
<1> USE DEF IInv, OpenEmpty, fileVars, diskVars, callVars
<1>1. call.drive \in Drive
  BY CallFields DEF CallOK
<1>2. PICK s \in Slot : /\ slotId[s] = NoDrive
                        /\ slot' = s
                        /\ slotId' = [slotId EXCEPT ![s] = call.drive]
  BY DEF First, SlotsOf
<1>3. TypeOK'
  BY <1>1, <1>2 DEF TypeOK
<1>4. slotFile[s] = NoFile
  BY <1>2 DEF UsedSlotsOK
<1>5. CallOK' /\ SlotOK' /\ SequenceOK'
  BY <1>2, <1>4 DEF CallOK, SlotOK, SequenceOK, TypeOK
<1>6. UsedSlotsOK'
  BY <1>2, <1>4 DEF UsedSlotsOK, TypeOK
<1>7. \A t \in Slot : slotId[t] # call.drive
  BY DEF SlotsOf
<1>8. TableMatchesLibrary'
  BY <1>2, <1>4, <1>7 DEF TableMatchesLibrary, TypeOK
<1>9. LengthOK' /\ PositionOK'
  BY DEF LengthOK, PositionOK
<1> QED  BY <1>3, <1>5, <1>6, <1>8, <1>9

LEMMA OpenVictimInv == IInv /\ OpenVictim => IInv'
<1> SUFFICES ASSUME IInv, OpenVictim PROVE IInv'
  OBVIOUS
<1> USE DEF IInv, OpenVictim, callVars
<1>1. call.drive \in Drive
  BY CallFields DEF CallOK
<1>2. PICK s \in Slot : /\ slot' = s
                        /\ Fclose(slotFile[s])
                        /\ slotFile' = [slotFile EXCEPT ![s] = NoFile]
                        /\ slotId' = [slotId EXCEPT ![s] = call.drive]
  BY DEF LeastRecent
<1>3. \A t \in Slot : slotId[t] # call.drive
  BY DEF SlotsOf
<1>4. CallOK' /\ SlotOK' /\ SequenceOK' /\ PositionOK'
  BY <1>2 DEF CallOK, SlotOK, SequenceOK, PositionOK, TypeOK
<1>5. UsedSlotsOK'
  BY <1>1, <1>2, Numbers DEF UsedSlotsOK, TypeOK
<1>6. CASE slotFile[s] = NoFile
  <2>1. UNCHANGED <<fileVars, directory>>
    BY <1>2, <1>6 DEF Fclose
  <2> USE DEF fileVars
  <2>2. TypeOK'
    BY <1>1, <1>2, <2>1 DEF TypeOK
  <2>3. TableMatchesLibrary'
    BY <1>1, <1>2, <1>3, <1>6, <2>1, Numbers DEF TableMatchesLibrary, TypeOK
  <2>4. LengthOK'
    BY <2>1 DEF LengthOK
  <2> QED  BY <1>4, <1>5, <2>2, <2>3, <2>4
<1>7. CASE slotFile[s] # NoFile
  <2> DEFINE v == slotFile[s]
  <2>1. v \in Handle
    BY <1>2, <1>7, FcloseEffect
  <2>2. /\ name' = [name EXCEPT ![v] = NoDrive]
        /\ filelength' = [filelength EXCEPT ![v] = 0]
        /\ bytenum' = [bytenum EXCEPT ![v] = 0]
        /\ changed' = changed \ {v}
    BY <1>2, <1>7, FcloseEffect
  <2>3. name[v] = slotId[s] /\ name[v] \in Drive
    BY <1>2, <1>7, FcloseEffect
  <2>4. directory' = [directory EXCEPT ![name[v]] = filelength[v]]
    BY <1>2, <1>7, FcloseEffect
  <2>5. TypeOK'
    BY <1>1, <1>2, <2>1, <2>2, <2>3, <2>4, Numbers DEF TypeOK
  <2>6. TableMatchesLibrary'
    <3>1. \A t \in Slot : t # s => slotFile[t] # v
      BY <2>1, <2>3, Numbers DEF TableMatchesLibrary
    <3>2. \A p, q \in Slot : slotId'[p] = slotId'[q] /\ slotId'[p] # NoDrive => p = q
      BY <1>2, <1>3 DEF TableMatchesLibrary, TypeOK
    <3>3. \A p \in Slot : slotFile'[p] # NoFile => name'[slotFile'[p]] = slotId'[p]
      BY <1>2, <2>2, <3>1 DEF TableMatchesLibrary, TypeOK
    <3>4. \A h \in Handle : name'[h] # NoDrive => \E p \in Slot : slotFile'[p] = h
      BY <1>2, <2>1, <2>2 DEF TableMatchesLibrary, TypeOK
    <3> QED  BY <3>2, <3>3, <3>4 DEF TableMatchesLibrary
  <2>7. LengthOK'
    <3> SUFFICES ASSUME NEW h \in Handle
                 PROVE  /\ bytenum'[h] <= filelength'[h]
                        /\ name'[h] # NoDrive =>
                             /\ directory'[name'[h]] # NoImage
                             /\ directory'[name'[h]] <= filelength'[h]
                             /\ h \notin changed' => directory'[name'[h]] = filelength'[h]
      BY DEF LengthOK
    <3>1. CASE h = v
      BY <2>1, <2>2, <3>1 DEF TypeOK
    <3>2. CASE h # v
      <4>1. name[h] # NoDrive => name[h] # name[v]
        BY <2>1, <2>3, <3>2, OneHandle DEF OpenOn
      <4> QED  BY <2>1, <2>2, <2>3, <2>4, <3>2, <4>1 DEF LengthOK, TypeOK
    <3> QED  BY <3>1, <3>2
  <2> QED  BY <1>4, <1>5, <2>5, <2>6, <2>7
<1> QED  BY <1>6, <1>7

LEMMA FopenInv == IInv /\ Fopen => IInv'
<1> SUFFICES ASSUME IInv, Fopen PROVE IInv'
  OBVIOUS
<1> USE DEF IInv, Fopen, diskVars, callVars
<1>1. call.drive \in Drive
  BY CallFields DEF CallOK
<1>2. PICK h \in Handle : /\ name[h] = NoDrive
                          /\ slotFile' = [slotFile EXCEPT ![slot] = h]
                          /\ name' = [name EXCEPT ![h] = call.drive]
                          /\ filelength' = [filelength EXCEPT ![h] = directory[call.drive]]
                          /\ bytenum' = [bytenum EXCEPT ![h] = 0]
                          /\ changed' = changed \ {h}
  BY DEF OpenOn
<1>3. directory[call.drive] \in Length
  BY <1>1 DEF CanOpen, TypeOK
<1>4. TypeOK'
  BY <1>1, <1>2, <1>3, Numbers DEF TypeOK
<1>5. slotId[slot] = call.drive /\ slot \in Slot /\ slotFile[slot] = NoFile
  BY DEF SlotOK, TypeOK
<1>6. CallOK' /\ SlotOK' /\ SequenceOK' /\ PositionOK'
  BY <1>5 DEF CallOK, SlotOK, SequenceOK, PositionOK
<1>7. UsedSlotsOK'
  BY <1>1, <1>2, <1>5, Numbers DEF UsedSlotsOK, TypeOK
<1>8. \A t \in Slot : slotFile[t] # h
  BY <1>2, Numbers DEF TableMatchesLibrary, UsedSlotsOK
<1>9. TableMatchesLibrary'
  <2>1. \A p \in Slot : slotFile'[p] # NoFile => name'[slotFile'[p]] = slotId'[p]
    BY <1>1, <1>2, <1>5, <1>8 DEF TableMatchesLibrary, TypeOK
  <2>2. \A g \in Handle : name'[g] # NoDrive => \E p \in Slot : slotFile'[p] = g
    <3> SUFFICES ASSUME NEW g \in Handle, name'[g] # NoDrive
                 PROVE  \E p \in Slot : slotFile'[p] = g
      OBVIOUS
    <3>1. CASE g = h
      BY <1>2, <1>5, <3>1 DEF TypeOK
    <3>2. CASE g # h
      <4>1. PICK p \in Slot : slotFile[p] = g
        BY <1>2, <3>2 DEF TableMatchesLibrary, TypeOK
      <4>2. p # slot
        BY <1>5, <4>1, Numbers
      <4> QED  BY <1>2, <4>1, <4>2 DEF TypeOK
    <3> QED  BY <3>1, <3>2
  <2> QED  BY <2>1, <2>2 DEF TableMatchesLibrary
<1>10. LengthOK'
  BY <1>1, <1>2, <1>3, Numbers DEF LengthOK, TypeOK, Length, NoImage
<1> QED  BY <1>4, <1>6, <1>7, <1>9, <1>10

LEMMA NotOpenedInv == IInv /\ (FopenRefused \/ FopenUnread) => IInv'
<1> SUFFICES ASSUME IInv, pc = "fopen", NotOpened, UNCHANGED faults \/ Fault
             PROVE  IInv'
  BY DEF FopenRefused, FopenUnread
<1> USE DEF IInv, NotOpened, fileVars, diskVars, callVars
<1>1. slotFile' = slotFile
  BY DEF SlotOK, TypeOK
<1>2. TypeOK'
  BY <1>1 DEF TypeOK, Fault
<1>3. CallOK' /\ SlotOK' /\ SequenceOK' /\ PositionOK'
  BY <1>1 DEF CallOK, SlotOK, SequenceOK, PositionOK
<1>4. UsedSlotsOK' /\ TableMatchesLibrary' /\ LengthOK'
  BY <1>1 DEF UsedSlotsOK, TableMatchesLibrary, LengthOK
<1> QED  BY <1>2, <1>3, <1>4

LEMMA TouchInv == IInv /\ Touched => IInv'
<1> SUFFICES ASSUME IInv, Touched PROVE IInv'
  OBVIOUS
<1> USE DEF IInv, Touch, Touched, InitReturns, OpenError, Opened, Leave,
            fileVars, diskVars, callVars
<1>1. TypeOK'
  <2>1. seqLru + 1 \in 0 .. MaxCalls
    BY DEF SequenceOK, TypeOK
  <2>2. slotLru' \in [Slot -> 0 .. MaxCalls] /\ seqLru' \in 0 .. MaxCalls
    BY <2>1 DEF TypeOK
  <2> QED  BY <2>2, Numbers DEF TypeOK
<1>2. CallOK' /\ SlotOK'
  <2>1. call.op # "init" => call \in ReadCall \cup WriteCall
    BY CallFields DEF CallOK
  <2> QED  BY <2>1 DEF CallOK, SlotOK, File
<1>3. SequenceOK' /\ PositionOK'
  BY DEF SequenceOK, PositionOK
<1>4. UsedSlotsOK' /\ TableMatchesLibrary' /\ LengthOK'
  BY DEF UsedSlotsOK, TableMatchesLibrary, LengthOK
<1> QED  BY <1>1, <1>2, <1>3, <1>4

LEMMA SeekInv == IInv /\ Seek => IInv'
<1> SUFFICES ASSUME IInv, Seek PROVE IInv'
  OBVIOUS
<1> USE DEF IInv, Seek, tableVars, diskVars, callVars
<1>1. File \in Handle /\ File' = File
  BY FileIsOpen DEF File
<1>2. call.lba \in Lba
  BY TransferFields DEF CallOK
<1>3. Shorter(call.lba, filelength[File]) \in Length
      /\ Shorter(call.lba, filelength[File]) <= filelength[File]
  BY <1>1, <1>2 DEF Shorter, TypeOK, Length, Lba
<1>4. TypeOK'
  BY <1>1, <1>3 DEF TypeOK
<1>5. CallOK' /\ SlotOK' /\ SequenceOK'
  BY DEF CallOK, SlotOK, SequenceOK
<1>6. UsedSlotsOK' /\ TableMatchesLibrary'
  BY DEF UsedSlotsOK, TableMatchesLibrary
<1>7. LengthOK'
  BY <1>1, <1>3 DEF LengthOK, TypeOK
<1>8. PositionOK'
  BY <1>1 DEF PositionOK, TypeOK
<1> QED  BY <1>4, <1>5, <1>6, <1>7, <1>8

LEMMA ReadInv == IInv /\ Read => IInv'
<1> SUFFICES ASSUME IInv, Read PROVE IInv'
  OBVIOUS
<1> USE DEF IInv, Read, tableVars, diskVars, Leave
<1>1. File \in Handle /\ name[File] \in Drive
  BY FileIsOpen
<1>2. /\ bytenum[File] + SectorsRead \in Length
      /\ bytenum[File] + SectorsRead <= filelength[File]
  BY <1>1, PositionIsLba DEF SectorsRead, Shorter, Length, Lba
<1>3. \A i \in Index : i < SectorsRead => bytenum[File] + i \in Lba
  BY <1>2, PositionIsLba, SMTT(60) DEF SectorsRead, Shorter, Length, Lba, Index
<1>4. dest' \in [Index -> Data]
  BY <1>1, <1>3 DEF TypeOK
<1>5. bytenum' \in [Handle -> Length] /\ status' \in 0 .. 2
  BY <1>1, <1>2 DEF TypeOK, ReadStatus
<1>6. TypeOK'
  BY <1>4, <1>5, Numbers DEF TypeOK
<1>7. CallOK' /\ SlotOK' /\ SequenceOK' /\ PositionOK'
  BY DEF CallOK, SlotOK, SequenceOK, PositionOK
<1>8. UsedSlotsOK' /\ TableMatchesLibrary'
  BY DEF UsedSlotsOK, TableMatchesLibrary
<1>9. LengthOK'
  BY <1>1, <1>2 DEF LengthOK, TypeOK
<1> QED  BY <1>6, <1>7, <1>8, <1>9

LEMMA WriteInv == IInv /\ Write => IInv'
<1> SUFFICES ASSUME IInv, Write PROVE IInv'
  OBVIOUS
<1> USE DEF IInv, Write, tableVars, Leave
<1>1. File \in Handle /\ name[File] \in Drive
  BY FileIsOpen
<1>2. bytenum[File] \in Lba /\ filelength[File] \in Length /\ bytenum[File] <= filelength[File]
  BY PositionIsLba
<1>3. call.data \in Data
  BY TransferFields DEF CallOK
<1>4. /\ bytenum[File] + 1 \in Length
      /\ Grown(File) \in Length
      /\ bytenum[File] + 1 <= Grown(File)
      /\ filelength[File] <= Grown(File)
      /\ bytenum[File] # filelength[File] => Grown(File) = filelength[File]
  BY <1>2, SMTT(60) DEF Grown, Longer, Length, Lba
<1>5. image' \in [Drive -> [Lba -> Data]]
  BY <1>1, <1>2, <1>3 DEF TypeOK
<1>6. /\ filelength' \in [Handle -> Length]
      /\ bytenum' \in [Handle -> Length]
      /\ changed' \subseteq Handle
  BY <1>1, <1>4 DEF TypeOK
<1>7. TypeOK'
  BY <1>5, <1>6, Numbers DEF TypeOK
<1>8. CallOK' /\ SlotOK' /\ SequenceOK' /\ PositionOK'
  BY DEF CallOK, SlotOK, SequenceOK, PositionOK
<1>9. UsedSlotsOK' /\ TableMatchesLibrary'
  BY DEF UsedSlotsOK, TableMatchesLibrary
<1>10. LengthOK'
  <2> SUFFICES ASSUME NEW h \in Handle
               PROVE  /\ bytenum'[h] <= filelength'[h]
                      /\ name[h] # NoDrive =>
                           /\ directory[name[h]] # NoImage
                           /\ directory[name[h]] <= filelength'[h]
                           /\ h \notin changed' => directory[name[h]] = filelength'[h]
    BY DEF LengthOK
  <2>1. CASE h = File
    <3>1. bytenum'[h] = bytenum[File] + 1 /\ filelength'[h] = Grown(File)
      BY <1>1, <2>1 DEF TypeOK
    <3>2. /\ directory[name[h]] # NoImage
          /\ directory[name[h]] <= filelength[h]
          /\ h \notin changed => directory[name[h]] = filelength[h]
      BY <1>1, <2>1, Numbers DEF LengthOK
    <3>3. directory[name[h]] \in Int
      BY <1>1, <2>1 DEF TypeOK, Length, NoImage
    <3>4. directory[name[h]] <= Grown(File)
      BY <1>2, <1>4, <2>1, <3>2, <3>3 DEF Length
    <3>5. h \notin changed' => directory[name[h]] = Grown(File)
      BY <1>4, <2>1, <3>2
    <3> QED  BY <1>4, <3>1, <3>2, <3>4, <3>5
  <2>2. CASE h # File
    <3>1. bytenum'[h] = bytenum[h] /\ filelength'[h] = filelength[h]
      BY <2>2 DEF TypeOK
    <3>2. h \notin changed' => h \notin changed
      BY <2>2
    <3> QED  BY <3>1, <3>2 DEF LengthOK
  <2> QED  BY <2>1, <2>2
<1> QED  BY <1>7, <1>8, <1>9, <1>10

LEMMA NoSpaceInv == IInv /\ WriteNoSpace => IInv'
<1> SUFFICES ASSUME IInv, WriteNoSpace PROVE IInv'
  OBVIOUS
<1> USE DEF IInv, WriteNoSpace, tableVars, fileVars, diskVars, Leave, Fault
<1>1. TypeOK'
  BY Numbers DEF TypeOK
<1>2. CallOK' /\ SlotOK' /\ SequenceOK' /\ PositionOK'
  BY DEF CallOK, SlotOK, SequenceOK, PositionOK
<1>3. UsedSlotsOK' /\ TableMatchesLibrary' /\ LengthOK'
  BY DEF UsedSlotsOK, TableMatchesLibrary, LengthOK
<1> QED  BY <1>1, <1>2, <1>3

LEMMA NextInv == IInv /\ [Next]_vars => IInv'
<1> SUFFICES ASSUME IInv, [Next]_vars PROVE IInv'
  OBVIOUS
<1>1. CASE CallRead \/ CallWrite
  BY <1>1, CallInv
<1>2. CASE OpenStep
  BY <1>2, OpenHitInv, OpenEmptyInv, OpenVictimInv, FopenInv, NotOpenedInv DEF OpenStep
<1>3. CASE Touched
  BY <1>3, TouchInv
<1>4. CASE TransferStep
  BY <1>4, SeekInv, ReadInv, WriteInv, NoSpaceInv DEF TransferStep
<1>5. CASE Reset
  BY <1>5, ResetInv
<1>6. CASE UNCHANGED vars
  BY <1>6 DEF IInv, TypeOK, CallOK, SlotOK, SequenceOK, UsedSlotsOK, TableMatchesLibrary,
              LengthOK, PositionOK, File, vars
<1> QED  BY <1>1, <1>2, <1>3, <1>4, <1>5, <1>6 DEF Next

\* The invariant the theorems rest on.
THEOREM IInvHolds == Spec => []IInv
<1> QED  BY InitInv, NextInv, PTL DEF Spec

(***************************************************************************)
(* What follows.                                                           *)
(***************************************************************************)

\* Every variable keeps its type, whatever the drives, slots and handles.
THEOREM TypeCorrect == Spec => []TypeOK
<1>1. IInv => TypeOK
  BY DEF IInv
<1> QED  BY <1>1, IInvHolds, PTL

\* The drive-file table and the library's open files never come apart: no
\* handle leaks and none is shared.
THEOREM TableAndLibraryAgree == Spec => []TableMatchesLibrary
<1>1. IInv => TableMatchesLibrary
  BY DEF IInv
<1> QED  BY <1>1, IInvHolds, PTL

\* With no more slots than handles openVDisk always finds a handle, and never
\* asks for an image that is open.
THEOREM OpensAreNotRefused == Spec => []OpenNeverRefused
<1>1. IInv => OpenNeverRefused
  <2> SUFFICES ASSUME IInv, pc = "fopen"
               PROVE  OpenOn(NoDrive) # {} /\ OpenOn(call.drive) = {}
    BY DEF OpenNeverRefused
  <2> USE DEF IInv
  <2>1. OpenOn(NoDrive) # {}
    BY HandleIsFree DEF SlotOK
  <2>2. call.drive \in Drive
    BY CallFields DEF CallOK
  <2>3. OpenOn(call.drive) = {}
    <3> SUFFICES ASSUME NEW h \in OpenOn(call.drive) PROVE FALSE
      OBVIOUS
    <3>1. h \in Handle
      BY DEF OpenOn
    <3>2. PICK s \in Slot : slotFile[s] = h /\ slotId[s] = call.drive
      BY <2>2, OpenHasSlot
    <3>3. s = slot
      BY <2>2, <3>2, Numbers DEF SlotOK, TableMatchesLibrary, TypeOK
    <3> QED  BY <3>1, <3>2, <3>3, Numbers DEF SlotOK
  <2> QED  BY <2>1, <2>3
<1> QED  BY <1>1, IInvHolds, PTL

\* A read that returned 0 delivered the sectors it named, of the drive it named.
THEOREM ReadsDeliver == Spec => ReadDelivers
<1>1. IInv /\ [Next]_vars =>
        [ pc = "transfer" /\ call.op = "read" /\ pc' = "idle" /\ status' = 0
          => \A i \in Index : /\ call.lba + i \in Lba
                              /\ dest'[i] = image[call.drive][call.lba + i] ]_vars
  <2> SUFFICES ASSUME IInv, [Next]_vars, pc = "transfer", call.op = "read",
                      pc' = "idle", status' = 0, NEW i \in Index
               PROVE  /\ call.lba + i \in Lba
                      /\ dest'[i] = image[call.drive][call.lba + i]
    OBVIOUS
  <2>1. Read
    BY DEF Next, CallRead, CallWrite, Enter, OpenStep, OpenHit, OpenEmpty, OpenVictim,
           Fopen, FopenRefused, FopenUnread, Touched, InitReturns, OpenError, Opened,
           Touch, TransferStep, Seek, Write, WriteNoSpace, Reset, Booted, vars
  <2>2. SectorsRead = READ_COUNT
    BY <2>1 DEF Read, ReadStatus
  <2>3. /\ call.lba \in Lba
        /\ filelength[File] \in Length
        /\ bytenum[File] \in Lba
        /\ bytenum[File] <= filelength[File]
    BY PositionIsLba
  <2>4. bytenum[File] + READ_COUNT <= filelength[File]
    BY <2>2, <2>3 DEF SectorsRead, Shorter, Length, Lba
  <2>5. bytenum[File] = call.lba
    BY <2>3, <2>4 DEF IInv, PositionOK, Shorter, Length, Lba
  <2>6. call.lba + i \in Lba
    BY <2>3, <2>4, <2>5 DEF Index, Length, Lba
  <2>7. name[File] = call.drive
    BY FileIsOpen DEF IInv
  <2>8. dest'[i] = image[name[File]][bytenum[File] + i]
    BY <2>1, <2>2 DEF Read, Index
  <2> QED  BY <2>5, <2>6, <2>7, <2>8
<1> QED  BY <1>1, IInvHolds, PTL DEF Spec, ReadDelivers

\* A write reaches no other image, and no sector but the one it names or the
\* end of the image.
THEOREM WritesStayInImage == Spec => WriteStaysInImage
<1>1. IInv /\ [Next]_vars =>
        [ \A d \in Drive, l \in Lba :
            image'[d][l] # image[d][l]
              => /\ call.op = "write"
                 /\ d = call.drive
                 /\ l = Shorter(call.lba, filelength[File]) ]_vars
  <2> SUFFICES ASSUME IInv, [Next]_vars, NEW d \in Drive, NEW l \in Lba,
                      image'[d][l] # image[d][l]
               PROVE  /\ call.op = "write"
                      /\ d = call.drive
                      /\ l = Shorter(call.lba, filelength[File])
    OBVIOUS
  <2>1. Write
    BY DEF Next, CallRead, CallWrite, Enter, OpenStep, OpenHit, OpenEmpty, OpenVictim,
           Fopen, FopenRefused, FopenUnread, NotOpened, Touched, InitReturns, OpenError,
           Opened, TransferStep, Seek, Read, WriteNoSpace, Reset, vars, diskVars
  <2>2. name[File] = call.drive
    BY <2>1, FileIsOpen DEF IInv, Write
  <2>3. d = name[File] /\ l = bytenum[File]
    BY <2>1 DEF Write, IInv, TypeOK
  <2> QED  BY <2>1, <2>2, <2>3 DEF IInv, PositionOK, Write
<1> QED  BY <1>1, IInvHolds, PTL DEF Spec, WriteStaysInImage

\* How long an image is found: its one open handle knows, or the directory.
LengthFacts ==
  \A d \in Drive :
    /\ OpenOn(d) = {} => ImageLength(d) = directory[d]
    /\ \A h \in OpenOn(d) : ImageLength(d) = filelength[h]

LEMMA LengthsFound == IInv => LengthFacts
<1> SUFFICES ASSUME IInv, NEW d \in Drive
             PROVE  /\ OpenOn(d) = {} => ImageLength(d) = directory[d]
                    /\ \A h \in OpenOn(d) : ImageLength(d) = filelength[h]
  BY DEF LengthFacts
<1>1. OpenOn(d) = {} => ImageLength(d) = directory[d]
  BY DEF ImageLength
<1>2. ASSUME NEW h \in OpenOn(d) PROVE ImageLength(d) = filelength[h]
  <2> DEFINE g == CHOOSE g \in OpenOn(d) : TRUE
  <2>1. g \in OpenOn(d)
    OBVIOUS
  <2>2. g = h
    BY <2>1, OneHandle DEF IInv
  <2> QED  BY <2>2 DEF ImageLength
<1> QED  BY <1>1, <1>2

\* No image gets shorter: the length a file had reached is never lost but by
\* a reset.
THEOREM LengthIsKept == Spec => LengthKept
<1>1. IInv' => LengthFacts'
  BY LengthsFound, PTL
<1>2. IInv /\ [Next]_vars =>
        [ ~Booted => \A d \in Drive : ImageLength(d) <= ImageLength(d)' ]_vars
  <2> SUFFICES ASSUME IInv, [Next]_vars, ~Booted, NEW d \in Drive
               PROVE  ImageLength(d) <= ImageLength(d)'
    OBVIOUS
  <2>1. LengthFacts /\ LengthFacts'
    BY <1>1, LengthsFound, NextInv
  <2>2. ImageLength(d) \in Int
    <3>1. CASE OpenOn(d) = {}
      BY <2>1, <3>1 DEF LengthFacts, IInv, TypeOK, Length, NoImage
    <3>2. CASE OpenOn(d) # {}
      BY <2>1, <3>2 DEF LengthFacts, IInv, TypeOK, Length, OpenOn
    <3> QED  BY <3>1, <3>2
  <2>3. CASE UNCHANGED <<name, filelength, directory>>
    <3>1. ImageLength(d)' = ImageLength(d)
      BY <2>3 DEF ImageLength, OpenOn
    <3> QED  BY <2>2, <3>1
  <2>4. CASE OpenVictim
    <3>1. PICK s \in Slot : Fclose(slotFile[s])
      BY <2>4 DEF OpenVictim, LeastRecent
    <3>2. CASE slotFile[s] = NoFile
      BY <2>3, <3>1, <3>2 DEF Fclose, fileVars
    <3>3. CASE slotFile[s] # NoFile
      <4> DEFINE v == slotFile[s]
      <4>1. /\ v \in Handle
            /\ name[v] \in Drive
            /\ name' = [name EXCEPT ![v] = NoDrive]
            /\ filelength' = [filelength EXCEPT ![v] = 0]
            /\ directory' = [directory EXCEPT ![name[v]] = filelength[v]]
        BY <3>1, <3>3, FcloseEffect
      <4> HIDE DEF v
      <4>2. CASE d = name[v]
        <5>1. v \in OpenOn(d)
          BY <4>1, <4>2 DEF OpenOn
        <5>2. OpenOn(d)' = {}
          <6> SUFFICES ASSUME NEW h \in OpenOn(d)' PROVE FALSE
            OBVIOUS
          <6>1. h \in Handle /\ name'[h] = d
            BY DEF OpenOn
          <6>2. h # v
            BY <4>1, <6>1, Numbers DEF IInv, TypeOK
          <6>3. h \in OpenOn(d)
            BY <4>1, <6>1, <6>2 DEF OpenOn, IInv, TypeOK
          <6> QED  BY <5>1, <6>2, <6>3, OneHandle DEF IInv
        <5>3. directory'[d] = filelength[v]
          BY <4>1, <4>2 DEF IInv, TypeOK
        <5> QED  BY <2>1, <2>2, <5>1, <5>2, <5>3 DEF LengthFacts
      <4>3. CASE d # name[v]
        <5>1. OpenOn(d)' = OpenOn(d)
          BY <4>1, <4>3, Numbers DEF OpenOn, IInv, TypeOK
        <5>2. directory'[d] = directory[d]
          BY <4>1, <4>3 DEF IInv, TypeOK
        <5>3. \A h \in OpenOn(d) : filelength'[h] = filelength[h]
          BY <4>1, <4>3 DEF OpenOn, IInv, TypeOK
        <5> QED  BY <2>1, <2>2, <5>1, <5>2, <5>3 DEF LengthFacts
      <4> QED  BY <4>2, <4>3
    <3> QED  BY <3>2, <3>3
  <2>5. CASE Fopen
    <3>1. PICK h \in Handle : /\ name[h] = NoDrive
                              /\ name' = [name EXCEPT ![h] = call.drive]
                              /\ filelength' = [filelength EXCEPT ![h] = directory[call.drive]]
      BY <2>5 DEF Fopen, OpenOn
    <3>2. OpenOn(call.drive) = {} /\ directory' = directory
      BY <2>5 DEF Fopen, CanOpen, diskVars
    <3>3. CASE d = call.drive
      <4>1. h \in OpenOn(d)' /\ filelength'[h] = directory[d]
        BY <3>1, <3>3 DEF OpenOn, IInv, TypeOK
      <4> QED  BY <2>1, <2>2, <3>2, <3>3, <4>1 DEF LengthFacts
    <3>4. CASE d # call.drive
      <4>1. OpenOn(d)' = OpenOn(d)
        BY <3>1, <3>4, Numbers DEF OpenOn, IInv, TypeOK
      <4>2. \A g \in OpenOn(d) : filelength'[g] = filelength[g]
        BY <3>1, Numbers DEF OpenOn, IInv, TypeOK
      <4> QED  BY <2>1, <2>2, <3>2, <4>1, <4>2 DEF LengthFacts
    <3> QED  BY <3>3, <3>4
  <2>6. CASE Write
    <3>1. name' = name /\ directory' = directory
      BY <2>6 DEF Write
    <3>2. OpenOn(d)' = OpenOn(d)
      BY <3>1 DEF OpenOn
    <3>3. \A h \in Handle : filelength[h] <= filelength'[h]
      <4>1. File \in Handle
        BY <2>6, FileIsOpen DEF IInv, Write
      <4>2. filelength' = [filelength EXCEPT ![File] = Grown(File)]
        BY <2>6 DEF Write
      <4>3. filelength[File] <= Grown(File)
        BY <4>1 DEF Grown, Longer, IInv, TypeOK, Length
      <4> QED  BY <4>1, <4>2, <4>3 DEF IInv, TypeOK, Length
    <3> QED  BY <2>1, <2>2, <3>1, <3>2, <3>3 DEF LengthFacts, OpenOn
  <2>7. \/ UNCHANGED <<name, filelength, directory>>
        \/ OpenVictim \/ Fopen \/ Write
    BY DEF Next, CallRead, CallWrite, Enter, OpenStep, OpenHit, OpenEmpty, FopenRefused,
           FopenUnread, NotOpened, Touched, InitReturns, OpenError, Opened, TransferStep,
           Seek, Read, WriteNoSpace, Reset, vars, diskVars, fileVars
  <2> QED  BY <2>3, <2>4, <2>5, <2>6, <2>7
<1> QED  BY <1>2, IInvHolds, PTL DEF Spec, LengthKept

(***************************************************************************)
(* The slot given up.                                                      *)
(***************************************************************************)

\* A slot with a drive that openVDisk is through with: its sequence is of the
\* drive's last use.
Settled(s) == slotId[s] # NoDrive /\ ~(pc \in {"fopen", "touch"} /\ s = slot)

\* The sequences are in the order of the last uses, and no two are the same.
OrderOK ==
  /\ usedSince \in [Drive -> SUBSET Drive]
  /\ \A s \in Slot : slotLru[s] <= seqLru
  /\ \A s, t \in Slot : Settled(s) /\ Settled(t) /\ s # t /\ slotLru[s] <= slotLru[t]
                          => slotId[t] \in usedSince[slotId[s]]

LEMMA OrderInit == HistoryInit => IInv /\ OrderOK
<1> SUFFICES ASSUME HistoryInit PROVE IInv /\ OrderOK
  OBVIOUS
<1>1. IInv
  BY InitInv DEF HistoryInit
<1> QED  BY <1>1 DEF HistoryInit, Init, OrderOK, Settled

\* A step of the table that uses no drive: slots that are settled stay as they
\* were, or become so no more.
LEMMA OrderKept ==
  ASSUME IInv, OrderOK, usedSince' = usedSince, slotLru' = slotLru, seqLru' = seqLru,
         \A s \in Slot : Settled(s)' => Settled(s) /\ slotId'[s] = slotId[s]
  PROVE  OrderOK'
BY DEF OrderOK

\* openVDisk returns: the drive of its slot was used last.
LEMMA OrderTouched ==
  ASSUME IInv, OrderOK, Touched,
         usedSince' = [d \in Drive |-> IF d = call.drive THEN {} ELSE usedSince[d] \cup {call.drive}]
  PROVE  OrderOK'
<1> USE DEF IInv
<1>1. /\ pc = "touch" /\ slotId' = slotId
      /\ seqLru' = seqLru + 1 /\ slotLru' = [slotLru EXCEPT ![slot] = seqLru + 1]
      /\ pc' \in {"idle", "seek"}
  BY DEF Touched, InitReturns, OpenError, Opened, Touch, Leave
<1>2. call.drive \in Drive
  BY <1>1, CallFields
<1>3. slot \in Slot /\ slotId[slot] = call.drive
  BY <1>1 DEF SlotOK, TypeOK
<1>4. \A s \in Slot : slotLru[s] \in Int /\ slotLru[s] <= seqLru /\ seqLru \in Int
  BY DEF OrderOK, TypeOK
<1>5. \A s \in Slot : slotLru'[s] = IF s = slot THEN seqLru + 1 ELSE slotLru[s]
  BY <1>1 DEF TypeOK
<1>6. usedSince' \in [Drive -> SUBSET Drive]
  BY <1>2 DEF OrderOK
<1>7. \A s \in Slot : slotLru'[s] <= seqLru'
  BY <1>1, <1>4, <1>5
<1>8. ASSUME NEW s \in Slot, NEW t \in Slot, Settled(s)', Settled(t)', s # t,
             slotLru'[s] <= slotLru'[t]
      PROVE  slotId'[t] \in usedSince'[slotId'[s]]
  <2>1. s # slot
    BY <1>4, <1>5, <1>8
  <2>2. slotId[s] \in Drive /\ slotId[t] \in Drive
    BY <1>1, <1>8 DEF Settled, TypeOK
  <2>3. slotId[s] # call.drive
    BY <1>3, <2>1, <2>2, Numbers DEF TableMatchesLibrary
  <2>4. usedSince'[slotId[s]] = usedSince[slotId[s]] \cup {call.drive}
    BY <2>2, <2>3
  <2>5. CASE t = slot
    BY <1>1, <1>3, <2>4, <2>5
  <2>6. CASE t # slot
    <3>1. Settled(s) /\ Settled(t)
      BY <1>1, <1>8, <2>1, <2>6 DEF Settled
    <3>2. slotLru[s] <= slotLru[t]
      BY <1>5, <1>8, <2>1, <2>6
    <3> QED  BY <1>1, <1>8, <2>4, <3>1, <3>2 DEF OrderOK
  <2> QED  BY <2>5, <2>6
<1> QED  BY <1>6, <1>7, <1>8 DEF OrderOK

LEMMA OrderStep == IInv /\ OrderOK /\ [HistoryNext]_<<vars, usedSince>> => (IInv /\ OrderOK)'
<1> SUFFICES ASSUME IInv, OrderOK, [HistoryNext]_<<vars, usedSince>> PROVE IInv' /\ OrderOK'
  OBVIOUS
<1>1. [Next]_vars
  BY DEF HistoryNext, Next
<1>2. IInv'
  BY <1>1, NextInv
<1>3. CASE Touched /\ usedSince' = [d \in Drive |-> IF d = call.drive THEN {}
                                                    ELSE usedSince[d] \cup {call.drive}]
  BY <1>2, <1>3, OrderTouched
<1>4. CASE Reset /\ usedSince' = [d \in Drive |-> {}]
  BY <1>2, <1>4 DEF Reset, Booted, OrderOK, Settled
<1>5. CASE OpenEmpty /\ usedSince' = usedSince
  <2>1. PICK s \in Slot : slot' = s /\ slotId' = [slotId EXCEPT ![s] = call.drive]
    BY <1>5 DEF OpenEmpty
  <2>2. pc = "open" /\ pc' = "fopen" /\ slotLru' = slotLru /\ seqLru' = seqLru
    BY <1>5 DEF OpenEmpty
  <2>3. \A t \in Slot : Settled(t)' => Settled(t) /\ slotId'[t] = slotId[t]
    BY <2>1, <2>2 DEF Settled, IInv, TypeOK
  <2> QED  BY <1>2, <1>5, <2>2, <2>3, OrderKept
<1>6. CASE OpenVictim /\ usedSince' = usedSince
  <2>1. PICK s \in Slot : slot' = s /\ slotId' = [slotId EXCEPT ![s] = call.drive]
    BY <1>6 DEF OpenVictim, LeastRecent
  <2>2. pc = "open" /\ pc' = "fopen" /\ slotLru' = slotLru /\ seqLru' = seqLru
    BY <1>6 DEF OpenVictim
  <2>3. \A t \in Slot : Settled(t)' => Settled(t) /\ slotId'[t] = slotId[t]
    BY <2>1, <2>2 DEF Settled, IInv, TypeOK
  <2> QED  BY <1>2, <1>6, <2>2, <2>3, OrderKept
<1>7. CASE /\ CallRead \/ CallWrite \/ OpenHit \/ Fopen \/ FopenRefused \/ FopenUnread \/ TransferStep
           /\ usedSince' = usedSince
  <2>1. slotLru' = slotLru /\ seqLru' = seqLru /\ slotId' = slotId
    BY <1>7 DEF CallRead, CallWrite, Enter, OpenHit, Fopen, FopenRefused, FopenUnread, NotOpened,
                TransferStep, Seek, Read, Write, WriteNoSpace, tableVars
  <2>2. \/ pc \in {"idle", "open", "seek", "transfer"}
        \/ pc = "fopen" /\ pc' = "touch" /\ slot' = slot
    BY <1>7 DEF CallRead, CallWrite, Enter, OpenHit, Fopen, FopenRefused, FopenUnread, NotOpened,
                TransferStep, Seek, Read, Write, WriteNoSpace
  <2>3. \A t \in Slot : Settled(t)' => Settled(t) /\ slotId'[t] = slotId[t]
    BY <2>1, <2>2 DEF Settled
  <2> QED  BY <1>2, <1>7, <2>1, <2>3, OrderKept
<1>8. CASE UNCHANGED <<vars, usedSince>>
  BY <1>2, <1>8 DEF vars, OrderOK, Settled
<1> QED
  BY <1>2, <1>3, <1>4, <1>5, <1>6, <1>7, <1>8 DEF HistoryNext, OpenStep

\* When a drive needs a slot and none is free, the one given up is that of the
\* drive whose last use lies furthest back, whatever was opened, failed to open
\* and was reset before, and for every number of drives and slots.
THEOREM LeastRecentIsGivenUp == HistorySpec => VictimIsLeastRecent
<1>1. ASSUME IInv, OrderOK, [HistoryNext]_<<vars, usedSince>>
      PROVE  [ \A s \in Slot :
                 slotId[s] # NoDrive /\ slotId'[s] \notin {slotId[s], NoDrive}
                   => \A t \in Slot \ {s} : slotId[t] \in usedSince[slotId[s]] ]_<<vars, usedSince>>
  <2> SUFFICES ASSUME NEW s \in Slot, slotId[s] # NoDrive, slotId'[s] \notin {slotId[s], NoDrive},
                      NEW t \in Slot \ {s}
               PROVE  slotId[t] \in usedSince[slotId[s]]
    OBVIOUS
  <2>1. OpenEmpty \/ OpenVictim
    BY <1>1 DEF HistoryNext, CallRead, CallWrite, Enter, OpenStep, OpenHit, Fopen, FopenRefused,
                FopenUnread, NotOpened, Touched, InitReturns, OpenError, Opened, TransferStep,
                Seek, Read, Write, WriteNoSpace, Reset, Booted, tableVars, vars
  <2>2. ~OpenEmpty
    BY <1>1 DEF OpenEmpty, First, SlotsOf, IInv, TypeOK
  <2>3. LeastRecent(s) /\ SlotsOf(NoDrive) = {} /\ pc = "open"
    BY <1>1, <2>1, <2>2 DEF OpenVictim, LeastRecent, IInv, TypeOK
  <2>4. slotLru[s] <= slotLru[t]
    BY <1>1, <2>3 DEF LeastRecent, IInv, TypeOK
  <2>5. Settled(s) /\ Settled(t)
    BY <2>3 DEF Settled, SlotsOf
  <2> QED  BY <1>1, <2>4, <2>5 DEF OrderOK
<1> QED  BY <1>1, OrderInit, OrderStep, PTL DEF HistorySpec, VictimIsLeastRecent
===============================================================================
