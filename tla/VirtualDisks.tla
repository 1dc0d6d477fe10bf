----------------------------- MODULE VirtualDisks -----------------------------
(***************************************************************************)
(* The virtual disks of the 68030 monitor: CP/M drives kept as image files *)
(* in a FAT32 partition (src/boot/bios/disks.s), opened through the file   *)
(* handles of the FAT library (src/fat/src/fat_filelib.c).  The BIOS       *)
(* enters by trap #15, functions 0, 5 and 6; LBAs and lengths count 512    *)
(* byte sectors.  A step is one call into the library, or the code between *)
(* two; the machine may be reset between any two steps.                    *)
(***************************************************************************)
EXTENDS Integers

CONSTANTS
  DriveCount,            \* drives, 0 being A: 10 in the code
  MAX_OPEN_FAT,          \* slots of TBL_FAT: 4 in the code
  FATFS_MAX_OPEN_FILES,  \* file handles of the library: 4 in the code
  READ_COUNT,            \* sectors a read asks for: BUFF_SECS, 8 in the code
  LastLba,               \* the requests name LBAs 0..LastLba
  Data,                  \* what a sector can hold
  Written,               \* what the requests write
  Blank,                 \* what memory holds where a read will deliver
  Stored,                \* what the images may hold at power on
  Lengths,               \* how long the images may be at power on
  MaxCalls,              \* bound: calls of openVDisk between two resets
  MaxFaults              \* bound: opens and writes that may fail

Drive  == 0 .. DriveCount - 1
Slot   == 0 .. MAX_OPEN_FAT - 1
Handle == 1 .. FATFS_MAX_OPEN_FILES
Lba    == 0 .. LastLba
Index  == 0 .. READ_COUNT - 1

NoDrive == -1  \* an unused slot, a closed handle
NoFile  == 0   \* NULL
NoImage == -1  \* the length of an image that is not in the directory

\* disks.s: "must be <= max open files in libfat"; the sequence D_SEQ_LRU
\* compares signed and is not modelled where it would turn negative.
ASSUME DisksAssumption ==
  /\ DriveCount \in Nat \ {0}
  /\ MAX_OPEN_FAT \in Nat \ {0}
  /\ FATFS_MAX_OPEN_FILES \in Nat
  /\ MAX_OPEN_FAT <= FATFS_MAX_OPEN_FILES
  /\ READ_COUNT \in Nat \ {0}
  /\ LastLba \in Nat
  /\ Written \subseteq Data
  /\ Blank \in Data
  /\ Stored \subseteq [Drive -> [Lba -> Data]]
  /\ Lengths \subseteq [Drive -> {NoImage} \cup 1 .. LastLba + 1]
  /\ MaxCalls \in Nat \ {0}
  /\ MaxCalls < 2^30
  /\ MaxFaults \in Nat

VARIABLES
  slotId,     \* TBL_FAT_ID_OFF: the drive of a slot
  slotFile,   \* TBL_FAT_FILE_OFF: its file handle
  slotLru,    \* TBL_FAT_LRU_OFF: its LRU sequence
  seqLru,     \* D_SEQ_LRU
  name,       \* FL_FILE.filename: the image a handle is open on
  filelength, \* FL_FILE.filelength
  bytenum,    \* FL_FILE.bytenum, the file position
  changed,    \* the handles with filelength_changed set
  directory,  \* the length of each image in the FAT directory
  image,      \* the sectors of each image
  call,       \* the trap being served
  pc,         \* where the code is, at the head of a step
  slot,       \* register D2 of openVDisk: the slot chosen
  dest,       \* the memory a read delivers to
  status,     \* D0 when readVDisk or writeVDisk returns
  faults      \* opens and writes that have failed

tableVars == <<slotId, slotFile, slotLru, seqLru>>
fileVars  == <<name, filelength, bytenum, changed>>
diskVars  == <<directory, image>>
callVars  == <<call, dest, status>>
vars == <<slotId, slotFile, slotLru, seqLru, name, filelength, bytenum, changed,
          directory, image, call, pc, slot, dest, status, faults>>

InitCall  == [op |-> "init", drive |-> 0]
ReadCall  == [op : {"read"}, drive : Drive, lba : Lba]
WriteCall == [op : {"write"}, drive : Drive, lba : Lba, data : Written]
NoCall    == [op |-> "none"]

(***************************************************************************)
(* Operators.                                                              *)
(***************************************************************************)
\* Mutant: any used slot passes for the one looked for.
SlotsInUse(d) == {s \in Slot : (slotId[s] = NoDrive) <=> (d = NoDrive)}

SlotsOf(d) == {s \in Slot : slotId[s] = d}

First(s, S) == s \in S /\ \A t \in S : s <= t

\* The slot the scan of lines 364-381 settles on.
LeastRecent(s) ==
  /\ s \in Slot
  /\ \A t \in Slot : slotLru[s] < slotLru[t] \/ (slotLru[s] = slotLru[t] /\ s <= t)

OpenOn(d) == {h \in Handle : name[h] = d}

\* The handle readVDisk and writeVDisk work on.
File == slotFile[slot]

Shorter(m, n) == IF m < n THEN m ELSE n
Longer(m, n)  == IF m < n THEN n ELSE m

(***************************************************************************)
(* CP/M has just been loaded from the image of drive A, whose file the     *)
(* loader closed again, and function 0 runs initDisks.  A reset of the     *)
(* machine leads back here: the monitor zeroes its variables and mediaInit *)
(* frees every handle; what the library had not written is lost.           *)
(***************************************************************************)
Booted ==
  /\ slotId' = [s \in Slot |-> NoDrive]
  /\ slotFile' = [s \in Slot |-> NoFile]
  /\ slotLru' = [s \in Slot |-> 0]
  /\ seqLru' = 0
  /\ name' = [h \in Handle |-> NoDrive]
  /\ filelength' = [h \in Handle |-> 0]
  /\ bytenum' = [h \in Handle |-> 0]
  /\ changed' = {}
  /\ call' = InitCall
  /\ pc' = "open"
  /\ slot' = 0
  /\ dest' = [i \in Index |-> Blank]
  /\ status' = 0

Init ==
  /\ slotId = [s \in Slot |-> NoDrive]
  /\ slotFile = [s \in Slot |-> NoFile]
  /\ slotLru = [s \in Slot |-> 0]
  /\ seqLru = 0
  /\ name = [h \in Handle |-> NoDrive]
  /\ filelength = [h \in Handle |-> 0]
  /\ bytenum = [h \in Handle |-> 0]
  /\ changed = {}
  /\ directory \in {f \in Lengths : f[0] # NoImage}
  /\ image \in Stored
  /\ call = InitCall
  /\ pc = "open"
  /\ slot = 0
  /\ dest = [i \in Index |-> Blank]
  /\ status = 0
  /\ faults = 0

Reset == Booted /\ UNCHANGED <<diskVars, faults>>

Enter(c) ==
  /\ pc = "idle"
  /\ seqLru < MaxCalls
  /\ call' = c
  /\ pc' = "open"
  /\ dest' = [i \in Index |-> Blank]
  /\ status' = 0
  /\ UNCHANGED <<tableVars, fileVars, diskVars, slot, faults>>

CallRead  == \E c \in ReadCall : Enter(c)
CallWrite == \E c \in WriteCall : Enter(c)

Leave ==
  /\ call' = NoCall
  /\ pc' = "idle"
  /\ slot' = 0

Fault ==
  /\ faults < MaxFaults
  /\ faults' = faults + 1

(***************************************************************************)
(* openVDisk.                                                              *)
(***************************************************************************)
OpenHit ==
  /\ pc = "open"
  /\ \E s \in Slot : First(s, SlotsOf(call.drive)) /\ slot' = s
  /\ pc' = "touch"
  /\ UNCHANGED <<tableVars, fileVars, diskVars, callVars, faults>>

OpenEmpty ==
  /\ pc = "open"
  /\ SlotsOf(call.drive) = {}
  /\ \E s \in Slot :
       /\ First(s, SlotsOf(NoDrive))
       /\ slot' = s
       /\ slotId' = [slotId EXCEPT ![s] = call.drive]
  /\ pc' = "fopen"
  /\ UNCHANGED <<slotFile, slotLru, seqLru, fileVars, diskVars, callVars, faults>>

\* Mutant: the new length is left out of the directory.
LengthForgotten(h) == directory

\* fatfs_update_file_length, where filelength_changed.
LengthWritten(h) ==
  IF h \in changed THEN [directory EXCEPT ![name[h]] = filelength[h]] ELSE directory

\* fl_fclose; a NULL is let pass.
Fclose(h) ==
  IF h = NoFile
    THEN UNCHANGED <<fileVars, directory>>
    ELSE /\ directory' = LengthWritten(h)
         /\ name' = [name EXCEPT ![h] = NoDrive]
         /\ filelength' = [filelength EXCEPT ![h] = 0]
         /\ bytenum' = [bytenum EXCEPT ![h] = 0]
         /\ changed' = changed \ {h}

\* Mutant: the file of the slot is not closed.
OpenVictimUnclosed ==
  /\ pc = "open"
  /\ SlotsOf(call.drive) = {}
  /\ SlotsOf(NoDrive) = {}
  /\ \E s \in Slot :
       /\ LeastRecent(s)
       /\ slot' = s
       /\ slotFile' = [slotFile EXCEPT ![s] = NoFile]
       /\ slotId' = [slotId EXCEPT ![s] = call.drive]
  /\ pc' = "fopen"
  /\ UNCHANGED <<slotLru, seqLru, fileVars, diskVars, callVars, faults>>

OpenVictim ==
  /\ pc = "open"
  /\ SlotsOf(call.drive) = {}
  /\ SlotsOf(NoDrive) = {}
  /\ \E s \in Slot :
       /\ LeastRecent(s)
       /\ slot' = s
       /\ Fclose(slotFile[s])
       /\ slotFile' = [slotFile EXCEPT ![s] = NoFile]
       /\ slotId' = [slotId EXCEPT ![s] = call.drive]
  /\ pc' = "fopen"
  /\ UNCHANGED <<slotLru, seqLru, image, callVars, faults>>

\* fl_fopen finds a free handle, no other handle on the image, and the image.
CanOpen ==
  /\ OpenOn(NoDrive) # {}
  /\ OpenOn(call.drive) = {}
  /\ directory[call.drive] # NoImage

Fopen ==
  /\ pc = "fopen"
  /\ CanOpen
  /\ \E h \in OpenOn(NoDrive) :
       /\ slotFile' = [slotFile EXCEPT ![slot] = h]
       /\ name' = [name EXCEPT ![h] = call.drive]
       /\ filelength' = [filelength EXCEPT ![h] = directory[call.drive]]
       /\ bytenum' = [bytenum EXCEPT ![h] = 0]
       /\ changed' = changed \ {h}
  /\ pc' = "touch"
  /\ UNCHANGED <<slotId, slotLru, seqLru, diskVars, callVars, slot, faults>>

NotOpened ==
  /\ slotFile' = [slotFile EXCEPT ![slot] = NoFile]
  /\ pc' = "touch"
  /\ UNCHANGED <<slotId, slotLru, seqLru, fileVars, diskVars, callVars, slot>>

FopenRefused ==
  /\ pc = "fopen"
  /\ ~CanOpen
  /\ NotOpened
  /\ UNCHANGED faults

\* The directory could not be read: mediaRead does not say so, and the image
\* is not found in what arrived.
FopenUnread ==
  /\ pc = "fopen"
  /\ CanOpen
  /\ NotOpened
  /\ Fault

\* Mutant: the sequence does not advance.
TouchUnsequenced ==
  /\ pc = "touch"
  /\ seqLru' = 1
  /\ slotLru' = [slotLru EXCEPT ![slot] = 1]

\* The slot is marked as used last, and its file is returned.
Touch ==
  /\ pc = "touch"
  /\ seqLru' = seqLru + 1
  /\ slotLru' = [slotLru EXCEPT ![slot] = seqLru + 1]

\* initDisks does not look at the result.
InitReturns ==
  /\ Touch
  /\ call.op = "init"
  /\ Leave
  /\ UNCHANGED <<slotId, slotFile, fileVars, diskVars, dest, status, faults>>

OpenError ==
  /\ Touch
  /\ call.op # "init"
  /\ File = NoFile
  /\ status' = 1
  /\ Leave
  /\ UNCHANGED <<slotId, slotFile, fileVars, diskVars, dest, faults>>

Opened ==
  /\ Touch
  /\ call.op # "init"
  /\ File # NoFile
  /\ pc' = "seek"
  /\ UNCHANGED <<slotId, slotFile, fileVars, diskVars, callVars, slot, faults>>

(***************************************************************************)
(* The rest of readVDisk and writeVDisk: fl_fseek, which stops at the end  *)
(* of the file, then fl_fread or fl_fwrite of whole sectors, which the     *)
(* library moves at once, so that fl_fflush has nothing left to do.        *)
(***************************************************************************)
Seek ==
  /\ pc = "seek"
  /\ bytenum' = [bytenum EXCEPT ![File] = Shorter(call.lba, filelength[File])]
  /\ pc' = "transfer"
  /\ UNCHANGED <<tableVars, name, filelength, changed, diskVars, callVars, slot, faults>>

\* The sectors fl_fread finds between the position and the end of the file.
SectorsRead == Shorter(READ_COUNT, filelength[File] - bytenum[File])

\* Mutant: a read that came short is not noticed.
ReadUnchecked(n) == 0

ReadStatus(n) == IF n = READ_COUNT THEN 0 ELSE 2

Read ==
  /\ pc = "transfer"
  /\ call.op = "read"
  /\ dest' = [i \in Index |-> IF i < SectorsRead
                                THEN image[name[File]][bytenum[File] + i] ELSE dest[i]]
  /\ bytenum' = [bytenum EXCEPT ![File] = @ + SectorsRead]
  /\ status' = ReadStatus(SectorsRead)
  /\ Leave
  /\ UNCHANGED <<tableVars, name, filelength, changed, diskVars, faults>>

\* Mutant: the length grows by what was written, wherever that was.
GrownAlways(h) == filelength[h] + 1

Grown(h) == Longer(bytenum[h] + 1, filelength[h])

Write ==
  /\ pc = "transfer"
  /\ call.op = "write"
  /\ image' = [image EXCEPT ![name[File]][bytenum[File]] = call.data]
  /\ filelength' = [filelength EXCEPT ![File] = Grown(File)]
  /\ changed' = IF bytenum[File] = filelength[File] THEN changed \cup {File} ELSE changed
  /\ bytenum' = [bytenum EXCEPT ![File] = @ + 1]
  /\ status' = 0
  /\ Leave
  /\ UNCHANGED <<tableVars, name, directory, dest, faults>>

\* No cluster is free for a sector past the end: nothing is written, and
\* fl_fwrite returns the count it was given.
WriteNoSpace ==
  /\ pc = "transfer"
  /\ call.op = "write"
  /\ bytenum[File] = filelength[File]
  /\ Fault
  /\ status' = 0
  /\ Leave
  /\ UNCHANGED <<tableVars, fileVars, diskVars, dest>>

OpenStep ==
  \/ OpenHit \/ OpenEmpty \/ OpenVictim
  \/ Fopen \/ FopenRefused \/ FopenUnread

Touched == InitReturns \/ OpenError \/ Opened

TransferStep == Seek \/ Read \/ Write \/ WriteNoSpace

Next ==
  \/ CallRead \/ CallWrite
  \/ OpenStep \/ Touched \/ TransferStep
  \/ Reset

Spec == Init /\ [][Next]_vars

-------------------------------------------------------------------------------
(***************************************************************************)
(* Properties.                                                             *)
(***************************************************************************)

Length == 0 .. LastLba + 1

\* Every variable keeps its type; in particular no file grows past the last
\* LBA that was asked for.
TypeOK ==
  /\ slotId \in [Slot -> Drive \cup {NoDrive}]
  /\ slotFile \in [Slot -> Handle \cup {NoFile}]
  /\ slotLru \in [Slot -> 0 .. MaxCalls]
  /\ seqLru \in 0 .. MaxCalls
  /\ name \in [Handle -> Drive \cup {NoDrive}]
  /\ filelength \in [Handle -> Length]
  /\ bytenum \in [Handle -> Length]
  /\ changed \subseteq Handle
  /\ directory \in [Drive -> Length \cup {NoImage}]
  /\ image \in [Drive -> [Lba -> Data]]
  /\ call \in {InitCall, NoCall} \cup ReadCall \cup WriteCall
  /\ pc \in {"idle", "open", "fopen", "touch", "seek", "transfer"}
  /\ slot \in Slot
  /\ dest \in [Index -> Data]
  /\ status \in 0 .. 2
  /\ faults \in 0 .. MaxFaults

\* The table and the library agree: a drive has one slot, a slot's file is
\* open on the slot's drive, and every open handle is in a slot, so that none
\* leaks, however drives come and go and opens fail.
TableMatchesLibrary ==
  /\ \A s, t \in Slot : slotId[s] = slotId[t] /\ slotId[s] # NoDrive => s = t
  /\ \A s \in Slot : slotFile[s] # NoFile => name[slotFile[s]] = slotId[s]
  /\ \A h \in Handle : name[h] # NoDrive => \E s \in Slot : slotFile[s] = h

\* disks.s: MAX_OPEN_FAT "must be <= max open files in libfat".  Under that
\* assumption openVDisk never calls fl_fopen without a free handle, or for an
\* image that is open already: only a missing image or a directory that could
\* not be read makes it fail.
OpenNeverRefused ==
  pc = "fopen" => OpenOn(NoDrive) # {} /\ OpenOn(call.drive) = {}

\* A read that returns 0 delivered the sectors it named of the drive it named,
\* whichever slot and handle it went through.
ReadDelivers ==
  [][ pc = "transfer" /\ call.op = "read" /\ pc' = "idle" /\ status' = 0
      => \A i \in Index : /\ call.lba + i \in Lba
                          /\ dest'[i] = image[call.drive][call.lba + i] ]_vars

\* A write changes no image but that of the drive it names, and of that one
\* no sector that lies before the one it names except where the image ends.
WriteStaysInImage ==
  [][ \A d \in Drive, l \in Lba :
        image'[d][l] # image[d][l]
          => /\ call.op = "write"
             /\ d = call.drive
             /\ l = Shorter(call.lba, filelength[File]) ]_vars

\* How long a program finds an image.
ImageLength(d) ==
  IF OpenOn(d) = {} THEN directory[d] ELSE filelength[CHOOSE h \in OpenOn(d) : TRUE]

\* While the machine is not reset an image never gets shorter: when a file is
\* given up for another the directory takes over the length it had reached.
LengthKept ==
  [][ ~Booted => \A d \in Drive : ImageLength(d) <= ImageLength(d)' ]_vars

\* disks.s: "Seek to the required LBA", "Write the specified sectors".  A write
\* that returned 0 is stored at its LBA.
WriteLandsAtLba ==
  [][ pc = "transfer" /\ call.op = "write" /\ pc' = "idle" /\ status' = 0
      => image'[call.drive][call.lba] = call.data ]_vars
===============================================================================
