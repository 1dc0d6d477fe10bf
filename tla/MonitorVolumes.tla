----------------------------- MODULE MonitorVolumes -----------------------------
(***************************************************************************)
(* How the monitor finds a file system: the partition tables read from the *)
(* master boot records (src/boot/disk/mbr.s), the current drive and its    *)
(* current partition (disk.s, lib/command.s), the choice of a file system  *)
(* (file-sys.s) and the FAT library mounted on it (fat/media-io.c), under  *)
(* the commands of the prompt and the calls of an executed program, which  *)
(* reaches drives and files through the tables of main.s.  A card may be   *)
(* exchanged and any transfer may fail.  Data is left out: a volume is the *)
(* card and the sector it starts at.                                       *)
(***************************************************************************)
EXTENDS Integers, FiniteSetsExt

CONSTANTS
  Cards,        \* the cards there are
  NoCard,       \* an empty slot
  Content,      \* of a card: sectors, signed, entry, fats and cstd, see ReadEntries
  Half,         \* values of a long that are not negative: 2^31
  Keys,         \* bound: the characters given as a partition, less '0'
  Inserted,     \* the cards in the slots at power on
  MaxSwaps      \* bound: cards exchanged

DISK_A == 0
DISK_B == 1
Drives  == {DISK_A, DISK_B}
PRT_ENTRIES == 4
Entries == 0 .. PRT_ENTRIES - 1
Types   == {"unused", "fat", "cpm", "cromix", "other"}

ASSUME VolumesAssumption ==
  /\ NoCard \notin Cards /\ Inserted \in [Drives -> Cards \union {NoCard}]
  /\ Half \in Nat \ {0} /\ MaxSwaps \in Nat /\ Keys \subseteq 0 .. 255
  /\ Content \in [Cards -> [sectors : 0 .. Half - 1, signed : BOOLEAN,
       entry : [Entries -> [type : Types, start : 0 .. 2 * Half - 1, count : 0 .. 2 * Half - 1]],
       fats : SUBSET (0 .. 2 * Half - 1), cstd : BOOLEAN]]

VARIABLES
  mode,          \* off, prompt, exec (a program runs) or gone (the monitor was left)
  currentDrive,
  ideDrive,      \* the port that selects a drive
  driveStatus,   \* the drives that are available
  table,         \* PART_TABLE_A and the table after it
  F_FILESYS_TYPE,  \* kept while a program runs; at the prompt it is set before it is read
  ramCSTD,       \* the free RAM has the Cromix signature where getFileSysType looks
  media,         \* the FAT library, see Mounted
  card,          \* the card in each slot
  swaps,         \* cards exchanged so far
  excuse         \* history: why the library may not be where it should be

vars == <<mode, currentDrive, ideDrive, driveStatus, table, F_FILESYS_TYPE,
          ramCSTD, media, card, swaps, excuse>>

NoEntry == [type |-> "unused", start |-> 0, count |-> 0, valid |-> FALSE]
NoTable == [valid |-> FALSE, current |-> 0, sectors |-> 0,
            entry |-> [i \in Entries |-> NoEntry]]
NoVolume == <<NoCard, 0>>
Unmounted == [drive |-> DISK_A, part |-> 0, valid |-> FALSE, volume |-> NoVolume,
              open |-> FALSE, dirty |-> FALSE]

(***************************************************************************)
(* readMBR.                                                                *)
(***************************************************************************)
Signed(x) == IF x >= Half THEN x - 2 * Half ELSE x

EndOf(e) == (e.start + e.count - 1) % (2 * Half)

\* Mutant: the table is not cleared before it is read.
KeptTable(t) == t

\* memClr of the drive's table.
ClearedTable(t) == NoTable

\* The checks of readMBR on entry i of card c.  An entry is compared with the
\* end of the used one before it, which is whatever D5 held (fits) while there
\* was none.
Used(c) == {i \in Entries : Content[c].entry[i].type # "unused"}

StartsInDisk(c, i) == Content[c].entry[i].start <= Content[c].sectors

EndsAfterStart(c, i) ==
  LET e == Content[c].entry[i] IN Signed(EndOf(e)) > Signed(e.start)

Follows(c, i, fits) ==
  LET e      == Content[c].entry
      before == Used(c) \intersect 0 .. i - 1
  IN \/ i = 0
     \/ before = {} /\ fits
     \/ before # {} /\ e[i].start > EndOf(e[Max(before)])

BadEntries(c, fits) ==
  {i \in Used(c) : ~(StartsInDisk(c, i) /\ EndsAfterStart(c, i) /\ Follows(c, i, fits))}

\* The first bad entry, where the checks end.
FirstBad ==
  [c \in Cards |-> [fits \in BOOLEAN |-> Min(BadEntries(c, fits) \union {PRT_ENTRIES})]]

\* The entries of card c are copied into table t and checked in turn.
EntriesRead(t, c, fits) ==
  LET e    == Content[c].entry
      stop == FirstBad[c][fits]
  IN [i \in Entries |->
        IF i \notin Used(c) \/ i > stop THEN t.entry[i]
        ELSE [type |-> e[i].type, start |-> e[i].start,
              count |-> IF StartsInDisk(c, i) THEN e[i].count ELSE t.entry[i].count,
              valid |-> t.entry[i].valid \/ i < stop]]

ReadEntries(t, c, fits) ==
  [t EXCEPT !.valid = @ \/ FirstBad[c][fits] = PRT_ENTRIES,
            !.entry = EntriesRead(t, c, fits)]

\* how: "ident" and "sector" fail to deliver the identification and the sector.
ReadMBR(t, c, how, fits) ==
  LET cleared == ClearedTable(t)
      sized   == [cleared EXCEPT !.sectors = Content[c].sectors]
  IN IF how = "ident" THEN cleared
     ELSE IF how = "sector" \/ ~Content[c].signed THEN sized
     ELSE ReadEntries(sized, c, fits)

\* What the first sector, or the identification before it, leaves in the RAM.
RamAfterMBR(c, how) == how = "read" /\ Content[c].cstd

\* What readMBR may make of table t when card c is in the drive.
MBRResults(t, c) ==
  {<<ReadMBR(t, c, how, fits), RamAfterMBR(c, how)>> :
     how \in IF c = NoCard THEN {"ident"} ELSE {"ident", "sector", "read"},
     fits \in IF c # NoCard /\ Content[c].entry[0].type = "unused" THEN BOOLEAN ELSE {TRUE}}

(***************************************************************************)
(* Drives.                                                                 *)
(***************************************************************************)
\* Whether the transfers of a command succeed.
Reads == IF card[ideDrive] = NoCard THEN {FALSE} ELSE BOOLEAN

setIdeDrive(d) == ideDrive' = d

selectDrive(d) ==
  /\ currentDrive' = d
  /\ setIdeDrive(d)
  /\ excuse' = excuse \ {"drive"}

\* What initDrives may find in drive d, from table t: <<>> if it does not
\* initialise, or its table and what the RAM holds.
Found(d, t) ==
  {<<>>} \union IF card[d] = NoCard THEN {} ELSE MBRResults(t, card[d])

\* initDrives: a drive that does not initialise keeps its table.
InitDrives(t) ==
  \E a \in Found(DISK_A, t[DISK_A]), b \in Found(DISK_B, t[DISK_B]) :
    LET found == [d \in Drives |-> IF d = DISK_A THEN a ELSE b]
        Ready == {d \in Drives : found[d] # <<>>}
    IN /\ driveStatus' = Ready
       /\ table' = [d \in Drives |-> IF d \in Ready THEN found[d][1] ELSE t[d]]
       /\ ramCSTD' = IF Ready = {} THEN ramCSTD ELSE found[Max(Ready)][2]

\* _start after a reset: the bss is cleared.  Bound: none at the prompt, where
\* RestartCmd differs by the clearing only.
Reset ==
  /\ mode # "prompt"
  /\ InitDrives([d \in Drives |-> NoTable])
  /\ currentDrive' = DISK_A
  /\ setIdeDrive(DISK_A)
  /\ mode' = "prompt"
  /\ F_FILESYS_TYPE' = "none"
  /\ media' = Unmounted
  /\ excuse' = {}
  /\ UNCHANGED <<card, swaps>>

RestartCmd ==
  /\ mode = "prompt"
  /\ InitDrives(table)
  /\ selectDrive(DISK_A)
  /\ UNCHANGED <<mode, F_FILESYS_TYPE, media, card, swaps>>

(***************************************************************************)
(* Commands that choose a drive or a partition.                            *)
(***************************************************************************)
\* Mutant: the partition after the last one is accepted.
IsPartitionLoose(k) == k <= PRT_ENTRIES

IsPartition(k) == k < PRT_ENTRIES

setPartitionId(d, k) ==
  table' = IF IsPartition(k) THEN [table EXCEPT ![d].current = k] ELSE table

DriveCmd(d) ==
  /\ mode = "prompt"
  /\ selectDrive(d)
  /\ \/ UNCHANGED table
     \/ \E k \in Keys : setPartitionId(d, k)
  /\ UNCHANGED <<mode, driveStatus, F_FILESYS_TYPE, ramCSTD, media, card, swaps>>

PartitionCmd ==
  /\ mode = "prompt"
  /\ \E k \in Keys : setPartitionId(currentDrive, k)
  /\ UNCHANGED <<mode, currentDrive, ideDrive, driveStatus, F_FILESYS_TYPE, ramCSTD,
                 media, card, swaps, excuse>>

MbrCmd ==
  /\ mode = "prompt"
  /\ \E result \in MBRResults(table[currentDrive], card[ideDrive]) :
       /\ table' = [table EXCEPT ![currentDrive] = result[1]]
       /\ ramCSTD' = result[2]
  /\ UNCHANGED <<mode, currentDrive, ideDrive, driveStatus, F_FILESYS_TYPE, media, card,
                 swaps, excuse>>

InitIdeDriveCmd ==
  /\ mode = "prompt"
  /\ \E ok \in Reads :
       /\ driveStatus' = IF ok THEN driveStatus \union {currentDrive}
                         ELSE driveStatus \ {currentDrive}
  /\ UNCHANGED <<mode, currentDrive, ideDrive, table, F_FILESYS_TYPE, ramCSTD, media, card,
                 swaps, excuse>>

(***************************************************************************)
(* The file system of a drive.                                             *)
(***************************************************************************)
\* readDiskSector takes the drive for one of CP/M's, DriveSpan sectors apart.
DriveSpan == 8192

\* The RAM after an unpartitioned drive was probed; nothing tells a failure.
Probed(d, ok) ==
  IF table[d].valid \/ ~ok THEN ramCSTD
  ELSE d * DriveSpan = 0 /\ Content[card[ideDrive]].cstd

FileSysOfType(type) ==
  CASE type = "fat"    -> "fat_p"
    [] type = "cpm"    -> "cpm_p"
    [] type = "cromix" -> "cromix_p"
    [] OTHER           -> "other"

FileSysType(d, ok) ==
  IF table[d].valid THEN FileSysOfType(table[d].entry[table[d].current].type)
  ELSE IF Probed(d, ok) THEN "cromix_d" ELSE "none"

(***************************************************************************)
(* The FAT library.  A mount that fails leaves valid and, at best, the     *)
(* geometry of the volume mounted before.                                  *)
(***************************************************************************)
getPartitionStart(d, p) == table[d].entry[p].start

Located(d, p) == <<card[ideDrive], getPartitionStart(d, p)>>

Attaches(d, ok) ==
  /\ ok
  /\ card[ideDrive] # NoCard
  /\ getPartitionStart(d, table[d].current) \in Content[card[ideDrive]].fats

\* Mutant: a library that is valid is not attached again.
MountedOnce(d, ok) ==
  [drive |-> d, part |-> table[d].current,
   valid |-> media.valid \/ Attaches(d, ok),
   volume |-> IF ~media.valid /\ Attaches(d, ok) THEN Located(d, table[d].current)
              ELSE media.volume,
   open |-> FALSE, dirty |-> FALSE]

\* mediaInit of the current partition of drive d.
Mounted(d, ok) ==
  [drive |-> d, part |-> table[d].current,
   valid |-> media.valid \/ Attaches(d, ok),
   volume |-> IF Attaches(d, ok) THEN Located(d, table[d].current) ELSE media.volume,
   open |-> FALSE, dirty |-> FALSE]

MountExcuse(d, ok) ==
  (excuse \intersect {"drive"})
    \union (IF "drive" \in excuse THEN {"astray"} ELSE {})
    \union (IF Attaches(d, ok) THEN {} ELSE {"attach"})

mediaClose(m) == [m EXCEPT !.dirty = FALSE]

\* A mount that a command makes when the partition is a FAT partition.
MountIf(fs, ok) ==
  media' = IF fs = "fat_p" THEN Mounted(currentDrive, ok) ELSE media

(***************************************************************************)
(* Commands that use a file system.                                        *)
(***************************************************************************)
DirectoryCmd ==
  /\ mode = "prompt"
  /\ currentDrive \in driveStatus
  /\ \E ok \in Reads : \E fs \in {FileSysType(currentDrive, ok)} :
       /\ ramCSTD' = Probed(currentDrive, ok)
       /\ IF fs = "fat_p"
          THEN /\ media' = mediaClose(Mounted(currentDrive, ok))
               /\ UNCHANGED <<ideDrive, excuse>>
          ELSE IF fs \in {"cromix_p", "cromix_d"}
          THEN /\ setIdeDrive(currentDrive)
               /\ excuse' = excuse \ {"drive"}
               /\ UNCHANGED media
          ELSE UNCHANGED <<media, excuse, ideDrive>>
  /\ UNCHANGED <<mode, currentDrive, driveStatus, table, F_FILESYS_TYPE, card, swaps>>

\* readRecord until it does not answer 0: the end of the file, a start record
\* (the program may return), a record that is refused with an error code, or a
\* count that does not agree, which leaves by RTS from inside the frame.
RecordResults == {"end", "started", "refused", "mismatch"}

\* fOpen, then the records: what loadRecordFile leaves in D0.  A file system
\* that fOpen does not support is its result.
LoadResults(fs, m) ==
  IF fs \notin {"fat_p", "cpm_p", "none"} THEN {"type"}
  ELSE {"not_found"} \union IF fs = "fat_p" /\ ~m.valid THEN {} ELSE RecordResults

LoadEnds == {"type", "not_found"} \union RecordResults

\* runCmd jumps to whatever loadRecordFile returned, unless it is 0 or 1.
AfterRun ==
  [result \in LoadEnds |-> IF result \in {"end", "not_found"} THEN {"prompt"}
                           ELSE IF result = "started" THEN {"prompt", "gone"}
                           ELSE {"gone"}]

\* bootCromixCmd does not look at the result on a FAT partition.
AfterCromixLoad == [result \in LoadEnds |-> {"gone"}]

\* A command that loads a record file, with the modes it may end in.
LoadRecordFile(fs, ok, After) ==
  /\ MountIf(fs, ok)
  /\ mode' \in UNION {After[result] : result \in LoadResults(fs, media')}

RunCmd ==
  /\ mode = "prompt"
  /\ \E ok \in Reads :
       /\ ramCSTD' = Probed(currentDrive, ok)
       /\ LoadRecordFile(FileSysType(currentDrive, ok), ok, AfterRun)
  /\ UNCHANGED <<currentDrive, ideDrive, driveStatus, table, F_FILESYS_TYPE, card, swaps,
                 excuse>>

BootCromixCmd ==
  /\ mode = "prompt"
  /\ \E ok \in Reads : \E fs \in {FileSysType(currentDrive, ok)} :
       /\ ramCSTD' = Probed(currentDrive, ok)
       /\ \/ /\ fs = "fat_p"
             /\ LoadRecordFile(fs, ok, AfterCromixLoad)
             /\ UNCHANGED <<ideDrive, excuse>>
          \/ /\ fs \in {"cromix_p", "cromix_d"}
             /\ setIdeDrive(currentDrive)
             /\ excuse' = excuse \ {"drive"}
             /\ mode' \in {"prompt", "gone"}
             /\ UNCHANGED media
          \/ /\ fs \notin {"fat_p", "cromix_p", "cromix_d"}
             /\ UNCHANGED <<mode, ideDrive, media, excuse>>
  /\ UNCHANGED <<currentDrive, driveStatus, table, F_FILESYS_TYPE, card, swaps>>

\* cpmBootLoader: the image is opened with "w+", and a failed read of it is not
\* noticed; a failed read of boot tracks is.
BootCpmCmd ==
  /\ mode = "prompt"
  /\ \E ok \in Reads : \E fs \in {FileSysType(currentDrive, ok)} :
       /\ ramCSTD' = Probed(currentDrive, ok)
       /\ MountIf(fs, ok)
       /\ mode' \in IF fs \in {"cpm_p", "none"} \/ (fs = "fat_p" /\ media'.valid)
                    THEN {"prompt", "gone"} ELSE {"prompt"}
  /\ UNCHANGED <<currentDrive, ideDrive, driveStatus, table, F_FILESYS_TYPE, card, swaps,
                 excuse>>

(***************************************************************************)
(* A program run by exec, and the calls it makes.                          *)
(***************************************************************************)
\* Mutant: the library is left as it is.
FatExitSkipped(m, fs) == m

FatExit(m, fs) == IF fs = "fat_p" THEN mediaClose(m) ELSE m

\* execCmd and bootUnixCmd: fatInit reports success whatever mediaInit answers.
ExecCmd ==
  /\ mode = "prompt"
  /\ \E ok \in Reads :
       /\ ramCSTD' = Probed(currentDrive, ok)
       /\ MountIf(FileSysType(currentDrive, ok), ok)
       /\ \/ UNCHANGED <<mode, F_FILESYS_TYPE, excuse>>
          \/ /\ FileSysType(currentDrive, ok) = "fat_p" /\ media'.valid
             /\ mode' = "exec"
             /\ F_FILESYS_TYPE' = "fat_p"
             /\ excuse' = MountExcuse(currentDrive, ok)
  /\ UNCHANGED <<currentDrive, ideDrive, driveStatus, table, card, swaps>>

Program(m) ==
  /\ mode = "exec"
  /\ media' = m
  /\ UNCHANGED <<mode, currentDrive, driveStatus, table, F_FILESYS_TYPE, ramCSTD, card, swaps>>

fOpenFAT ==
  /\ \E found \in BOOLEAN : Program([media EXCEPT !.open = found /\ media.valid])
  /\ UNCHANGED <<ideDrive, excuse>>

fWriteFAT ==
  /\ media.open
  /\ Program([media EXCEPT !.dirty = TRUE])
  /\ UNCHANGED <<ideDrive, excuse>>

fCloseFAT ==
  /\ media.open
  /\ Program([mediaClose(media) EXCEPT !.open = FALSE])
  /\ UNCHANGED <<ideDrive, excuse>>

\* biosReadDriveBlock and biosWriteDriveBlock select the drive they are given.
biosDriveBlock(d) ==
  /\ Program(media)
  /\ setIdeDrive(d)
  /\ excuse' = IF d = currentDrive THEN excuse \ {"drive"} ELSE excuse \union {"drive"}

\* The bss is cleared under the program and drive B stays selected.
biosInitDrives ==
  /\ mode = "exec"
  /\ InitDrives([d \in Drives |-> NoTable])
  /\ selectDrive(DISK_B)
  /\ media' = Unmounted
  /\ F_FILESYS_TYPE' = "none"
  /\ UNCHANGED <<mode, card, swaps>>

Return ==
  /\ mode = "exec"
  /\ mode' = "prompt"
  /\ media' = FatExit(media, F_FILESYS_TYPE)
  /\ F_FILESYS_TYPE' = "none"
  /\ excuse' = excuse \intersect {"drive"}
  /\ UNCHANGED <<currentDrive, ideDrive, driveStatus, table, ramCSTD, card, swaps>>

(***************************************************************************)
(* The machine.                                                            *)
(***************************************************************************)
Swap(d) ==
  /\ mode # "off"
  /\ swaps < MaxSwaps
  /\ swaps' = swaps + 1
  /\ \E c \in (Cards \union {NoCard}) \ {card[d]} : card' = [card EXCEPT ![d] = c]
  /\ excuse' = IF mode = "exec" THEN excuse \union {"swap"} ELSE excuse
  /\ UNCHANGED <<mode, currentDrive, ideDrive, driveStatus, table, F_FILESYS_TYPE, ramCSTD,
                 media>>

Init ==
  /\ mode = "off"
  /\ currentDrive = DISK_A /\ ideDrive = DISK_A
  /\ driveStatus = {}
  /\ table = [d \in Drives |-> NoTable]
  /\ F_FILESYS_TYPE = "none"
  /\ ramCSTD = FALSE
  /\ media = Unmounted
  /\ card = Inserted
  /\ swaps = 0
  /\ excuse = {}

Next ==
  \/ Reset \/ RestartCmd
  \/ \E d \in Drives : DriveCmd(d) \/ biosDriveBlock(d) \/ Swap(d)
  \/ PartitionCmd \/ MbrCmd \/ InitIdeDriveCmd
  \/ DirectoryCmd \/ RunCmd \/ BootCromixCmd \/ BootCpmCmd \/ ExecCmd
  \/ fOpenFAT \/ fWriteFAT \/ fCloseFAT \/ biosInitDrives \/ Return

Spec == Init /\ [][Next]_vars

(***************************************************************************)
(* Properties.                                                             *)
(***************************************************************************)
Slots == Cards \union {NoCard}

Entry == [type : Types, start : 0 .. 2 * Half - 1, count : 0 .. 2 * Half - 1, valid : BOOLEAN]

Table == [valid : BOOLEAN, current : Entries, sectors : 0 .. Half - 1, entry : [Entries -> Entry]]

Media == [drive : Drives, part : Entries, valid : BOOLEAN,
          volume : Slots \X (0 .. 2 * Half - 1), open : BOOLEAN, dirty : BOOLEAN]

\* Every variable keeps its type; the current partition is one of the table's.
TypeOK ==
  /\ mode \in {"off", "prompt", "exec", "gone"}
  /\ currentDrive \in Drives /\ ideDrive \in Drives
  /\ driveStatus \subseteq Drives
  /\ table \in [Drives -> Table]
  /\ F_FILESYS_TYPE \in {"none", "fat_p"}
  /\ ramCSTD \in BOOLEAN
  /\ media \in Media
  /\ card \in [Drives -> Slots]
  /\ swaps \in 0 .. MaxSwaps
  /\ excuse \subseteq {"drive", "astray", "swap", "attach"}

\* Every used entry is marked valid, starts no later than the drive's number of
\* sectors and has more than one sector, and no two of them share a sector.  Its
\* end may lie past the drive: readMBR never compares it (mbr.s:201-216).
Sound(t) ==
  LET InUse   == {i \in Entries : t.entry[i].type # "unused"}
      Last(i) == t.entry[i].start + t.entry[i].count - 1
  IN /\ \A i \in InUse : t.entry[i].valid /\ t.entry[i].start <= t.sectors /\ Last(i) > t.entry[i].start
     /\ \A i, j \in InUse : i < j => Last(i) < t.entry[j].start

\* A table that is marked valid was checked from its first entry to its last,
\* although readMBR keeps only the end of the entry before (D5), compares one
\* bound signed and another unsigned (mbr.s:189-230), marks entries as it goes
\* and may stop in the middle.
AcceptedTablesAreSound == \A d \in Drives : table[d].valid => Sound(table[d])

\* While a program runs, the sectors that mediaRead and mediaWrite reach lie in
\* the volume whose geometry the library holds, on the monitor's current drive:
\* media-io.c:33 takes the offset from the table at every access but the drive
\* from whatever was selected last.  The only ways out are a card exchanged, a
\* mount that failed (its result is dropped, file-sys.s:55) and a program that
\* selected the other drive (cromix.s:106).
FatStaysInVolume ==
  /\ "drive" \notin excuse => ideDrive = currentDrive
  /\ (mode = "exec" /\ media.valid /\ excuse = {}) =>
       /\ media.drive = ideDrive
       /\ Located(media.drive, media.part) = media.volume

\* At the prompt no FAT sector is dirty in the library, whatever the program
\* that returned wrote and whether it closed its file: the next command that
\* mounts forgets the buffers (fatExit, file-sys.s:66).
FlushedAtPrompt == mode = "prompt" => ~media.dirty
================================================================================
