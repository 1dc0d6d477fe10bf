# CP/M-68K on the S100 68030: a TLA+ model of the system

This directory holds a TLA+ development of the program in `src/`: a monitor for a
68000/68030 S100 computer (`boot/`, C and assembler), the CP/M-68K BIOS it boots
(`bios/`), the FAT32 library both rest on (`fat/`), and three programs that run on
them (`cpmfs/cmodem`, `mbzm`, `flash`). The modules are written from the code; the
comments in them name the routine each definition stands for, and `PROJECT.json`
("map") gives the lines.

1. [The system](#1-the-system) 2. [Modules and code](#2-modules-and-code)
3. [What the runs show](#3-what-the-runs-show) 4. [What is proved](#4-what-is-proved)
5. [What the models assume](#5-what-the-models-assume) 6. [Plan](#6-plan)

## 1. The system

A CP/M program asks the BDOS, the BDOS asks the BIOS (trap #3), the BIOS asks the
monitor (trap #15), and the monitor either addresses the IDE drive itself or goes
through the FAT library to an image file on it:

    CP/M program, BDOS
      | trap #3: 9-12 select, 13 read, 14 write, 21 flush
    bios.s, buffer.s            4 buffers of 8 HDD sectors, dirty bits, LRU
      | trap #15: 0 init, 5 read, 6 write (LBA, drive, count, address)
    trap.s, disks.s             raw / CP/M partition     FAT partition: 4 image slots
      |                               |                        |
      |                               |                  fat_filelib.c  4 file handles
      |                               |                  fat_table.c    2 x 2 FAT sectors
      |                               |                  media-io.c     status dropped
      +-------------------------------+------------------------+
    ide.s                       setIdeLba, readSectors, writeSectors through an 8255

Everything runs on one processor; interrupts only count. What makes it hard is not
parallel code but **caches above caches** (BIOS buffers above image slots above file
buffers above FAT buffers), **a drive that answers when it likes**, **errors that
stop half way up** (most callers drop the status), and **the reset button**, which
can be pressed between any two steps.

| Component | State | Operations | Called by / calls | What makes it correct |
|---|---|---|---|---|
| BIOS disk buffer (`bios/buffer.s`) | table of first and last D+LBA, dirty bits, LRU, the buffers, master sequence | `initBuffers`, `buffRead`, `buffWrite`, `flushAll` | functions 13, 14, 21 / trap #15 | a read delivers what was last written; no entry marked dirty is reused; directory writes and flushes are on the drive when they return; a reboot loses only what was not written back |
| BIOS entry points (`bios/bios.s`, `diskdefs.s`) | selected drive, track, sector, DMA address | functions 0-22 | BDOS / buffer, trap #15 | only existing drives can be selected; a drive's address range fits its medium and overlaps no other |
| IDE driver (`boot/disk/ide.s`, `lba.s`) | registers of the running request; the drive's own latches | `setIdeLba`, `readSectors`, `writeSectors`, `rdSectors`, `wrSectors`, `initIdeDrive`, `getDriveIdent` | disks.s, media-io.c / the drive | a request touches the sectors it names and no memory past its buffer, returns in bounded time, and success means success |
| Virtual disks (`boot/bios/disks.s`, `trap.s`) | four slots: drive letter, `FILE*`, LRU; sequence | `initDisks`, `readDiskSector`, `writeDiskSector`, `openVDisk` | trap #15 / FAT library or ide.s | a slot's file is its drive's image, no handle leaks, an open is never refused for lack of a handle, data goes to the image and LBA named |
| FAT files (`fat_filelib.c`, `fat_access.c`, `fat_write.c`) | pool of handles, per-file sector buffer, position, length; directory | `fl_fopen/fclose/fseek/fread/fwrite/fflush/remove`, allocation | disks.s, loaders, programs / fat_table.c, media | a read delivers what was written; a closed file survives what happens to others and a loss of power; the listing names the files there are; every cluster is free or in one chain that ends |
| FAT table (`fat_table.c`) | two buffers of two FAT sectors, dirty flags, order | find next, find blank, set, free, purge | fat_write.c / media | a buffer marked clean is what the medium holds |
| Partition table, file system choice, media glue (`mbr.s`, `file-sys.s`, `disk.s`, `media-io.c`) | per drive: entries, valid flags, chosen partition; the drive selected last; the volume the library was mounted on | `readMBR`, `getFileSysType`, `fatInit`, `fatExit`, `mediaInit`, `mediaRead/Write` | commands, loaders, programs / ide.s, FAT | a valid table was checked whole and its entries share no sector; the library reads and writes the volume it was mounted on; no FAT sector is marked dirty at the prompt |
| CP/M files of the monitor (`cpm-file.s`, `cpm-fs.s`) | block list, block buffer, offsets | open, read | commands / ide.s | blocks are read in extent order up to the record count; the end of the file is reported |
| Loaders (`loader.s`, `cromix.s`, `ldbios.s`, `PUTBOOT.S`) | one-sector cache | boot, read | command / FAT, trap #15 | the system loaded is the one on the drive |
| Record and program files (`record-file.s`, `exec-elf.c`) | record count, checksum; the section being loaded | load, start | commands / file-sys.s, FAT | every record is checked before it is used; a program starts with all its sections in place |
| Formatting and names (`fat_format.c`, `fat_string.c`, `fat_misc.c`) | boot sector, FAT, directory entries | `fl_format`, comparing, splitting, long and short names | FAT files | what was formatted is mounted as it was formatted; a name is found again under which a file was created |
| Cromix files (`cromix-fs.c`) | super block, inodes, pointer blocks | `init`, `read_file`, `extract_file` | the cromix command / ide.s | each block of the file is loaded to its place, nothing beyond |
| XMODEM (`cmodem*.c`) | sector number, retry counts, buffer | send, receive | CP/M / serial port | every sector stored once and in order; a reported success was one; a dead line ends the transfer |
| ZMODEM (`mbzm/src`) | open file, byte count, frame state | receive | monitor / FAT, USB port | the file received is the file sent, each of a batch |
| Monitor commands, consoles, vectors, MMU, flash, C library | see `PROJECT.json` | | | independent commands, polled devices, constants |

The forty places where this code is hardest to test are in `PROJECT.json` under
"hazards", each at its line with the properties that watch it, or, for fourteen of
them, with the reason why none does. Several of the fourteen are modelled, but what
can go wrong does go wrong in the code, so the property next to it excuses it.

## 2. Modules and code

| Module | Extends | Models |
|---|---|---|
| `CpmRequests` | | the requests the BDOS makes: read, write with its type, flush |
| `CpmDisk` | CpmRequests | **abstract**: one disk with a `store` the program sees and a `platter` that lags behind; directory writes and flushes wait for it, a crash falls back to it |
| `BiosBuffer` | CpmRequests | `buffer.s` and its callers, one step per piece of code between two monitor traps |
| `BiosBufferHistory` | BiosBuffer | a history variable for a claim of the source the code does not meet |
| `IdeDriver` | | `ide.s` and the drive it polls |
| `VirtualDisks` | | `disks.s` on FAT: the table of open images above the handle pool of `fat_filelib.c` |
| `VirtualDisksHistory` | VirtualDisks | a history variable: which drives were used after which |
| `FatTable` | | the FAT behind its sector buffers: reading, changing and saving single entries, as operators from a volume to a volume |
| `FatVolume` | FatTable | the volume under the FAT library: chains, allocation and directory entries, operators of the same kind |
| `FatFiles` | FatVolume | the calls of the FAT library, one action each, and a loss of power inside them |
| `MonitorVolumes` | | partition tables, current drive and partition, the choice and the mounting of a file system, under the monitor's commands and a running program |
| `FatFormat` | | formatting a volume of any size, and telling at the mount what it was formatted as |
| `FatNames` | | comparing names, splitting paths, long name entries, short names and their tails |
| `ProgramLoader` | | loading and starting ELF and COFF files |
| `CromixFiles` | | finding and loading a file of a Cromix disk |
| `XmodemCheck` | | the check bytes of XMODEM: the sum, and the CRC bit by bit |
| `Xmodem` | XmodemCheck | both ends of an XMODEM transfer and the two lines between them |
| `Zmodem` | | the ZMODEM receiver byte by byte, an external sender and the two lines |
| `MCBiosBuffer`, `MCIdeDriver`, `MCVirtualDisks`, `MCFatFiles`, `MCMonitorVolumes`, `MCXmodem`, `MCZmodem` | the above | values for TLC |
| `BiosBufferProofs`, `IdeDriverProofs`, `VirtualDisksProofs`, `FatLibraryProofs`, `MonitorVolumesProofs`, `CromixFilesProofs`, `XmodemProofs`, `ZmodemProofs` | the modules they prove about, TLAPS | theorems |

**BiosBuffer.** The table's columns `fdlba`, `ldlba`, `dirtyBits`, `lruSeq` and the
memory `buffers` are functions of the slot; `disk` is what the drives hold; `pc`,
`a1`, `d4`, `ret` are the registers that live across a trap. `FindHit`,
`FindClean`, `FindDirty` are the three ways out of `findBuffer`/`findLruBuffer`
(in the order of the scan, with the signed comparison of LRU values); `Fill` is
`readHDDSectors` and the new tags; `CopyOut`/`CopyIn` the end of `buffRead` and
`buffWrite`; `FlushSkip`, `FlushWrite`, `FlushEnd` the loop of `flush`;
`FlushAllDirty`, `FlushAllClean`, `FlushAllEnd` the loop of `flushAll`. A trap may
fail (`FillFails`, `FlushWriteFails`) and the BIOS goes on as if it had not, as in
the code. `Reboot` is a cold start between any two steps.

**IdeDriver.** The driver's steps lie between two looks at the status register. The
drive keeps the latched sector number and count, BUSY as the number of status
reads that will still find it set, DRQ, ERR and its sectors. It may take any time
up to `MaxBusy` and fail a command or a sector. `PollAgain`/`TimeOut` are the wait
loops, `SetLba`, `SetCount`, `SendCommand`, `StartTransfer`, `ReadSector`,
`WriteSector`, `CheckRead`, `CheckWrite` the pieces of `setIdeLba`, `readSectors`,
`readSector` and `writeSectors` in between, including that the callers of
`setIdeLba` do not look at its result and that D0 is both the count and the value
`showErrors` leaves. `trouble` is a history variable: what this request met.

**VirtualDisks.** `slotId`, `slotFile`, `slotLru`, `seqLru` are `TBL_FAT` and
`D_SEQ_LRU`; `name`, `filelength`, `bytenum`, `changed` the open `FL_FILE`s;
`directory` and `image` the FAT partition. `OpenHit`, `OpenEmpty`, `OpenVictim` are
the three searches of `openVDisk`; `Fopen`, `FopenRefused`, `FopenUnread` the ways
`fl_fopen` answers (no free handle or open already, missing, unreadable
directory); `Touch` the LRU update; `Seek`, `Read`, `Write`, `WriteNoSpace` the
transfer; `Fclose` with the length going to the directory is part of
`OpenVictim`. `Reset` is a machine reset between any two steps.

**FatTable, FatVolume, FatFiles.** A volume is a record of the medium's sectors, the list of
FAT buffers, the buffer `currentsector` and the hint of FSINFO; each function of
`fat_table.c`, `fat_write.c` and `fat_access.c` is an operator on it that returns the
changed volume, its result and the sectors it wrote in order. `FatFiles` makes the
library's calls out of them (`Open`, `Close`, `Read`, `Write`, `Seek`, `Flush`,
`RemoveFile`): handles carry the position, the length, the last position in the
chain and the sector buffer, as `FL_FILE` does. `use` says who calls: the BIOS moves
whole sectors and seeks, the monitor's programs move any number of bytes and do
not. `PowerFails` stops any call after any of its sector writes and mounts what is
left. `content` is what each file was given to hold, the reference for reads.

**FatFormat, FatNames.** Operators: formatting and handling names are functions
of a size or of strings of characters. `Formatted` is what `fatfs_format` leaves in
`struct fatfs` and `BootSector` what it writes; `FatfsInit` is `fatfs_init` with
every refusal, on the fields of a boot sector as a record; `FormatWrites` lists the
sectors formatting writes. In `FatNames` a string is a sequence of character codes,
a long name's cache the string of 260 bytes and the one behind it, a short name its
eleven bytes. `MCFatFiles` assumes what TLC can evaluate of it (`FormatSizes`,
`OtherSizes`, `SplitPaths`, `FoldersInFolders`, `ShortNames`) on the edges of the
tables and on short strings.

**ProgramLoader.** One step for every place `exec-elf.c` reads the file:
`ReadMagic`, `ReadHeaders`, `NextSection` with its three cases (passed over, cleared,
read), `NoSection` when a section header is cut off; each read may fall short and then
ends the load (`GiveUp`). `before` keeps the memory as it was, `handle` whether the
file is open. `Run` and `Return` are the program.

**CromixFiles.** The search for the file (`blocks`, `entries`) and `extract_file`'s
loops over the direct pointers and three levels of pointer blocks: `level` says which
loop runs, `ptrs` and `index` what it goes over and how far it is. `writes` collects
the stores. A read that fails leaves its buffer, and nobody looks at the status.

**MonitorVolumes.** `currentDrive`, `ideDrive`, `driveStatus`, `table`,
`F_FILESYS_TYPE` and `media` are the variables of `disk.s`, `mbr.s`, `file-sys.s` and
`media-io.c`; data is left out, a volume is the card it is on and its first sector.
There is an action for each command of the prompt that touches them, among them
`MbrCmd` (with the whole of `readMBR`: `MBRResults`), `DirectoryCmd`, `RunCmd`,
`ExecCmd`, `RestartCmd`, and for each call a program may make through the tables of
`main.s`. A transfer may fail, a card may be exchanged. `excuse` is a history
variable: in which of the known ways the program was led off its volume.

**Xmodem.** `s` and `r` are the local variables and places of `sendfile` and
`rcvfile`, `down` and `up` the bytes under way. The receiver's steps are its calls
of `receive`, with the time-out it cannot tell from the byte 255; the sender's are
its waits for an answer with the frame that follows. `faults` counts bytes lost or
changed, at most one of them in a transmission (`Damaged`); `guessed` names the
sectors a missing byte was accepted for. The CRC of
`XmodemCheck` is the set of the places of its ones, so that the exclusive or of
`calc_crc` is a symmetric difference and can be reasoned about; `Record` is what
`sendfile` sends of a sector, the check bytes included.

**Zmodem.** `r.pc` is the read the receiver stands at (`zm_recv`,
`zm_read_escaped`), and each step takes what that read returns and does everything
up to the next one, with the answers and file calls in between. CRC and position
bytes are tokens that only match what they were made from, and a file's name is a
token of its own. Two history variables are kept with what they are about: a file's
`start`, where `received_data_size` stood when it was created, and the sender's
`strayed`, whether it repeated a transmission or took the position of one file for
that of the next, or a whole subpacket was lost. A file that `fl_fopen` refuses
ends the reception (`NotOpened`): its name is still open, no handle is left
(`Refused`), or the volume fails. A transmission loses or changes one token
(`Damaged`); `LoseSubpacket` takes whole subpackets or headers from the line, as many
in a row as it likes. The sender (`Start`,
`Answered`, `Timeout`) is another program, modelled from what the protocol lets it
send, and marked external.

## 3. What the runs show

| Run | Question | Instance | Result |
|---|---|---|---|
| `bios_one_sector` | With buffers of one HDD sector and no failing trap, is the buffer the abstract disk? Does every call return? | 3 sectors, 2 buffers, sequence numbers modulo 2, reboot anywhere | `BehavesAsDisk`, `EveryCallReturns` hold |
| `bios_faults` | With overlapping two-sector buffers, a failing trap and a reboot anywhere, what survives? | 3 sectors and one past the end, 2 buffers of 2, sequence stuck | `TypeOK`, `CopyStaysInBuffer`, `FlushAllLeavesClean`, `NoDirtyReuse`, `DirectoryDurable` hold |
| `bios_overlap` | Does a read deliver what was last written? | 4 sectors, 2 buffers of 2 | **violated**: two buffers hold one sector |
| `ide_slow` | With a drive that may outlast every wait, stop in the middle of a command and fail a sector, what does a request deliver? | 3 sectors, requests of 1-3, 2 polls, busy up to 6 polls, 1 error | `TypeOK`, `QuietReadDelivers`, `QuietWriteStores`, `NoOverrun`, `OnlyTheNamedSector`, `EveryRequestReturns` hold |
| `ide_read_status` | Does Z mean success? | 2 sectors, 1 error | **violated**: D0 = 1 after `showErrors` ends the loop with Z |
| `vdisk_table` | Three drives in two slots and two handles, images missing or short, opens and writes failing, reset anywhere | 4 calls, 1 fault, reads of 2 sectors | all seven properties hold |
| `vdisk_past_end` | Does a successful write land at its LBA? | 1 drive | **violated**: `fl_fseek` clamps to the end |
| `fat_files` | Do files keep their contents through every order of calls, a full volume and a loss of power in any of them? | 2 names, 2 handles, 2-3 free clusters, sectors of 3 slots, FAT16 and FAT32 | all six properties hold |
| `fat_two_sectors` | Is a FAT buffer marked clean what the medium holds? | free clusters in two FAT sectors | **violated**: two sectors purged, one stored |
| `monitor` | Which tables are accepted, and where does the library read and write? | 2 drives, 5 cards, sector numbers of 4 bits, 1 exchange | all four properties hold |
| `xmodem` | What is stored, what does success mean, who ends? | 4 sectors of 2 bytes, both checks, 3 faults, no two in a transmission | all six properties hold |
| `zmodem` | What is stored of a batch, which files are closed, does a session end? | 1-3 files, 2 handles, 2 formats, 3 frame ends, 1 fault or ESC | all four properties hold |

**Why the bounds are enough.** In the BIOS buffer two slots already give every
outcome of the scan (hit in the first, hit in the second, clean victim, dirty
victim, both holding the sector) and the third and fourth repeat them; a buffer of
two sectors overlaps another by a part, which is the only new thing eight can do;
one failing trap is enough for every place a status is dropped; a sequence that
wraps after one or two uses covers the comparison of wrapped numbers. In the driver,
busy times above two polls cover a wait that ends in time, at the last look and not
at all, and six of them outlast all the waits of a request together; counts up to
three have a first, a middle and a last sector. In the virtual disks three drives
over two slots make a victim of every slot; four calls can fill both, evict one and
come back; two-sector reads run over the end of an image. In the files, two names
are the file of a call and another one; a FAT of two sectors with six entries lets
the two buffers start at either; the free clusters make the volume full after one
file has grown or two were created, and three slots in a directory sector make a
second long name cross into the next one (and a FAT32 directory into a new cluster).
`Fits` keeps byte writes below the full volume, where `fl_fwrite` reports bytes it
did not store. In the monitor, four-bit sector numbers have the signed and the
unsigned half that `readMBR` compares in different ways, and the five cards are a
good table, one whose first entry is free, one whose entries share a sector, one with
an entry whose end turns over, and none. In the transfers, the file's bytes are
chosen so that a missing byte passes a check, that a control byte is data and that a sector's number is EOT; the receiver's
buffer is filled twice; two faults are a damaged sector and a damaged answer, and
the third one damages what is sent because of them; three files over two handles
have a second file that starts at the count of the first and a third that is refused.
`MaxFaults`, `MaxErrors`, `MaxCalls`, `MaxBusy`, `MaxGap`, `MaxCount`, `MaxSwaps`,
`MaxTries`, `Keys` and `Noise` are the bounds, and appear in guards by name;
`MaxCalls` starts again at a reset.

**Fairness.** `FairSpec` in `BiosBuffer` and `IdeDriver` is weak fairness of the
code's own steps (`BiosStep`, `DriverStep`): there is one processor and no other
task, and a step needs no event. Callers are under no fairness: nobody has to ask.
`EveryCallReturns` relies on monitor traps coming back, and
`EveryRequestReturns` shows why they do: the wait loops count. A reboot cannot
starve a call because it ends it. In `Xmodem` and `Zmodem` each side is a program of
its own on its own computer: `Spec` is weakly fair to the sender and to the receiver
(in `Zmodem` to the receiver's reads, not to a press of ESC). A fault is never
forced, so `LosslessDelivers` and `SessionEnds` speak of the runs without one.

**Findings.** The four violated claims are quoted with their lines in
`PROJECT.json`. With the real buffers of eight sectors, a sector read through one
buffer and written through another can return, or put back on the drive, old data.
A drive error in a multi-sector read is reported as success. The last blocks of
drive A lie past the end of the `drive_a.img` that is shipped, where a write goes
somewhere else. A chain that runs from one FAT sector into the next is lost when the
buffer of the two is purged, because the driver stores one sector whatever it is asked.

Other ways of the code the models follow, and a reader may not expect:

* *Disk buffer*: a write does not renew the LRU value, so the buffer given up may be
  the one last written (`buffWrite`).
* *FAT library*: mode "w" never erases the file (`fat_filelib.c:710`); `fl_fseek`
  forgets an unsaved sector buffer (1131); `fl_fwrite` returns the full count when
  the disk is full (1393); a file is entered in the directory before its cluster is
  marked on the medium; adding an entry to a full FAT16 root writes FAT entry 0
  (`fat_write.c:237`), which the instances stay below.
* *FAT formatting* (`FATFS_INC_FORMAT_SUPPORT` is 0 in this build): a volume of 4194152
  to 4194304 sectors is formatted FAT16 and taken for FAT32 when it is mounted, one of
  less than 8244 is refused; the second FAT lacks the entries that are taken.
* *FAT names*: names are cut at 19 characters; the short name of a name that begins
  with a dot is what the buffer held; an entry whose short name begins with byte 0xE5
  looks deleted; an entry without a long name whose extension has one or two
  characters is listed under a name it cannot be opened by.
* *Programs*: the memory of an ELF file's NOBITS sections is not cleared, a COFF
  file's is; a COFF file stays open while its program runs, which has one handle less
  and cannot open its own file; a load that fails has overwritten memory already, and
  is answered with 0.
* *Cromix*: the message "not a cromix filesystem" ends nothing, and `first_inode`
  stays that of the disk before; failed reads are not noticed; a zero where a pointer
  block is expected is passed over without advancing, so what follows moves down;
  an entry in use with an empty name is compared with what the stack held; the last
  block is read whole, up to 511 bytes past the end of the file.
* *Monitor*: commands jump to whatever `loadRecordFile` returned other than 0 and 1;
  an unpartitioned drive B is told by its sector 0x2000, because the probe takes it
  for a CP/M drive (`file-sys.s:395`); `readMBR` compares the first used entry with
  an uninitialised D5 when entry 0 is free; a failed mount is not noticed
  (`file-sys.s:55`) and a library once mounted stays valid.
* *XMODEM*: `receive` returns an unsigned char, so a time-out is the byte 255 and
  the receiver's loops that wait for silence never end: after one error it stores
  nothing more (`ErrorsAreFinal`), and the sender gives up (`SenderEnds`).
* *ZMODEM*: the positions of ZDATA and ZEOF are not looked at (`zm.c:68`, 157), so data
  repeated after an error is stored twice, and when a whole subpacket is lost the next
  is stored in its place and nobody notices; when the receiver has answered ZRPOS more often than the sender
  asked and the frame that offers the next file is damaged, the sender takes the
  position for that file and its data goes into the one before (this takes three
  faults, the run has one); the count is not reset between files, so the second of a batch
  lacks as many bytes as the first had; only the last file is closed, so that the
  fifth file of a batch finds no handle and ends the session (`zm.c:134`); an error in
  the last two bytes of a 32-bit CRC is looked for in the second (`zserial.c:247`,
  253).

## 4. What is proved

TLAPS checks the following for every value of the constants (number of buffers,
sectors per buffer, width of the sequence counter, drives, slots, handles, polls,
busy times, cards, partition tables, files and their lengths, sector sizes,
numbers of faults, size of a volume, length of a name, contents of a disk), from
the assumptions named in the modules (`RequestAssumption`, `BufferAssumption`,
`IdeAssumption`, `DisksAssumption`, `VolumesAssumption`, `WordAssumption`,
`TableAssumption`, `XmodemAssumption`, `ZmodemAssumption`, `NoiseAssumption`), which
TLC evaluates in the runs.

* **`BiosBufferProofs`**: `TypeCorrect`, `CopiesStayInside`, `FlushAllCleans`,
  `DirtyIsFlushedFirst`, `DirectoryWritesAreDurable`. The inductive invariant adds
  to the types `EntriesOK` (a used entry's last D+LBA is its first plus
  `BUFF_SECS - 1`; an unused one is clean), `PlacesOK` (what holds at each place of
  the code: after a successful find the request lies in the A1 buffer, at a fill
  A1 is clean, in `flush` A1 is an entry of the table) and `DirectoryOK` (in the
  `flush` of a directory write the sector of the call is in the buffer with the
  new data, and once D4 has passed its index without a fault it is on the medium).
  `NoDirtyReuse` is about the marks: a flush clears them also when its trap failed,
  and what that flush did not write is lost (`buffer.s:229`), which no property
  denies. Without `DirectoryOK` the claim about the return of function 14 is not
  inductive: the step that returns says nothing about the step that wrote.
* **`BiosBufferProofs`**, second part: `BufferImplementsDisk`, that with `BUFF_SECS = 1`
  and no failing trap every behaviour of `BiosBuffer` is one of `CpmDisk` under the
  mapping in `BiosBuffer`. The extra invariant: no two entries hold the same
  sector, and a sector whose bit is clear is the same in the buffer and on the
  medium. The first half is what fails with larger buffers.
* **`IdeDriverProofs`**: `TypeCorrect`, `ReadsStayInBuffer`, `QuietReadsDeliver`,
  `QuietWritesStore`, `WritesHitTheNamedSector`. The invariant relates driver and
  drive while nothing has gone wrong (`InStep`: the drive's latches name the
  request, the sectors it has left are the ones D0 still counts, and the buffer
  holds those before), plus what holds even then (`CountsOK`, `LatchedOK`).
* **`VirtualDisksProofs`**: `TypeCorrect`, `TableAndLibraryAgree`,
  `OpensAreNotRefused`, `ReadsDeliver`, `WritesStayInImage`, `LengthIsKept`,
  `LeastRecentIsGivenUp`.
  `OpensAreNotRefused` is the source's remark that `MAX_OPEN_FAT` must not exceed
  the library's limit turned into a theorem: by the pigeonhole principle, an empty
  or just emptied slot leaves a free handle. The invariant says where each open
  handle is between the steps of `openVDisk`, and that the position is the LBA
  asked for or the end of the file. For the slot given up it is joined by `OrderOK`:
  of two slots `openVDisk` is through with, the one with the lower sequence has the
  drive that was used first, and no two sequences are equal. A slot in the middle of
  an open is left out, since its sequence is still that of the drive before.

* **`MonitorVolumesProofs`**: `TypeCorrect`, `AcceptedAreSound`, `FatStays`,
  `Flushed`, for every set of cards with any contents and every width of a sector
  number. The invariant's parts: `PortFollows` (the port's drive is the one selected
  last), `MountedWhere` (while there is no excuse, the sector the library was mounted
  at is the first of the volume it believes in, on the card that is still in the
  drive), `FlushKnown` and `Quiet` (who may have left something dirty), `TableOK`
  (a table marked valid was accepted whole, sum by sum, with the overflow of a
  32-bit addition) and `AtPrompt`. `AcceptedAreSound` needs the arithmetic of wrapped
  sums: an entry that passed has an end that did not wrap. It bounds where an entry starts,
  not where it ends: `readMBR` never compares an end with the drive (`mbr.s:201-216`).
* **`FatLibraryProofs`**, formatting: `FormatMounts` (exactly the sizes from 8244
  sectors on but for 153 of them are mounted as they were formatted), `FatCovers`
  (the FAT has an entry for every cluster), `FormatStays` (nothing is written twice,
  outside the volume or in a cluster a file may get). They are arithmetic over every
  size below 2^32, table row by table row.
  Names: `SameNameIsEquivalence`, `ShortNameIsFound` (fewer than 9998 short names
  taken leave one for the loop over the tails: different tails make different names,
  so the pigeonhole principle applies), `ShortNameOpens` (with which extensions an
  entry without a long name is found), `LongNameReadBack` (up to 260 characters,
  entry by entry, into an initialised cache), `SplitExact`.
  Programs: `ProgramsStartLoaded`, `HandlesReturned`; the invariant says, while
  sections are loaded, that the memory is what the sections so far make of it.
* **`FatLibraryProofs`**, the FAT behind its buffers: `Fat(v)` is the table the library
  sees, whose sectors are in the first buffer that holds them or, if in none, on the
  medium. It is the medium's after `fatfs_fat_init` (`FatIsTheMediums`); bringing a
  sector into a buffer and looking at an entry leave it as it is, whatever buffer is
  given up and saved for that (`SectorIsRead`, `EntryIsRead`); setting an entry changes
  that entry only (`EntryIsSet`); after a purge it is on the medium sector by sector
  (`FatIsPurged`, over a recursive function whose existence is proved too); and writing
  FSINFO leaves it as it is (`HintIsForgotten`). They hold for any number of buffers, of
  sectors in one, and of sectors the driver stores of a write, buffers that share
  sectors included. All start from `CacheOK` and keep it: the buffers that hold a sector
  agree on it, and it is other than on the medium only in a buffer marked dirty, where
  saving that buffer stores it. That is the FAT's part of `BuffersMatchMedium` with what
  it needs to be inductive.
  Three of the theorems need more, and what they need is what this build, with two
  sectors to a buffer and a driver that stores one, does not always give. Reading a
  sector needs `Fresh`: no buffer that stays has a change to the sector that comes in
  behind the one asked for (`fat_table.c:118`). Setting an entry needs `Fresh` and
  `Alone`: the entry's sector is in one buffer only, and a save of that buffer stores it
  (`fat_table.c:101`). An entry set without `Alone` leaves buffers without `CacheOK`, and
  then a purge loses it: `fat_two_sectors` shows that. With buffers of one sector, the
  library's default, both always hold (`OneSector`), so that there the theorems follow
  one another from the mount on.
* **`CromixFilesProofs`**: `TypeCorrect`, `StoresInFile`, `SuccessIsWhole`,
  `BlocksLand`, for disks of any contents, damaged ones included, and failing reads.
  The invariant (`Inv`) counts the blocks done by the counters of the three nested
  loops (`Position`) and says that the tables of the open loops are those the
  pointers lead to (`Tables`).
* **`XmodemProofs`**, the check: `ChangedByteDetected`, for sectors of any length: the
  check of what was sent passes, and fails when any one byte, of the data or of the
  check itself, is another. The CRC is linear in its bits and its register's step is
  one to one, so one changed byte leaves a difference that nothing later takes back.
* **`XmodemProofs`**, the transfer: `TypeCorrect`, `SuccessMeansStored`, `KeptSectors`,
  `SectorsStored`, `ErrorsEndReception`, for files, sectors, buffers and retries of
  every size. The invariant says how the two programs take turns (`TakeTurns`), how
  much of a sector can still be on the line (`Lengths`), what the sender has counted
  of what the receiver kept (`Counted`, `Closing`), and what a whole sector on the
  line can look like after the faults so far (`KeptInv`). Two hypotheses are stated
  and cannot be dropped. `ModesAgree`: noise that turns a request for checksums into
  one for CRCs leaves one byte over after every sector, and a sector's last byte can
  then pass for the start of the next. `Sectors + MaxFaults < 256`: the sector's
  number is a byte, and with as many lost answers as numbers the receiver takes a
  repeated sector for a new one (`KeptSectors` states what holds before the number
  wraps without it). Types and `ErrorsAreFinal` need neither. The number of faults is
  free, but no transmission has two: a checksum lets two changes through that
  compensate each other, and a sector so changed would be stored, so both theorems
  are about lines that spoil single bytes.
* **`ZmodemProofs`**: `TypeCorrect` whatever the lines and the sender do, and
  `SessionsStore`: a session without faults whose end the sender sees, of any number
  of files of any length, with every kind of header and of subpacket, stores each file
  from the byte on that `received_data_size` stood at when it was created, and closes
  the last one. With more files than the library has handles (`FATFS_MAX_OPEN_FILES`,
  four) the sender sees no end, since the receiver gives up at the first file it cannot
  create. The
  invariant (`Stages`) says at every read of the receiver exactly which tokens are
  still on the line and which answers are under way: `Initial` up to the first
  ZRINIT, `Offering` a name, `SendingData` the frame at `r.size` or ZEOF,
  `Finishing`; and that no read waits while the sender does, so that it never
  repeats itself. The bytes a sender streams are a recursive function of what
  remains; that it is a sequence with the next subpacket in front is proved by
  induction over a set, from the well-foundedness of the natural numbers.
* **`ZmodemProofs`**, damaged lines: `FirstFileIntact`, with any number of transmissions
  that lose or change one token each, of answers lost, files refused and presses of ESC,
  for files and noise of every kind. A whole subpacket that is lost is modelled, and
  excused by the statement: the receiver stores the next one in its place. There is
  one hypothesis on the noise, `NoiseAssumption`: what a changed token becomes is not a
  CRC, so that a block whose CRC was hit is refused. (A 16-bit CRC misses one damaged
  block in 65536; that is the arithmetic the tokens abstract from.) What is on a
  damaged line cannot be listed, so the invariant (`FirstInv`) looks at its CRCs only:
  a block is taken when the receiver comes to a CRC of what it has read, and every
  CRC on the line is one the sender made. Until the sender repeats itself and while
  there is one file, the session is in one of five phases (`Line`): `Nothing` that
  could have data read is under way; `Asked`, one answer that names the position
  `received_data_size` stands at; `Coming`, a ZDATA on the line that starts there;
  `Holding`, the receiver between that ZDATA's CRC and its end of line; `Taking`, the
  receiver reads data (`Reading`: which CRC is the next on the line, its `Own`, the
  second `Half` of one, one behind a `Lost` one, or none that fits any more). The
  number of the next byte agrees with the count because an ask, a ZDATA and a reader
  are never there two at a time: that is what a repeated transmission breaks, and why
  the property excepts it. From the second file on nothing is stored in the first.

Only model-checked: the liveness properties (`EveryCallReturns`,
`EveryRequestReturns`, `SenderEnds`, `LosslessDelivers`, `SessionEnds`), since the
prover has no way to reason about fairness; and the properties of `FatFiles`.
`FatVolume` walks chains and directories with RECURSIVE operators, which put it and
`FatFiles` out of the prover's reach; what its properties say rests on chains that
end, so a proof would be an induction along them. Single entries, which the chains
are made of, are in `FatTable` and proved about.

Only proved, and not run by TLC: `CromixFiles` and `ProgramLoader`. Their instances
would need constants of the code made smaller (128 pointers to a block, headers of
40 bytes), and the proofs need no bound.

## 5. What the models assume

* **BiosBuffer**: a monitor trap that fails leaves the medium and the memory as
  they were. That a failing `setIdeLba` can send a write to another sector is
  modelled in `IdeDriver`, and not carried up. D+LBAs are numbered through; the
  boundary between two drives is the end of one medium. The end of the medium is
  read as it comes, as the code does. A warm boot only restarts the CCP and
  changes nothing here.
* **IdeDriver**: one selected drive; a new command ends a half done one (ATA); the
  data port yields garbage when no data is offered; a drive that is not BUSY is
  READY. Memory at A2 is the sequence of sectors stored there.
* **VirtualDisks**: the FAT partition is an image's sectors and a directory of
  lengths; cluster chains are in `FatVolume`, FAT buffers in `FatTable`. Free
  handles are a set: the library's free list chooses among them, and nothing
  depends on which. Lengths are whole sectors and at least one (the import tools
  write whole images). The LRU sequence stays below 2^30 between two resets. A
  medium error shows as a failing open; a failed sector is not reported by
  `media-io.c` and so cannot be seen by this code. The monitor is re-entered from
  CP/M only by a reset, which zeroes its variables.

* **FatTable, FatVolume, FatFiles**: one copy of the FAT (the library writes the first only)
  and the root directory only. Names are compared for equality and fit one long
  entry; the short name made from a long one is taken to be free. `mediaRead` and
  `mediaWrite` answer success, as they do; a sector that fails silently is not
  modelled here. Clusters beyond the free ones hold other files, which nobody opens.
  Power fails once; the volume is mounted afresh and only inspected after it.
* **MonitorVolumes**: files and programs are opened and started or not, whatever
  their data. A program started from S-records does as it likes, so the monitor is
  `gone`; one started by `exec` makes the calls of the tables and returns. The
  button at the prompt differs from `restart` only by clearing the variables, and
  `Reset` is power on.
* **FatFormat, FatNames**: the partition begins at sector 0 and no write of formatting
  fails; `Label` stands for the bytes of a FAT16 volume's name that would be read as
  fields of FAT32. Names have the characters 1 to 255. Paths of one or two
  characters begin with a slash.
* **ProgramLoader**: a program is not loaded over the monitor; sizes of sections are
  not negative. What a header says is taken from the file as a record. Mounting comes
  first, so a handle is free.
* **CromixFiles**: block and inode numbers are natural numbers that do not wrap; the
  destination is not the monitor's own memory.
* **Xmodem**: a frame reaches the other side whole before the next step of its
  sender; the sender's wait of ten seconds is longer than the receiver's of five
  (`ReceiverIdle`); the file has fewer than 255 sectors; the receiver's disk is not
  full. A transmission loses or changes at most one byte.
* **Zmodem**: the sender sends one byte to a subpacket, answers every header of the
  receiver and repeats its last transmission when both sides wait. A transmission, which may be a
  whole streamed file, loses or changes at most one token, besides whole subpackets.
  What noise makes of a token is no CRC (`NoiseAssumption`). The flushing of the line after ZFIN is left
  out, and the results of `fl_fwrite` are ignored as in the code.

**Not modelled.** What is not modelled is listed per component in `PROJECT.json`:
chiefly polled consoles, the command loop, constant tables, the vendored
C library, and code that only copies in a loop.

## 6. Plan

| Step | Module | Composes | Specification and runs | Theorems |
|---|---|---|---|---|
| done | `BiosBuffer` | `CpmDisk` (abstract) | see above | types, four safety properties, refinement |
| done | `IdeDriver` | drive | see above | types, four safety properties |
| done | `VirtualDisks` | handle pool | see above | types, five safety properties, the choice of the victim |
| done | `FatTable`, `FatVolume`, `FatFiles` | files, FAT, driver's one-sector write, power | see above | the FAT behind its buffers; files are out of reach |
| done | `MonitorVolumes` | tables, mounts, commands, program | see above | types, three safety properties |
| done | `XmodemCheck`, `Xmodem` | sender, receiver, lossy lines | see above | what the check detects, types, four safety properties |
| done | `Zmodem` | receiver, sender, lossy lines | see above | types, sessions without faults, the first file with faults |
| done | `FatFormat`, `FatNames` | what is written against what is read | `MCFatFiles`' assumptions | formatting, names, paths |
| done | `ProgramLoader`, `CromixFiles` | loader, disk contents, failing reads | | loaded programs, types and placement of blocks |
| next | chains of `FatVolume` without RECURSIVE | | | `ChainsPartition` |
| later | `CpmFile` | extents of the monitor's read only CP/M files | blocks in extent order, the end of the file | |
| later | `LoaderCache` | `ldbios.s`'s one-sector cache | a hit delivers the sector named | types, the hit |

The bounds planned are of the size used so far: two buffers, three or four
clusters or blocks, one or two faults.
