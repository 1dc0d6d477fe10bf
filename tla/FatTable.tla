-------------------------------- MODULE FatTable --------------------------------
(***************************************************************************)
(* The FAT of a mounted volume behind its sector buffers                   *)
(* (src/fat/src/fat_table.c), above mediaRead and mediaWrite               *)
(* (src/boot/fat/media-io.c) and the IDE driver: reading, changing and     *)
(* saving single entries.  The functions of the library are operators from *)
(* a volume to a volume with a result.  The fields of a volume used here:  *)
(*   type     FAT_TYPE_16 or FAT_TYPE_32                                   *)
(*   buffers  fat_buffers, in the order of the list from fat_buffer_head   *)
(*   hint     next_free_cluster is known                                   *)
(*   medium   the sectors of the partition                                 *)
(*   writes   the sectors written by the call in progress, in order        *)
(* A sector of the FAT is a function from slots to cluster numbers.        *)
(***************************************************************************)
EXTENDS Integers, Sequences, FiniteSetsExt

CONSTANTS
  FAT_BUFFERS,          \* FAT sector buffers: 2
  FAT_BUFFER_SECTORS,   \* sectors in one: 2
  FatSectors,           \* fat_sectors
  FatEntries,           \* entries in a FAT sector: 256 or 128 in the code
  DriverWrites          \* sectors one call of wrSectors stores: 1, see IdeDriver

\* fat_table.c: "FAT_BUFFERS & FAT_BUFFER_SECTORS must be at least 1".
ASSUME TableAssumption ==
  {FAT_BUFFERS, FAT_BUFFER_SECTORS, FatSectors, FatEntries, DriverWrites} \subseteq Nat \ {0}

EndOfChain == -1   \* FAT32_LAST_CLUSTER
Nowhere    == -2   \* FAT32_INVALID_CLUSTER as a sector address

\* Sector 1 is FSINFO, a sector later the FAT begins.
FsInfoSector == 1
FatBegin     == 3

(***************************************************************************)
(* The medium.  A read delivers every sector asked for; a write is told a  *)
(* count but the driver stores its first DriverWrites sectors; both answer *)
(* success.  buf is a function from 0.                                     *)
(***************************************************************************)
MediaWrite(v, lba, buf, count) ==
  LET n == Min({count, DriverWrites})
  IN  [v EXCEPT !.medium = [l \in DOMAIN @ |-> IF l \in lba .. lba + n - 1 THEN buf[l - lba] ELSE @[l]],
                !.writes = @ \o [i \in 1 .. n |-> <<lba + i - 1, buf[i - 1]>>]]

MediaRead(v, lba, count) == [i \in 0 .. count - 1 |-> v.medium[lba + i]]

(***************************************************************************)
(* FAT sector buffers.                                                     *)
(***************************************************************************)
Holds(b, s) == b.address # Nowhere /\ s \in b.address .. b.address + FAT_BUFFER_SECTORS - 1

\* Only the part of a buffer that lies in the FAT is written.
WriteBack(v, b) ==
  IF b.dirty
  THEN MediaWrite(v, b.address, b.sector,
                  Min({FAT_BUFFER_SECTORS, FatSectors - (b.address - FatBegin)}))
  ELSE v

\* The last buffer of the list becomes the first and holds the sectors from s on.
Reload(v, s) ==
  LET new == [address |-> s, dirty |-> FALSE, sector |-> MediaRead(v, s, FAT_BUFFER_SECTORS)]
  IN  [v EXCEPT !.buffers = [i \in 1 .. FAT_BUFFERS |-> IF i = 1 THEN new ELSE @[i - 1]]]

\* fatfs_fat_read_sector: the first buffer of the list that covers s, else the
\* last one, written back and loaded.
ReadFat(v, s) ==
  LET hits == {i \in 1 .. FAT_BUFFERS : Holds(v.buffers[i], s)}
  IN  IF hits # {} THEN [v |-> v, at |-> Min(hits)]
      ELSE [v |-> Reload(WriteBack(v, v.buffers[FAT_BUFFERS]), s), at |-> 1]

\* The buffers are written in the order of the list.
Purge(v) ==
  LET written[k \in 0 .. FAT_BUFFERS] == IF k = 0 THEN v ELSE WriteBack(written[k - 1], v.buffers[k])
  IN  [written[FAT_BUFFERS] EXCEPT
         !.buffers = [i \in 1 .. FAT_BUFFERS |-> [@[i] EXCEPT !.dirty = FALSE]]]

FatSectorOf(c) == FatBegin + c \div FatEntries

\* The entry of cluster c, read through the buffers.
FatEntry(v, c) ==
  LET From(r, b) == [v |-> r.v, next |-> b.sector[FatSectorOf(c) - b.address][c % FatEntries]]
      Entry(r)   == From(r, r.v.buffers[r.at])
  IN  Entry(ReadFat(v, FatSectorOf(c)))

\* Cluster 0, a FAT16 root directory or a parent's "..", passes for 2.  No
\* caller follows a chain past its end.
FindNextCluster(v, c) ==
  IF c = EndOfChain THEN [v |-> v, next |-> EndOfChain] ELSE FatEntry(v, IF c = 0 THEN 2 ELSE c)

\* Mutant: the entry is changed in the buffer and nobody is told.
FatSetClusterQuietly(v, c, next) ==
  LET Set(r) == [r.v EXCEPT
        !.buffers[r.at].sector[FatSectorOf(c) - r.v.buffers[r.at].address][c % FatEntries] = next]
  IN  Set(ReadFat(v, FatSectorOf(c)))

FatSetCluster(v, c, next) ==
  LET Set(r) == [r.v EXCEPT
        !.buffers[r.at].sector[FatSectorOf(c) - r.v.buffers[r.at].address][c % FatEntries] = next,
        !.buffers[r.at].dirty = TRUE]
  IN  Set(ReadFat(v, FatSectorOf(c)))

\* fatfs_set_fs_info_next_free_cluster(fs, FAT32_LAST_CLUSTER), as its callers
\* guard it; a FAT16 volume has no FSINFO and keeps its hint.
ForgetHint(v) ==
  LET Changed(b) == [b.sector EXCEPT ![0] = [@ EXCEPT ![0] = <<"unknown">>]]
      Written(r) == [MediaWrite(r.v, r.v.buffers[r.at].address, Changed(r.v.buffers[r.at]), 1) EXCEPT
                       !.buffers[r.at].address = Nowhere, !.buffers[r.at].dirty = FALSE,
                       !.hint = FALSE]
  IN  IF v.hint /\ v.type = 32 THEN Written(ReadFat(v, FsInfoSector)) ELSE v
=================================================================================
