------------------------------- MODULE FatVolume -------------------------------
(***************************************************************************)
(* A mounted volume of the FAT library: the chains of the FAT              *)
(* (src/fat/src/fat_table.c), allocation (fat_write.c) and the directory   *)
(* (fat_access.c).  The functions of the library are operators from a      *)
(* volume to a volume with a result.  A volume is the record               *)
(*   type     FAT_TYPE_16 or FAT_TYPE_32                                   *)
(*   buffers  fat_buffers, in the order of the list from fat_buffer_head   *)
(*   cur      currentsector                                                *)
(*   hint     next_free_cluster is known                                   *)
(*   medium   the sectors of the partition                                 *)
(*   writes   the sectors written by the call in progress, in order        *)
(* A sector is a function from slots: cluster numbers in a FAT sector,     *)
(* tuples elsewhere, <<>> standing for zeros.  A directory slot is         *)
(* <<"lfn", name>>, <<"sfn", name, cluster, length>>, <<"deleted">> or     *)
(* <<>>; a name fits one long entry.                                       *)
(***************************************************************************)
EXTENDS FatTable, SequencesExt

CONSTANTS
  SectorSlots,          \* bytes, or directory entries, in a sector
  SectorsPerCluster,    \* sectors_per_cluster
  RootSectors,          \* rootdir_sectors of a FAT16 volume
  ClustersKept          \* clusters 2..ClustersKept+1 have data sectors

ASSUME VolumeAssumption ==
  /\ {SectorSlots, SectorsPerCluster, RootSectors} \subseteq Nat \ {0}
  /\ SectorSlots >= 2
  /\ ClustersKept \in 1 .. FatSectors * FatEntries - 2

Zero    == <<>>
NoText  == ""

Slots   == 0 .. SectorSlots - 1
Zeros   == [i \in Slots |-> Zero]

(***************************************************************************)
(* Layout behind the FAT, as fatfs_init computes it.                       *)
(***************************************************************************)
RootBegin == FatBegin + FatSectors

RootCluster(v) == IF v.type = 16 THEN 0 ELSE 2

LbaOfCluster(v, c) ==
  RootBegin + (IF v.type = 16 THEN RootSectors ELSE 0) + (c - 2) * SectorsPerCluster

(***************************************************************************)
(* The medium and the buffers.                                             *)
(***************************************************************************)
\* One sector written by the library itself, through currentsector.
WriteSector(v, lba, sector) ==
  [v EXCEPT !.medium[lba] = sector, !.writes = Append(@, <<lba, sector>>)]

\* What is on the medium if power fails after the first k writes of a call.
AfterWrites(medium, writes, k) ==
  FoldLeft(LAMBDA m, w : [m EXCEPT ![w[1]] = w[2]], medium, SubSeq(writes, 1, k))

NoBuffers == [i \in 1 .. FAT_BUFFERS |->
                [address |-> Nowhere, dirty |-> FALSE,
                 sector |-> [j \in 0 .. FAT_BUFFER_SECTORS - 1 |-> Zeros]]]

(***************************************************************************)
(* Chains of clusters.                                                     *)
(***************************************************************************)
RECURSIVE FindBlankCluster(_, _)
FindBlankCluster(v, c) ==
  LET Next(r) == IF r.next = 0 THEN [v |-> r.v, ok |-> TRUE, cluster |-> c]
                 ELSE FindBlankCluster(r.v, c + 1)
  IN  IF c \div FatEntries < FatSectors THEN Next(FatEntry(v, c))
      ELSE [v |-> v, ok |-> FALSE, cluster |-> EndOfChain]

\* Mutant: only the first cluster of the chain is freed.
FreeClusterHead(v, c) == IF c \in {EndOfChain, 0} THEN v ELSE FatSetCluster(v, c, 0)

RECURSIVE FreeClusterChain(_, _)
FreeClusterChain(v, c) ==
  LET Next(r) == FreeClusterChain(FatSetCluster(r.v, c, 0), r.next)
  IN  IF c \in {EndOfChain, 0} THEN v ELSE Next(FindNextCluster(v, c))

Link(v, c, new) == FatSetCluster(FatSetCluster(v, c, new), new, EndOfChain)

RECURSIVE AddClusterToChain(_, _, _)
AddClusterToChain(v, c, new) ==
  LET Next(r) == IF r.next = 0 THEN [v |-> r.v, ok |-> FALSE]
                 ELSE IF r.next # EndOfChain THEN AddClusterToChain(r.v, r.next, new)
                 ELSE [v |-> Link(r.v, c, new), ok |-> TRUE]
  IN  Next(FindNextCluster(v, c))

(***************************************************************************)
(* Allocation.                                                             *)
(***************************************************************************)
\* The loop of fatfs_add_free_space after the hint is forgotten: cluster is the
\* first one added.
RECURSIVE AddFreeClusters(_, _, _, _)
AddFreeClusters(v, start, n, first) ==
  LET Add(r) == IF ~r.ok THEN [r EXCEPT !.cluster = first]
                ELSE AddFreeClusters(Link(r.v, start, r.cluster), r.cluster, n - 1,
                                     IF first = EndOfChain THEN r.cluster ELSE first)
  IN  IF n = 0 THEN [v |-> v, ok |-> TRUE, cluster |-> first]
      ELSE Add(FindBlankCluster(v, RootCluster(v)))

AddFreeSpace(v, start, n) == AddFreeClusters(ForgetHint(v), start, n, EndOfChain)

\* Mutant: the cluster found is not marked.
AllocateUnmarked(v) == FindBlankCluster(ForgetHint(v), RootCluster(v))

\* fatfs_allocate_free_space for a new file of one cluster, the only way it is
\* called.
AllocateFreeSpace(v) ==
  LET Mark(r) == IF r.ok THEN [r EXCEPT !.v = FatSetCluster(r.v, r.cluster, EndOfChain)] ELSE r
  IN  Mark(FindBlankCluster(ForgetHint(v), RootCluster(v)))

(***************************************************************************)
(* Directory sectors, through the one sector buffer of the library.        *)
(***************************************************************************)
RECURSIVE Walk(_, _, _)
Walk(v, c, n) ==
  LET Next(r) == Walk(r.v, r.next, n - 1)
  IN  IF n = 0 THEN [v |-> v, next |-> c] ELSE Next(FindNextCluster(v, c))

Load(v, lba) == IF v.cur.address = lba THEN v
                ELSE [v EXCEPT !.cur = [address |-> lba, sector |-> v.medium[lba]]]

SectorReader(v, dir, x) ==
  LET Reached(r) == [ok |-> r.next # EndOfChain,
                     v |-> IF r.next = EndOfChain THEN r.v
                           ELSE Load(r.v, LbaOfCluster(r.v, r.next) + (x % SectorsPerCluster))]
  IN  IF v.type = 16 /\ dir = 0
      THEN [ok |-> x < RootSectors, v |-> IF x < RootSectors THEN Load(v, RootBegin + x) ELSE v]
      ELSE Reached(Walk(v, dir, x \div SectorsPerCluster))

WriteCur(v, sector) == WriteSector([v EXCEPT !.cur.sector = sector], v.cur.address, sector)

\* Change slot i of the sector in the buffer and write the sector.
WriteSlot(v, i, entry) == WriteCur(v, [v.cur.sector EXCEPT ![i] = entry])

IsLfn(e) == e # Zero /\ e[1] = "lfn"
IsSfn(e) == e # Zero /\ e[1] = "sfn"

\* The long name a slot inherits from the slot before it, carried over from the
\* previous sector: any other entry in between drops it.
LongName(sector, i, carried) ==
  IF i = 0 THEN carried ELSE IF IsLfn(sector[i - 1]) THEN sector[i - 1][2] ELSE NoText

NameOf(sector, i, carried) ==
  IF LongName(sector, i, carried) # NoText THEN LongName(sector, i, carried) ELSE sector[i][2]

Named(sector, name, carried) ==
  {i \in Slots : IsSfn(sector[i]) /\ NameOf(sector, i, carried) = name}

\* fatfs_get_file_entry from sector x of the directory on.
RECURSIVE GetFileEntry(_, _, _, _, _)
GetFileEntry(v, dir, name, x, carried) ==
  LET In(r, s, hits) ==
        IF hits # {} THEN [v |-> r.v, ok |-> TRUE, entry |-> s[Min(hits)]]
        ELSE GetFileEntry(r.v, dir, name, x + 1, LongName(s, SectorSlots, NoText))
      Read(r) == IF r.ok THEN In(r, r.v.cur.sector, Named(r.v.cur.sector, name, carried))
                 ELSE [v |-> r.v, ok |-> FALSE, entry |-> Zero]
  IN  Read(SectorReader(v, dir, x))

\* fatfs_sfn_exists, and the search of the two functions that follow.
RECURSIVE FindSfn(_, _, _, _)
FindSfn(v, dir, name, x) ==
  LET In(r, hits) == IF hits # {} THEN [v |-> r.v, ok |-> TRUE, at |-> Min(hits)]
                     ELSE FindSfn(r.v, dir, name, x + 1)
      Read(r) == IF r.ok
                 THEN In(r, {i \in Slots : IsSfn(r.v.cur.sector[i]) /\ r.v.cur.sector[i][2] = name})
                 ELSE [v |-> r.v, ok |-> FALSE, at |-> 0]
  IN  Read(SectorReader(v, dir, x))

UpdateFileLength(v, dir, name, length) ==
  LET Update(r) == IF r.ok THEN WriteSlot(r.v, r.at, [r.v.cur.sector[r.at] EXCEPT ![4] = length])
                   ELSE r.v
  IN  Update(FindSfn(v, dir, name, 0))

\* Mutant: the long entry is marked, the short one stays.
MarkLongDeleted(v, dir, name) ==
  LET Mark(r) == IF r.ok /\ r.at > 0 THEN [r EXCEPT !.v = WriteSlot(r.v, r.at - 1, <<"deleted">>)]
                 ELSE r
  IN  Mark(FindSfn(v, dir, name, 0))

MarkFileDeleted(v, dir, name) ==
  LET Mark(r) == IF r.ok THEN [r EXCEPT !.v = WriteSlot(r.v, r.at, <<"deleted">>)] ELSE r
  IN  Mark(FindSfn(v, dir, name, 0))

\* fatfs_list_directory_next called until it answers 0: the names listed.
RECURSIVE Listing(_, _, _, _)
Listing(v, dir, x, carried) ==
  LET Read(r) == IF r.ok
                 THEN {NameOf(r.v.cur.sector, i, carried) : i \in {j \in Slots : IsSfn(r.v.cur.sector[j])}}
                      \cup Listing(r.v, dir, x + 1, LongName(r.v.cur.sector, SectorSlots, NoText))
                 ELSE {}
  IN  Read(SectorReader(v, dir, x))

(***************************************************************************)
(* New directory entries.                                                  *)
(***************************************************************************)
\* Mutant: a long entry ends the search too.
FreeSlotAnyKind(a, e, x, i) ==
  IF a.done THEN a
  ELSE IF IsSfn(e) THEN [a EXCEPT !.run = 0]
  ELSE [run |-> a.run + 1, start |-> IF a.run = 0 THEN <<x, i>> ELSE a.start,
        done |-> a.run + 1 >= 2]

\* One slot of the search for two free ones in a row: run counts them, start is
\* the first.  A long entry may belong to a deleted file, so it counts, but
\* only a deleted or a blank entry ends the search.
FreeSlot(a, e, x, i) ==
  IF a.done THEN a
  ELSE IF IsSfn(e) THEN [a EXCEPT !.run = 0]
  ELSE [run |-> a.run + 1, start |-> IF a.run = 0 THEN <<x, i>> ELSE a.start,
        done |-> a.run + 1 >= 2 /\ ~IsLfn(e)]

FreeSlots(a, sector, x) ==
  FoldLeft(LAMBDA c, i : FreeSlot(c, sector[i], x, i), a, [i \in 1 .. SectorSlots |-> i - 1])

\* The cluster of a directory, zeroed through currentsector.
EraseCluster(v, c) ==
  FoldLeft(LAMBDA w, i : WriteCur([w EXCEPT !.cur.address = LbaOfCluster(w, c) + i - 1], Zeros),
           v, [i \in 1 .. SectorsPerCluster |-> i])

\* A directory without room gets another cluster.
ExtendDirectory(v, dir, start) ==
  LET Erase(r, c) == [v |-> IF r.ok THEN EraseCluster(r.v, c) ELSE r.v, ok |-> r.ok, start |-> start]
      Add(r) == IF r.ok THEN Erase(AddClusterToChain(r.v, dir, r.cluster), r.cluster)
                ELSE [v |-> r.v, ok |-> FALSE, start |-> start]
  IN  Add(FindBlankCluster(v, RootCluster(v)))

RECURSIVE FindFreeDirOffset(_, _, _, _)
FindFreeDirOffset(v, dir, x, a) ==
  LET In(r, b) == IF b.done THEN [v |-> r.v, ok |-> TRUE, start |-> b.start]
                  ELSE FindFreeDirOffset(r.v, dir, x + 1, b)
      Read(r)  == IF r.ok THEN In(r, FreeSlots(a, r.v.cur.sector, x))
                  ELSE ExtendDirectory(r.v, dir, IF a.run = 0 THEN <<x, 0>> ELSE a.start)
  IN  Read(SectorReader(v, dir, x))

\* fatfs_add_file_entry: the long entry, then the short one; a sector is written
\* before the next is read.
AddFileEntry(v, dir, name, cluster) ==
  LET lfn == <<"lfn", name>>
      sfn == <<"sfn", name, cluster, 0>>
      Put(r) == IF r.ok THEN [r EXCEPT !.v = WriteSlot(r.v, 0, sfn)] ELSE r
      At(r, x, i) ==
        IF ~r.ok THEN r
        ELSE IF i + 1 < SectorSlots
        THEN [r EXCEPT !.v = WriteCur(r.v, [r.v.cur.sector EXCEPT ![i] = lfn, ![i + 1] = sfn])]
        ELSE Put(SectorReader(WriteSlot(r.v, i, lfn), dir, x + 1))
      Found(f) == IF f.ok THEN At(SectorReader(f.v, dir, f.start[1]), f.start[1], f.start[2])
                  ELSE [v |-> f.v, ok |-> FALSE]
  IN  Found(FindFreeDirOffset(v, dir, 0, [run |-> 0, start |-> <<0, 0>>, done |-> FALSE]))
================================================================================
