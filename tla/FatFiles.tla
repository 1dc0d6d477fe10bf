------------------------------- MODULE FatFiles --------------------------------
(***************************************************************************)
(* Files of the FAT library (src/fat/src/fat_filelib.c) in the root        *)
(* directory of a volume: open, create, read, write, seek, flush, close    *)
(* and remove, one action per call of the library, which nothing           *)
(* interrupts but a loss of power.  Power may fail before any of the       *)
(* sector writes of a call; the volume is then mounted afresh.             *)
(***************************************************************************)
EXTENDS FatVolume

CONSTANTS
  FATFS_MAX_OPEN_FILES,   \* file handles: 4
  Names,                  \* names of files
  Bytes,                  \* what a byte of a file may be
  Modes,                  \* the mode strings passed to fl_fopen
  Uses,                   \* who calls: "sectors", the BIOS, "bytes", the monitor
  ByteCounts,             \* byte counts passed to fReadFAT and fWriteFAT
  Offsets,                \* sectors the BIOS seeks to
  Types,                  \* FAT types of the volume
  FreeClusters            \* of each type, the clusters free at first: the rest hold other files

ASSUME FilesAssumption ==
  /\ FATFS_MAX_OPEN_FILES \in Nat \ {0}
  /\ Uses \subseteq {"sectors", "bytes"}
  /\ ByteCounts \subseteq Nat \ {0}
  /\ Offsets \subseteq Nat
  /\ Types \subseteq {16, 32}
  /\ \A t \in Types : FreeClusters[t] \subseteq 3 .. ClustersKept + 1

Handle == 1 .. FATFS_MAX_OPEN_FILES

\* The flags of a mode; FILE_ERASE is set for "w" and never looked at.
Flags(mode) ==
  CASE mode = "r"  -> {"READ"}
    [] mode = "r+" -> {"READ", "WRITE"}
    [] mode = "w"  -> {"WRITE", "ERASE", "CREATE"}
    [] mode = "w+" -> {"READ", "WRITE", "ERASE", "CREATE"}
    [] mode = "a"  -> {"WRITE", "APPEND", "CREATE"}

Closed == [name |-> NoText]

\* A file just opened or created.
Opened(name, cluster, length) ==
  [name |-> name, flags |-> {}, startcluster |-> cluster, filelength |-> length,
   bytenum |-> 0, address |-> Nowhere, dirty |-> FALSE, sector |-> Zeros,
   changed |-> FALSE, idx |-> Nowhere, cluster |-> Nowhere]

VARIABLES
  vol,      \* the volume and the library's state of it
  file,     \* the handles
  content,  \* history: what the calls so far have put into each file
  reply,    \* history: what the last read delivered and should have delivered
  power,    \* "on", or "off" once it has failed
  use       \* who calls

vars == <<vol, file, content, reply, power, use>>

OpenOn(n) == {h \in Handle : file[h].name = n}
Free      == {h \in Handle : file[h] = Closed}

(***************************************************************************)
(* Reading and writing sectors of a file.                                  *)
(***************************************************************************)
\* Follow a chain n links, remembering the last good cluster.
RECURSIVE WalkToEnd(_, _, _, _)
WalkToEnd(v, c, prev, n) ==
  LET Next(r) == WalkToEnd(r.v, r.next, c, n - 1)
  IN  IF n = 0 \/ c = EndOfChain THEN [v |-> v, next |-> c, last |-> prev]
      ELSE Next(FindNextCluster(v, c))

\* The cluster of index idx of a file: the one of the last lookup, the one after
\* it, or a walk from the first.
ClusterOf(v, f, idx) ==
  IF idx = f.idx THEN [v |-> v, next |-> f.cluster, last |-> EndOfChain]
  ELSE IF idx # 0 /\ idx = f.idx + 1 THEN WalkToEnd(v, f.cluster, EndOfChain, 1)
  ELSE WalkToEnd(v, f.startcluster, EndOfChain, idx)

\* Sectors from s to the end of its cluster, count at most.
InCluster(s, count) == Min({count, SectorsPerCluster - (s % SectorsPerCluster)})

ReadSectors(v, f, s, count) ==
  LET idx == s \div SectorsPerCluster
      n   == InCluster(s, count)
      From(r) == IF r.next = EndOfChain THEN [v |-> r.v, f |-> f, n |-> 0, data |-> <<>>]
                 ELSE [v |-> r.v, f |-> [f EXCEPT !.idx = idx, !.cluster = r.next], n |-> n,
                       data |-> MediaRead(r.v, LbaOfCluster(r.v, r.next) + (s % SectorsPerCluster), n)]
  IN  From(ClusterOf(v, f, idx))

WriteSectors(v, f, s, buf, count) ==
  LET idx == s \div SectorsPerCluster
      n   == InCluster(s, count)
      Put(a) == IF ~a.ok THEN [v |-> a.v, f |-> f, n |-> 0]
                ELSE [v |-> MediaWrite(a.v, LbaOfCluster(a.v, a.cluster) + (s % SectorsPerCluster), buf, n),
                      f |-> [f EXCEPT !.idx = idx, !.cluster = a.cluster], n |-> n]
      Reach(r) == IF r.next = EndOfChain
                  THEN AddFreeSpace(r.v, r.last, (count + SectorsPerCluster - 1) \div SectorsPerCluster)
                  ELSE [v |-> r.v, ok |-> TRUE, cluster |-> r.next]
  IN  Put(Reach(ClusterOf(v, f, idx)))

\* Mutant: the buffer is called clean and not written.
FlushNothing(v, f) == [v |-> v, f |-> [f EXCEPT !.dirty = FALSE]]

\* fl_fflush.
FlushFile(v, f) ==
  LET Clean(r) == [v |-> r.v, f |-> IF r.n = 0 THEN r.f ELSE [r.f EXCEPT !.dirty = FALSE]]
  IN  IF f.dirty THEN Clean(WriteSectors(v, f, f.address, [i \in {0} |-> f.sector], 1))
      ELSE [v |-> v, f |-> f]

\* Bring sector s into the buffer of the file.
Buffered(v, f, s) ==
  LET Filled(q) == [v |-> q.v, ok |-> q.n = 1,
                    f |-> IF q.n = 1
                          THEN [q.f EXCEPT !.address = s, !.dirty = FALSE, !.sector = q.data[0]]
                          ELSE q.f]
      Read(r) == Filled(ReadSectors(r.v, r.f, s, 1))
  IN  IF f.address = s THEN [v |-> v, f |-> f, ok |-> TRUE] ELSE Read(FlushFile(v, f))

\* The loop of fl_fread: left bytes to go, got those delivered.
RECURSIVE ReadLoop(_, _, _, _)
ReadLoop(v, f, left, got) ==
  LET s     == f.bytenum \div SectorSlots
      o     == f.bytenum % SectorSlots
      Go(u, new) == ReadLoop(u.v, [u.f EXCEPT !.bytenum = @ + Len(new)], left - Len(new), got \o new)
      Whole(r) == Go(r, [i \in 1 .. r.n * SectorSlots |->
                           r.data[(i - 1) \div SectorSlots][(i - 1) % SectorSlots]])
      Part(b)  == Go(b, [i \in 1 .. Min({SectorSlots - o, left}) |-> b.f.sector[o + i - 1]])
      Stop(u)  == [v |-> u.v, f |-> u.f, got |-> got]
      WholeOr(r) == IF r.n = 0 THEN Stop(r) ELSE Whole(r)
      PartOr(b)  == IF b.ok THEN Part(b) ELSE Stop(b)
  IN  IF left = 0 THEN [v |-> v, f |-> f, got |-> got]
      ELSE IF o = 0 /\ left >= SectorSlots THEN WholeOr(ReadSectors(v, f, s, left \div SectorSlots))
      ELSE PartOr(Buffered(v, f, s))

\* The loop of fl_fwrite: left bytes d to go.  A sector that cannot be read for a
\* partial write starts as zeros; a whole one bypasses and empties the buffer.
RECURSIVE WriteLoop(_, _, _, _)
WriteLoop(v, f, d, left) ==
  LET s == f.bytenum \div SectorSlots
      o == f.bytenum % SectorSlots
      n == Min({SectorSlots - o, left})
      Wrote(w) == IF w.n = 0 THEN [v |-> w.v, f |-> w.f]
                  ELSE WriteLoop(w.v, [w.f EXCEPT !.bytenum = @ + w.n * SectorSlots], d,
                                 left - w.n * SectorSlots)
      Whole(l) == Wrote(WriteSectors(l.v, [l.f EXCEPT !.address = Nowhere, !.dirty = FALSE], s,
                          [i \in 0 .. left \div SectorSlots - 1 |-> [j \in Slots |-> d]],
                          left \div SectorSlots))
      Put(w, k) == WriteLoop(w, [k EXCEPT
                     !.sector = [i \in Slots |-> IF i \in o .. o + n - 1 THEN d ELSE @[i]],
                     !.dirty = TRUE, !.bytenum = @ + n], d, left - n)
      Part(b)  == Put(b.v, IF b.ok THEN b.f
                           ELSE [b.f EXCEPT !.address = s, !.dirty = FALSE, !.sector = Zeros])
  IN  IF left = 0 THEN [v |-> v, f |-> f]
      ELSE IF o # 0 \/ left < SectorSlots THEN Part(Buffered(v, f, s))
      ELSE Whole(IF f.address # Nowhere THEN FlushFile(v, f) ELSE [v |-> v, f |-> f])

(***************************************************************************)
(* The calls.  Each answers [v, file]: the volume and the handle table it  *)
(* leaves.                                                                 *)
(***************************************************************************)
NoHandle(v) == [v |-> v, file |-> file]

GiveHandle(v, f) == [v |-> Purge(v), file |-> [file EXCEPT ![Min(Free)] = f]]

\* _open_file: a handle must be free and no other open on the same name.
OpenFile(v, n, flags) ==
  LET Found(r) == IF r.ok THEN GiveHandle(r.v, [Opened(n, r.entry[3], r.entry[4]) EXCEPT !.flags = flags])
                  ELSE NoHandle(r.v)
  IN  IF Free = {} \/ OpenOn(n) # {} THEN NoHandle(v)
      ELSE Found(GetFileEntry(v, RootCluster(v), n, 0, NoText))

\* _create_file: names are distinct, so the first short name tried is free.
CreateFile(v, n, flags) ==
  LET dir == RootCluster(v)
      Added(e, c) == IF e.ok THEN GiveHandle(e.v, [Opened(n, c, 0) EXCEPT !.flags = flags])
                     ELSE NoHandle(FreeClusterChain(e.v, c))
      Room(a) == IF a.ok THEN Added(AddFileEntry(FindSfn(a.v, dir, n, 0).v, dir, n, a.cluster), a.cluster)
                 ELSE NoHandle(a.v)
      Found(r) == IF r.ok THEN NoHandle(r.v) ELSE Room(AllocateFreeSpace(r.v))
  IN  IF Free = {} \/ OpenOn(n) # {} THEN NoHandle(v) ELSE Found(GetFileEntry(v, dir, n, 0, NoText))

\* fl_fopen: a file is opened for reading, else created, else opened for writing.
FOpen(n, mode) ==
  LET flags == Flags(mode)
      Third(c)  == IF c.file = file /\ "READ" \notin flags /\ "CREATE" \in flags
                   THEN OpenFile(c.v, n, flags) ELSE c
      Second(r) == Third(IF r.file = file /\ "CREATE" \in flags THEN CreateFile(r.v, n, flags) ELSE r)
  IN  Second(IF "READ" \in flags THEN OpenFile(vol, n, flags) ELSE NoHandle(vol))

\* Mutant: the length is not written to the directory.
WithoutLength(r) == r.v

\* The length of a file that changed goes to its directory entry.
WithLength(r) ==
  IF r.f.changed THEN UpdateFileLength(r.v, RootCluster(vol), r.f.name, r.f.filelength) ELSE r.v

FClose(h) ==
  [v |-> Purge(WithLength(FlushFile(vol, file[h]))), file |-> [file EXCEPT ![h] = Closed]]

\* fl_fread of n bytes; got is what it delivers.
FRead(h, n) ==
  LET f == file[h]
      Got(r) == [v |-> r.v, file |-> [file EXCEPT ![h] = r.f], got |-> r.got]
  IN  IF "READ" \notin f.flags \/ f.bytenum >= f.filelength
      THEN [v |-> vol, file |-> file, got |-> <<>>]
      ELSE Got(ReadLoop(vol, f, Min({n, f.filelength - f.bytenum}), <<>>))

\* The handle after the loop of fl_fwrite: the length follows the position.
Longer(f) == IF f.bytenum > f.filelength THEN [f EXCEPT !.filelength = f.bytenum, !.changed = TRUE] ELSE f

\* Mutant: an append starts where the position is.
FWriteAnywhere(h, d, n) ==
  LET Put(r) == [v |-> r.v, file |-> [file EXCEPT ![h] = Longer(r.f)]]
  IN  IF "WRITE" \notin file[h].flags THEN NoHandle(vol) ELSE Put(WriteLoop(vol, file[h], d, n))

\* fl_fwrite of n bytes d.
FWrite(h, d, n) ==
  LET Put(r) == [v |-> r.v, file |-> [file EXCEPT ![h] = Longer(r.f)]]
      At(f)  == IF "APPEND" \in f.flags THEN [f EXCEPT !.bytenum = f.filelength] ELSE f
  IN  IF "WRITE" \notin file[h].flags THEN NoHandle(vol) ELSE Put(WriteLoop(vol, At(file[h]), d, n))

\* Mutant: the position may lie past the end.
FSeekFar(h, to) ==
  [v |-> vol,
   file |-> [file EXCEPT ![h] = [@ EXCEPT !.address = Nowhere, !.dirty = FALSE, !.bytenum = to]]]

\* fl_fseek from the start: the buffer is dropped, dirty or not.
FSeek(h, to) ==
  [v |-> vol,
   file |-> [file EXCEPT ![h] = [@ EXCEPT !.address = Nowhere, !.dirty = FALSE,
                                          !.bytenum = Min({to, file[h].filelength})]]]

FFlush(h) ==
  LET Put(r) == [v |-> r.v, file |-> [file EXCEPT ![h] = r.f]] IN Put(FlushFile(vol, file[h]))

\* fl_remove opens the file for reading, frees its chain, marks its entry and
\* closes it; removed tells whether it got that far.
FRemove(n) ==
  LET Marked(m, o) == [v |-> IF m.ok THEN Purge(m.v) ELSE m.v, removed |-> m.ok,
                       file |-> IF m.ok THEN file ELSE o.file]
      Freed(o, f)  == Marked(MarkFileDeleted(FreeClusterChain(o.v, f.startcluster), RootCluster(vol), n), o)
      Got(o) == IF o.file = file THEN [v |-> o.v, file |-> file, removed |-> FALSE]
                ELSE Freed(o, o.file[Min(Free)])
  IN  Got(FOpen(n, "r"))

(***************************************************************************)
(* The state machine.                                                      *)
(***************************************************************************)
\* fl_attach_media on a medium: every buffer empty.
Mounted(type, medium) ==
  [type |-> type, buffers |-> NoBuffers, cur |-> [address |-> Nowhere, sector |-> Zeros],
   hint |-> TRUE, medium |-> medium, writes |-> <<>>]

\* An empty root directory; the first clusters and those of other files are taken.
EmptyFat(type) ==
  [c \in 0 .. FatSectors * FatEntries - 1 |-> IF c \in FreeClusters[type] THEN 0 ELSE EndOfChain]

EmptyMedium(type) ==
  [lba \in 0 .. LbaOfCluster([type |-> type], ClustersKept + 2) |->
     IF lba \in FatBegin .. RootBegin - 1
     THEN [e \in 0 .. FatEntries - 1 |-> EmptyFat(type)[(lba - FatBegin) * FatEntries + e]]
     ELSE Zeros]

Init ==
  /\ vol \in {Mounted(t, EmptyMedium(t)) : t \in Types}
  /\ file = [h \in Handle |-> Closed]
  /\ content = <<>>
  /\ reply = <<>>
  /\ power = "on"
  /\ use \in Uses

\* A call completes: its writes are on the medium.
Done(r) ==
  /\ power = "on"
  /\ vol' = [r.v EXCEPT !.writes = <<>>]
  /\ file' = r.file
  /\ UNCHANGED <<power, use>>

\* disks.s seeks and moves whole sectors; fat-fs.c moves bytes and never seeks.
Counts == IF use = "sectors" THEN {SectorSlots} ELSE ByteCounts

\* Bound: byte writes stop before the volume is full, a cluster kept for the
\* directory: the library reports bytes it will find no cluster for as written.
ClustersOf(length) == Max({1, (length + SectorSlots * SectorsPerCluster - 1)
                               \div (SectorSlots * SectorsPerCluster)})
Fits(n, k) ==
  LET after(m) == (IF m \in DOMAIN content THEN Len(content[m]) ELSE 0) + IF m = n THEN k ELSE 0
  IN  use = "bytes" =>
        FoldFunction(+, 0, [m \in DOMAIN content \cup {n} |-> ClustersOf(after(m))])
          < Cardinality(FreeClusters[vol.type])

\* The bytes of a file once d has been written n times from position p on.
Overwritten(old, p, n, d) ==
  [i \in 1 .. Max({Len(old), p + n}) |-> IF i \in p + 1 .. p + n THEN d ELSE old[i]]

Open(n, mode) ==
  /\ Fits(n, 0)
  /\ Done(FOpen(n, mode))
  /\ reply' = <<>>
  /\ content' = IF file' # file /\ n \notin DOMAIN content
                THEN [m \in DOMAIN content \cup {n} |-> IF m = n THEN <<>> ELSE content[m]]
                ELSE content

Close(h) == file[h] # Closed /\ Done(FClose(h)) /\ reply' = <<>> /\ UNCHANGED content

\* What a read of n bytes promises: the bytes from the position on that exist.
Promised(f, n) ==
  IF "READ" \notin f.flags THEN <<>>
  ELSE SubSeq(content[f.name], f.bytenum + 1, Min({Len(content[f.name]), f.bytenum + n}))

Read(h, n) ==
  LET Answer(r) == Done(r) /\ reply' = <<r.got, Promised(file[h], n)>>
  IN  /\ file[h] # Closed
      /\ Answer(FRead(h, n))
      /\ UNCHANGED content

\* The bytes a write got rid of are those its position moved over.
Write(h, d, n) ==
  LET Text(g, p) == IF "WRITE" \in g.flags
                    THEN [content EXCEPT ![g.name] = Overwritten(@, p, g.bytenum - p, d)]
                    ELSE content
  IN  /\ file[h] # Closed
      /\ Fits(file[h].name, n)
      /\ Done(FWrite(h, d, n))
      /\ content' = Text(file'[h], IF "APPEND" \in file[h].flags
                                  THEN Len(content[file[h].name]) ELSE file[h].bytenum)
      /\ reply' = <<>>

Seek(h, to) ==
  /\ use = "sectors"
  /\ file[h] # Closed
  /\ Done(FSeek(h, to * SectorSlots))
  /\ reply' = <<>>
  /\ UNCHANGED content

Flush(h) == file[h] # Closed /\ Done(FFlush(h)) /\ reply' = <<>> /\ UNCHANGED content

RemoveFile(n) ==
  LET Answer(r) == /\ Done(r)
                   /\ content' = IF r.removed THEN [m \in DOMAIN content \ {n} |-> content[m]] ELSE content
  IN  Answer(FRemove(n)) /\ reply' = <<>>

\* What the calls could do next, each with the file it is about.
Calls ==
  {<<n, FOpen(n, m)>> : n \in {k \in Names : Fits(k, 0)}, m \in Modes} \cup {<<n, FRemove(n)>> : n \in Names}
  \cup UNION {{<<file[h].name, FClose(h)>>, <<file[h].name, FFlush(h)>>}
              \cup {<<file[h].name, FWrite(h, d, n)>> : d \in Bytes, n \in {k \in Counts : Fits(file[h].name, k)}}
              : h \in Handle \ Free}

\* Power fails after k of the writes of a call, or between two calls.  Nothing is
\* promised of the file the call was about and of those open for writing.
PowerFails ==
  /\ power = "on"
  /\ \E c \in Calls : \E k \in 0 .. Len(c[2].v.writes) :
       /\ vol' = Mounted(vol.type, AfterWrites(vol.medium, c[2].v.writes, k))
       /\ content' = [m \in {n \in DOMAIN content \ {c[1]} :
                               \A h \in OpenOn(n) : "WRITE" \notin file[h].flags} |-> content[m]]
  /\ file' = [h \in Handle |-> Closed]
  /\ reply' = <<>>
  /\ power' = "off"
  /\ UNCHANGED use

Next ==
  \/ \E n \in Names, m \in Modes : Open(n, m)
  \/ \E n \in Names : RemoveFile(n)
  \/ \E h \in Handle : Close(h) \/ Flush(h)
  \/ \E h \in Handle, n \in Counts : Read(h, n)
  \/ \E h \in Handle, n \in Counts, d \in Bytes : Write(h, d, n)
  \/ \E h \in Handle, to \in Offsets : Seek(h, to)
  \/ PowerFails

Spec == Init /\ [][Next]_vars

(***************************************************************************)
(* Properties.                                                             *)
(***************************************************************************)
Cluster == 2 .. ClustersKept + 1

\* The chain from cluster c as the library sees it, no longer than the volume.
RECURSIVE ChainFrom(_, _, _)
ChainFrom(v, c, n) ==
  IF n = 0 \/ c \in {EndOfChain, 0} THEN <<>>
  ELSE <<c>> \o ChainFrom(v, FindNextCluster(v, c).next, n - 1)

Chain(c) == ChainFrom(vol, c, ClustersKept + 1)

Entry(n) == GetFileEntry(vol, RootCluster(vol), n, 0, NoText)

\* The bytes a fresh reader finds in the file of entry e.
Stored(e) ==
  LET Sector(c, s) == vol.medium[LbaOfCluster(vol, c[s \div SectorsPerCluster + 1]) + (s % SectorsPerCluster)]
      Along(c) == [i \in 1 .. e[4] |-> Sector(c, (i - 1) \div SectorSlots)[(i - 1) % SectorSlots]]
  IN  Along(Chain(e[3]))

\* Everything has its type: the buffers address the FAT or nothing, an open
\* file starts at a cluster of the volume and its position is inside it.
TypeOK ==
  /\ vol.type \in Types /\ vol.hint \in BOOLEAN /\ vol.writes = <<>>
  /\ \A i \in 1 .. FAT_BUFFERS :
       /\ vol.buffers[i].address \in {Nowhere} \cup FatBegin .. RootBegin - 1
       /\ vol.buffers[i].dirty \in BOOLEAN
  /\ \A h \in Handle \ Free :
       /\ file[h].name \in DOMAIN content
       /\ file[h].startcluster \in Cluster
       /\ file[h].bytenum \in 0 .. file[h].filelength
       /\ file[h].idx = Nowhere \/ file[h].cluster \in Cluster
  /\ power \in {"on", "off"} /\ use \in Uses

\* A read delivers the bytes last written at its position, up to the end of the
\* file, through every combination of buffers and cached chain positions
\* (fl_fread, fl_fwrite, fl_fseek).
ReadDelivers == reply # <<>> => reply[1] = reply[2]

\* A closed file holds what was written to it, whatever happens to other files,
\* even if power fails at any write of a call about another file.
ClosedFilesKept ==
  LET Kept(r, n) == r.ok /\ Stored(r.entry) = content[n]
  IN  \A n \in DOMAIN content : OpenOn(n) = {} => Kept(Entry(n), n)

\* The directory lists the files created and not removed, and nothing else
\* (fatfs_add_file_entry, fatfs_mark_file_deleted against the listing).
ListingMatches == power = "on" => Listing(vol, RootCluster(vol), 0, NoText) = DOMAIN content

\* Every cluster of the volume is free or in exactly one chain, and every chain
\* ends: nothing is lost by a full disk or a failed create, nothing shared.
ChainsPartition ==
  LET Roots  == {RootCluster(vol)} \ {0}
      Ends(c) == c # <<>> /\ FindNextCluster(vol, Last(c)).next = EndOfChain
      Disjoint(chains) ==
        /\ Cardinality(chains) = Cardinality(DOMAIN content) + Cardinality(Roots)
        /\ \A c \in chains : Ends(c)
        /\ \A c, d \in chains : c # d => ToSet(c) \cap ToSet(d) = {}
        /\ \A k \in FreeClusters[vol.type] :
             FatEntry(vol, k).next # 0 <=> \E c \in chains : k \in ToSet(c)
  IN  power = "on" => Disjoint({Chain(c) : c \in {Entry(n).entry[3] : n \in DOMAIN content} \cup Roots})

\* A FAT buffer without unsaved changes holds what is on the medium, and so does
\* the directory buffer: "Purge 'dirty' FAT sectors to disk" (fat_table.c).
BuffersMatchMedium ==
  /\ \A i \in 1 .. FAT_BUFFERS : LET b == vol.buffers[i] IN
       b.address # Nowhere /\ ~b.dirty =>
         \A j \in 0 .. FAT_BUFFER_SECTORS - 1 :
           b.address + j < RootBegin => b.sector[j] = vol.medium[b.address + j]
  /\ vol.cur.address # Nowhere => vol.cur.sector = vol.medium[vol.cur.address]
================================================================================
