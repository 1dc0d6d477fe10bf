--------------------------- MODULE CromixFilesProofs ---------------------------
(***************************************************************************)
(* What loading a Cromix file stores and answers, for every contents of    *)
(* the disks.  The invariant says where the three nested loops have got to *)
(* (Loops), what has been stored so far (Stored) and, as long as no read   *)
(* failed and no pointer block was passed over, that the number of blocks  *)
(* done is what the loops' counters say (Placed).                          *)
(***************************************************************************)
EXTENDS CromixFiles, TLAPS

Outer == IF group = 0 THEN 1 ELSE group

\* The open loops have their tables and counters.
Loops ==
  pc = "extract" =>
    /\ level <= Outer
    /\ \A l \in 1 .. 3 : level # 0 /\ level <= l /\ l <= Outer =>
         /\ index[l] \in 0 .. Limit
         /\ ptrs[l] \in IF group = 0 THEN [0 .. 18 -> Nat] ELSE Pointers

\* The bytes stored and the bytes left make up the file.
Counts ==
  pc = "extract" =>
    /\ offset + remaining = entry_inode.size
    /\ remaining > 0 => offset % BLOCK_LENGTH = 0
    /\ remaining < 0 => offset = 0

\* So far the stores lie in the file.
Stored ==
  pc \in {"extract", "done"} =>
    \A w \in writes : /\ w.at % BLOCK_LENGTH = 0 /\ w.at < entry_inode.size
                      /\ w.at + w.bytes < entry_inode.size + BLOCK_LENGTH

\* Block n has been stored.
Has(n) == \E w \in writes : /\ w.at = BLOCK_LENGTH * n
                            /\ w.at + w.bytes >= entry_inode.size \/ w.bytes = BLOCK_LENGTH

Covered ==
  pc = "extract" /\ ~failed => \A n \in Nat : BLOCK_LENGTH * n < offset => Has(n)

\* Nothing is stored before the file is found.
Fresh ==
  /\ pc \in {"blocks", "entries"} => writes = {}
  /\ pc = "entries" => i < DirectPointers

\* The table of pointers in a block, and how many data blocks come before the
\* loops of each group.
TableOf(b) == medium[disk].pointers[b]
Before == CASE group = 0 -> 0
            [] group = 1 -> 16
            [] group = 2 -> 144
            [] group = 3 -> 16528

\* The data blocks done by the counters of the loops.
Position ==
  CASE level = 0 -> (CASE group = 0 -> 16
                       [] group = 1 -> 144
                       [] group = 2 -> 16528
                       [] group = 3 -> 2113680)
    [] level = 1 /\ group \in {0, 1} -> Before + index[1]
    [] level = 1 /\ group = 2 -> Before + 128 * (index[2] - 1) + index[1]
    [] level = 1 /\ group = 3 -> Before + 16384 * (index[3] - 1) + 128 * (index[2] - 1) + index[1]
    [] level = 2 /\ group = 2 -> Before + 128 * index[2]
    [] level = 2 /\ group = 3 -> Before + 16384 * (index[3] - 1) + 128 * index[2]
    [] level = 3 -> Before + 16384 * index[3]

\* The tables of the open loops are those the pointers lead to.
Tables ==
  /\ group = 0 /\ level = 1 => ptrs[1] = entry_inode.ptrs
  /\ group # 0 /\ level # 0 => ptrs[group] = TableOf(entry_inode.ptrs[15 + group])
  /\ \A l \in 1 .. 2 : level # 0 /\ level <= l /\ l < group =>
       /\ index[l + 1] \in 1 .. 128
       /\ ptrs[l] = TableOf(ptrs[l + 1][index[l + 1] - 1])

Placed ==
  pc = "extract" /\ ~failed /\ ~skipped /\ remaining > 0 =>
    /\ Tables
    /\ offset = BLOCK_LENGTH * Position

Inv ==
  /\ TypeOK /\ Loops /\ Counts /\ Stored /\ Covered /\ Fresh /\ Placed
  /\ BlocksInPlace /\ LoadedWhole

LEMMA InodeType ==
  ASSUME medium \in [Disks -> Media], NEW d \in Disks, NEW f \in Nat, NEW n \in Nat \ {0}
  PROVE  InodeOf(d, f, n) \in Inode
<1> DEFINE b == f + (n - 1) \div 4
           k == (n - 1) % 4
<1>1. b \in Nat /\ k \in 0 .. 3 OBVIOUS
<1>2. medium[d].inodes \in [Nat -> [0 .. 3 -> Inode]] BY DEF Media
<1> HIDE DEF b, k
<1>3. medium[d].inodes[b][k] \in Inode BY <1>1, <1>2
<1> QED BY <1>3 DEF InodeOf, b, k

\* What opening a disk leaves.
LEMMA OpenTypes ==
  ASSUME TypeOK, NEW d \in Disks, OpenDisk(d)
  PROVE  disk' \in Disks /\ first_inode' \in Nat /\ dir_inode' \in Inode /\ failed' \in BOOLEAN
<1>1. medium \in [Disks -> Media] /\ first_inode \in Nat BY DEF TypeOK
<1>2. disk' \in Disks BY DEF OpenDisk
<1>3. first_inode' \in Nat
  <2>1. medium[disk'].first_inode \in Nat BY <1>1, <1>2 DEF Media
  <2> QED BY <2>1, <1>1 DEF OpenDisk
<1>4. InodeOf(disk', first_inode', 1) \in Inode BY <1>1, <1>2, <1>3, InodeType
<1>5. dir_inode' \in Inode BY <1>4 DEF OpenDisk
<1>6. failed' \in BOOLEAN BY DEF OpenDisk
<1> QED BY <1>2, <1>3, <1>5, <1>6

LEMMA SearchSteps ==
  ASSUME Inv,
         \/ \E d \in Disks : ListCromixDirectory(d)
         \/ \E d \in Disks, name \in Names : ReadCromixFile(d, name)
         \/ NextDirectoryBlock
  PROVE  Inv'
<1>1. CASE \E d \in Disks : ListCromixDirectory(d)
  <2>1. PICK d \in Disks : ListCromixDirectory(d) BY <1>1
  <2>2. disk' \in Disks /\ first_inode' \in Nat /\ dir_inode' \in Inode /\ failed' \in BOOLEAN
    BY <2>1, OpenTypes DEF ListCromixDirectory, Inv
  <2>3. pc' = "idle" BY <2>1 DEF ListCromixDirectory
  <2>4. TypeOK' BY <2>1, <2>2 DEF ListCromixDirectory, Inv, TypeOK, place, loaded
  <2>5. Loops' /\ Counts' /\ Stored' /\ Covered' /\ Fresh' /\ Placed' /\ BlocksInPlace' /\ LoadedWhole'
    BY <2>3 DEF Loops, Counts, Stored, Covered, Fresh, Placed, BlocksInPlace, LoadedWhole
  <2> QED BY <2>4, <2>5 DEF Inv
<1>2. CASE \E d \in Disks, name \in Names : ReadCromixFile(d, name)
  <2>1. PICK d \in Disks, name \in Names : ReadCromixFile(d, name) BY <1>2
  <2>2. disk' \in Disks /\ first_inode' \in Nat /\ dir_inode' \in Inode /\ failed' \in BOOLEAN
    BY <2>1, OpenTypes DEF ReadCromixFile, Inv
  <2>3. pc' = "blocks" /\ writes' = {} BY <2>1 DEF ReadCromixFile
  <2>4. TypeOK'
    <3>1. /\ i' = 0 /\ writes' = {} /\ skipped' = FALSE
          /\ target' = name /\ pc' = "blocks"
      BY <2>1 DEF ReadCromixFile
    <3>2. UNCHANGED <<medium, block, j, entry_inode, group, level, ptrs, index, offset, remaining, result>>
      BY <2>1 DEF ReadCromixFile, place
    <3>3. 0 \in 0 .. DirectPointers /\ {} \subseteq Store BY DEF DirectPointers
    <3> QED BY <2>2, <3>1, <3>2, <3>3 DEF Inv, TypeOK
  <2>5. Loops' /\ Counts' /\ Stored' /\ Covered' /\ Fresh' /\ Placed' /\ BlocksInPlace' /\ LoadedWhole'
    BY <2>3 DEF Loops, Counts, Stored, Covered, Fresh, Placed, BlocksInPlace, LoadedWhole
  <2> QED BY <2>4, <2>5 DEF Inv
<1>3. CASE NextDirectoryBlock
  <2>1. pc = "blocks" /\ writes = {} /\ writes' = {} BY <1>3 DEF NextDirectoryBlock, loaded, Inv, Fresh
  <2>2. pc' \in {"blocks", "entries"} \/ (pc' = "done" /\ result' = 0)
    BY <1>3 DEF NextDirectoryBlock
  <2>6. pc' = "entries" => i' < DirectPointers
    BY <2>1, <1>3 DEF NextDirectoryBlock
  <2>3. block' \in Directory /\ failed' \in BOOLEAN
    <3>1. ASSUME NEW b \in Nat PROVE medium[disk].directories[b] \in Directory
      BY <3>1 DEF Inv, TypeOK, Media
    <3>2. \A k \in 0 .. 15 : dir_inode.ptrs[k] \in Nat
      BY DEF Inv, TypeOK, Inode
    <3>3. i \in 0 .. 16 /\ disk \in Disks /\ block \in Directory /\ failed \in BOOLEAN
      BY DEF Inv, TypeOK, DirectPointers
    <3>4. CASE i < DirectPointers /\ dir_inode.ptrs[i] # 0
      <4>1. Reads(medium[disk].directories[dir_inode.ptrs[i]], Directory, block')
        BY <1>3, <3>4 DEF NextDirectoryBlock, DirectPointers
      <4>2. dir_inode.ptrs[i] \in Nat BY <3>2, <3>3, <3>4 DEF DirectPointers
      <4> QED BY <4>1, <4>2, <3>1, <3>3 DEF Reads
    <3>5. CASE ~(i < DirectPointers /\ dir_inode.ptrs[i] # 0)
      BY <1>3, <3>3, <3>5 DEF NextDirectoryBlock, DirectPointers
    <3> QED BY <3>4, <3>5
  <2>4. TypeOK'
    BY <1>3, <2>3 DEF NextDirectoryBlock, Inv, TypeOK, place, loaded, DirectPointers, DirEntries
  <2>5. Loops' /\ Counts' /\ Stored' /\ Covered' /\ Fresh' /\ Placed' /\ BlocksInPlace' /\ LoadedWhole'
    BY <2>1, <2>2, <2>6 DEF Loops, Counts, Stored, Covered, Fresh, Placed, BlocksInPlace, LoadedWhole
  <2> QED BY <2>4, <2>5 DEF Inv
<1> QED BY <1>1, <1>2, <1>3

LEMMA EntrySteps ==
  ASSUME Inv, NextEntry
  PROVE  Inv'
<1> USE DEF Inv
<1>1. pc = "entries" /\ writes = {} /\ writes' = {} BY DEF NextEntry, Fresh
<1>2. entry_inode' \in Inode /\ failed' \in BOOLEAN
  <2>1. \A n \in Nat \ {0} : InodeOf(disk, first_inode, n) \in Inode BY InodeType DEF TypeOK
  <2>2. \A k \in 0 .. 15 : block[k].inode \in Nat BY DEF TypeOK, Directory, Entry, DirEntries
  <2>3. j \in 0 .. 16 /\ entry_inode \in Inode /\ failed \in BOOLEAN BY DEF TypeOK, DirEntries
  <2>4. CASE ReadInode(block[j].inode, entry_inode') /\ j < 16
    <3>1. block[j].inode \in Nat BY <2>2, <2>3, <2>4
    <3> QED BY <2>1, <2>3, <2>4, <3>1 DEF ReadInode, Reads
  <2>5. CASE ~(ReadInode(block[j].inode, entry_inode') /\ j < 16)
    BY <2>3, <2>5 DEF NextEntry, DirEntries
  <2> QED BY <2>4, <2>5
<1>3. CASE pc' = "extract"
  <2>1. /\ group' = 0 /\ level' = 1 /\ offset' = 0 /\ remaining' = entry_inode'.size
        /\ ptrs' = [ptrs EXCEPT ![1] = entry_inode'.ptrs]
        /\ index' = [index EXCEPT ![1] = 0]
        /\ UNCHANGED <<i, j>>
    BY <1>1, <1>3 DEF NextEntry, Extract, place
  <2>2. entry_inode'.ptrs \in [0 .. 18 -> Nat] /\ entry_inode'.size \in Int BY <1>2 DEF Inode
  <2>3. ptrs'[1] = entry_inode'.ptrs /\ index'[1] = 0 BY <2>1 DEF TypeOK
  <2>4. TypeOK'
    <3>1. ptrs' \in [1 .. 3 -> Table] /\ index' \in [1 .. 3 -> 0 .. BLOCK_POINTER_COUNT]
      BY <2>1, <2>2 DEF TypeOK, Table, BLOCK_POINTER_COUNT
    <3>2. UNCHANGED <<medium, disk, first_inode, target, dir_inode, block, writes, result, skipped>>
      BY DEF NextEntry
    <3> QED BY <1>2, <1>3, <2>1, <2>2, <3>1, <3>2 DEF TypeOK
  <2>5. Loops' /\ Counts' /\ Stored' /\ Covered' /\ Fresh' /\ BlocksInPlace' /\ LoadedWhole'
    BY <1>1, <1>3, <2>1, <2>2, <2>3
    DEF Loops, Counts, Stored, Covered, Fresh, BlocksInPlace, LoadedWhole, Outer, Limit, DirectPointers,
        BLOCK_LENGTH
  <2>6. Placed'
    BY <1>3, <2>1, <2>3 DEF Placed, Tables, Position, Before, BLOCK_LENGTH
  <2> QED BY <2>4, <2>5, <2>6
<1>4. CASE pc' # "extract"
  <2>1. pc' \in {"blocks", "entries"} BY <1>1, <1>4 DEF NextEntry, Extract
  <2>2. TypeOK'
    <3>1. UNCHANGED <<medium, disk, first_inode, target, dir_inode, block, writes, result, skipped>>
      BY DEF NextEntry
    <3>2. UNCHANGED <<group, level, ptrs, index, offset, remaining>>
      BY <1>4 DEF NextEntry, Extract, place
    <3>3. i' \in 0 .. 16 /\ j' \in 0 .. 16
      <4>1. i \in 0 .. 16 /\ j \in 0 .. 16 BY DEF TypeOK, DirEntries, DirectPointers
      <4>2. i < 16 BY <1>1 DEF Fresh, DirectPointers
      <4> QED BY <1>1, <1>4, <4>1, <4>2 DEF NextEntry, Extract, DirEntries
    <3> QED BY <1>2, <2>1, <3>1, <3>2, <3>3 DEF TypeOK, DirEntries, DirectPointers
  <2>3. Loops' /\ Counts' /\ Stored' /\ Covered' /\ Fresh' /\ Placed' /\ BlocksInPlace' /\ LoadedWhole'
    <3>1. pc' = "entries" => i' < DirectPointers BY <1>1, <1>4 DEF NextEntry, Extract, Fresh
    <3> QED BY <1>1, <2>1, <3>1 DEF Loops, Counts, Stored, Covered, Fresh, Placed, BlocksInPlace, LoadedWhole
  <2> QED BY <2>2, <2>3
<1> QED BY <1>3, <1>4

\* The pointer the innermost loop is at is that of the block it is to load.
LEMMA PointerHere ==
  ASSUME Inv, pc = "extract", level = 1, ~failed, ~skipped, remaining > 0, index[1] # Limit
  PROVE  DataPointer(Position, ptrs[1][index[1]])
<1> DEFINE P    == 128
           K    == 0 .. P - 1
           k    == index[1]
           l    == index[2] - 1
           m    == index[3] - 1
           E(n) == entry_inode.ptrs[n]
<1>1. Tables BY DEF Inv, Placed
<1>2. group \in 0 .. 3 /\ index[1] \in 0 .. Limit BY DEF Inv, TypeOK, Loops, Outer
<1>3. CASE group = 0
  <2>1. k \in 0 .. 15 /\ ptrs[1] = entry_inode.ptrs
    BY <1>1, <1>2, <1>3 DEF Limit, DirectPointers, Tables
  <2>2. Position = k BY <1>3, <2>1 DEF Position, Before
  <2>3. Position < DirectPointers /\ ptrs[1][index[1]] = entry_inode.ptrs[Position] BY <2>1, <2>2 DEF DirectPointers
  <2> QED BY <2>3, Zenon DEF DataPointer
<1>4. CASE group = 1
  <2>1. k \in K /\ ptrs[1] = TableOf(E(16))
    BY <1>1, <1>2, <1>4 DEF Limit, BLOCK_POINTER_COUNT, Tables
  <2>2. Position = 16 + k BY <1>4, <2>1 DEF Position, Before
  <2>3. ptrs[1][k] = medium[disk].pointers[entry_inode.ptrs[16 + 0]][k] BY <2>1 DEF TableOf
  <2>4. \E x \in K : /\ Position = 16 + x
                    /\ ptrs[1][k] = medium[disk].pointers[entry_inode.ptrs[16 + 0]][x]
    BY ONLY <2>1, <2>2, <2>3
  <2> QED BY ONLY <2>4 DEF DataPointer, DirectPointers, BLOCK_POINTER_COUNT
<1>5. CASE group = 2
  <2>1. k \in K /\ l \in K /\ ptrs[2] = TableOf(E(17)) /\ ptrs[1] = TableOf(ptrs[2][l])
    BY <1>1, <1>2, <1>5 DEF Limit, BLOCK_POINTER_COUNT, Tables
  <2>2. Position = 16 + P + P * l + k BY <1>5, <2>1 DEF Position, Before
  <2>3. ptrs[1][k] = medium[disk].pointers[medium[disk].pointers[entry_inode.ptrs[16 + 1]][l]][k]
    BY <2>1 DEF TableOf
  <2> HIDE DEF l
  <2>4. \E x, y \in K : /\ Position = 16 + P + P * x + y
                       /\ ptrs[1][k] = medium[disk].pointers[medium[disk].pointers[entry_inode.ptrs[16 + 1]][x]][y]
    BY ONLY <2>1, <2>2, <2>3
  <2> QED BY ONLY <2>4 DEF DataPointer, DirectPointers, BLOCK_POINTER_COUNT
<1>6. CASE group = 3
  <2>1. /\ k \in K /\ l \in K /\ m \in K
        /\ ptrs[3] = TableOf(E(18)) /\ ptrs[2] = TableOf(ptrs[3][m]) /\ ptrs[1] = TableOf(ptrs[2][l])
    BY <1>1, <1>2, <1>6 DEF Limit, BLOCK_POINTER_COUNT, Tables
  <2>2. Position = 16 + P + P * P + P * P * m + P * l + k BY <1>6, <2>1 DEF Position, Before
  <2>3. ptrs[1][k] =
          medium[disk].pointers[medium[disk].pointers[medium[disk].pointers[entry_inode.ptrs[16 + 2]][m]][l]][k]
    <3>1. ptrs[1][k] = TableOf(TableOf(TableOf(E(18))[m])[l])[k] BY ONLY <2>1
    <3>2. 16 + 2 = 18 OBVIOUS
    <3> QED BY ONLY <3>1, <3>2 DEF TableOf
  <2> HIDE DEF l, m
  <2>4. \E z, x, y \in K :
          /\ Position = 16 + P + P * P + P * P * z + P * x + y
          /\ ptrs[1][k] =
               medium[disk].pointers[medium[disk].pointers[medium[disk].pointers[entry_inode.ptrs[16 + 2]][z]][x]][y]
    BY ONLY <2>1, <2>2, <2>3
  <2> QED BY ONLY <2>4 DEF DataPointer, DirectPointers, BLOCK_POINTER_COUNT
<1> QED BY <1>2, <1>3, <1>4, <1>5, <1>6

LEMMA SamePointers ==
  ASSUME UNCHANGED <<medium, disk, entry_inode>>, NEW n, NEW p
  PROVE  DataPointer(n, p)' <=> DataPointer(n, p)
BY DEF DataPointer

LEMMA LoadStep ==
  ASSUME Inv, LoadBlock
  PROVE  Inv'
<1> USE DEF Inv
<1> DEFINE pointer == ptrs[1][index[1]]
           w       == [at |-> offset, block |-> pointer, bytes |-> IF pointer # 0 THEN BLOCK_LENGTH ELSE Bytes]
<1>1. /\ pc = "extract" /\ level = 1 /\ pc' = pc
      /\ index[1] # Limit /\ remaining > 0
      /\ index' = [index EXCEPT ![1] = @ + 1]
      /\ offset' = offset + Bytes /\ remaining' = remaining - Bytes
      /\ UNCHANGED <<medium, disk, first_inode, target, dir_inode, block, i, j, entry_inode, group, level,
                     ptrs, result, skipped>>
  BY DEF LoadBlock, Over, search, TypeOK
<1>2. /\ offset \in Nat /\ remaining \in Nat /\ entry_inode.size \in Int
      /\ offset + remaining = entry_inode.size /\ offset % 512 = 0
      /\ index[1] \in 0 .. Limit /\ Limit \in {16, 128} /\ pointer \in Nat
      /\ failed \in BOOLEAN /\ writes \subseteq Store
  <2>1. index[1] \in 0 .. Limit /\ ptrs[1] \in IF group = 0 THEN [0 .. 18 -> Nat] ELSE Pointers
    BY <1>1 DEF Loops, Outer, TypeOK
  <2>2. Limit \in {16, 128} /\ (group = 0 => Limit = 16)
    BY DEF Limit, DirectPointers, BLOCK_POINTER_COUNT
  <2>3. pointer \in Nat BY <1>1, <2>1, <2>2 DEF Pointers, BLOCK_POINTER_COUNT
  <2>4. entry_inode.size \in Int BY DEF TypeOK, Inode
  <2> HIDE DEF pointer
  <2> QED BY <1>1, <2>1, <2>2, <2>3, <2>4 DEF Counts, TypeOK, BLOCK_LENGTH
<1>3. /\ Bytes \in 1 .. 512 /\ Bytes <= remaining
      /\ Bytes = 512 \/ Bytes = remaining
  BY <1>1, <1>2 DEF Bytes, BLOCK_LENGTH
<1>4. w \in Store /\ w.at = offset /\ w.block = pointer /\ w.bytes \in Bytes .. 512
      /\ (w.bytes = 512 \/ w.bytes = remaining)
  <2> HIDE DEF pointer
  <2> QED BY <1>2, <1>3 DEF Store, BLOCK_LENGTH
<1>5. \/ writes' = writes \cup {w} /\ failed' = failed
      \/ writes' = writes /\ failed' = TRUE
  BY DEF LoadBlock
<1> HIDE DEF pointer, w
<1>6. TypeOK'
  <2>1. index' \in [1 .. 3 -> 0 .. BLOCK_POINTER_COUNT]
    BY <1>1, <1>2 DEF TypeOK, BLOCK_POINTER_COUNT
  <2>2. offset' \in Nat /\ remaining' \in Int /\ writes' \subseteq Store /\ failed' \in BOOLEAN
    <3>1. offset' \in Nat /\ remaining' \in Int BY <1>1, <1>2, <1>3
    <3>2. writes' \subseteq Store /\ failed' \in BOOLEAN BY <1>2, <1>4, <1>5
    <3> QED BY <3>1, <3>2
  <2> QED BY <1>1, <2>1, <2>2 DEF TypeOK
<1>7. Loops'
  <2>1. Limit' = Limit /\ Outer' = Outer BY <1>1 DEF Limit, Outer
  <2>2. index'[1] \in 0 .. Limit /\ \A l \in 2 .. 3 : index'[l] = index[l]
    BY <1>1, <1>2 DEF TypeOK
  <2> QED BY <1>1, <2>1, <2>2 DEF Loops
<1>8. Counts' BY <1>1, <1>2, <1>3 DEF Counts, BLOCK_LENGTH
<1>9. Stored'
  <2>1. /\ w.at % BLOCK_LENGTH = 0 /\ w.at < entry_inode.size
        /\ w.at + w.bytes < entry_inode.size + BLOCK_LENGTH
    BY <1>1, <1>2, <1>4 DEF BLOCK_LENGTH
  <2> QED BY <1>1, <1>5, <2>1 DEF Stored
<1>10. Covered'
  <2> SUFFICES ASSUME ~failed', NEW n \in Nat, BLOCK_LENGTH * n < offset'
               PROVE  Has(n)'
    BY DEF Covered
  <2>1. ~failed /\ writes' = writes \cup {w} BY <1>2, <1>5
  <2>2. CASE BLOCK_LENGTH * n < offset
    <3>1. Has(n) BY <1>1, <2>1, <2>2 DEF Covered
    <3> QED BY <1>1, <2>1, <3>1 DEF Has
  <2>3. CASE BLOCK_LENGTH * n >= offset
    <3>1. w.at = BLOCK_LENGTH * n BY <1>1, <1>2, <1>3, <1>4, <2>3 DEF BLOCK_LENGTH
    <3>2. w.at + w.bytes >= entry_inode.size \/ w.bytes = BLOCK_LENGTH
      BY <1>2, <1>4 DEF BLOCK_LENGTH
    <3> QED BY <1>1, <2>1, <3>1, <3>2 DEF Has
  <2> QED BY <1>2, <2>2, <2>3 DEF BLOCK_LENGTH
<1>11. Fresh' BY <1>1 DEF Fresh
<1>12. LoadedWhole' BY <1>1 DEF LoadedWhole
<1>13. ASSUME ~failed', ~skipped'
       PROVE  /\ ~failed /\ ~skipped /\ Tables /\ offset = 512 * Position /\ Position \in Int
              /\ DataPointer(Position, w.block)
  <2>1. ~failed /\ ~skipped BY <1>1, <1>2, <1>5, <1>13
  <2>2. Tables /\ offset = 512 * Position BY <1>1, <2>1 DEF Placed, BLOCK_LENGTH
  <2>3. DataPointer(Position, w.block) BY <1>1, <1>4, <2>1, PointerHere DEF pointer
  <2>4. Position \in Int
    <3>1. group \in 0 .. 3 /\ index \in [1 .. 3 -> 0 .. 128] BY DEF TypeOK, BLOCK_POINTER_COUNT
    <3>2. index[1] \in Int /\ index[2] \in Int /\ index[3] \in Int BY <3>1
    <3> QED BY <1>1, <3>1, <3>2 DEF Position, Before
  <2> QED BY <2>1, <2>2, <2>3, <2>4
<1>14. BlocksInPlace'
  <2> SUFFICES ASSUME ~failed', ~skipped', NEW v \in writes'
               PROVE  DataPointer(v.at \div BLOCK_LENGTH, v.block)
    BY <1>1, SamePointers DEF BlocksInPlace, BLOCK_LENGTH
  <2>1. CASE v \in writes BY <1>1, <1>13, <2>1 DEF BlocksInPlace
  <2>2. CASE v = w
    <3>1. v.at \div BLOCK_LENGTH = Position BY <1>4, <1>13, <2>2 DEF BLOCK_LENGTH
    <3> QED BY <1>13, <2>2, <3>1
  <2> QED BY <1>5, <2>1, <2>2
<1>15. Placed'
  <2> SUFFICES ASSUME ~failed', ~skipped', remaining' > 0
               PROVE  Tables' /\ offset' = BLOCK_LENGTH * Position'
    BY DEF Placed
  <2>1. Bytes = 512 BY <1>1, <1>2, <1>3
  <2>2. index'[1] = index[1] + 1 /\ index'[2] = index[2] /\ index'[3] = index[3] BY <1>1 DEF TypeOK
  <2>3. Tables' BY <1>1, <1>13, <2>2 DEF Tables, TableOf
  <2>4. Position' = Position + 1
    <3>1. group \in 0 .. 3 /\ index \in [1 .. 3 -> 0 .. 128] BY DEF TypeOK, BLOCK_POINTER_COUNT
    <3>2. index[1] \in Int /\ index[2] \in Int /\ index[3] \in Int BY <3>1
    <3> QED BY <1>1, <2>2, <3>1, <3>2 DEF Position, Before
  <2> QED BY <1>1, <1>13, <2>1, <2>3, <2>4 DEF BLOCK_LENGTH
<1> QED BY <1>6, <1>7, <1>8, <1>9, <1>10, <1>11, <1>12, <1>14, <1>15

\* What a read of a pointer block leaves.
LEMMA OpenLeaves ==
  ASSUME TypeOK, NEW l \in 1 .. 3, NEW p \in Nat, NEW counts, Open(l, p, counts)
  PROVE  \/ /\ p = 0 /\ skipped' = TRUE /\ index' = counts
            /\ UNCHANGED <<level, ptrs, failed>>
         \/ /\ p # 0 /\ level' = l /\ index' = [counts EXCEPT ![l] = 0] /\ skipped' = skipped
            /\ failed' \in BOOLEAN
            /\ \E is \in Pointers : /\ ptrs' = [ptrs EXCEPT ![l] = is]
                                    /\ ~failed' => ~failed /\ is = TableOf(p)
BY DEF Open, Reads, TableOf, TypeOK

LEMMA ReturnStep ==
  ASSUME Inv, Return
  PROVE  Inv'
<1> USE DEF Inv
<1>1. /\ pc = "extract" /\ level # 0 /\ Over(level)
      /\ level' = IF level = group \/ group = 0 THEN 0 ELSE level + 1
      /\ UNCHANGED <<medium, disk, first_inode, target, dir_inode, block, i, j, entry_inode, pc, group, ptrs,
                     index, offset, remaining, writes, result, failed, skipped>>
  BY DEF Return, search, loaded
<1>2. group \in 0 .. 3 /\ level \in 1 .. 3 /\ level <= Outer /\ index \in [1 .. 3 -> 0 .. 128]
  BY <1>1 DEF Loops, TypeOK, BLOCK_POINTER_COUNT
<1>3. level' \in 0 .. 3 /\ level' <= Outer /\ (level' = 0 \/ level < level')
  BY <1>1, <1>2 DEF Outer
<1>4. TypeOK' BY <1>1, <1>3 DEF TypeOK
<1>5. Loops'
  <2>1. Limit' = Limit /\ Outer' = Outer BY <1>1 DEF Limit, Outer
  <2> QED BY <1>1, <1>2, <1>3, <2>1 DEF Loops
<1>6. Counts' /\ Stored' /\ Covered' /\ Fresh' /\ LoadedWhole'
  BY <1>1 DEF Counts, Stored, Covered, Has, Fresh, LoadedWhole
<1>7. BlocksInPlace' BY <1>1, SamePointers DEF BlocksInPlace
<1>8. Placed'
  <2> SUFFICES ASSUME ~failed, ~skipped, remaining > 0
               PROVE  Tables' /\ offset' = BLOCK_LENGTH * Position'
    BY <1>1 DEF Placed
  <2>1. Tables /\ offset = BLOCK_LENGTH * Position BY <1>1 DEF Placed
  <2>2. index[level] = Limit BY <1>1 DEF Over, TypeOK
  <2>3. Tables' BY <1>1, <1>2, <1>3, <2>1 DEF Tables, TableOf
  <2>4. Position' = Position
    <3>1. index[1] \in Int /\ index[2] \in Int /\ index[3] \in Int BY <1>2
    <3>2. CASE group \in {0, 1}
      BY <1>1, <1>2, <2>2, <3>1, <3>2
      DEF Position, Before, Outer, Limit, DirectPointers, BLOCK_POINTER_COUNT
    <3>3. CASE group = 2
      BY <1>1, <1>2, <2>2, <3>1, <3>3
      DEF Position, Before, Outer, Limit, DirectPointers, BLOCK_POINTER_COUNT
    <3>4. CASE group = 3
      BY <1>1, <1>2, <2>2, <3>1, <3>4
      DEF Position, Before, Outer, Limit, DirectPointers, BLOCK_POINTER_COUNT
    <3> QED BY <1>2, <3>2, <3>3, <3>4
  <2> QED BY <1>1, <2>1, <2>3, <2>4
<1> QED BY <1>4, <1>5, <1>6, <1>7, <1>8

LEMMA DescendStep ==
  ASSUME Inv, Descend
  PROVE  Inv'
<1> USE DEF Inv
<1> DEFINE p      == ptrs[level][index[level]]
           counts == [index EXCEPT ![level] = @ + 1]
<1>1. /\ pc = "extract" /\ level \in {2, 3} /\ index[level] # Limit /\ remaining > 0
      /\ Open(level - 1, p, counts)
      /\ UNCHANGED <<medium, disk, first_inode, target, dir_inode, block, i, j, entry_inode, pc, group,
                     offset, remaining, writes, result>>
  BY DEF Descend, Over, search, loaded, TypeOK
<1>2. /\ group \in 0 .. 3 /\ level <= group /\ Limit = 128 /\ Outer = group
      /\ index \in [1 .. 3 -> 0 .. 128] /\ index[level] \in 0 .. 127 /\ p \in Nat
  <2>1. group \in 0 .. 3 /\ level <= group /\ Outer = group /\ Limit = 128
    BY <1>1 DEF Loops, TypeOK, Outer, Limit, BLOCK_POINTER_COUNT
  <2>2. index \in [1 .. 3 -> 0 .. 128] BY DEF TypeOK, BLOCK_POINTER_COUNT
  <2>3. ptrs[level] \in Pointers BY <1>1, <2>1 DEF Loops
  <2>4. index[level] \in 0 .. 127 BY <1>1, <2>1, <2>2
  <2> QED BY <2>1, <2>2, <2>3, <2>4 DEF Pointers, BLOCK_POINTER_COUNT
<1>3. counts \in [1 .. 3 -> 0 .. 128] /\ counts[level] = index[level] + 1
      /\ \A l \in 1 .. 3 : l # level => counts[l] = index[l]
  BY <1>1, <1>2
<1> HIDE DEF p, counts
<1>4. \/ /\ p = 0 /\ skipped' = TRUE /\ index' = counts
         /\ UNCHANGED <<level, ptrs, failed>>
      \/ /\ p # 0 /\ level' = level - 1 /\ index' = [counts EXCEPT ![level - 1] = 0] /\ skipped' = skipped
         /\ failed' \in BOOLEAN
         /\ \E is \in Pointers : /\ ptrs' = [ptrs EXCEPT ![level - 1] = is]
                                 /\ ~failed' => ~failed /\ is = TableOf(p)
  <2>1. level - 1 \in 1 .. 3 BY <1>1
  <2> QED BY <1>1, <1>2, <2>1, OpenLeaves
<1>5. /\ level' \in 1 .. 3 /\ level' <= group
      /\ index' \in [1 .. 3 -> 0 .. 128] /\ failed' \in BOOLEAN /\ skipped' \in BOOLEAN
      /\ ptrs' \in [1 .. 3 -> Table]
      /\ \A l \in 1 .. 3 : level' <= l /\ l <= group => ptrs'[l] \in Pointers
  <2>1. \A l \in 1 .. 3 : level <= l /\ l <= group => ptrs[l] \in Pointers
    BY <1>1, <1>2 DEF Loops
  <2>2. CASE p = 0 BY <1>1, <1>2, <1>3, <1>4, <2>1, <2>2 DEF TypeOK
  <2>3. CASE p # 0
    <3>1. PICK is \in Pointers : ptrs' = [ptrs EXCEPT ![level - 1] = is] BY <1>4, <2>3
    <3>2. is \in Table BY DEF Table
    <3>3. ptrs' \in [1 .. 3 -> Table] BY <1>1, <3>1, <3>2 DEF TypeOK
    <3>4. ptrs'[level - 1] = is /\ \A l \in 1 .. 3 : l # level - 1 => ptrs'[l] = ptrs[l]
      BY <1>1, <3>1 DEF TypeOK
    <3>5. \A l \in 1 .. 3 : level - 1 <= l /\ l <= group => ptrs'[l] \in Pointers
      BY <1>1, <1>2, <2>1, <3>4
    <3> QED BY <1>1, <1>2, <1>3, <1>4, <2>3, <3>3, <3>5 DEF TypeOK
  <2> QED BY <2>2, <2>3
<1>6. TypeOK' BY <1>1, <1>2, <1>5 DEF TypeOK, BLOCK_POINTER_COUNT
<1>7. Loops'
  <2>1. Limit' = Limit /\ Outer' = Outer BY <1>1 DEF Limit, Outer
  <2> QED BY <1>1, <1>2, <1>5, <2>1 DEF Loops
<1>8. ~failed' => ~failed BY <1>4
<1>9. Counts' /\ Stored' /\ Covered' /\ Fresh' /\ LoadedWhole'
  BY <1>1, <1>8 DEF Counts, Stored, Covered, Has, Fresh, LoadedWhole
<1>10. ~skipped' => ~skipped BY <1>4
<1>11. BlocksInPlace' BY <1>1, <1>8, <1>10, SamePointers DEF BlocksInPlace
<1>12. Placed'
  <2> SUFFICES ASSUME ~failed', ~skipped'
               PROVE  Tables' /\ offset' = BLOCK_LENGTH * Position'
    BY DEF Placed
  <2>1. Tables /\ offset = BLOCK_LENGTH * Position BY <1>1, <1>8, <1>10 DEF Placed
  <2>2. /\ level' = level - 1 /\ index' = [counts EXCEPT ![level - 1] = 0]
        /\ ptrs' = [ptrs EXCEPT ![level - 1] = TableOf(p)]
    BY <1>4
  <2>3. /\ index'[level - 1] = 0 /\ index'[level] = index[level] + 1
        /\ \A l \in 1 .. 3 : l # level - 1 /\ l # level => index'[l] = index[l]
    BY <1>1, <1>2, <1>3, <2>2
  <2>4. /\ ptrs'[level - 1] = TableOf(ptrs[level][index[level]])
        /\ \A l \in 1 .. 3 : l # level - 1 => ptrs'[l] = ptrs[l]
    BY <1>1, <2>2 DEF TypeOK, p
  <2>5. Tables'
    <3>1. level' # 1 \/ group # 0 BY <1>1, <1>2
    <3>2. ptrs'[group] = TableOf(entry_inode.ptrs[15 + group])
      <4>1. group \in 1 .. 3 /\ group # level - 1 BY <1>1, <1>2
      <4>2. ptrs'[group] = ptrs[group] BY <2>4, <4>1
      <4> QED BY <1>1, <2>1, <4>1, <4>2 DEF Tables
    <3>3. ASSUME NEW l \in 1 .. 2, level' # 0, level' <= l, l < group
          PROVE  /\ index'[l + 1] \in 1 .. 128
                 /\ ptrs'[l] = TableOf(ptrs'[l + 1][index'[l + 1] - 1])
      <4>1. CASE l = level - 1
        <5>1. l + 1 = level /\ level # level - 1 BY <1>1, <4>1
        <5>2. index'[l + 1] = index[level] + 1 /\ ptrs'[l + 1] = ptrs[level]
          BY <1>1, <2>3, <2>4, <5>1
        <5> QED BY <1>2, <2>4, <4>1, <5>2
      <4>2. CASE l # level - 1
        <5>1. l + 1 \in 1 .. 3 /\ level <= l /\ l + 1 # level - 1 /\ l + 1 # level
          BY <1>1, <2>2, <3>3, <4>2
        <5>2. index'[l + 1] = index[l + 1] /\ ptrs'[l + 1] = ptrs[l + 1] /\ ptrs'[l] = ptrs[l]
          BY <2>3, <2>4, <4>2, <5>1
        <5>3. /\ index[l + 1] \in 1 .. 128
              /\ ptrs[l] = TableOf(ptrs[l + 1][index[l + 1] - 1])
          BY <1>1, <2>1, <3>3, <5>1 DEF Tables
        <5> QED BY <5>2, <5>3
      <4> QED BY <4>1, <4>2
    <3> QED BY <1>1, <3>1, <3>2, <3>3 DEF Tables, TableOf
  <2>6. Position' = Position
    <3>1. index[1] \in Int /\ index[2] \in Int /\ index[3] \in Int BY <1>2
    <3>2. CASE level = 2
      BY <1>1, <1>2, <2>2, <2>3, <3>1, <3>2 DEF Position, Before
    <3>3. CASE level = 3
      BY <1>1, <1>2, <2>2, <2>3, <3>1, <3>3 DEF Position, Before
    <3> QED BY <1>1, <3>2, <3>3
  <2> QED BY <1>1, <2>1, <2>5, <2>6
<1> QED BY <1>6, <1>7, <1>9, <1>11, <1>12

LEMMA GroupStep ==
  ASSUME Inv, NextGroup
  PROVE  Inv'
<1> USE DEF Inv
<1>1. /\ pc = "extract" /\ level = 0
      /\ UNCHANGED <<medium, disk, first_inode, target, dir_inode, block, i, j, entry_inode,
                     offset, remaining, writes>>
  BY DEF NextGroup, search, loaded
<1>2. /\ group \in 0 .. 3 /\ entry_inode.size \in Int /\ entry_inode.ptrs \in [0 .. 18 -> Nat]
      /\ index \in [1 .. 3 -> 0 .. 128] /\ remaining \in Int
  BY DEF TypeOK, Inode, BLOCK_POINTER_COUNT
<1>3. CASE /\ remaining = 0 \/ group = 3
           /\ pc' = "done" /\ result' = IF remaining = 0 THEN entry_inode.size ELSE 0
           /\ UNCHANGED <<place, failed, skipped>>
  <2>1. TypeOK' BY <1>1, <1>2, <1>3 DEF TypeOK, place
  <2>2. Loops' /\ Counts' /\ Covered' /\ Fresh' /\ Placed'
    BY <1>3 DEF Loops, Counts, Covered, Fresh, Placed
  <2>3. Stored' BY <1>1, <1>3 DEF Stored
  <2>4. BlocksInPlace' BY <1>1, <1>3, SamePointers DEF BlocksInPlace
  <2>5. LoadedWhole'
    <3> SUFFICES ASSUME result' # 0
                 PROVE  /\ result' = entry_inode.size
                        /\ ~failed => \A n \in Nat : BLOCK_LENGTH * n < result' => Has(n)
      BY <1>1, <1>3 DEF LoadedWhole, Has
    <3>1. remaining = 0 /\ result' = entry_inode.size BY <1>3
    <3>2. offset = entry_inode.size BY <1>1, <1>2, <3>1 DEF Counts, TypeOK
    <3> QED BY <1>1, <3>1, <3>2 DEF Covered
  <2> QED BY <2>1, <2>2, <2>3, <2>4, <2>5
<1>4. CASE /\ remaining # 0 /\ group # 3
           /\ group' = group + 1
           /\ Open(group + 1, entry_inode.ptrs[DirectPointers + group], index)
           /\ UNCHANGED <<pc, result>>
  <2> DEFINE p == entry_inode.ptrs[DirectPointers + group]
  <2>1. p \in Nat /\ group + 1 \in 1 .. 3 /\ p = entry_inode.ptrs[15 + group']
    BY <1>2, <1>4 DEF DirectPointers
  <2> HIDE DEF p
  <2>2. \/ /\ p = 0 /\ skipped' = TRUE /\ index' = index
           /\ UNCHANGED <<level, ptrs, failed>>
        \/ /\ p # 0 /\ level' = group' /\ index' = [index EXCEPT ![group'] = 0] /\ skipped' = skipped
           /\ failed' \in BOOLEAN
           /\ \E is \in Pointers : /\ ptrs' = [ptrs EXCEPT ![group'] = is]
                                   /\ ~failed' => ~failed /\ is = TableOf(p)
    BY <1>4, <2>1, OpenLeaves DEF p
  <2>3. /\ level' \in 0 .. 3 /\ level' \in {0, group'} /\ group' \in 1 .. 3
        /\ index' \in [1 .. 3 -> 0 .. 128] /\ failed' \in BOOLEAN /\ skipped' \in BOOLEAN
        /\ ptrs' \in [1 .. 3 -> Table]
        /\ level' # 0 => ptrs'[group'] \in Pointers
    <3>1. CASE p = 0 BY <1>1, <1>2, <1>4, <2>1, <2>2, <3>1 DEF TypeOK
    <3>2. CASE p # 0
      <4>1. PICK is \in Pointers : ptrs' = [ptrs EXCEPT ![group'] = is] BY <2>2, <3>2
      <4>2. is \in Table BY DEF Table
      <4>3. group' \in 1 .. 3 BY <1>4, <2>1
      <4>4. ptrs' \in [1 .. 3 -> Table] /\ ptrs'[group'] = is BY <4>1, <4>2, <4>3 DEF TypeOK
      <4> QED BY <1>2, <2>2, <3>2, <4>3, <4>4 DEF TypeOK
    <3> QED BY <3>1, <3>2
  <2>4. TypeOK' BY <1>1, <1>4, <2>3 DEF TypeOK, BLOCK_POINTER_COUNT
  <2>5. Loops'
    <3>1. Limit' = 128 /\ Outer' = group' BY <2>3 DEF Limit, Outer, BLOCK_POINTER_COUNT
    <3> QED BY <1>1, <1>4, <2>3, <3>1 DEF Loops
  <2>6. ~failed' => ~failed BY <2>2
  <2>7. ~skipped' => ~skipped BY <2>2
  <2>8. Counts' /\ Stored' /\ Covered' /\ Fresh' /\ LoadedWhole'
    BY <1>1, <1>4, <2>6 DEF Counts, Stored, Covered, Has, Fresh, LoadedWhole
  <2>9. BlocksInPlace' BY <1>1, <1>4, <2>6, <2>7, SamePointers DEF BlocksInPlace
  <2>10. Placed'
    <3> SUFFICES ASSUME ~failed', ~skipped', remaining > 0
                 PROVE  Tables' /\ offset' = BLOCK_LENGTH * Position'
      BY <1>1 DEF Placed
    <3>1. offset = BLOCK_LENGTH * Position BY <1>1, <2>6, <2>7 DEF Placed
    <3>2. /\ level' = group' /\ index' = [index EXCEPT ![group'] = 0]
          /\ ptrs' = [ptrs EXCEPT ![group'] = TableOf(p)]
      BY <2>2
    <3>3. index'[group'] = 0 BY <1>2, <2>3, <3>2
    <3>4. ptrs'[group'] = TableOf(p) BY <2>3, <3>2 DEF TypeOK
    <3>5. Tables'
      <4>1. ptrs'[group'] = TableOf(entry_inode.ptrs[15 + group']) /\ group' # 0
        BY <2>1, <2>3, <3>4
      <4>2. ASSUME NEW l \in 1 .. 2 PROVE ~(level' <= l /\ l < group')
        BY <2>3, <3>2
      <4> QED BY <1>1, <4>1, <4>2 DEF Tables, TableOf
    <3>6. Position' = Position
      <4>1. CASE group' = 1 BY SMT, <1>1, <1>4, <3>2, <3>3, <4>1, <1>2 DEF Position, Before
      <4>2. CASE group' = 2 BY SMT, <1>1, <1>4, <3>2, <3>3, <4>2, <1>2 DEF Position, Before
      <4>3. CASE group' = 3 BY SMT, <1>1, <1>4, <3>2, <3>3, <4>3, <1>2 DEF Position, Before
      <4> QED BY <2>3, <4>1, <4>2, <4>3
    <3> QED BY <1>1, <3>1, <3>5, <3>6
  <2> QED BY <2>4, <2>5, <2>8, <2>9, <2>10
<1> QED BY <1>3, <1>4 DEF NextGroup

\* Every behaviour keeps the invariant, whatever the disks hold and whichever
\* reads fail.
THEOREM Invariant == Spec => []Inv
<1>1. Init => Inv
  <2> SUFFICES ASSUME Init PROVE Inv OBVIOUS
  <2>1. TypeOK
    <3>1. [l \in 1 .. 3 |-> 0] \in [1 .. 3 -> 0 .. BLOCK_POINTER_COUNT] BY DEF BLOCK_POINTER_COUNT
    <3>2. 0 \in 0 .. DirectPointers /\ 0 \in 0 .. DirEntries /\ {} \subseteq Store
      BY DEF DirectPointers, DirEntries
    <3>3. /\ medium \in [Disks -> Media] /\ disk \in Disks /\ first_inode = 0
          /\ target \in Names /\ dir_inode \in Inode /\ block \in Directory /\ i = 0 /\ j = 0
          /\ entry_inode \in Inode /\ pc = "idle" /\ group = 0 /\ level = 0
          /\ ptrs \in [1 .. 3 -> Table] /\ index = [l \in 1 .. 3 |-> 0]
          /\ offset = 0 /\ remaining = 0 /\ writes = {}
          /\ result = 0 /\ failed = FALSE /\ skipped = FALSE
      BY DEF Init
    <3>4. index \in [1 .. 3 -> 0 .. BLOCK_POINTER_COUNT] BY <3>1, <3>3
    <3>5. writes \subseteq Store BY <3>3
    <3>6. failed \in BOOLEAN /\ skipped \in BOOLEAN BY <3>3
    <3>7. group \in 0 .. 3 /\ level \in 0 .. 3 /\ offset \in Nat /\ remaining \in Int /\ result \in Int
          /\ first_inode \in Nat /\ i \in 0 .. DirectPointers /\ j \in 0 .. DirEntries
      BY <3>2, <3>3
    <3> QED BY <3>3, <3>4, <3>5, <3>6, <3>7 DEF TypeOK
  <2> QED BY <2>1 DEF Init, Inv, Loops, Counts, Stored, Covered, Fresh, Placed, BlocksInPlace, LoadedWhole
<1>2. Inv /\ [Next]_vars => Inv'
  <2> SUFFICES ASSUME Inv, [Next]_vars PROVE Inv' OBVIOUS
  <2>1. CASE UNCHANGED vars
    <3>1. UNCHANGED <<medium, disk, first_inode, target, dir_inode, block, i, j, entry_inode, pc, group, level,
                      ptrs, index, offset, remaining, writes, result, failed, skipped>>
      BY <2>1 DEF vars, search, place, loaded
    <3>2. TypeOK' BY <3>1 DEF Inv, TypeOK
    <3>3. Loops' BY <3>1 DEF Inv, Loops, Outer, Limit
    <3>4. Counts' /\ Stored' /\ Covered' /\ Fresh' /\ LoadedWhole'
      BY <3>1 DEF Inv, Counts, Stored, Covered, Has, Fresh, LoadedWhole
    <3>5. Placed'
      <4>1. Tables' <=> Tables BY <3>1 DEF Tables, TableOf
      <4>2. Position' = Position BY SMT, <3>1 DEF Position, Before
      <4> QED BY <3>1, <4>1, <4>2 DEF Inv, Placed
    <3>6. BlocksInPlace' BY <3>1, SamePointers DEF Inv, BlocksInPlace
    <3> QED BY <3>2, <3>3, <3>4, <3>5, <3>6 DEF Inv
  <2> QED BY <2>1, SearchSteps, EntrySteps, LoadStep, DescendStep, ReturnStep, GroupStep DEF Next
<1> QED BY <1>1, <1>2, PTL DEF Spec

\* The loops stay in their tables and the buffers hold what they may (cromix-fs.c).
THEOREM TypeCorrect == Spec => []TypeOK
<1>1. Inv => TypeOK BY DEF Inv
<1> QED BY <1>1, Invariant, PTL

\* Loading a file stores nothing past its last block, failed reads and sparse
\* files included: bootCromixCmd, which loads to address 0, overwrites less than a
\* block more than the file's bytes.
THEOREM StoresInFile == Spec => []StoresStay
<1>1. Inv => StoresStay BY DEF Inv, Stored, StoresStay
<1> QED BY <1>1, Invariant, PTL

\* What bootCromixCmd takes for success is the size of the file, and all of it has
\* been stored unless a read failed.
THEOREM SuccessIsWhole == Spec => []LoadedWhole
<1>1. Inv => LoadedWhole BY DEF Inv
<1> QED BY <1>1, Invariant, PTL

\* Through every level of pointer blocks, each block lands where the file has it,
\* unless a read failed or a pointer block was missing (extract_file).
THEOREM BlocksLand == Spec => []BlocksInPlace
<1>1. Inv => BlocksInPlace BY DEF Inv
<1> QED BY <1>1, Invariant, PTL
================================================================================
