------------------------------ MODULE CromixFiles ------------------------------
(***************************************************************************)
(* Loading a file of a Cromix disk (src/boot/disk/cromix-fs.c), what the   *)
(* cromix command does to boot the system.  A file's inode has 16 pointers *)
(* to blocks of data and three to pointer blocks, one, two and three       *)
(* levels deep; extract_file follows them and stores the blocks one after  *)
(* the other from the destination on.  The blocks of a disk are what the   *)
(* code reads them as: inodes, directory entries or pointers.  A read that *)
(* fails leaves its buffer as it was and nobody looks at the status: any   *)
(* contents stand for that of the static and stack buffers.                *)
(***************************************************************************)
EXTENDS Integers

CONSTANTS
  Disks,    \* the Cromix disks and partitions
  Names     \* the names of files

BLOCK_LENGTH        == 512
BLOCK_POINTER_COUNT == 128
DirectPointers      == 16
DirEntries          == 16

Inode     == [type : {"file", "directory", "other"}, size : Int, ptrs : [0 .. 18 -> Nat]]
Entry     == [used : BOOLEAN, name : Names \cup {"empty"}, inode : Nat]
Pointers  == [0 .. BLOCK_POINTER_COUNT - 1 -> Nat]
Directory == [0 .. DirEntries - 1 -> Entry]

\* What a loop goes over.
Table == [0 .. 18 -> Nat] \cup Pointers

VARIABLES
  medium,       \* what the disks hold; never written here
  disk,         \* the disk the geometry was read from
  first_inode,  \* set by init, and only when the super block says cromix
  target,       \* the name looked for
  dir_inode,    \* inode 1
  entry_inode,  \* the inode of the last entry of that name
  block,        \* the directory block being searched
  i, j,         \* read_file's loops: pointer of dir_inode, entry of the block
  pc,           \* what runs: "idle", "blocks", "entries", "extract", "done"
  group,        \* 0 the direct pointers, 1 .. 3 the three others
  level,        \* the loop that runs, by the levels below it; 0 is extract_file
  ptrs,         \* by level, the pointers of that loop
  index,        \* by level, how many of them have been used
  offset, remaining,
  writes,       \* the stores to the destination: where, which block (0: zeros), bytes
  result,       \* readCromixFile's answer
  failed,       \* a read has failed since readCromixFile was called
  skipped       \* a zero was met where a pointer block was expected

search == <<target, dir_inode, block, i, j>>
place  == <<group, level, ptrs, index>>
loaded == <<offset, remaining, writes>>
vars   == <<medium, disk, first_inode, search, entry_inode, pc, place, loaded, result, failed, skipped>>

Media == [cromix      : BOOLEAN,
          first_inode : Nat,
          inodes      : [Nat -> [0 .. 3 -> Inode]],
          directories : [Nat -> Directory],
          pointers    : [Nat -> Pointers]]

\* A read of a block: what is on the disk, or what the buffer held.
Reads(onDisk, any, is) == \/ is = onDisk /\ UNCHANGED failed
                          \/ is \in any /\ failed' = TRUE

\* Where an inode is on the disk.
InodeOf(d, first, number) ==
  medium[d].inodes[first + (number - 1) \div 4][(number - 1) % 4]

\* read_inode: number 0 takes what lies in front of its scratch block.
ReadInode(number, inode) ==
  \/ number # 0 /\ Reads(InodeOf(disk, first_inode, number), Inode, inode)
  \/ number = 0 /\ inode \in Inode /\ UNCHANGED failed

Init ==
  /\ medium \in [Disks -> Media]
  /\ disk \in Disks /\ first_inode = 0
  /\ target \in Names /\ dir_inode \in Inode /\ block \in Directory /\ i = 0 /\ j = 0
  /\ entry_inode \in Inode
  /\ pc = "idle"
  /\ group = 0 /\ level = 0
  /\ ptrs \in [1 .. 3 -> Table] /\ index = [l \in 1 .. 3 |-> 0]
  /\ offset = 0 /\ remaining = 0 /\ writes = {}
  /\ result = 0 /\ failed = FALSE /\ skipped = FALSE

(***************************************************************************)
(* Finding the file.                                                       *)
(***************************************************************************)
\* init and the reading of inode 1.  Without "cromix" in the super block the
\* first inode stays that of the disk before.
OpenDisk(d) ==
  \E lost \in SUBSET {"geometry", "super block", "inode"} :
    /\ failed' = (lost # {})
    /\ IF "geometry" \in lost THEN disk' \in Disks ELSE disk' = d
    /\ IF "super block" \in lost THEN first_inode' \in Nat
       ELSE first_inode' = IF medium[disk'].cromix THEN medium[disk'].first_inode ELSE first_inode
    /\ IF "inode" \in lost THEN dir_inode' \in Inode
       ELSE dir_inode' = InodeOf(disk', first_inode', 1)

\* listCromixDirectory uses the same buffers.
ListCromixDirectory(d) ==
  /\ pc \in {"idle", "done"}
  /\ OpenDisk(d)
  /\ block' \in Directory /\ entry_inode' \in Inode
  /\ pc' = "idle"
  /\ UNCHANGED <<medium, target, i, j, place, loaded, result, skipped>>

ReadCromixFile(d, name) ==
  /\ pc \in {"idle", "done"}
  /\ OpenDisk(d)
  /\ target' = name /\ i' = 0 /\ pc' = "blocks" /\ skipped' = FALSE /\ writes' = {}
  /\ UNCHANGED <<medium, block, j, entry_inode, place, offset, remaining, result>>

\* read_file, the loop over the directory's pointers.
NextDirectoryBlock ==
  /\ pc = "blocks"
  /\ \/ /\ i = DirectPointers
        /\ pc' = "done" /\ result' = 0
        /\ UNCHANGED <<block, i, j, failed>>
     \/ /\ i < DirectPointers /\ dir_inode.ptrs[i] = 0
        /\ i' = i + 1
        /\ UNCHANGED <<pc, block, j, failed, result>>
     \/ /\ i < DirectPointers /\ dir_inode.ptrs[i] # 0
        /\ Reads(medium[disk].directories[dir_inode.ptrs[i]], Directory, block')
        /\ j' = 0 /\ pc' = "entries"
        /\ UNCHANGED <<i, result>>
  /\ UNCHANGED <<medium, disk, first_inode, target, dir_inode, entry_inode, place, loaded, skipped>>

\* extract_file begins with the direct pointers.
Extract(inode) ==
  /\ pc' = "extract" /\ group' = 0 /\ level' = 1
  /\ ptrs' = [ptrs EXCEPT ![1] = inode.ptrs] /\ index' = [index EXCEPT ![1] = 0]
  /\ offset' = 0 /\ remaining' = inode.size

\* read_file, the loop over a block's entries.  An entry in use without a name is
\* compared by what is on the stack.  A directory of the name is passed over.
NextEntry ==
  /\ pc = "entries"
  /\ \/ /\ j = DirEntries
        /\ pc' = "blocks" /\ i' = i + 1
        /\ UNCHANGED <<j, entry_inode, place, offset, remaining, failed>>
     \/ /\ j < DirEntries /\ (block[j].used => block[j].name # target)
        /\ j' = j + 1
        /\ UNCHANGED <<pc, i, entry_inode, place, offset, remaining, failed>>
     \/ /\ j < DirEntries /\ block[j].used /\ block[j].name \in {target, "empty"}
        /\ ReadInode(block[j].inode, entry_inode')
        /\ IF entry_inode'.type = "file" THEN Extract(entry_inode') /\ UNCHANGED j
           ELSE j' = j + 1 /\ UNCHANGED <<pc, place, offset, remaining>>
        /\ UNCHANGED i
  /\ UNCHANGED <<medium, disk, first_inode, target, dir_inode, block, writes, result, skipped>>

(***************************************************************************)
(* Loading it.                                                             *)
(***************************************************************************)
Limit   == IF group = 0 THEN DirectPointers ELSE BLOCK_POINTER_COUNT
Over(l) == index[l] = Limit \/ remaining <= 0

Bytes == IF remaining < BLOCK_LENGTH THEN remaining ELSE BLOCK_LENGTH

\* The innermost loops, of extract_file and extractPointerBlock: a block is read
\* to the destination whole, a zero pointer stands for zeros.
LoadBlock ==
  /\ pc = "extract" /\ level = 1 /\ ~Over(1)
  /\ LET pointer == ptrs[1][index[1]]
     IN  \/ /\ pointer # 0
            /\ writes' = writes \cup {[at |-> offset, block |-> pointer, bytes |-> BLOCK_LENGTH]}
            /\ UNCHANGED failed
         \/ pointer # 0 /\ failed' = TRUE /\ UNCHANGED writes
         \/ /\ pointer = 0
            /\ writes' = writes \cup {[at |-> offset, block |-> 0, bytes |-> Bytes]}
            /\ UNCHANGED failed
  /\ index' = [index EXCEPT ![1] = @ + 1]
  /\ offset' = offset + Bytes /\ remaining' = remaining - Bytes
  /\ UNCHANGED <<medium, disk, first_inode, search, entry_inode, pc, group, level, ptrs, result, skipped>>

\* A loop over the pointers of block number pointer begins, unless that is 0.
Open(l, pointer, counts) ==
  \/ /\ pointer = 0
     /\ skipped' = TRUE /\ index' = counts
     /\ UNCHANGED <<level, ptrs, failed>>
  \/ /\ pointer # 0
     /\ \E is \in Pointers : /\ Reads(medium[disk].pointers[pointer], Pointers, is)
                             /\ ptrs' = [ptrs EXCEPT ![l] = is]
     /\ level' = l /\ index' = [counts EXCEPT ![l] = 0]
     /\ UNCHANGED skipped

\* extractPointerPointerBlock and extractPointerPointerPointerBlock.
Descend ==
  /\ pc = "extract" /\ level \in {2, 3} /\ ~Over(level)
  /\ Open(level - 1, ptrs[level][index[level]], [index EXCEPT ![level] = @ + 1])
  /\ UNCHANGED <<medium, disk, first_inode, search, entry_inode, pc, group, loaded, result>>

Return ==
  /\ pc = "extract" /\ level # 0 /\ Over(level)
  /\ level' = IF level = group \/ group = 0 THEN 0 ELSE level + 1
  /\ UNCHANGED <<medium, disk, first_inode, search, entry_inode, pc, group, ptrs, index, loaded,
                 result, failed, skipped>>

\* extract_file between the loops, and its answer.
NextGroup ==
  /\ pc = "extract" /\ level = 0
  /\ \/ /\ remaining = 0 \/ group = 3
        /\ pc' = "done" /\ result' = IF remaining = 0 THEN entry_inode.size ELSE 0
        /\ UNCHANGED <<place, failed, skipped>>
     \/ /\ remaining # 0 /\ group # 3
        /\ group' = group + 1
        /\ Open(group + 1, entry_inode.ptrs[DirectPointers + group], index)
        /\ UNCHANGED <<pc, result>>
  /\ UNCHANGED <<medium, disk, first_inode, search, entry_inode, loaded>>

Next ==
  \/ \E d \in Disks : ListCromixDirectory(d)
  \/ \E d \in Disks, name \in Names : ReadCromixFile(d, name)
  \/ NextDirectoryBlock
  \/ NextEntry
  \/ LoadBlock
  \/ Descend
  \/ Return
  \/ NextGroup

Spec == Init /\ [][Next]_vars

(***************************************************************************)
(* Properties.                                                             *)
(***************************************************************************)
Store == [at : Nat, block : Nat, bytes : 1 .. BLOCK_LENGTH]

\* The buffers hold what they may and the loops stay in their tables.
TypeOK ==
  /\ medium \in [Disks -> Media] /\ disk \in Disks /\ first_inode \in Nat
  /\ target \in Names /\ dir_inode \in Inode /\ block \in Directory
  /\ i \in 0 .. DirectPointers /\ j \in 0 .. DirEntries
  /\ entry_inode \in Inode
  /\ pc \in {"idle", "blocks", "entries", "extract", "done"}
  /\ group \in 0 .. 3 /\ level \in 0 .. 3
  /\ ptrs \in [1 .. 3 -> Table] /\ index \in [1 .. 3 -> 0 .. BLOCK_POINTER_COUNT]
  /\ offset \in Nat /\ remaining \in Int /\ writes \subseteq Store
  /\ result \in Int /\ failed \in BOOLEAN /\ skipped \in BOOLEAN

\* The pointer to the data of block n of a file (n from 0): the n-th direct
\* pointer, or that of the pointer blocks after as many as come before it.
DataPointer(n, pointer) ==
  LET at(p, k) == medium[disk].pointers[p][k]
      top(k)   == entry_inode.ptrs[DirectPointers + k]
      P        == BLOCK_POINTER_COUNT
      K        == 0 .. P - 1
  IN  \/ n < DirectPointers /\ pointer = entry_inode.ptrs[n]
      \/ \E k \in K : n = DirectPointers + k /\ pointer = at(top(0), k)
      \/ \E l, k \in K : /\ n = DirectPointers + P + P * l + k
                         /\ pointer = at(at(top(1), l), k)
      \/ \E m, l, k \in K : /\ n = DirectPointers + P + P * P + P * P * m + P * l + k
                            /\ pointer = at(at(at(top(2), m), l), k)

\* Stores begin at multiples of the block length and leave the file's last block
\* at most (extract_file reads the last block whole, whatever is left of it).
StoresStay ==
  pc \in {"extract", "done"} =>
    \A w \in writes : /\ w.at % BLOCK_LENGTH = 0
                      /\ w.at < entry_inode.size
                      /\ w.at + w.bytes < entry_inode.size + BLOCK_LENGTH

\* An answer other than 0 is the size of the file, and if no read failed all of
\* its bytes have been stored (readCromixFile, bootCromixCmd's BNE 10f).
LoadedWhole ==
  pc = "done" /\ result # 0 =>
    /\ result = entry_inode.size
    /\ ~failed => \A n \in Nat : BLOCK_LENGTH * n < result =>
         \E w \in writes : /\ w.at = BLOCK_LENGTH * n
                           /\ w.at + w.bytes >= result \/ w.bytes = BLOCK_LENGTH

\* While no read has failed and no zero has stood for a pointer block, every
\* block is stored where its pointer puts it in the file (extract_file).
BlocksInPlace ==
  pc \in {"extract", "done"} /\ ~failed /\ ~skipped =>
    \A w \in writes : DataPointer(w.at \div BLOCK_LENGTH, w.block)
================================================================================
