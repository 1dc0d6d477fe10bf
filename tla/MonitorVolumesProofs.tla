-------------------------- MODULE MonitorVolumesProofs --------------------------
(***************************************************************************)
(* Proofs about the monitor's drives, partition tables and mounts, for     *)
(* every set of cards with any contents, every width of a sector number,   *)
(* every set of keys and any number of exchanged cards.                    *)
(***************************************************************************)
EXTENDS MonitorVolumes, TLAPS

\* A sum that overflows by less than a word wraps once.
LEMMA Wrap ==
  ASSUME NEW h \in Nat \ {0}
  PROVE  /\ \A x \in 0 .. 2 * h - 1 : x % (2 * h) = x
         /\ \A x \in 2 * h .. 4 * h - 1 : x % (2 * h) = x - 2 * h
         /\ (-1) % (2 * h) = 2 * h - 1
<1>1. ASSUME NEW x \in 0 .. 2 * h - 1 PROVE x % (2 * h) = x OBVIOUS
<1>2. ASSUME NEW x \in 2 * h .. 4 * h - 1 PROVE x % (2 * h) = x - 2 * h OBVIOUS
<1>3. (-1) % (2 * h) = 2 * h - 1 OBVIOUS
<1> QED BY <1>1, <1>2, <1>3

LEMMA HalfPositive == Half \in Nat \ {0}
BY VolumesAssumption

(***************************************************************************)
(* Partition tables.                                                       *)
(***************************************************************************)

\* The largest and the smallest of some entries.
LEMMA MaxEntry ==
  ASSUME NEW S, S \subseteq Entries, S # {}
  PROVE  Max(S) \in S /\ \A i \in S : i <= Max(S)
<1>1. \E x \in S : \A y \in S : x >= y
  <2>1. CASE 3 \in S BY <2>1 DEF Entries, PRT_ENTRIES
  <2>2. CASE 3 \notin S /\ 2 \in S BY <2>2 DEF Entries, PRT_ENTRIES
  <2>3. CASE 3 \notin S /\ 2 \notin S /\ 1 \in S BY <2>3 DEF Entries, PRT_ENTRIES
  <2>4. CASE \A x \in S : x = 0 BY <2>4
  <2> QED BY <2>1, <2>2, <2>3, <2>4 DEF Entries, PRT_ENTRIES
<1>2. Max(S) \in S /\ \A y \in S : Max(S) >= y
  BY <1>1 DEF Max
<1> QED BY <1>2 DEF Entries, PRT_ENTRIES

LEMMA NoneBad ==
  ASSUME NEW S, S \subseteq Entries
  PROVE  /\ Min(S \union {PRT_ENTRIES}) \in S \union {PRT_ENTRIES}
         /\ Min(S \union {PRT_ENTRIES}) = PRT_ENTRIES => S = {}
<1> DEFINE U == S \union {4}
<1>1. \E x \in U : \A y \in U : x =< y
  <2>1. CASE 0 \in S BY <2>1 DEF Entries, PRT_ENTRIES
  <2>2. CASE 0 \notin S /\ 1 \in S BY <2>2 DEF Entries, PRT_ENTRIES
  <2>3. CASE 0 \notin S /\ 1 \notin S /\ 2 \in S BY <2>3 DEF Entries, PRT_ENTRIES
  <2>4. CASE S = {3} BY <2>4
  <2>5. CASE S = {} BY <2>5
  <2> QED BY <2>1, <2>2, <2>3, <2>4, <2>5 DEF Entries, PRT_ENTRIES
<1>2. Min(U) \in U /\ \A y \in U : Min(U) =< y
  BY <1>1 DEF Min
<1>3. U = S \union {PRT_ENTRIES} /\ 4 = PRT_ENTRIES BY DEF PRT_ENTRIES
<1>4. Min(U) = 4 => S = {} BY <1>2 DEF Entries, PRT_ENTRIES
<1> QED BY <1>2, <1>3, <1>4

\* The end of an entry that starts in the lower half and whose end, as a long,
\* is above its start, is where the entry really ends.
LEMMA EndNotWrapped ==
  ASSUME NEW start \in 0 .. Half - 1, NEW count \in 0 .. 2 * Half - 1,
         NEW e, e.start = start, e.count = count,
         Signed(EndOf(e)) > Signed(e.start)
  PROVE  EndOf(e) = start + count - 1 /\ EndOf(e) > start
<1> DEFINE last == start + count - 1
<1>0. last \in Int /\ EndOf(e) = last % (2 * Half) BY DEF EndOf
<1> USE HalfPositive
<1>1. CASE last = -1
  <2>1. EndOf(e) = 2 * Half - 1 BY <1>0, <1>1, Wrap
  <2> QED BY <2>1 DEF Signed
<1>2. CASE last \in 0 .. 2 * Half - 1
  <2>1. EndOf(e) = last BY <1>0, <1>2, Wrap
  <2> QED BY <2>1 DEF Signed
<1>3. CASE last >= 2 * Half
  <2>1. last \in 2 * Half .. 4 * Half - 1 BY <1>3
  <2>2. EndOf(e) = last - 2 * Half BY <1>0, <2>1, Wrap
  <2> QED BY <2>2, <1>3 DEF Signed
<1> QED BY <1>1, <1>2, <1>3

TableOK(t) == t \in Table /\ (t.valid => Sound(t))

LEMMA NoTableOK == TableOK(NoTable)
BY HalfPositive DEF TableOK, NoTable, NoEntry, Table, Entry, Entries, PRT_ENTRIES, Types

LEMMA CardContent ==
  ASSUME NEW c \in Cards
  PROVE  /\ Content[c].sectors \in 0 .. Half - 1
         /\ Content[c].signed \in BOOLEAN
         /\ Content[c].cstd \in BOOLEAN
         /\ Content[c].entry \in [Entries -> [type : Types, start : 0 .. 2 * Half - 1,
                                             count : 0 .. 2 * Half - 1]]
         /\ Content[c].fats \subseteq 0 .. 2 * Half - 1
BY VolumesAssumption

\* The used entries of a card without bad ones are in order.
LEMMA GoodEntries ==
  ASSUME NEW c \in Cards, NEW fits \in BOOLEAN, BadEntries(c, fits) = {}
  PROVE  LET e       == Content[c].entry
             Last(i) == e[i].start + e[i].count - 1
         IN /\ \A i \in Used(c) : e[i].start <= Content[c].sectors /\ Last(i) > e[i].start
            /\ \A i, j \in Used(c) : i < j => Last(i) < e[j].start
<1> DEFINE e         == Content[c].entry
           Last(i)   == e[i].start + e[i].count - 1
           Before(j) == Used(c) \intersect 0 .. j - 1
<1>1. \A i \in Entries : /\ e[i].start \in 0 .. 2 * Half - 1
                         /\ e[i].count \in 0 .. 2 * Half - 1
  BY CardContent
<1>2. Used(c) \subseteq Entries
  BY DEF Used
<1>3. ASSUME NEW i \in Used(c)
      PROVE  /\ e[i].start <= Content[c].sectors
             /\ Follows(c, i, fits)
             /\ EndOf(e[i]) = Last(i) /\ Last(i) > e[i].start
  <2>1. StartsInDisk(c, i) /\ EndsAfterStart(c, i) /\ Follows(c, i, fits)
    BY <1>3 DEF BadEntries
  <2>2. e[i].start \in 0 .. Half - 1
    BY <2>1, <1>1, <1>2, CardContent, HalfPositive DEF StartsInDisk
  <2>3. Signed(EndOf(e[i])) > Signed(e[i].start)
    BY <2>1 DEF EndsAfterStart
  <2>4. EndOf(e[i]) = e[i].start + e[i].count - 1 /\ EndOf(e[i]) > e[i].start
    BY <2>2, <2>3, <1>1, <1>2, EndNotWrapped
  <2> QED BY <2>1, <2>4 DEF StartsInDisk
\* The used entry just before a used one ends below its start.
<1>4. ASSUME NEW j \in Used(c), Before(j) # {}
      PROVE  \E k \in Before(j) : (\A i \in Before(j) : i <= k) /\ Last(k) < e[j].start
  <2>1. Before(j) \subseteq Entries
    BY <1>2
  <2>2. Max(Before(j)) \in Before(j) /\ \A i \in Before(j) : i <= Max(Before(j))
    BY <1>4, <2>1, MaxEntry
  <2>3. e[j].start > EndOf(e[Max(Before(j))])
    BY <1>3, <1>4 DEF Follows
  <2>4. Last(Max(Before(j))) < e[j].start
    BY <1>1, <1>2, <1>3, <2>2, <2>3
  <2> QED BY <2>2, <2>4
<1>5. ASSUME NEW i \in Used(c), NEW j \in Used(c), i < j
      PROVE  Last(i) < e[j].start
  <2>1. \A k \in Used(c) : k \in Int /\ e[k].start \in Int /\ Last(k) \in Int /\ k \in {0, 1, 2, 3}
    BY <1>1, <1>2 DEF Entries, PRT_ENTRIES
  <2>2. \A k \in Used(c) : Last(k) > e[k].start
    BY <1>3
  <2>3. \A n \in Used(c) : \A m \in Used(c) : m < n =>
          \E k \in Used(c) : m <= k /\ k < n /\ Last(k) < e[n].start
    <3> SUFFICES ASSUME NEW n \in Used(c), NEW m \in Used(c), m < n
                 PROVE  \E k \in Used(c) : m <= k /\ k < n /\ Last(k) < e[n].start
      OBVIOUS
    <3>1. m \in Before(n) BY <2>1
    <3>2. PICK k \in Before(n) : (\A x \in Before(n) : x <= k) /\ Last(k) < e[n].start
      BY <3>1, <1>4
    <3> QED BY <2>1, <3>1, <3>2
  <2> HIDE DEF e, Last
  <2>4. \A m \in Used(c) : 1 \in Used(c) /\ m < 1 => Last(m) < e[1].start
    <3> SUFFICES ASSUME NEW m \in Used(c), 1 \in Used(c), m < 1 PROVE Last(m) < e[1].start
      OBVIOUS
    <3>1. PICK k \in Used(c) : m <= k /\ k < 1 /\ Last(k) < e[1].start BY <2>3
    <3> QED BY <3>1, <2>1
  <2>5. \A m \in Used(c) : 2 \in Used(c) /\ m < 2 => Last(m) < e[2].start
    <3> SUFFICES ASSUME NEW m \in Used(c), 2 \in Used(c), m < 2 PROVE Last(m) < e[2].start
      OBVIOUS
    <3>1. PICK k \in Used(c) : m <= k /\ k < 2 /\ Last(k) < e[2].start BY <2>3
    <3>2. CASE k = m BY <3>1, <3>2
    <3>3. CASE k = 1 /\ m = 0 BY <3>1, <3>3, <2>1, <2>2, <2>4
    <3> QED BY <3>1, <3>2, <3>3, <2>1
  <2>6. \A m \in Used(c) : 3 \in Used(c) /\ m < 3 => Last(m) < e[3].start
    <3> SUFFICES ASSUME NEW m \in Used(c), 3 \in Used(c), m < 3 PROVE Last(m) < e[3].start
      OBVIOUS
    <3>1. PICK k \in Used(c) : m <= k /\ k < 3 /\ Last(k) < e[3].start BY <2>3
    <3>2. CASE k = m BY <3>1, <3>2
    <3>3. CASE k = 1 /\ m < 1 BY <3>1, <3>3, <2>1, <2>2, <2>4
    <3>4. CASE k = 2 /\ m < 2 BY <3>1, <3>4, <2>1, <2>2, <2>5
    <3> QED BY <3>1, <3>2, <3>3, <3>4, <2>1
  <2> QED BY <2>1, <2>4, <2>5, <2>6, <1>5
<1> QED BY <1>3, <1>5

\* What readMBR makes of the entries of a card, from an empty table.
LEMMA ReadEntriesOK ==
  ASSUME NEW c \in Cards, NEW fits \in BOOLEAN, NEW t \in Table,
         t.valid = FALSE, t.sectors = Content[c].sectors,
         t.entry = [i \in Entries |-> NoEntry]
  PROVE  TableOK(ReadEntries(t, c, fits))
<1> DEFINE e    == Content[c].entry
           stop == FirstBad[c][fits]
           f    == EntriesRead(t, c, fits)
           n    == ReadEntries(t, c, fits)
           v    == t.valid \/ stop = PRT_ENTRIES
<1>1. BadEntries(c, fits) \subseteq Used(c) /\ Used(c) \subseteq Entries
  BY DEF BadEntries, Used
<1>2. stop \in Entries \union {PRT_ENTRIES} /\ (stop = PRT_ENTRIES => BadEntries(c, fits) = {})
  BY <1>1, NoneBad DEF FirstBad
<1>3. \A i \in Entries : /\ e[i].type \in Types
                         /\ e[i].start \in 0 .. 2 * Half - 1
                         /\ e[i].count \in 0 .. 2 * Half - 1
  BY CardContent
<1>4. \A i \in Entries : t.entry[i] = NoEntry
  OBVIOUS
<1>5. NoEntry \in Entry /\ NoEntry.count = 0 /\ NoEntry.type = "unused" /\ NoEntry.valid = FALSE
  BY HalfPositive DEF NoEntry, Entry, Types
<1> DEFINE read(i) == [type |-> e[i].type, start |-> e[i].start,
                       count |-> IF StartsInDisk(c, i) THEN e[i].count ELSE t.entry[i].count,
                       valid |-> t.entry[i].valid \/ i < stop]
<1>6. /\ f = [i \in Entries |-> f[i]]
      /\ \A i \in Entries : f[i] = IF i \notin Used(c) \/ i > stop THEN t.entry[i] ELSE read(i)
  BY DEF EntriesRead
<1> HIDE DEF stop, f, e
<1>7. ASSUME NEW i \in Entries PROVE read(i) \in Entry
  <2>1. (t.entry[i].valid \/ i < stop) \in BOOLEAN OBVIOUS
  <2>2. (IF StartsInDisk(c, i) THEN e[i].count ELSE t.entry[i].count) \in 0 .. 2 * Half - 1
    BY <1>3, <1>4, <1>5, HalfPositive
  <2> QED BY <2>1, <2>2, <1>3 DEF Entry
<1> HIDE DEF read
<1>8. f \in [Entries -> Entry]
  <2>1. \A i \in Entries : f[i] \in Entry BY <1>4, <1>5, <1>6, <1>7
  <2> QED BY <2>1, <1>6
<1>9. n = [t EXCEPT !.valid = v, !.entry = f]
  BY DEF ReadEntries, f, stop
<1>10. n \in Table /\ n.valid = v /\ n.entry = f /\ n.sectors = t.sectors
  <2>1. v \in BOOLEAN OBVIOUS
  <2> HIDE DEF n, v
  <2> QED BY ONLY <1>8, <1>9, <2>1, t \in Table DEF Table
<1>11. ASSUME n.valid PROVE Sound(n)
  <2>1. stop = PRT_ENTRIES /\ BadEntries(c, fits) = {}
    BY <1>2, <1>10, <1>11
  <2>2. \A i \in Used(c) : StartsInDisk(c, i)
    BY <2>1 DEF BadEntries
  <2>3. ASSUME NEW i \in Entries
        PROVE
          /\ f[i].type # "unused" <=> i \in Used(c)
          /\ i \in Used(c) => /\ f[i].start = e[i].start
                              /\ f[i].count = e[i].count
                              /\ f[i].valid
    <3>1. i < stop BY <2>1 DEF Entries, PRT_ENTRIES
    <3>2. CASE i \notin Used(c)
      BY <3>2, <1>4, <1>5, <1>6
    <3>3. CASE i \in Used(c)
      <4>1. f[i] = read(i) BY <3>1, <3>3, <1>1, <1>2, <1>6 DEF Entries, PRT_ENTRIES
      <4>2. e[i].type # "unused" BY <3>3 DEF Used, e
      <4>3. StartsInDisk(c, i) BY <3>3, <2>2
      <4>4. /\ read(i).type = e[i].type /\ read(i).start = e[i].start
            /\ read(i).count = e[i].count /\ read(i).valid = (t.entry[i].valid \/ i < stop)
        BY <4>3 DEF read
      <4>5. f[i].valid BY <4>1, <4>4, <3>1
      <4> QED BY <4>1, <4>2, <4>4, <4>5, <3>3
    <3> QED BY <3>2, <3>3
  <2>4. /\ \A i \in Used(c) : e[i].start <= Content[c].sectors /\ e[i].start + e[i].count - 1 > e[i].start
        /\ \A i, j \in Used(c) : i < j => e[i].start + e[i].count - 1 < e[j].start
    BY <2>1, GoodEntries DEF e
  <2>5. n.sectors = Content[c].sectors /\ n.entry = f BY <1>10
  <2>6. {i \in Entries : f[i].type # "unused"} = Used(c) BY <2>3, <1>1
  <2> HIDE DEF n
  <2>7. \A i \in Used(c) : f[i].start = e[i].start /\ f[i].count = e[i].count /\ f[i].valid
    BY <2>3, <1>1
  <2>8. Sound(n) <=>
          /\ \A i \in Used(c) : /\ f[i].valid /\ f[i].start <= Content[c].sectors
                                /\ f[i].start + f[i].count - 1 > f[i].start
          /\ \A i, j \in Used(c) : i < j => f[i].start + f[i].count - 1 < f[j].start
    BY <2>5, <2>6 DEF Sound
  <2> QED BY <2>4, <2>7, <2>8
<1> QED BY <1>10, <1>11 DEF TableOK

\* Whatever readMBR finds, the table is typed and, if it is marked valid, sound.
LEMMA MBRResultsOK ==
  ASSUME NEW t, NEW c \in Slots, NEW r \in MBRResults(t, c)
  PROVE  TableOK(r[1]) /\ r[2] \in BOOLEAN
<1>1. PICK how \in {"ident", "sector", "read"}, fits \in BOOLEAN :
        /\ r = <<ReadMBR(t, c, how, fits), RamAfterMBR(c, how)>>
        /\ c = NoCard => how = "ident"
  <2> DEFINE Hows == IF c = NoCard THEN {"ident"} ELSE {"ident", "sector", "read"}
             Fits == IF c # NoCard /\ Content[c].entry[0].type = "unused" THEN BOOLEAN ELSE {TRUE}
  <2>1. MBRResults(t, c) = {<<ReadMBR(t, c, how, fits), RamAfterMBR(c, how)>> :
                              how \in Hows, fits \in Fits}
    BY DEF MBRResults
  <2> HIDE DEF Hows, Fits
  <2>3. PICK how \in Hows, fits \in Fits : r = <<ReadMBR(t, c, how, fits), RamAfterMBR(c, how)>>
    BY <2>1
  <2>4. how \in {"ident", "sector", "read"} /\ (c = NoCard => how = "ident")
    BY <2>3 DEF Hows
  <2>5. fits \in BOOLEAN
    BY <2>3 DEF Fits
  <2> QED BY <2>3, <2>4, <2>5, Zenon
<1>2. r[1] = ReadMBR(t, c, how, fits) /\ r[2] = RamAfterMBR(c, how)
  BY <1>1
<1>3. RamAfterMBR(c, how) \in BOOLEAN
  BY DEF RamAfterMBR
<1>4. CASE how = "ident"
  <2>1. ReadMBR(t, c, how, fits) = NoTable BY <1>4 DEF ReadMBR, ClearedTable
  <2> QED BY <2>1, <1>2, <1>3, NoTableOK
<1>5. CASE how # "ident"
  <2> DEFINE sized == [NoTable EXCEPT !.sectors = Content[c].sectors]
  <2>1. c \in Cards
    BY <1>1, <1>5 DEF Slots
  <2>2. NoTable \in Table /\ NoTable.valid = FALSE /\ NoTable.entry = [i \in Entries |-> NoEntry]
    BY NoTableOK DEF TableOK, NoTable
  <2>3. Content[c].sectors \in 0 .. Half - 1
    BY <2>1, CardContent
  <2>4. /\ sized \in Table /\ sized.valid = FALSE /\ sized.sectors = Content[c].sectors
        /\ sized.entry = [i \in Entries |-> NoEntry]
    <3> HIDE DEF NoTable
    <3> QED BY <2>2, <2>3 DEF Table
  <2>5. \/ ReadMBR(t, c, how, fits) = sized
        \/ ReadMBR(t, c, how, fits) = ReadEntries(sized, c, fits)
    BY <1>5 DEF ReadMBR, ClearedTable
  <2> HIDE DEF sized
  <2>6. TableOK(sized) BY <2>4 DEF TableOK
  <2>7. TableOK(ReadEntries(sized, c, fits)) BY <2>1, <2>4, ReadEntriesOK
  <2> QED BY <2>5, <2>6, <2>7, <1>2, <1>3
<1> QED BY <1>4, <1>5

(***************************************************************************)
(* The inductive invariant.                                                *)
(***************************************************************************)

\* The port selects the current drive, unless a program selected another.
PortFollows == "drive" \notin excuse => ideDrive = currentDrive

\* While a program runs and nothing but its selecting another drive excuses
\* it, the library was mounted on the current drive, at the volume whose start
\* the table still gives.
MountedWhere ==
  mode = "exec" /\ media.valid /\ excuse \subseteq {"drive"}
    => /\ media.drive = currentDrive
       /\ media.volume = <<card[currentDrive], getPartitionStart(media.drive, media.part)>>

\* A library that a program can write through is one that fatExit will flush.
FlushKnown ==
  mode = "exec" /\ (media.valid \/ media.open \/ media.dirty) => F_FILESYS_TYPE = "fat_p"

IInv ==
  /\ TypeOK
  /\ AcceptedTablesAreSound
  /\ PortFollows
  /\ MountedWhere
  /\ FlushKnown
  /\ FlushedAtPrompt

TablesOK == table \in [Drives -> Table] /\ AcceptedTablesAreSound

\* initDrives leaves typed and sound tables if it starts from such tables.
LEMMA InitDrivesOK ==
  ASSUME TypeOK, NEW t \in [Drives -> Table], \A d \in Drives : t[d].valid => Sound(t[d]),
         InitDrives(t)
  PROVE  driveStatus' \subseteq Drives /\ TablesOK' /\ ramCSTD' \in BOOLEAN
<1>1. PICK a \in Found(DISK_A, t[DISK_A]), b \in Found(DISK_B, t[DISK_B]) :
        LET found == [d \in Drives |-> IF d = DISK_A THEN a ELSE b]
            Ready == {d \in Drives : found[d] # <<>>}
        IN /\ driveStatus' = Ready
           /\ table' = [d \in Drives |-> IF d \in Ready THEN found[d][1] ELSE t[d]]
           /\ ramCSTD' = IF Ready = {} THEN ramCSTD ELSE found[Max(Ready)][2]
  BY Zenon DEF InitDrives
<1> DEFINE found == [d \in Drives |-> IF d = DISK_A THEN a ELSE b]
           Ready == {d \in Drives : found[d] # <<>>}
<1>2. /\ driveStatus' = Ready
      /\ table' = [d \in Drives |-> IF d \in Ready THEN found[d][1] ELSE t[d]]
      /\ ramCSTD' = IF Ready = {} THEN ramCSTD ELSE found[Max(Ready)][2]
  BY <1>1, Zenon
<1>3. ASSUME NEW d \in Drives, NEW r \in Found(d, t[d]), r # <<>>
      PROVE  TableOK(r[1]) /\ r[2] \in BOOLEAN
  <2>1. card[d] \in Slots BY DEF TypeOK
  <2>2. r \in MBRResults(t[d], card[d]) BY <1>3 DEF Found
  <2> QED BY <2>1, <2>2, MBRResultsOK
<1>4. \A d \in Drives : found[d] \in Found(d, t[d])
  BY DEF Drives, DISK_A, DISK_B
<1> HIDE DEF found
<1>5. \A d \in Ready : TableOK(found[d][1]) /\ found[d][2] \in BOOLEAN
  BY <1>3, <1>4
<1>6. Ready # {} => Max(Ready) \in Ready
  <2>1. Ready \subseteq Entries BY DEF Drives, DISK_A, DISK_B, Entries, PRT_ENTRIES
  <2> QED BY <2>1, MaxEntry
<1> HIDE DEF Ready
<1>7. ramCSTD' \in BOOLEAN
  BY <1>2, <1>5, <1>6 DEF TypeOK
<1>8. driveStatus' \subseteq Drives
  BY <1>2 DEF Ready
<1>9. \A d \in Drives : TableOK(table'[d])
  BY <1>2, <1>5 DEF TableOK
<1>10. TablesOK'
  <2>1. table' = [d \in Drives |-> table'[d]] BY <1>2
  <2>2. \A d \in Drives : table'[d] \in Table /\ (table'[d].valid => Sound(table'[d]))
    BY <1>9 DEF TableOK
  <2> QED BY <2>1, <2>2 DEF TablesOK, AcceptedTablesAreSound, Sound
<1> QED BY <1>7, <1>8, <1>10

(***************************************************************************)
(* Steps preserve the inductive invariant.                                 *)
(***************************************************************************)

\* A card in a selected drive, and what a probe or a mount leaves, are typed.
LEMMA ReadsOK ==
  ASSUME TypeOK, NEW ok \in Reads
  PROVE  /\ ok \in BOOLEAN
         /\ ok => card[ideDrive] \in Cards
BY DEF Reads, TypeOK, Slots

LEMMA ProbedOK ==
  ASSUME TypeOK, NEW ok \in Reads, NEW d \in Drives
  PROVE  Probed(d, ok) \in BOOLEAN
BY ReadsOK, CardContent DEF Probed, TypeOK

LEMMA TableFieldsOK ==
  ASSUME TypeOK, NEW d \in Drives
  PROVE  /\ table[d] \in Table
         /\ table[d].current \in Entries
         /\ \A p \in Entries : getPartitionStart(d, p) \in 0 .. 2 * Half - 1
<1>1. table[d] \in Table BY DEF TypeOK
<1>2. table[d].current \in Entries /\ table[d].entry \in [Entries -> Entry] BY <1>1 DEF Table
<1>3. \A p \in Entries : table[d].entry[p].start \in 0 .. 2 * Half - 1 BY <1>2 DEF Entry
<1> QED BY <1>1, <1>2, <1>3 DEF getPartitionStart

LEMMA MountedOK ==
  ASSUME TypeOK, NEW ok \in Reads, NEW d \in Drives
  PROVE  /\ Mounted(d, ok) \in Media
         /\ Mounted(d, ok).drive = d /\ Mounted(d, ok).dirty = FALSE /\ Mounted(d, ok).open = FALSE
         /\ Attaches(d, ok) =>
              Mounted(d, ok).volume = <<card[ideDrive], getPartitionStart(d, Mounted(d, ok).part)>>
<1>1. media.volume \in Slots \X (0 .. 2 * Half - 1) /\ media.valid \in BOOLEAN
  BY DEF TypeOK, Media
<1>2. card[ideDrive] \in Slots
  BY DEF TypeOK
<1>3. Located(d, table[d].current) \in Slots \X (0 .. 2 * Half - 1)
  BY <1>2, TableFieldsOK DEF Located
<1>4. Attaches(d, ok) \in BOOLEAN
  BY ReadsOK DEF Attaches
<1> DEFINE volume == IF Attaches(d, ok) THEN Located(d, table[d].current) ELSE media.volume
           valid  == media.valid \/ Attaches(d, ok)
<1>5. volume \in Slots \X (0 .. 2 * Half - 1) /\ valid \in BOOLEAN
  BY <1>1, <1>3, <1>4
<1>6. Attaches(d, ok) => volume = <<card[ideDrive], getPartitionStart(d, table[d].current)>>
  BY DEF Located
<1>7. Mounted(d, ok) = [drive |-> d, part |-> table[d].current, valid |-> valid,
                        volume |-> volume, open |-> FALSE, dirty |-> FALSE]
  BY DEF Mounted
<1> HIDE DEF volume, valid
<1> QED BY <1>5, <1>6, <1>7, TableFieldsOK DEF Media

\* A command that may mount leaves a typed library without dirty sectors.
LEMMA MountIfOK ==
  ASSUME TypeOK, NEW ok \in Reads, NEW fs, MountIf(fs, ok), mode = "prompt", FlushedAtPrompt
  PROVE  media' \in Media /\ ~media'.dirty
<1>1. currentDrive \in Drives /\ media \in Media /\ ~media.dirty BY DEF TypeOK, FlushedAtPrompt
<1>2. Mounted(currentDrive, ok) \in Media /\ Mounted(currentDrive, ok).dirty = FALSE
  BY <1>1, MountedOK
<1> QED BY <1>1, <1>2 DEF MountIf

\* Closing the library keeps its type and its volume and leaves nothing dirty.
LEMMA MediaCloseOK ==
  ASSUME NEW m \in Media
  PROVE  /\ mediaClose(m) \in Media /\ ~mediaClose(m).dirty
         /\ mediaClose(m).valid = m.valid /\ mediaClose(m).drive = m.drive
         /\ mediaClose(m).part = m.part /\ mediaClose(m).volume = m.volume
         /\ mediaClose(m).open = m.open
BY DEF mediaClose, Media

\* Steps that stay out of a program and keep the tables and the cards.
Quiet ==
  /\ mode' \in {"off", "prompt", "gone"}
  /\ UNCHANGED <<currentDrive, table, F_FILESYS_TYPE, card, swaps>>
  /\ driveStatus' \subseteq Drives
  /\ ramCSTD' \in BOOLEAN
  /\ media' \in Media /\ (mode' = "prompt" => ~media'.dirty)
  /\ \/ UNCHANGED <<ideDrive, excuse>>
     \/ ideDrive' = currentDrive /\ excuse' = excuse \ {"drive"}

LEMMA QuietStep == IInv /\ Quiet => IInv'
<1> SUFFICES ASSUME IInv, Quiet PROVE IInv'
  OBVIOUS
<1>1. TypeOK' BY DEF IInv, Quiet, TypeOK
<1>2. AcceptedTablesAreSound' BY DEF IInv, Quiet, AcceptedTablesAreSound
<1>3. PortFollows' BY DEF IInv, Quiet, PortFollows
<1>4. MountedWhere' /\ FlushKnown' BY DEF IInv, Quiet, MountedWhere, FlushKnown
<1>5. FlushedAtPrompt' BY DEF IInv, Quiet, FlushedAtPrompt
<1> QED BY <1>1, <1>2, <1>3, <1>4, <1>5 DEF IInv

LEMMA CommandsAreQuiet ==
  IInv /\ (InitIdeDriveCmd \/ DirectoryCmd \/ RunCmd \/ BootCromixCmd \/ BootCpmCmd) => Quiet
<1> SUFFICES ASSUME IInv, InitIdeDriveCmd \/ DirectoryCmd \/ RunCmd \/ BootCromixCmd \/ BootCpmCmd
             PROVE  Quiet
  OBVIOUS
<1>1. TypeOK /\ FlushedAtPrompt /\ currentDrive \in Drives /\ media \in Media /\ driveStatus \subseteq Drives
  BY DEF IInv, TypeOK
<1>2. mode = "prompt" => ~media.dirty
  BY <1>1 DEF FlushedAtPrompt
<1>3. CASE InitIdeDriveCmd
  BY <1>1, <1>2, <1>3 DEF InitIdeDriveCmd, Quiet, TypeOK
<1>4. CASE DirectoryCmd
  <2>1. PICK ok \in Reads : \E fs \in {FileSysType(currentDrive, ok)} :
          /\ ramCSTD' = Probed(currentDrive, ok)
          /\ IF fs = "fat_p"
             THEN media' = mediaClose(Mounted(currentDrive, ok)) /\ UNCHANGED <<ideDrive, excuse>>
             ELSE IF fs \in {"cromix_p", "cromix_d"}
             THEN ideDrive' = currentDrive /\ excuse' = excuse \ {"drive"} /\ UNCHANGED media
             ELSE UNCHANGED <<media, excuse, ideDrive>>
    BY <1>4 DEF DirectoryCmd, setIdeDrive
  <2>2. ramCSTD' \in BOOLEAN BY <1>1, <2>1, ProbedOK
  <2>3. mediaClose(Mounted(currentDrive, ok)) \in Media /\ ~mediaClose(Mounted(currentDrive, ok)).dirty
    BY <1>1, MountedOK, MediaCloseOK
  <2> QED BY <1>1, <1>2, <1>4, <2>1, <2>2, <2>3 DEF DirectoryCmd, Quiet
<1>5. CASE RunCmd
  <2>1. PICK ok \in Reads : /\ ramCSTD' = Probed(currentDrive, ok)
                            /\ LoadRecordFile(FileSysType(currentDrive, ok), ok, AfterRun)
    BY <1>5 DEF RunCmd
  <2>2. ramCSTD' \in BOOLEAN BY <1>1, <2>1, ProbedOK
  <2>3. media' \in Media /\ ~media'.dirty
    BY <1>1, <1>5, <2>1, MountIfOK DEF LoadRecordFile, RunCmd
  <2>4. mode' \in {"prompt", "gone"}
    BY <2>1 DEF LoadRecordFile, LoadResults, AfterRun, LoadEnds, RecordResults
  <2> QED BY <1>1, <1>5, <2>2, <2>3, <2>4 DEF RunCmd, Quiet
<1>6. CASE BootCromixCmd
  <2>1. PICK ok \in Reads : \E fs \in {FileSysType(currentDrive, ok)} :
          /\ ramCSTD' = Probed(currentDrive, ok)
          /\ \/ LoadRecordFile(fs, ok, AfterCromixLoad) /\ UNCHANGED <<ideDrive, excuse>>
             \/ /\ ideDrive' = currentDrive /\ excuse' = excuse \ {"drive"}
                /\ mode' \in {"prompt", "gone"} /\ UNCHANGED media
             \/ UNCHANGED <<mode, ideDrive, media, excuse>>
    BY <1>6 DEF BootCromixCmd, setIdeDrive
  <2>2. PICK fs : /\ ramCSTD' = Probed(currentDrive, ok)
                  /\ \/ LoadRecordFile(fs, ok, AfterCromixLoad) /\ UNCHANGED <<ideDrive, excuse>>
                     \/ /\ ideDrive' = currentDrive /\ excuse' = excuse \ {"drive"}
                        /\ mode' \in {"prompt", "gone"} /\ UNCHANGED media
                     \/ UNCHANGED <<mode, ideDrive, media, excuse>>
    BY <2>1
  <2>3. ramCSTD' \in BOOLEAN BY <1>1, <2>2, ProbedOK
  <2>4. mode = "prompt" /\ UNCHANGED <<currentDrive, driveStatus, table, F_FILESYS_TYPE, card, swaps>>
    BY <1>6 DEF BootCromixCmd
  <2>5. CASE LoadRecordFile(fs, ok, AfterCromixLoad) /\ UNCHANGED <<ideDrive, excuse>>
    <3>1. media' \in Media /\ ~media'.dirty
      BY <1>1, <2>4, <2>5, MountIfOK DEF LoadRecordFile
    <3>2. mode' = "gone"
      BY <2>5 DEF LoadRecordFile, LoadResults, AfterCromixLoad, LoadEnds, RecordResults
    <3> QED BY <1>1, <2>3, <2>4, <2>5, <3>1, <3>2 DEF Quiet
  <2>6. CASE /\ ideDrive' = currentDrive /\ excuse' = excuse \ {"drive"}
             /\ mode' \in {"prompt", "gone"} /\ UNCHANGED media
    BY <1>1, <1>2, <2>3, <2>4, <2>6 DEF Quiet
  <2>7. CASE UNCHANGED <<mode, ideDrive, media, excuse>>
    BY <1>1, <1>2, <2>3, <2>4, <2>7 DEF Quiet
  <2> QED BY <2>2, <2>5, <2>6, <2>7
<1>7. CASE BootCpmCmd
  <2>1. PICK ok \in Reads : \E fs \in {FileSysType(currentDrive, ok)} :
          /\ ramCSTD' = Probed(currentDrive, ok)
          /\ MountIf(fs, ok)
          /\ mode' \in {"prompt", "gone"}
    BY <1>7 DEF BootCpmCmd
  <2>2. ramCSTD' \in BOOLEAN BY <1>1, <2>1, ProbedOK
  <2>3. media' \in Media /\ ~media'.dirty
    BY <1>1, <1>7, <2>1, MountIfOK DEF BootCpmCmd
  <2> QED BY <1>1, <1>7, <2>1, <2>2, <2>3 DEF BootCpmCmd, Quiet
<1> QED BY <1>3, <1>4, <1>5, <1>6, <1>7

\* Steps at the prompt that leave the library alone.
AtPrompt ==
  /\ mode = "prompt" /\ mode' = "prompt"
  /\ UNCHANGED <<F_FILESYS_TYPE, media, card, swaps>>
  /\ currentDrive' \in Drives /\ driveStatus' \subseteq Drives /\ ramCSTD' \in BOOLEAN
  /\ TablesOK'
  /\ \/ UNCHANGED <<currentDrive, ideDrive, excuse>>
     \/ ideDrive' = currentDrive' /\ excuse' = excuse \ {"drive"}

LEMMA AtPromptStep == IInv /\ AtPrompt => IInv'
<1> SUFFICES ASSUME IInv, AtPrompt PROVE IInv'
  OBVIOUS
<1>1. TypeOK' BY DEF IInv, AtPrompt, TypeOK, TablesOK
<1>2. AcceptedTablesAreSound' BY DEF AtPrompt, TablesOK
<1>3. PortFollows' BY DEF IInv, AtPrompt, PortFollows
<1>4. MountedWhere' /\ FlushKnown' BY DEF AtPrompt, MountedWhere, FlushKnown
<1>5. FlushedAtPrompt' BY DEF IInv, AtPrompt, FlushedAtPrompt
<1> QED BY <1>1, <1>2, <1>3, <1>4, <1>5 DEF IInv

\* Choosing a partition changes what is current, not what is sound.
LEMMA SetPartitionOK ==
  ASSUME TypeOK, AcceptedTablesAreSound, NEW d \in Drives, NEW k \in Keys, setPartitionId(d, k)
  PROVE  TablesOK'
<1>1. k \in 0 .. 255 BY VolumesAssumption
<1>2. CASE IsPartition(k)
  <2>1. k \in Entries BY <1>1, <1>2 DEF IsPartition, Entries, PRT_ENTRIES
  <2>2. table' = [table EXCEPT ![d].current = k] BY <1>2 DEF setPartitionId
  <2>3. \A x \in Drives : table[x] \in Table BY DEF TypeOK
  <2>4. table' \in [Drives -> Table]
    BY <2>1, <2>2, <2>3 DEF TypeOK, Table
  <2>5. \A x \in Drives : /\ table'[x].valid = table[x].valid
                          /\ table'[x].sectors = table[x].sectors
                          /\ table'[x].entry = table[x].entry
    BY <2>2, <2>3 DEF TypeOK, Table
  <2> QED BY <2>4, <2>5 DEF TablesOK, AcceptedTablesAreSound, Sound
<1>3. CASE ~IsPartition(k)
  BY <1>3 DEF setPartitionId, TablesOK, TypeOK, AcceptedTablesAreSound, Sound
<1> QED BY <1>2, <1>3

LEMMA PromptCommandsKeepPlace ==
  IInv /\ (RestartCmd \/ (\E d \in Drives : DriveCmd(d)) \/ PartitionCmd \/ MbrCmd) => AtPrompt
<1> SUFFICES ASSUME IInv, RestartCmd \/ (\E d \in Drives : DriveCmd(d)) \/ PartitionCmd \/ MbrCmd
             PROVE  AtPrompt
  OBVIOUS
<1>1. /\ TypeOK /\ AcceptedTablesAreSound /\ currentDrive \in Drives /\ driveStatus \subseteq Drives
      /\ ramCSTD \in BOOLEAN
  BY DEF IInv, TypeOK
<1>2. UNCHANGED table => TablesOK'
  BY <1>1 DEF TypeOK, TablesOK, AcceptedTablesAreSound
<1>3. CASE RestartCmd
  <2>1. InitDrives(table) BY <1>3 DEF RestartCmd
  <2>2. driveStatus' \subseteq Drives /\ TablesOK' /\ ramCSTD' \in BOOLEAN
    BY <1>1, <2>1, InitDrivesOK DEF TypeOK, AcceptedTablesAreSound
  <2> QED BY <1>3, <2>2 DEF RestartCmd, AtPrompt, selectDrive, setIdeDrive, Drives
<1>4. CASE \E d \in Drives : DriveCmd(d)
  <2>1. PICK d \in Drives : DriveCmd(d) BY <1>4
  <2>2. TablesOK' BY <1>1, <1>2, <2>1, SetPartitionOK DEF DriveCmd
  <2> QED BY <1>1, <2>1, <2>2 DEF DriveCmd, AtPrompt, selectDrive, setIdeDrive
<1>5. CASE PartitionCmd
  <2>1. TablesOK' BY <1>1, <1>5, SetPartitionOK DEF PartitionCmd
  <2> QED BY <1>1, <1>5, <2>1 DEF PartitionCmd, AtPrompt
<1>6. CASE MbrCmd
  <2>1. PICK r \in MBRResults(table[currentDrive], card[ideDrive]) :
          table' = [table EXCEPT ![currentDrive] = r[1]] /\ ramCSTD' = r[2]
    BY <1>6 DEF MbrCmd
  <2>2. card[ideDrive] \in Slots BY <1>1 DEF TypeOK
  <2>3. TableOK(r[1]) /\ r[2] \in BOOLEAN BY <2>2, MBRResultsOK
  <2>4. TablesOK'
    <3>1. \A x \in Drives : table'[x] = IF x = currentDrive THEN r[1] ELSE table[x]
      BY <1>1, <2>1 DEF TypeOK
    <3>2. table' \in [Drives -> Table]
      BY <1>1, <2>1, <2>3 DEF TypeOK, TableOK
    <3>3. \A x \in Drives : table'[x].valid => Sound(table'[x])
      BY <1>1, <2>3, <3>1 DEF TableOK, AcceptedTablesAreSound
    <3> QED BY <3>2, <3>3 DEF TablesOK, AcceptedTablesAreSound, Sound
  <2> QED BY <1>1, <1>6, <2>1, <2>3, <2>4 DEF MbrCmd, AtPrompt
<1> QED BY <1>3, <1>4, <1>5, <1>6

\* The clearing of the bss, and what initDrives then leaves.
LEMMA ClearedDrivesOK ==
  ASSUME TypeOK, InitDrives([d \in Drives |-> NoTable])
  PROVE  driveStatus' \subseteq Drives /\ TablesOK' /\ ramCSTD' \in BOOLEAN
<1>1. NoTable \in Table /\ NoTable.valid = FALSE BY NoTableOK DEF TableOK, NoTable
<1> DEFINE t == [d \in Drives |-> NoTable]
<1>2. t \in [Drives -> Table] /\ \A d \in Drives : t[d].valid => Sound(t[d])
  BY <1>1
<1>3. InitDrives(t) OBVIOUS
<1> HIDE DEF t
<1> QED BY <1>2, <1>3, InitDrivesOK

LEMMA UnmountedOK ==
  Unmounted \in Media /\ ~Unmounted.valid /\ ~Unmounted.open /\ ~Unmounted.dirty
<1>1. NoVolume \in Slots \X (0 .. 2 * Half - 1) BY HalfPositive DEF NoVolume, Slots
<1> QED BY <1>1 DEF Unmounted, Media, Drives, Entries, PRT_ENTRIES

\* The invariant holds after every step.
LEMMA StepKeepsIInv == IInv /\ [Next]_vars => IInv'
<1> SUFFICES ASSUME IInv, [Next]_vars PROVE IInv'
  OBVIOUS
<1>0. /\ TypeOK /\ AcceptedTablesAreSound /\ currentDrive \in Drives /\ ideDrive \in Drives
      /\ driveStatus \subseteq Drives /\ ramCSTD \in BOOLEAN /\ media \in Media
      /\ excuse \subseteq {"drive", "astray", "swap", "attach"}
  BY DEF IInv, TypeOK
<1>1. CASE Reset
  <2>1. driveStatus' \subseteq Drives /\ TablesOK' /\ ramCSTD' \in BOOLEAN
    BY <1>0, <1>1, ClearedDrivesOK DEF Reset
  <2>2. TypeOK' BY <1>0, <1>1, <2>1, UnmountedOK DEF Reset, TypeOK, TablesOK, setIdeDrive, Drives
  <2>3. PortFollows' /\ MountedWhere' /\ FlushKnown' /\ FlushedAtPrompt'
    BY <1>1, UnmountedOK DEF Reset, PortFollows, MountedWhere, FlushKnown, FlushedAtPrompt, setIdeDrive
  <2> QED BY <2>1, <2>2, <2>3 DEF IInv, TablesOK
<1>2. CASE RestartCmd \/ (\E d \in Drives : DriveCmd(d)) \/ PartitionCmd \/ MbrCmd
  BY <1>2, PromptCommandsKeepPlace, AtPromptStep
<1>3. CASE InitIdeDriveCmd \/ DirectoryCmd \/ RunCmd \/ BootCromixCmd \/ BootCpmCmd
  BY <1>3, CommandsAreQuiet, QuietStep
<1>4. CASE ExecCmd
  <2>1. PICK ok \in Reads :
          /\ ramCSTD' = Probed(currentDrive, ok)
          /\ MountIf(FileSysType(currentDrive, ok), ok)
          /\ \/ UNCHANGED <<mode, F_FILESYS_TYPE, excuse>>
             \/ /\ FileSysType(currentDrive, ok) = "fat_p" /\ media'.valid
                /\ mode' = "exec"
                /\ F_FILESYS_TYPE' = "fat_p"
                /\ excuse' = MountExcuse(currentDrive, ok)
    BY <1>4 DEF ExecCmd
  <2>2. ramCSTD' \in BOOLEAN BY <1>0, <2>1, ProbedOK
  <2>3. mode = "prompt" /\ UNCHANGED <<currentDrive, ideDrive, driveStatus, table, card, swaps>>
    BY <1>4 DEF ExecCmd
  <2>4. media' \in Media /\ ~media'.dirty
    BY <1>0, <2>1, <2>3, MountIfOK DEF IInv
  <2>5. CASE UNCHANGED <<mode, F_FILESYS_TYPE, excuse>>
    BY <1>0, <2>2, <2>3, <2>4, <2>5, QuietStep DEF Quiet
  <2>6. CASE /\ FileSysType(currentDrive, ok) = "fat_p" /\ media'.valid
             /\ mode' = "exec"
             /\ F_FILESYS_TYPE' = "fat_p"
             /\ excuse' = MountExcuse(currentDrive, ok)
    <3>1. media' = Mounted(currentDrive, ok) BY <2>1, <2>6 DEF MountIf
    <3>2. TypeOK' BY <1>0, <2>2, <2>3, <2>4, <2>6 DEF TypeOK, MountExcuse
    <3>3. AcceptedTablesAreSound' BY <1>0, <2>3 DEF AcceptedTablesAreSound
    <3>4. PortFollows' BY <2>3, <2>6 DEF IInv, PortFollows, MountExcuse
    <3>5. MountedWhere'
      <4> SUFFICES ASSUME excuse' \subseteq {"drive"}
                   PROVE  /\ media'.drive = currentDrive
                          /\ media'.volume = <<card[currentDrive],
                                               getPartitionStart(media'.drive, media'.part)>>
        BY <2>3 DEF MountedWhere, getPartitionStart
      <4>1. "drive" \notin excuse /\ Attaches(currentDrive, ok)
        BY <2>6 DEF MountExcuse
      <4>2. ideDrive = currentDrive BY <4>1 DEF IInv, PortFollows
      <4> DEFINE m == Mounted(currentDrive, ok)
      <4>3. /\ m.drive = currentDrive
            /\ m.volume = <<card[ideDrive], getPartitionStart(currentDrive, m.part)>>
        BY <1>0, <4>1, MountedOK
      <4> HIDE DEF m
      <4>4. media' = m BY <3>1 DEF m
      <4> QED BY <4>2, <4>3, <4>4
    <3>6. FlushKnown' BY <2>6 DEF FlushKnown
    <3>7. FlushedAtPrompt' BY <2>6 DEF FlushedAtPrompt
    <3> QED BY <3>2, <3>3, <3>4, <3>5, <3>6, <3>7 DEF IInv
  <2> QED BY <2>1, <2>5, <2>6
\* A call that may change whether a file is open and whether something is dirty.
<1>5. CASE fOpenFAT \/ fWriteFAT \/ fCloseFAT
  <2>1. /\ mode = "exec"
        /\ UNCHANGED <<mode, currentDrive, driveStatus, table, F_FILESYS_TYPE, ramCSTD, card, swaps,
                       ideDrive, excuse>>
    BY <1>5 DEF fOpenFAT, fWriteFAT, fCloseFAT, Program
  <2>2. /\ media' \in Media
        /\ media'.valid = media.valid /\ media'.drive = media.drive
        /\ media'.part = media.part /\ media'.volume = media.volume
        /\ media'.valid \/ media'.open \/ media'.dirty => media.valid \/ media.open \/ media.dirty
    <3>1. CASE fOpenFAT
      <4>1. PICK found \in BOOLEAN : media' = [media EXCEPT !.open = found /\ media.valid]
        BY <3>1 DEF fOpenFAT, Program
      <4> QED BY <1>0, <4>1 DEF Media
    <3>2. CASE fWriteFAT
      <4>1. media' = [media EXCEPT !.dirty = TRUE] /\ media.open BY <3>2 DEF fWriteFAT, Program
      <4> QED BY <1>0, <4>1 DEF Media
    <3>3. CASE fCloseFAT
      <4> DEFINE m == mediaClose(media)
      <4>1. media' = [m EXCEPT !.open = FALSE] BY <3>3 DEF fCloseFAT, Program
      <4>2. /\ m \in Media /\ ~m.dirty /\ m.valid = media.valid /\ m.drive = media.drive
            /\ m.part = media.part /\ m.volume = media.volume
        BY <1>0, MediaCloseOK
      <4> HIDE DEF m
      <4> QED BY <4>1, <4>2 DEF Media
    <3> QED BY <1>5, <3>1, <3>2, <3>3
  <2>3. TypeOK' BY <1>0, <2>1, <2>2 DEF TypeOK
  <2>4. AcceptedTablesAreSound' /\ PortFollows'
    BY <2>1 DEF IInv, AcceptedTablesAreSound, PortFollows
  <2>5. MountedWhere'
    BY <2>1, <2>2 DEF IInv, MountedWhere, getPartitionStart
  <2>6. FlushKnown' /\ FlushedAtPrompt'
    BY <2>1, <2>2 DEF IInv, FlushKnown, FlushedAtPrompt
  <2> QED BY <2>3, <2>4, <2>5, <2>6 DEF IInv
<1>6. CASE \E d \in Drives : biosDriveBlock(d)
  <2>1. PICK d \in Drives : biosDriveBlock(d) BY <1>6
  <2>2. /\ mode = "exec" /\ ideDrive' = d
        /\ excuse' = IF d = currentDrive THEN excuse \ {"drive"} ELSE excuse \union {"drive"}
        /\ UNCHANGED <<media, mode, currentDrive, driveStatus, table, F_FILESYS_TYPE, ramCSTD, card, swaps>>
    BY <2>1 DEF biosDriveBlock, Program, setIdeDrive
  <2>3. TypeOK' BY <1>0, <2>2 DEF TypeOK
  <2>4. AcceptedTablesAreSound' /\ PortFollows' /\ FlushKnown' /\ FlushedAtPrompt'
    BY <2>2 DEF IInv, AcceptedTablesAreSound, PortFollows, FlushKnown, FlushedAtPrompt
  <2>5. excuse' \subseteq {"drive"} => excuse \subseteq {"drive"} BY <2>2
  <2>6. MountedWhere' BY <2>2, <2>5 DEF IInv, MountedWhere, getPartitionStart
  <2> QED BY <2>3, <2>4, <2>6 DEF IInv
<1>7. CASE biosInitDrives
  <2>1. driveStatus' \subseteq Drives /\ TablesOK' /\ ramCSTD' \in BOOLEAN
    BY <1>0, <1>7, ClearedDrivesOK DEF biosInitDrives
  <2>2. TypeOK'
    BY <1>0, <1>7, <2>1, UnmountedOK
    DEF biosInitDrives, TypeOK, TablesOK, selectDrive, setIdeDrive, Drives
  <2>3. PortFollows' /\ MountedWhere' /\ FlushKnown' /\ FlushedAtPrompt'
    BY <1>7, UnmountedOK
    DEF biosInitDrives, PortFollows, MountedWhere, FlushKnown, FlushedAtPrompt, selectDrive, setIdeDrive
  <2> QED BY <2>1, <2>2, <2>3 DEF IInv, TablesOK
<1>8. CASE Return
  <2>1. FatExit(media, F_FILESYS_TYPE) \in Media /\ ~FatExit(media, F_FILESYS_TYPE).dirty
    BY <1>0, <1>8, MediaCloseOK DEF Return, IInv, FlushKnown, FatExit
  <2>2. TypeOK' BY <1>0, <1>8, <2>1 DEF Return, TypeOK
  <2>3. /\ AcceptedTablesAreSound' /\ PortFollows' /\ MountedWhere' /\ FlushKnown' /\ FlushedAtPrompt'
    BY <1>8, <2>1
    DEF Return, IInv, AcceptedTablesAreSound, PortFollows, MountedWhere, FlushKnown, FlushedAtPrompt
  <2> QED BY <2>2, <2>3 DEF IInv
<1>9. CASE \E d \in Drives : Swap(d)
  <2>1. PICK d \in Drives : Swap(d) BY <1>9
  <2>2. PICK c \in (Cards \union {NoCard}) \ {card[d]} : card' = [card EXCEPT ![d] = c]
    BY <2>1 DEF Swap
  <2>3. /\ swaps < MaxSwaps /\ swaps' = swaps + 1
        /\ excuse' = IF mode = "exec" THEN excuse \union {"swap"} ELSE excuse
        /\ UNCHANGED <<mode, currentDrive, ideDrive, driveStatus, table, F_FILESYS_TYPE, ramCSTD, media>>
    BY <2>1 DEF Swap
  <2>4. card' \in [Drives -> Slots] BY <1>0, <2>2 DEF TypeOK, Slots
  <2>5. swaps' \in 0 .. MaxSwaps BY <1>0, <2>3, VolumesAssumption DEF TypeOK
  <2>6. TypeOK' BY <1>0, <2>3, <2>4, <2>5 DEF TypeOK
  <2>7. AcceptedTablesAreSound' /\ PortFollows' /\ FlushKnown' /\ FlushedAtPrompt'
    BY <2>3 DEF IInv, AcceptedTablesAreSound, PortFollows, FlushKnown, FlushedAtPrompt
  <2>8. MountedWhere' BY <2>3 DEF MountedWhere
  <2> QED BY <2>6, <2>7, <2>8 DEF IInv
<1>10. CASE UNCHANGED vars
  BY <1>10 DEF vars, IInv, TypeOK, AcceptedTablesAreSound, PortFollows, MountedWhere, FlushKnown,
               FlushedAtPrompt, getPartitionStart
<1> QED
  BY <1>1, <1>2, <1>3, <1>4, <1>5, <1>6, <1>7, <1>8, <1>9, <1>10 DEF Next

LEMMA IInvHolds == Spec => []IInv
<1>1. Init => IInv
  <2> SUFFICES ASSUME Init PROVE IInv
    OBVIOUS
  <2>1. NoTable \in Table /\ ~NoTable.valid BY NoTableOK DEF TableOK, NoTable
  <2>2. TypeOK
    <3>1. card \in [Drives -> Slots] /\ swaps \in 0 .. MaxSwaps
      BY VolumesAssumption DEF Init, Slots
    <3>2. currentDrive \in Drives /\ ideDrive \in Drives BY DEF Init, Drives
    <3>3. table \in [Drives -> Table] BY <2>1 DEF Init
    <3> QED BY <3>1, <3>2, <3>3, UnmountedOK DEF Init, TypeOK
  <2>3. AcceptedTablesAreSound /\ PortFollows /\ MountedWhere /\ FlushKnown /\ FlushedAtPrompt
    BY <2>1 DEF Init, AcceptedTablesAreSound, PortFollows, MountedWhere, FlushKnown, FlushedAtPrompt
  <2> QED BY <2>2, <2>3 DEF IInv
<1> QED BY <1>1, StepKeepsIInv, PTL DEF Spec

(***************************************************************************)
(* Theorems.                                                               *)
(***************************************************************************)

\* Every variable of the monitor keeps its type; in particular the current
\* partition of a drive is always one of its table's, whatever is typed.
THEOREM TypeCorrect == Spec => []TypeOK
<1>1. IInv => TypeOK BY DEF IInv
<1> QED BY <1>1, IInvHolds, PTL

\* A partition table that readMBR accepted, whatever card it came from and in
\* whatever order the drives were used, has entries that start inside the drive
\* and do not share a sector (mbr.s:145-253).  Where the last one ends is not
\* compared with the drive's size.
THEOREM AcceptedAreSound == Spec => []AcceptedTablesAreSound
<1>1. IInv => AcceptedTablesAreSound BY DEF IInv
<1> QED BY <1>1, IInvHolds, PTL

\* Under a program the FAT library reads and writes the volume it was mounted
\* on, unless a card was exchanged, the mount had failed or the program had
\* selected another drive (media-io.c:30-42).
THEOREM FatStays == Spec => []FatStaysInVolume
<1>1. IInv => FatStaysInVolume
  <2> SUFFICES ASSUME IInv PROVE FatStaysInVolume
    OBVIOUS
  <2>1. "drive" \notin excuse => ideDrive = currentDrive BY DEF IInv, PortFollows
  <2>2. mode = "exec" /\ media.valid /\ excuse = {} =>
          /\ media.drive = ideDrive
          /\ Located(media.drive, media.part) = media.volume
    BY <2>1 DEF IInv, MountedWhere, Located
  <2> QED BY <2>1, <2>2 DEF FatStaysInVolume
<1> QED BY <1>1, IInvHolds, PTL

\* When a program returns, or after any command, the library holds no sector
\* that was written and not flushed (file-sys.s:66-74).
THEOREM Flushed == Spec => []FlushedAtPrompt
<1>1. IInv => FlushedAtPrompt BY DEF IInv
<1> QED BY <1>1, IInvHolds, PTL
================================================================================
