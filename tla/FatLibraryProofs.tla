--------------------------- MODULE FatLibraryProofs ----------------------------
EXTENDS FatFormat, FatNames, FatTable, ProgramLoader, FiniteSetTheorems, SequenceTheorems,
        WellFoundedInduction, TLAPS

(***************************************************************************)
(* Formatting.                                                             *)
(***************************************************************************)
\* One turn of the counter below zero.
LEMMA Wraps ==
  ASSUME NEW d \in Int, d < 0, d + WordSize >= 0
  PROVE  d % WordSize = d + WordSize
<1>1. d % WordSize \in 0 .. WordSize - 1 /\ d = WordSize * (d \div WordSize) + (d % WordSize)
      /\ d \div WordSize \in Int
  BY SMT, WordAssumption
<1> DEFINE q == d \div WordSize
           r == d % WordSize
<1> HIDE DEF q, r
<1>2. r \in 0 .. WordSize - 1 /\ d = WordSize * q + r /\ q \in Int BY SMT, <1>1 DEF q, r
<1>3. q >= 0 => WordSize * q >= 0 BY SMT, <1>2, WordAssumption
<1>4. q <= -2 => WordSize * q <= -2 * WordSize BY SMT, <1>2, WordAssumption
<1>5. q = -1 BY SMT, <1>2, <1>3, <1>4, WordAssumption
<1>6. r = d + WordSize BY SMT, <1>2, <1>5, WordAssumption
<1> QED BY SMT, <1>6 DEF r

\* A row of a table is found when it holds the size and the one before does not.
LEMMA Size16 ==
  ASSUME NEW s \in Nat, s <= 4194304
  PROVE  CalcClusterSize(s, 16) =
           IF s <= 32680 THEN 2 ELSE IF s <= 262144 THEN 4 ELSE IF s <= 524288 THEN 8
           ELSE IF s <= 1048576 THEN 16 ELSE IF s <= 2097152 THEN 32 ELSE 64
<1> DEFINE table == ClusterSizeTable16
           holds(i) == s <= table[i].sectors /\ \A j \in 1 .. i - 1 : s > table[j].sectors
<1>1. DOMAIN table = 1 .. 7 BY SMT DEF ClusterSizeTable16
<1>2. /\ table[1] = Row(32680, 2) /\ table[2] = Row(262144, 4) /\ table[3] = Row(524288, 8)
      /\ table[4] = Row(1048576, 16) /\ table[5] = Row(2097152, 32) /\ table[6] = Row(4194304, 64)
      /\ table[7] = Row(8388608, 128)
  BY SMT DEF ClusterSizeTable16
<1>3. /\ table[1].sectors = 32680 /\ table[2].sectors = 262144 /\ table[3].sectors = 524288
      /\ table[4].sectors = 1048576 /\ table[5].sectors = 2097152 /\ table[6].sectors = 4194304
      /\ table[7].sectors = 8388608
  BY SMT, <1>2 DEF Row
<1>4. /\ table[1].sectors_per_cluster = 2 /\ table[2].sectors_per_cluster = 4
      /\ table[3].sectors_per_cluster = 8 /\ table[4].sectors_per_cluster = 16
      /\ table[5].sectors_per_cluster = 32 /\ table[6].sectors_per_cluster = 64
  BY SMT, <1>2 DEF Row
<1> DEFINE row == IF s <= 32680 THEN 1 ELSE IF s <= 262144 THEN 2 ELSE IF s <= 524288 THEN 3
                  ELSE IF s <= 1048576 THEN 4 ELSE IF s <= 2097152 THEN 5 ELSE 6
<1> HIDE DEF table
<1>5. row \in 1 .. 7 /\ holds(row) BY SMT, <1>3
<1>6. \A i \in 1 .. 7 : holds(i) => i = row
  <2> TAKE i \in 1 .. 7
  <2>1. i < row => ~holds(i) BY SMT, <1>3
  <2>2. i > row => ~holds(i) BY SMT, <1>3
  <2> QED BY SMT, <1>5, <2>1, <2>2
<1> DEFINE found == CHOOSE i \in 1 .. 7 : holds(i)
<1>7. CalcClusterSize(s, 16) = table[found].sectors_per_cluster
  BY SMT, <1>1, <1>5 DEF CalcClusterSize, table
<1>9. table[row].sectors_per_cluster =
           IF s <= 32680 THEN 2 ELSE IF s <= 262144 THEN 4
           ELSE IF s <= 524288 THEN 8 ELSE IF s <= 1048576 THEN 16 ELSE IF s <= 2097152 THEN 32 ELSE 64
  BY SMT, <1>4
<1> HIDE DEF holds, row
<1>10. found = row BY SMT, <1>5, <1>6 DEF found
<1> HIDE DEF found
<1> QED BY SMT, <1>7, <1>9, <1>10

LEMMA Size32 ==
  ASSUME NEW s \in Nat, s < WordSize
  PROVE  CalcClusterSize(s, 32) =
           IF s <= 532480 THEN 1 ELSE IF s <= 16777216 THEN 8 ELSE IF s <= 33554432 THEN 16
           ELSE IF s <= 67108864 THEN 32 ELSE 64
<1> DEFINE table == ClusterSizeTable32
           holds(i) == s <= table[i].sectors /\ \A j \in 1 .. i - 1 : s > table[j].sectors
<1>1. DOMAIN table = 1 .. 5 BY SMT DEF ClusterSizeTable32
<1>2. /\ table[1] = Row(532480, 1) /\ table[2] = Row(16777216, 8) /\ table[3] = Row(33554432, 16)
      /\ table[4] = Row(67108864, 32) /\ table[5] = Row(WordSize - 1, 64)
  BY SMT DEF ClusterSizeTable32
<1>3. /\ table[1].sectors = 532480 /\ table[2].sectors = 16777216 /\ table[3].sectors = 33554432
      /\ table[4].sectors = 67108864 /\ table[5].sectors = WordSize - 1
  BY SMT, <1>2 DEF Row
<1>4. /\ table[1].sectors_per_cluster = 1 /\ table[2].sectors_per_cluster = 8
      /\ table[3].sectors_per_cluster = 16 /\ table[4].sectors_per_cluster = 32
      /\ table[5].sectors_per_cluster = 64
  BY SMT, <1>2 DEF Row
<1> DEFINE row == IF s <= 532480 THEN 1 ELSE IF s <= 16777216 THEN 2 ELSE IF s <= 33554432 THEN 3
                  ELSE IF s <= 67108864 THEN 4 ELSE 5
<1> HIDE DEF table
<1>5. row \in 1 .. 5 /\ holds(row) BY SMT, <1>3, WordAssumption
<1>6. \A i \in 1 .. 5 : holds(i) => i = row
  <2> TAKE i \in 1 .. 5
  <2>1. i < row => ~holds(i) BY SMT, <1>3
  <2>2. i > row => ~holds(i) BY SMT, <1>3, WordAssumption
  <2> QED BY SMT, <1>5, <2>1, <2>2
<1> DEFINE found == CHOOSE i \in 1 .. 5 : holds(i)
<1>7. CalcClusterSize(s, 32) = table[found].sectors_per_cluster
  BY SMT, <1>1, <1>5 DEF CalcClusterSize, table
<1>9. table[row].sectors_per_cluster =
           IF s <= 532480 THEN 1 ELSE IF s <= 16777216 THEN 8
           ELSE IF s <= 33554432 THEN 16 ELSE IF s <= 67108864 THEN 32 ELSE 64
  BY SMT, <1>4
<1> HIDE DEF holds, row
<1>10. found = row BY SMT, <1>5, <1>6 DEF found
<1> HIDE DEF found
<1> QED BY SMT, <1>7, <1>9, <1>10

\* The clusters fatfs_init counts in a FAT16 volume of s sectors.
Counted16(s, fats, size) == ((s - (40 + 2 * fats)) % WordSize) \div size

\* What the fields of a FAT16 boot sector make fatfs_init compute.
LEMMA Mount16 ==
  ASSUME NEW s \in Nat, s <= 4194304,
         NEW size, size = CalcClusterSize(s, 16),
         NEW fats, fats = FatSize(s, size, 16),
         NEW clusters, clusters = Counted16(s, fats, size)
  PROVE  /\ size \in {2, 4, 8, 16, 32, 64}
         /\ fats \in 1 .. 257
         /\ clusters < 4085 => MountFormatted(s) = [result |-> "FAT_INIT_WRONG_FILESYS_TYPE"]
         /\ clusters >= 65525 => /\ MountFormatted(s).result = "FAT_INIT_OK"
                                 /\ MountFormatted(s).fs.fat_type = 32
         /\ (clusters >= 4085 /\ clusters < 65525) =>
              /\ MountFormatted(s).result = "FAT_INIT_OK"
              /\ SameLayout(Formatted(s, 16), MountFormatted(s).fs)
<1>1. size \in {2, 4, 8, 16, 32, 64} BY SMT, Size16
<1>2. fats \in 1 .. 257
  BY SMT, Size16 DEF FatSize, EntriesPerSector, FAT_SECTOR_SIZE
<1> DEFINE b == BootSector(s, 16)
           sector == [lba \in {0} |-> b]
<1>3. /\ b.BPB_BYTSPERSEC = 512 /\ b.BPB_SECPERCLUS = size /\ b.BPB_RSVDSECCNT = 8
      /\ b.BPB_NUMFATS = 2 /\ b.BPB_ROOTENTCNT = 512 /\ b.BPB_TOTSEC16 = 0
      /\ b.BPB_FATSZ16 = fats /\ b.BPB_TOTSEC32 = s
      /\ b.typecode = 0 /\ b.lba_begin = 0 /\ b.signature = 43605
  <2>1. s % WordSize = s BY SMT, WordAssumption
  <2>2. fats % 65536 = fats BY SMT, <1>2
  <2> QED BY SMTT(60), <2>1, <2>2 DEF BootSector, Formatted, FAT_SECTOR_SIZE
<1>4. sector[0] = b /\ FormatType(s) = 16 BY SMT DEF FormatType
<1>5. 0 \notin FatTypeCodes BY SMT DEF FatTypeCodes
<1>6. DataSectors(b, fats) = (s - (40 + 2 * fats)) % WordSize
  BY SMT, <1>2, <1>3 DEF DataSectors
<1>7. RootDirSectors(512) = 32 BY SMT DEF RootDirSectors, FAT_SECTOR_SIZE
<1>8. MountFormatted(s) = FatfsInit(sector) BY SMT, <1>4 DEF MountFormatted
<1> HIDE DEF sector, b
<1>9. clusters \in Int
  <2>1. s - (40 + 2 * fats) \in Int BY SMT, <1>2
  <2>2. (s - (40 + 2 * fats)) % WordSize \in Int BY SMT, <2>1, WordAssumption
  <2> QED BY SMT, <1>1, <2>2 DEF Counted16
<1>10. ASSUME clusters >= 4085, clusters < 65525
       PROVE  MountFormatted(s) =
                [result |-> "FAT_INIT_OK",
                 fs |-> [fat_type              |-> 16,
                         sectors_per_cluster   |-> size,
                         fat_sectors           |-> fats,
                         root_entry_count      |-> 512,
                         rootdir_sectors       |-> 32,
                         rootdir_first_cluster |-> 0,
                         fs_info_sector        |-> b.BPB_FAT32_FSINFO,
                         lba_begin             |-> 0,
                         fat_begin_lba         |-> 8,
                         cluster_begin_lba     |-> 8 + 2 * fats]]
  <2>1. ~(clusters < 4085) /\ clusters < 65525 BY SMT, <1>9, <1>10
  <2> QED BY SMTT(60), <2>1, <1>1, <1>2, <1>3, <1>4, <1>5, <1>6, <1>7, <1>8, <1>9 DEF Counted16, FatfsInit, FAT_SECTOR_SIZE
<1>11. Formatted(s, 16) = [fat_type |-> 16, sectors_per_cluster |-> size, fat_sectors |-> fats,
         root_entry_count |-> 512, rootdir_sectors |-> 32, rootdir_first_cluster |-> 0,
         fs_info_sector |-> 0, lba_begin |-> 0, fat_begin_lba |-> 8, cluster_begin_lba |-> 8 + 2 * fats]
  BY SMT, <1>7 DEF Formatted
<1>12. ASSUME clusters < 4085
       PROVE  MountFormatted(s) = [result |-> "FAT_INIT_WRONG_FILESYS_TYPE"]
  BY SMTT(60), <1>1, <1>2, <1>3, <1>4, <1>5, <1>6, <1>7, <1>8, <1>12 DEF Counted16, FatfsInit, FAT_SECTOR_SIZE
<1>13. ASSUME clusters >= 65525
       PROVE  /\ MountFormatted(s).result = "FAT_INIT_OK"
              /\ MountFormatted(s).fs.fat_type = 32
  BY SMTT(60), <1>1, <1>2, <1>3, <1>4, <1>5, <1>6, <1>7, <1>8, <1>9, <1>13 DEF Counted16, FatfsInit, FAT_SECTOR_SIZE
<1>14. ASSUME clusters >= 4085, clusters < 65525
       PROVE  /\ MountFormatted(s).result = "FAT_INIT_OK"
              /\ SameLayout(Formatted(s, 16), MountFormatted(s).fs)
  <2> DEFINE rest == b.BPB_FAT32_FSINFO
  <2>1. MountFormatted(s) =
                [result |-> "FAT_INIT_OK",
                 fs |-> [fat_type              |-> 16,
                         sectors_per_cluster   |-> size,
                         fat_sectors           |-> fats,
                         root_entry_count      |-> 512,
                         rootdir_sectors       |-> 32,
                         rootdir_first_cluster |-> 0,
                         fs_info_sector        |-> rest,
                         lba_begin             |-> 0,
                         fat_begin_lba         |-> 8,
                         cluster_begin_lba     |-> 8 + 2 * fats]]
    BY SMT, <1>10, <1>14
  <2> HIDE DEF rest
  <2> QED BY SMT, <2>1, <1>11 DEF SameLayout
<1> HIDE DEF b
<1> QED BY ONLY <1>1, <1>2, <1>12, <1>13, <1>14, SMT

\* The same of a FAT32 boot sector.
LEMMA Mount32 ==
  ASSUME NEW s \in Nat, s > 4194304, s < WordSize,
         NEW size, size = CalcClusterSize(s, 32),
         NEW fats, fats = FatSize(s, size, 32),
         NEW clusters, clusters = ((s - (32 + 2 * fats)) % WordSize) \div size
  PROVE  /\ size \in {8, 16, 32, 64}
         /\ fats \in 1 .. s \div 512
         /\ clusters >= 65525 =>
              /\ MountFormatted(s).result = "FAT_INIT_OK"
              /\ SameLayout(Formatted(s, 32), MountFormatted(s).fs)
<1>1. size \in {8, 16, 32, 64} BY SMT, Size32
<1>2. fats \in 1 .. s \div 512
  BY SMT, <1>1 DEF FatSize, EntriesPerSector, FAT_SECTOR_SIZE
<1> DEFINE b == BootSector(s, 32)
           sector == [lba \in {0} |-> b]
<1>3. /\ b.BPB_BYTSPERSEC = 512 /\ b.BPB_SECPERCLUS = size /\ b.BPB_RSVDSECCNT = 32
      /\ b.BPB_NUMFATS = 2 /\ b.BPB_ROOTENTCNT = 0 /\ b.BPB_TOTSEC16 = 0
      /\ b.BPB_FATSZ16 = 0 /\ b.BPB_FAT32_FATSZ32 = fats /\ b.BPB_TOTSEC32 = s
      /\ b.BPB_FAT32_ROOTCLUS = 2 /\ b.BPB_FAT32_FSINFO = 1
      /\ b.typecode = 0 /\ b.lba_begin = 0 /\ b.signature = 43605
  <2>1. fats % WordSize = fats /\ s % WordSize = s BY SMT, <1>2, WordAssumption
  <2> DEFINE fs == Formatted(s, 32)
  <2>2. /\ fs.fat_sectors = fats /\ fs.sectors_per_cluster = size
        /\ fs.fat_begin_lba = 32 /\ fs.root_entry_count = 0
    BY SMT DEF Formatted
  <2>3. b = [BPB_BYTSPERSEC     |-> FAT_SECTOR_SIZE,
             BPB_SECPERCLUS     |-> fs.sectors_per_cluster,
             BPB_RSVDSECCNT     |-> fs.fat_begin_lba,
             BPB_NUMFATS        |-> 2,
             BPB_ROOTENTCNT     |-> fs.root_entry_count,
             BPB_TOTSEC16       |-> 0,
             BPB_FATSZ16        |-> 0,
             BPB_TOTSEC32       |-> s % WordSize,
             BPB_FAT32_FATSZ32  |-> fs.fat_sectors % WordSize,
             BPB_FAT32_ROOTCLUS |-> 2,
             BPB_FAT32_FSINFO   |-> 1,
             typecode           |-> 0,
             lba_begin          |-> 0,
             signature          |-> 43605]
    <3> HIDE DEF fs
    <3>1. Fat32Fields(fs, 32) = [FATSZ32 |-> fs.fat_sectors % WordSize, ROOTCLUS |-> 2, FSINFO |-> 1]
      BY SMT DEF Fat32Fields
    <3>2. b = [BPB_BYTSPERSEC     |-> FAT_SECTOR_SIZE,
               BPB_SECPERCLUS     |-> fs.sectors_per_cluster,
               BPB_RSVDSECCNT     |-> fs.fat_begin_lba,
               BPB_NUMFATS        |-> 2,
               BPB_ROOTENTCNT     |-> fs.root_entry_count,
               BPB_TOTSEC16       |-> 0,
               BPB_FATSZ16        |-> 0,
               BPB_TOTSEC32       |-> s % WordSize,
               BPB_FAT32_FATSZ32  |-> Fat32Fields(fs, 32).FATSZ32,
               BPB_FAT32_ROOTCLUS |-> Fat32Fields(fs, 32).ROOTCLUS,
               BPB_FAT32_FSINFO   |-> Fat32Fields(fs, 32).FSINFO,
               typecode           |-> 0,
               lba_begin          |-> 0,
               signature          |-> 43605]
      BY SMT DEF BootSector, fs
    <3> QED BY SMT, <3>1, <3>2
  <2> HIDE DEF fs, b
  <2> QED BY SMT, <2>1, <2>2, <2>3 DEF FAT_SECTOR_SIZE
<1>4. sector[0] = b /\ FormatType(s) = 32 BY SMT DEF FormatType
<1>5. 0 \notin FatTypeCodes BY SMT DEF FatTypeCodes
<1>6. DataSectors(b, fats) = (s - (32 + 2 * fats)) % WordSize
  BY SMT, <1>2, <1>3 DEF DataSectors
<1>7. RootDirSectors(0) = 0 BY SMT DEF RootDirSectors, FAT_SECTOR_SIZE
<1>8. MountFormatted(s) = FatfsInit(sector) BY SMT, <1>4 DEF MountFormatted
<1> HIDE DEF sector, b
<1>9. ASSUME clusters >= 65525
      PROVE  MountFormatted(s) =
               [result |-> "FAT_INIT_OK",
                fs |-> [fat_type              |-> 32,
                        sectors_per_cluster   |-> size,
                        fat_sectors           |-> fats,
                        root_entry_count      |-> 0,
                        rootdir_sectors       |-> 0,
                        rootdir_first_cluster |-> 2,
                        fs_info_sector        |-> 1,
                        lba_begin             |-> 0,
                        fat_begin_lba         |-> 32,
                        cluster_begin_lba     |-> 32 + 2 * fats]]
  <2>1. clusters \in Int /\ ~(clusters < 4085) /\ ~(clusters < 65525)
    BY SMT, <1>1, <1>2, <1>9, WordAssumption
  <2> QED BY SMTT(60), <2>1, <1>1, <1>2, <1>3, <1>4, <1>5, <1>6, <1>7, <1>8 DEF FatfsInit, FAT_SECTOR_SIZE
<1>10. Formatted(s, 32) = [fat_type |-> 32, sectors_per_cluster |-> size, fat_sectors |-> fats,
         root_entry_count |-> 0, rootdir_sectors |-> 0, rootdir_first_cluster |-> 2,
         fs_info_sector |-> 1, lba_begin |-> 0, fat_begin_lba |-> 32, cluster_begin_lba |-> 32 + 2 * fats]
  BY SMT, <1>7 DEF Formatted
<1> QED BY SMT, <1>1, <1>2, <1>9, <1>10 DEF SameLayout

\* A volume is mounted as it was formatted exactly when it has at least 8244
\* sectors and is not one of the 153 largest that fatfs_format makes FAT16: of
\* those fatfs_init counts 65525 clusters and more and takes them for FAT32
\* (fatfs_init against fatfs_format's "2GB - 32K limit for safe behaviour").
THEOREM FormatMounts ==
  ASSUME NEW s \in Nat, s < WordSize
  PROVE  MountsAsFormatted(s) <=> s >= 8244 /\ ~(s >= 4194152 /\ s <= 4194304)
<1>1. CASE s <= 4194304
  <2> DEFINE size == CalcClusterSize(s, 16)
             fats == FatSize(s, size, 16)
             data == s - (40 + 2 * fats)
             clusters == Counted16(s, fats, size)
  <2>1. size = IF s <= 32680 THEN 2 ELSE IF s <= 262144 THEN 4 ELSE IF s <= 524288 THEN 8
               ELSE IF s <= 1048576 THEN 16 ELSE IF s <= 2097152 THEN 32 ELSE 64
    BY SMT, <1>1, Size16
  <2>2. fats = (s \div size + 1) \div 256 + 1
    BY SMT DEF FatSize, EntriesPerSector, FAT_SECTOR_SIZE
  <2>3. /\ size \in {2, 4, 8, 16, 32, 64} /\ fats \in 1 .. 257
        /\ clusters < 4085 => MountFormatted(s) = [result |-> "FAT_INIT_WRONG_FILESYS_TYPE"]
        /\ clusters >= 65525 => /\ MountFormatted(s).result = "FAT_INIT_OK"
                                /\ MountFormatted(s).fs.fat_type = 32
        /\ (clusters >= 4085 /\ clusters < 65525) =>
              /\ MountFormatted(s).result = "FAT_INIT_OK"
              /\ SameLayout(Formatted(s, 16), MountFormatted(s).fs)
    <3> HIDE DEF size, fats, clusters
    <3>1. size = CalcClusterSize(s, 16) BY DEF size
    <3>2. fats = FatSize(s, size, 16) BY DEF fats
    <3>3. clusters = Counted16(s, fats, size) BY DEF clusters
    <3> QED BY ONLY SMT, <1>1, <3>1, <3>2, <3>3, Mount16
  <2>4. FormatType(s) = 16 /\ Formatted(s, 16).fat_type = 16 /\ "fat_type" \in DOMAIN Formatted(s, 16)
    BY SMT, <1>1 DEF FormatType, Formatted
  <2> HIDE DEF size, fats
  <2>5. data \in Int /\ data % WordSize = IF data < 0 THEN data + WordSize ELSE data
    <3>1. data \in Int /\ data < WordSize /\ data + WordSize >= 0
      BY SMT, <2>3, <1>1, WordAssumption
    <3> HIDE DEF data
    <3>2. CASE data < 0 BY SMT, <3>1, <3>2, Wraps
    <3>3. CASE data >= 0 BY SMT, <3>1, <3>3, WordAssumption
    <3> QED BY SMT, <3>1, <3>2, <3>3
  <2>6. clusters \in Int BY SMT, <2>3, <2>5, WordAssumption DEF Counted16
  <2>7. (clusters >= 4085 /\ clusters < 65525) <=> s >= 8244 /\ s < 4194152
    <3> DEFINE d == IF data < 0 THEN data + WordSize ELSE data
    <3>0. clusters = d \div size /\ d \in Int /\ data = s - (40 + 2 * fats)
      BY SMT, <2>3, <2>5, WordAssumption DEF Counted16
    <3> HIDE DEF data, clusters
    <3>1. CASE s <= 32680
      <4>1. size = 2 BY ONLY SMT, <2>1, <3>1, s \in Nat
      <4>2. fats = (s \div 2 + 1) \div 256 + 1 BY ONLY SMT, <2>2, <4>1
      <4>3. clusters = d \div 2 BY ONLY SMT, <3>0, <4>1
      <4> QED BY ONLY SMT, <1>1, <3>0, <3>1, <4>2, <4>3, WordAssumption, s \in Nat
    <3>2. CASE s > 32680 /\ s <= 262144
      <4>1. size = 4 BY ONLY SMT, <2>1, <3>2, s \in Nat
      <4>2. fats = (s \div 4 + 1) \div 256 + 1 BY ONLY SMT, <2>2, <4>1
      <4>3. clusters = d \div 4 BY ONLY SMT, <3>0, <4>1
      <4> QED BY ONLY SMT, <1>1, <3>0, <3>2, <4>2, <4>3, WordAssumption, s \in Nat
    <3>3. CASE s > 262144 /\ s <= 524288
      <4>1. size = 8 BY ONLY SMT, <2>1, <3>3, s \in Nat
      <4>2. fats = (s \div 8 + 1) \div 256 + 1 BY ONLY SMT, <2>2, <4>1
      <4>3. clusters = d \div 8 BY ONLY SMT, <3>0, <4>1
      <4> QED BY ONLY SMT, <1>1, <3>0, <3>3, <4>2, <4>3, WordAssumption, s \in Nat
    <3>4. CASE s > 524288 /\ s <= 1048576
      <4>1. size = 16 BY ONLY SMT, <2>1, <3>4, s \in Nat
      <4>2. fats = (s \div 16 + 1) \div 256 + 1 BY ONLY SMT, <2>2, <4>1
      <4>3. clusters = d \div 16 BY ONLY SMT, <3>0, <4>1
      <4> QED BY ONLY SMT, <1>1, <3>0, <3>4, <4>2, <4>3, WordAssumption, s \in Nat
    <3>5. CASE s > 1048576 /\ s <= 2097152
      <4>1. size = 32 BY ONLY SMT, <2>1, <3>5, s \in Nat
      <4>2. fats = (s \div 32 + 1) \div 256 + 1 BY ONLY SMT, <2>2, <4>1
      <4>3. clusters = d \div 32 BY ONLY SMT, <3>0, <4>1
      <4> QED BY ONLY SMT, <1>1, <3>0, <3>5, <4>2, <4>3, WordAssumption, s \in Nat
    <3>6. CASE s > 2097152
      <4>1. size = 64 BY ONLY SMT, <2>1, <3>6, s \in Nat
      <4>2. fats = (s \div 64 + 1) \div 256 + 1 BY ONLY SMT, <2>2, <4>1
      <4>3. clusters = d \div 64 BY ONLY SMT, <3>0, <4>1
      <4> QED BY ONLY SMT, <1>1, <3>0, <3>6, <4>2, <4>3, WordAssumption, s \in Nat
    <3> QED BY SMT, <3>1, <3>2, <3>3, <3>4, <3>5, <3>6
  <2> HIDE DEF clusters
  <2>8. (clusters >= 4085 /\ clusters < 65525) => MountsAsFormatted(s) BY SMT, <2>3, <2>4 DEF MountsAsFormatted
  <2>9. clusters < 4085 => ~MountsAsFormatted(s) BY SMT, <2>3 DEF MountsAsFormatted
  <2>10. clusters >= 65525 => ~MountsAsFormatted(s)
    BY SMT, <2>3, <2>4 DEF MountsAsFormatted, SameLayout
  <2> QED BY SMT, <1>1, <2>6, <2>7, <2>8, <2>9, <2>10
<1>2. CASE s > 4194304
  <2> DEFINE size == CalcClusterSize(s, 32)
             fats == FatSize(s, size, 32)
             clusters == ((s - (32 + 2 * fats)) % WordSize) \div size
  <2>1. size = IF s <= 16777216 THEN 8 ELSE IF s <= 33554432 THEN 16
               ELSE IF s <= 67108864 THEN 32 ELSE 64
    BY SMT, <1>2, Size32
  <2>2. /\ size \in {8, 16, 32, 64} /\ fats \in 1 .. s \div 512
        /\ clusters >= 65525 =>
              /\ MountFormatted(s).result = "FAT_INIT_OK"
              /\ SameLayout(Formatted(s, 32), MountFormatted(s).fs)
    BY SMT, <1>2, Mount32
  <2> HIDE DEF size, fats
  <2>3. (s - (32 + 2 * fats)) % WordSize = s - (32 + 2 * fats)
    BY SMT, <1>2, <2>2, WordAssumption
  <2>4. clusters >= 65525 BY SMT, <1>2, <2>1, <2>2, <2>3
  <2>5. FormatType(s) = 32 BY SMT, <1>2 DEF FormatType
  <2> QED BY SMT, <1>2, <2>2, <2>4, <2>5 DEF MountsAsFormatted
<1> QED BY SMT, <1>1, <1>2

\* The FAT of a formatted volume has an entry for every cluster of it, whatever
\* its size (fatfs_create_boot_sector's fat_sectors).
THEOREM FatCovers ==
  ASSUME NEW s \in Nat, s < WordSize
  PROVE  FatCoversVolume(s)
<1> DEFINE type == FormatType(s)
           size == CalcClusterSize(s, type)
           fats == FatSize(s, size, type)
           fs   == Formatted(s, type)
           e    == EntriesPerSector(type)
<1>1. size \in {2, 4, 8, 16, 32, 64} BY SMT, Size16, Size32 DEF FormatType
<1>2. type \in {16, 32} BY SMT DEF FormatType
<1>3. e \in {128, 256} BY SMT, <1>2 DEF EntriesPerSector, FAT_SECTOR_SIZE
<1>4. /\ fs.fat_type = type /\ fs.fat_sectors = fats /\ fs.sectors_per_cluster = size
      /\ fs.cluster_begin_lba = (IF type = 16 THEN 8 ELSE 32) + 2 * fats
      /\ fs.root_entry_count = IF type = 16 THEN 512 ELSE 0
  BY SMT DEF Formatted
<1>5. fats = (s \div size + 1) \div e + 1 BY SMT DEF FatSize
<1> HIDE DEF type, size, fats, fs, e
<1>6. s \div size \in Nat BY SMT, <1>1
<1>7. fats \in Nat \ {0} /\ fats * e >= s \div size + 2 BY SMT, <1>3, <1>5, <1>6
<1>8. FirstLbaOf(fs, 2) \in Nat
  BY SMT, <1>1, <1>2, <1>4, <1>7 DEF FirstLbaOf, FAT_SECTOR_SIZE
<1>9. ClustersIn(fs, s) \in Int /\ ClustersIn(fs, s) <= s \div size
  BY SMT, <1>1, <1>4, <1>8 DEF ClustersIn
<1> QED BY SMT, <1>4, <1>7, <1>6, <1>9, <1>3 DEF FatCoversVolume, fs, type, e

\* The clusters taken are numbered from 0 on.
LEMMA FreeFrom ==
  ASSUME NEW type \in {16, 32}
  PROVE  FirstFree(type) = IF type = 16 THEN 2 ELSE 3
<1> DEFINE n == IF type = 16 THEN 2 ELSE 3
           least(c) == /\ ErasedFat(type, 1)[c] = "free"
                       /\ \A d \in 2 .. c - 1 : ErasedFat(type, 1)[d] = "taken"
<1>1. \A c \in Nat : ErasedFat(type, 1)[c] = IF c < n THEN "taken" ELSE "free"
  BY SMT DEF ErasedFat
<1>2. n \in Nat \ {0, 1} /\ least(n) BY SMT, <1>1
<1>3. \A c \in Nat \ {0, 1} : least(c) => c = n BY SMT, <1>1, <1>2
<1> HIDE DEF n, least
<1>4. FirstFree(type) = CHOOSE c \in Nat \ {0, 1} : least(c) BY Zenon DEF FirstFree, least
<1>5. FirstFree(type) = n BY ONLY <1>2, <1>3, <1>4, Zenon
<1> QED BY <1>5 DEF n

\* From the smallest volume that can be mounted on, formatting stays inside the
\* volume, never writes a sector twice and leaves the clusters files get alone
\* (fatfs_format_fat16 and fatfs_format_fat32).
THEOREM FormatStays ==
  ASSUME NEW s \in Nat, s >= 8244, s < WordSize
  PROVE  WritesInPlace(s)
<1> DEFINE type  == FormatType(s)
           fs    == Formatted(s, type)
           size  == fs.sectors_per_cluster
           fats  == fs.fat_sectors
           first == fs.fat_begin_lba
           head  == IF type = 16 THEN 1 ELSE 2
           root  == IF type = 16 THEN fs.rootdir_sectors ELSE size
           data  == first + 2 * fats
           w     == FormatWrites(s)
<1>1. /\ type \in {16, 32} /\ fs.fat_type = type
      /\ first = (IF type = 16 THEN 8 ELSE 32)
      /\ fs.root_entry_count = (IF type = 16 THEN 512 ELSE 0)
      /\ fs.cluster_begin_lba = data
      /\ size = CalcClusterSize(s, type)
      /\ fats = FatSize(s, size, type)
      /\ type = 16 => fs.rootdir_sectors = 32
  BY SMT DEF FormatType, Formatted, RootDirSectors, FAT_SECTOR_SIZE
<1>2. root \in Nat /\ fats \in Nat /\ data + root <= s
  <2>1. CASE type = 16
    <3>1. size \in {2, 4, 8, 16, 32, 64} /\ (s > 32680 => size >= 4) /\ s <= 4194304
      BY SMT, <1>1, <2>1, Size16 DEF FormatType
    <3>2. fats = (s \div size + 1) \div 256 + 1
      BY SMT, <1>1, <2>1 DEF FatSize, EntriesPerSector, FAT_SECTOR_SIZE
    <3> HIDE DEF type, fs, size, fats, first, w
    <3> QED BY SMT, <1>1, <2>1, <3>1, <3>2
  <2>2. CASE type = 32
    <3>1. size \in {8, 16, 32, 64} /\ s > 4194304
      BY SMT, <1>1, <2>2, Size32 DEF FormatType
    <3>2. fats = (s \div size + 1) \div 128 + 1
      BY SMT, <1>1, <2>2 DEF FatSize, EntriesPerSector, FAT_SECTOR_SIZE
    <3> HIDE DEF type, fs, size, fats, first, w
    <3> QED BY SMT, <1>1, <2>2, <3>1, <3>2
  <2> QED BY <1>1, <2>1, <2>2
<1>3. FirstLbaOf(fs, FirstFree(fs.fat_type)) = data + root
  <2> HIDE DEF type, fs
  <2>1. fats \in Nat BY <1>2
  <2>2. size \in {2, 4, 8, 16, 32, 64} BY SMT, <1>1, Size16, Size32 DEF FormatType, type
  <2>3. FirstFree(fs.fat_type) = IF fs.fat_type = 16 THEN 2 ELSE 3 BY <1>1, FreeFrom
  <2> QED BY SMT, <1>1, <2>1, <2>2, <2>3 DEF FirstLbaOf, FAT_SECTOR_SIZE
<1>4. w = [i \in 1 .. head + 2 * fats + root |->
             IF i <= head THEN i - 1
             ELSE IF i <= head + 2 * fats THEN first + i - head - 1
             ELSE data + i - head - 2 * fats - 1]
  BY SMT, <1>1 DEF FormatWrites
<1> HIDE DEF type, fs, size, fats, first, root, w
<1> DEFINE n == head + 2 * fats + root
<1>5. /\ DOMAIN w = 1 .. n
      /\ \A i \in 1 .. n : w[i] = IF i <= head THEN i - 1
                                 ELSE IF i <= head + 2 * fats THEN first + i - head - 1
                                 ELSE data + i - head - 2 * fats - 1
  BY SMT, <1>4
<1>6. /\ head \in {1, 2} /\ first \in {8, 32} /\ head <= first /\ data = first + 2 * fats
      /\ data \in Nat
  BY SMT, <1>1, <1>2
<1> HIDE DEF head, data
<1>7. \A i \in DOMAIN w : w[i] \in 0 .. s - 1 /\ w[i] < data + root
  BY SMT, <1>2, <1>5, <1>6
<1>8. \A i, j \in DOMAIN w : i < j => w[i] < w[j]
  BY SMT, <1>2, <1>5, <1>6
<1> QED BY SMT, <1>3, <1>7, <1>8 DEF WritesInPlace, fs, w, type

(***************************************************************************)
(* Names.                                                                  *)
(***************************************************************************)
\* Having the same name (fatfs_compare_names) is an equivalence: which of several
\* spellings a file was created or opened with makes no difference to what
\* _check_file_open and fatfs_get_file_entry find.
THEOREM SameNameIsEquivalence ==
  /\ \A a \in Seq(Char) : CompareNames(a, a)
  /\ \A a, b \in Seq(Char) : CompareNames(a, b) => CompareNames(b, a)
  /\ \A a, b, c \in Seq(Char) : CompareNames(a, b) /\ CompareNames(b, c) => CompareNames(a, c)
<1>1. \A a \in Seq(Char) : CompareNames(a, a)
  BY Zenon DEF CompareNames, SameNoCase
<1>2. ASSUME NEW a \in Seq(Char), NEW b \in Seq(Char), CompareNames(a, b) PROVE CompareNames(b, a)
  BY <1>2, Zenon DEF CompareNames, SameNoCase
<1>3. ASSUME NEW a \in Seq(Char), NEW b \in Seq(Char), NEW c \in Seq(Char),
             CompareNames(a, b), CompareNames(b, c)
      PROVE  CompareNames(a, c)
  <2>1. /\ LastDot(a) = 0 <=> LastDot(c) = 0
        /\ MainLength(a) = MainLength(c)
        /\ LastDot(a) # 0 => ExtLength(a) = ExtLength(c)
    BY <1>3, Zenon DEF CompareNames
  <2>2. SameNoCase(a, 0, c, 0, MainLength(a))
    BY <1>3, Zenon DEF CompareNames, SameNoCase
  <2>3. LastDot(a) # 0 => SameNoCase(a, LastDot(a), c, LastDot(c), ExtLength(a))
    BY <1>3, Zenon DEF CompareNames, SameNoCase
  <2> QED BY <2>1, <2>2, <2>3, Zenon DEF CompareNames
<1> QED BY <1>1, <1>2, <1>3, Zenon

\* The least of some natural numbers.
LEMMA Least ==
  ASSUME NEW T, T \subseteq Nat, T # {}
  PROVE  \E x \in T : \A y \in T : x <= y
<1> DEFINE R == OpToRel(<, Nat)
<1>1. IsWellFoundedOn(R, Nat)
  BY NatLessThanWellFounded
<1>2. PICK x \in T : \A y \in T : ~(<<y, x>> \in R)
  BY <1>1, WFMin
<1>3. \A y \in T : (<<y, x>> \in R) <=> y < x
  BY DEF OpToRel
<1> HIDE DEF R
<1>4. \A y \in T : ~(y < x)
  BY <1>2, <1>3, Zenon
<1>5. \A y \in T : x <= y
  BY <1>4
<1> QED BY <1>5

(***************************************************************************)
(* Short names.                                                            *)
(***************************************************************************)
LEMMA Tails == MaxTail \in Nat /\ MaxTail > 1
BY DEF MaxTail

LEMMA DigitsBound ==
  ASSUME NEW t \in Nat, t < MaxTail
  PROVE  Digits(t) \in 1 .. 4
BY SMT DEF Digits, MaxTail

\* The decimal digit of a number at a place, and a bound on the digits there are.
LEMMA DigitAt ==
  ASSUME NEW t \in Nat, NEW k \in 0 .. 4
  PROVE  (t \div Power(k)) % 10 \in 0 .. 9
<1>1. Power(k) \in Nat /\ Power(k) > 0
  BY SMT DEF Power
<1>2. t \div Power(k) \in Nat
  BY <1>1, SMT
<1> QED BY <1>2, SMT

LEMMA NoDigitAbove ==
  ASSUME NEW t \in Nat, NEW k \in 0 .. 3, ~(k < Digits(t))
  PROVE  (t \div Power(k)) % 10 = 0
<1>1. CASE k = 0 BY <1>1, SMT DEF Digits
<1>2. CASE k = 1 BY <1>2, SMT DEF Digits, Power
<1>3. CASE k = 2 BY <1>3, SMT DEF Digits, Power
<1>4. CASE k = 3 BY <1>4, SMT DEF Digits, Power
<1> QED BY <1>1, <1>2, <1>3, <1>4

\* A number of up to four digits is told by them.
LEMMA FromDigits ==
  ASSUME NEW x \in Nat, x < 10000
  PROVE  x = 1000 * ((x \div 1000) % 10) + 100 * ((x \div 100) % 10) + 10 * ((x \div 10) % 10) + (x % 10)
BY SMTT(60)

LEMMA DigitsTell ==
  ASSUME NEW t \in Nat, NEW u \in Nat, t < MaxTail, u < MaxTail,
         \A k \in 0 .. 3 : (t \div Power(k)) % 10 = (u \div Power(k)) % 10
  PROVE  t = u
<1> DEFINE digit(x, k) == (x \div Power(k)) % 10
           of(a, b, c, d) == 1000 * a + 100 * b + 10 * c + d
<1>1. \A k \in 0 .. 3 : digit(t, k) = digit(u, k)
  OBVIOUS
<1>2. ASSUME NEW x \in Nat, x < 10000
      PROVE  x = of(digit(x, 3), digit(x, 2), digit(x, 1), digit(x, 0))
  <2>1. Power(0) = 1 /\ Power(1) = 10 /\ Power(2) = 100 /\ Power(3) = 1000
    BY DEF Power
  <2>2. x \div 1 = x
    BY SMT
  <2>3. x = 1000 * ((x \div 1000) % 10) + 100 * ((x \div 100) % 10) + 10 * ((x \div 10) % 10) + (x % 10)
    BY <1>2, FromDigits
  <2>4. /\ digit(x, 3) = (x \div 1000) % 10 /\ digit(x, 2) = (x \div 100) % 10
        /\ digit(x, 1) = (x \div 10) % 10 /\ digit(x, 0) = x % 10
    BY ONLY <2>1, <2>2, SMT
  <2> HIDE DEF digit
  <2> QED BY ONLY <2>3, <2>4, SMT
<1>3. /\ t = of(digit(t, 3), digit(t, 2), digit(t, 1), digit(t, 0))
      /\ u = of(digit(u, 3), digit(u, 2), digit(u, 1), digit(u, 0))
  <2> HIDE DEF digit, of
  <2>1. t < 10000 /\ u < 10000
    BY SMT DEF MaxTail
  <2> QED BY <1>2, <2>1, SMT
<1> HIDE DEF digit, of
<1>4. /\ digit(t, 0) = digit(u, 0) /\ digit(t, 1) = digit(u, 1)
      /\ digit(t, 2) = digit(u, 2) /\ digit(t, 3) = digit(u, 3)
  BY ONLY <1>1, SMT
<1> QED BY ONLY <1>3, <1>4, SMT

\* One tail puts its tilde where a longer one has a digit, and two of one length
\* differ in a digit.
LEMMA TailsDiffer ==
  ASSUME NEW s, NEW t \in Nat, NEW u \in Nat, t < MaxTail, u < MaxTail,
         GenerateTail(s, t) = GenerateTail(s, u)
  PROVE  t = u
<1> DEFINE digit(x, k) == (x \div Power(k)) % 10
           place(x, k) == IF k < 8 - Digits(x) \/ k > 8 THEN s[k]
                          ELSE IF k = 8 - Digits(x) THEN Tilde ELSE ZeroDigit + digit(x, 8 - k)
<1>1. \A k \in 1 .. 11 : place(t, k) = place(u, k)
  <2>1. \A x : GenerateTail(s, x) = [k \in 1 .. 11 |-> place(x, k)]
    BY Zenon DEF GenerateTail, FAT_SFN_SIZE_PARTIAL, FAT_SFN_SIZE_FULL
  <2> HIDE DEF place
  <2>2. \A x : \A k \in 1 .. 11 : GenerateTail(s, x)[k] = place(x, k)
    BY <2>1, Zenon
  <2> QED BY <2>2, Zenon
<1>2. \A x \in Nat : \A k \in 0 .. 4 : digit(x, k) \in 0 .. 9
  BY DigitAt
<1>3. Digits(t) \in 1 .. 4 /\ Digits(u) \in 1 .. 4
  BY DigitsBound
<1>4. ASSUME NEW x \in Nat, Digits(x) \in 1 .. 4, NEW k \in 0 .. 3
      PROVE  /\ 8 - k \in 1 .. 11
             /\ k < Digits(x) => place(x, 8 - k) = ZeroDigit + digit(x, k)
             /\ k = Digits(x) => place(x, 8 - k) = Tilde
             /\ ~(k < Digits(x)) => digit(x, k) = 0
  <2>1. 8 - k \in 1 .. 11 /\ 8 - (8 - k) = k
    OBVIOUS
  <2>2. ~(k < Digits(x)) => digit(x, k) = 0
    BY NoDigitAbove
  <2> HIDE DEF digit
  <2>3. k < Digits(x) => ~(8 - k < 8 - Digits(x)) /\ ~(8 - k > 8) /\ 8 - k # 8 - Digits(x)
    BY <1>4
  <2>4. k = Digits(x) => ~(8 - k < 8 - Digits(x)) /\ ~(8 - k > 8) /\ 8 - k = 8 - Digits(x)
    BY <1>4
  <2> QED BY <2>1, <2>2, <2>3, <2>4, Zenon
<1> HIDE DEF digit, place
<1>5. ASSUME NEW x \in Nat, NEW y \in Nat, Digits(x) \in 1 .. 4, Digits(y) \in 1 .. 4,
             Digits(x) < Digits(y), \A k \in 1 .. 11 : place(x, k) = place(y, k)
      PROVE  FALSE
  <2>1. Digits(x) \in 0 .. 3
    BY <1>5
  <2>2. place(x, 8 - Digits(x)) = Tilde /\ place(y, 8 - Digits(x)) = ZeroDigit + digit(y, Digits(x))
    BY <1>4, <1>5, <2>1
  <2>3. 8 - Digits(x) \in 1 .. 11 /\ digit(y, Digits(x)) \in 0 .. 9
    BY <1>2, <2>1
  <2> QED BY <1>5, <2>2, <2>3 DEF Tilde, ZeroDigit
<1>6. Digits(t) = Digits(u)
  BY <1>1, <1>3, <1>5
<1>7. \A k \in 0 .. 3 : digit(t, k) = digit(u, k)
  <2> TAKE k \in 0 .. 3
  <2>1. 8 - k \in 1 .. 11 /\ digit(t, k) \in 0 .. 9 /\ digit(u, k) \in 0 .. 9
    BY <1>2
  <2>2. CASE k < Digits(t)
    <3>1. place(t, 8 - k) = ZeroDigit + digit(t, k) /\ place(u, 8 - k) = ZeroDigit + digit(u, k)
      BY <2>2, <1>3, <1>4, <1>6
    <3> QED BY <1>1, <2>1, <3>1 DEF ZeroDigit
  <2>3. CASE ~(k < Digits(t))
    BY <2>3, <1>3, <1>4, <1>6
  <2> QED BY <2>2, <2>3
<1> QED BY <1>7, DigitsTell, Zenon DEF digit

\* As long as fewer than 9998 short names of a directory are taken, _create_file and
\* _create_directory find one for every name, whatever its base, and it is free.
THEOREM ShortNameIsFound ==
  ASSUME NEW shortFilename, NEW filename, NEW taken, IsFiniteSet(taken), Cardinality(taken) < MaxTail - 1
  PROVE  LET tail == TailFor(shortFilename, filename, taken)
         IN  tail < MaxTail /\ Candidate(shortFilename, filename, tail) \notin taken
<1> DEFINE name(t) == Candidate(shortFilename, filename, t)
           free    == {t \in 0 .. MaxTail - 1 : name(t) \notin taken}
           sfn     == CreateSfn(shortFilename, filename)
           tails   == 1 .. MaxTail - 1
           f       == [t \in tails |-> name(t)]
<1>1. \A t \in tails : name(t) = GenerateTail(sfn, t)
  <2>1. \A t \in tails : t # 0
    BY Tails
  <2> HIDE DEF tails
  <2> QED BY <2>1, Zenon DEF Candidate
<1> HIDE DEF sfn, name
<1>2. free # {}
  <2>1. SUFFICES ASSUME free = {} PROVE FALSE
    OBVIOUS
  <2>2. \A t \in tails : name(t) \in taken
    BY <2>1, Tails
  <2>3. IsFiniteSet(tails) /\ Cardinality(tails) = MaxTail - 1
    BY FS_Interval, Tails
  <2>4. \A t \in tails : t \in Nat /\ t < MaxTail
    BY Tails
  <2> HIDE DEF tails
  <2>5. f \in [tails -> taken]
    BY <2>2, Zenon
  <2>6. Cardinality(taken) \in Nat
    BY FS_CardinalityType
  <2>7. Cardinality(taken) < Cardinality(tails)
    BY <2>3, Zenon
  <2>8. PICK t, u \in tails : t # u /\ name(t) = name(u)
    <3>1. \A t \in tails : f[t] = name(t)
      OBVIOUS
    <3> HIDE DEF f
    <3>2. \E t, u \in tails : t # u /\ f[t] = f[u]
      BY <2>3, <2>5, <2>7, FS_PigeonHole
    <3> QED BY <3>1, <3>2, Zenon
  <2>9. GenerateTail(sfn, t) = GenerateTail(sfn, u)
    BY <2>8, <1>1, Zenon
  <2> QED BY <2>4, <2>8, <2>9, TailsDiffer, Zenon
<1>3. free \subseteq Nat /\ \A t \in free : t < MaxTail /\ name(t) \notin taken
  BY Tails
<1>4. TailFor(shortFilename, filename, taken) = CHOOSE x \in free : \A u \in free : x <= u
  BY <1>2, Zenon DEF TailFor, name
<1> HIDE DEF free
<1>5. PICK t \in free : \A u \in free : t <= u
  BY <1>2, <1>3, Least, Zenon
<1>6. TailFor(shortFilename, filename, taken) \in free
  BY <1>4, <1>5, Zenon
<1> QED BY <1>3, <1>6, Zenon DEF name

LEMMA LastDotAt ==
  ASSUME NEW s, Len(s) \in Nat, NEW d \in 1 .. Len(s), s[d] = Dot, \A j \in d + 1 .. Len(s) : s[j] # Dot
  PROVE  LastDot(s) = d
<1>1. \A i \in 1 .. Len(s) : s[i] = Dot /\ (\A j \in i + 1 .. Len(s) : s[j] # Dot) => i = d
  OBVIOUS
<1> QED BY <1>1 DEF LastDot

LEMMA MainLengthIs ==
  ASSUME NEW s, NEW n \in Nat, n = IF LastDot(s) = 0 THEN Len(s) ELSE LastDot(s) - 1,
         NEW k \in 1 .. n, s[k] # Space, \A j \in k + 1 .. n : s[j] = Space
  PROVE  MainLength(s) = k
<1>1. \A i \in 0 .. n : (i = 0 \/ s[i] # Space) /\ (\A j \in i + 1 .. n : s[j] = Space) => i = k
  OBVIOUS
<1>2. MainLength(s) = CHOOSE i \in 0 .. n : (i = 0 \/ s[i] # Space) /\ (\A j \in i + 1 .. n : s[j] = Space)
  BY Zenon DEF MainLength
<1> QED BY <1>1, <1>2

LEMMA SameCharacters ==
  ASSUME NEW a, NEW i, NEW b, NEW j, NEW n, \A k \in 1 .. n : a[i + k] = b[j + k]
  PROVE  SameNoCase(a, i, b, j, n)
BY Zenon DEF SameNoCase

\* The padded entry E and the name it was made for, without and with an extension.
LEMMA NameAlone ==
  ASSUME NEW E, Len(E) = 12, NEW b, NEW m \in Nat, Len(b) = m, m >= 1, m <= 8, Space # Dot,
         \A k \in 1 .. m : b[k] # Space /\ b[k] # Dot,
         \A k \in 1 .. 12 : E[k] = IF k <= m THEN b[k] ELSE Space
  PROVE  CompareNames(E, b)
<1>1. LastDot(E) = 0 /\ LastDot(b) = 0
  <2>1. \A k \in 1 .. 12 : E[k] # Dot
    OBVIOUS
  <2> QED BY <2>1 DEF LastDot
<1>2. m \in 1 .. 12 /\ m \in 1 .. m /\ \A j \in m + 1 .. 12 : E[j] = Space
  OBVIOUS
<1>3. E[m] # Space /\ b[m] # Space
  BY <1>2
<1>4. MainLength(E) = m
  BY <1>1, <1>2, <1>3, MainLengthIs
<1>5. MainLength(b) = m
  <2>1. \A j \in m + 1 .. m : b[j] = Space
    OBVIOUS
  <2> QED BY <1>1, <1>2, <1>3, <2>1, MainLengthIs
<1>6. SameNoCase(E, 0, b, 0, m)
  <2>1. \A k \in 1 .. m : E[0 + k] = b[0 + k]
    OBVIOUS
  <2> QED BY <2>1, SameCharacters
<1> QED BY <1>1, <1>4, <1>5, <1>6, Zenon DEF CompareNames

PaddedForm(E, N, m, l) ==
  /\ m >= 1 /\ m <= 8 /\ l >= 1 /\ l <= 3
  /\ Len(E) = 12 /\ Len(N) = m + 1 + l
  /\ \A k \in 1 .. m : E[k] = N[k] /\ E[k] # Space
  /\ \A k \in m + 1 .. 8 : E[k] = Space
  /\ E[9] = Dot /\ N[m + 1] = Dot
  /\ \A k \in 10 .. 12 : E[k] # Dot
  /\ \A k \in 1 .. l : N[m + 1 + k] = E[9 + k] /\ N[m + 1 + k] # Dot

LEMMA NameWithExtension ==
  ASSUME NEW E, NEW N, NEW m \in Nat, NEW l \in Nat, PaddedForm(E, N, m, l)
  PROVE  CompareNames(E, N) <=> (l = 3)
<1> USE DEF PaddedForm
<1>1. LastDot(E) = 9
  <2>1. /\ Len(E) \in Nat /\ 9 \in 1 .. Len(E) /\ E[9] = Dot
        /\ \A j \in 9 + 1 .. Len(E) : E[j] # Dot
    OBVIOUS
  <2> HIDE DEF PaddedForm
  <2> QED BY <2>1, LastDotAt
<1>2. LastDot(N) = m + 1
  <2>1. \A j \in m + 1 + 1 .. m + 1 + l : N[j] # Dot
    <3> TAKE j \in m + 1 + 1 .. m + 1 + l
    <3>1. j - (m + 1) \in 1 .. l /\ m + 1 + (j - (m + 1)) = j
      OBVIOUS
    <3> QED BY <3>1
  <2>2. /\ Len(N) \in Nat /\ m + 1 \in 1 .. Len(N) /\ N[m + 1] = Dot
        /\ \A j \in m + 1 + 1 .. Len(N) : N[j] # Dot
    BY <2>1
  <2> HIDE DEF PaddedForm
  <2> QED BY ONLY <2>2, LastDotAt
<1>3. MainLength(E) = m
  <2>1. 8 = (IF LastDot(E) = 0 THEN Len(E) ELSE LastDot(E) - 1)
    BY <1>1
  <2>2. m \in 1 .. 8 /\ m \in 1 .. m
    OBVIOUS
  <2> QED BY <2>1, <2>2, MainLengthIs
<1>4. MainLength(N) = m
  <2>1. m = (IF LastDot(N) = 0 THEN Len(N) ELSE LastDot(N) - 1)
    BY <1>2
  <2>2. m \in 1 .. m /\ N[m] # Space /\ \A j \in m + 1 .. m : N[j] = Space
    OBVIOUS
  <2> QED BY <2>1, <2>2, MainLengthIs
<1>5. ExtLength(E) = 3 /\ ExtLength(N) = l
  BY <1>1, <1>2 DEF ExtLength
<1>6. SameNoCase(E, 0, N, 0, m)
  <2>1. \A k \in 1 .. m : E[0 + k] = N[0 + k]
    OBVIOUS
  <2> QED BY <2>1, SameCharacters
<1>7. l = 3 => SameNoCase(E, 9, N, m + 1, 3)
  <2>1. l = 3 => \A k \in 1 .. 3 : E[9 + k] = N[m + 1 + k]
    OBVIOUS
  <2> QED BY <2>1, SameCharacters, Zenon
<1>8. LastDot(E) # 0 /\ LastDot(N) # 0
  BY <1>1, <1>2
<1>9. CompareNames(E, N) => l = 3
  <2>1. CompareNames(E, N) => ExtLength(E) = ExtLength(N)
    BY <1>8, Zenon DEF CompareNames
  <2> QED BY <1>5, <2>1
<1>10. l = 3 => CompareNames(E, N)
  <2>1. SUFFICES ASSUME l = 3 PROVE CompareNames(E, N)
    OBVIOUS
  <2>2. SameNoCase(E, LastDot(E), N, LastDot(N), ExtLength(E)) /\ ExtLength(E) = ExtLength(N)
    BY <1>1, <1>2, <1>5, <1>7, <2>1
  <2> QED BY <1>3, <1>4, <1>6, <1>8, <2>2, Zenon DEF CompareNames
<1> QED BY <1>9, <1>10

\* The characters of a name that neither pads nor separates.
Plain == Char \ {Space, Dot}

\* An entry that has no long name is found by the name it was made for exactly when
\* the extension has no characters or all three: fatfs_get_file_entry compares with the
\* padded extension, and fatfs_compare_names trims the spaces of the main part only.
THEOREM ShortNameOpens ==
  ASSUME NEW b \in Seq(Plain), NEW e \in Seq(Plain), Len(b) >= 1, Len(b) <= 8, Len(e) <= 3,
         NEW sfn,
         \A k \in 1 .. 8 : sfn[k] = IF k <= Len(b) THEN b[k] ELSE Space,
         \A k \in 1 .. 3 : sfn[8 + k] = IF k <= Len(e) THEN e[k] ELSE Space
  PROVE  CompareNames(EntryName(sfn), IF e = <<>> THEN b ELSE b \o <<Dot>> \o e) <=> Len(e) \in {0, 3}
<1> DEFINE E == EntryName(sfn)
           N == b \o <<Dot>> \o e
           m == Len(b)
           l == Len(e)
<1>1. m \in Nat /\ l \in Nat /\ m >= 1 /\ m <= 8 /\ l <= 3
  OBVIOUS
<1>2. \A c \in Plain : c # Space /\ c # Dot
  BY Zenon DEF Plain
<1>3. \A k \in 1 .. m : b[k] # Space /\ b[k] # Dot
  BY <1>2
<1>4. \A k \in 1 .. l : e[k] # Space /\ e[k] # Dot
  BY <1>2
<1>5. Space # Dot
  BY DEF Space, Dot
<1>6. /\ Len(E) = 12
      /\ \A k \in 1 .. 8 : E[k] = IF k <= m THEN b[k] ELSE Space
      /\ \A k \in 1 .. 3 : E[9 + k] = IF k <= l THEN e[k] ELSE Space
      /\ E[9] = IF l = 0 THEN Space ELSE Dot
  <2>1. E \in Seq({E[k] : k \in 1 .. 12}) /\ Len(E) = 12
    <3> DEFINE S == {E[k] : k \in 1 .. 12}
    <3>1. E \in [1 .. 12 -> S]
      BY DEF EntryName
    <3> HIDE DEF E, S
    <3>2. E \in Seq(S)
      <4>1. 12 \in Nat
        OBVIOUS
      <4> QED BY <3>1, <4>1, SeqDef
    <3>3. Len(E) = 12
      <4>1. DOMAIN E = 1 .. 12 /\ DOMAIN E = 1 .. Len(E) /\ Len(E) \in Nat
        BY <3>1, <3>2, LenProperties
      <4> QED BY <4>1
    <3> QED BY <3>2, <3>3, Zenon DEF S
  <2>2. \A k \in 1 .. 8 : E[k] = sfn[k]
    BY DEF EntryName
  <2>3. \A k \in 1 .. 3 : E[9 + k] = sfn[8 + k]
    BY SMTT(60) DEF EntryName
  <2>4. E[9] = IF sfn[1] # Dot /\ \E k \in 9 .. 11 : sfn[k] # Space THEN Dot ELSE Space
    BY DEF EntryName
  <2> HIDE DEF E
  <2>5. sfn[1] # Dot
    <3>1. 1 \in 1 .. 8 /\ 1 <= m /\ 1 \in 1 .. m
      BY <1>1
    <3>2. sfn[1] = b[1]
      BY <3>1
    <3> QED BY <1>3, <3>1, <3>2, Zenon
  <2>6. l = 0 => \A k \in 9 .. 11 : sfn[k] = Space
    <3> SUFFICES ASSUME l = 0, NEW k \in 9 .. 11 PROVE sfn[k] = Space
      OBVIOUS
    <3>1. k - 8 \in 1 .. 3 /\ 8 + (k - 8) = k /\ ~(k - 8 <= l)
      OBVIOUS
    <3> QED BY <3>1
  <2>7. l # 0 => \E k \in 9 .. 11 : sfn[k] # Space
    <3> SUFFICES ASSUME l # 0 PROVE \E k \in 9 .. 11 : sfn[k] # Space
      OBVIOUS
    <3>1. 9 \in 9 .. 11 /\ 1 \in 1 .. 3 /\ 8 + 1 = 9 /\ 1 <= l /\ 1 \in 1 .. l
      BY <1>1
    <3>2. sfn[9] = e[1]
      BY <3>1
    <3> QED BY <1>4, <3>1, <3>2, Zenon
  <2> QED BY <2>1, <2>2, <2>3, <2>4, <2>5, <2>6, <2>7, SMTT(60)
<1>7. /\ Len(N) = m + 1 + l
      /\ \A k \in 1 .. m : N[k] = b[k]
      /\ N[m + 1] = Dot
      /\ \A k \in 1 .. l : N[m + 1 + k] = e[k]
  <2>1. /\ b \o <<Dot>> \in Seq(Plain \cup {Dot}) /\ Len(b \o <<Dot>>) = m + 1
        /\ \A k \in 1 .. m : (b \o <<Dot>>)[k] = b[k]
        /\ (b \o <<Dot>>)[m + 1] = Dot
    OBVIOUS
  <2> DEFINE c == b \o <<Dot>>
  <2> HIDE DEF c
  <2>2. /\ c \in Seq(Plain \cup {Dot}) /\ Len(c) = m + 1 /\ c[m + 1] = Dot
        /\ \A k \in 1 .. m : c[k] = b[k]
    BY <2>1 DEF c
  <2>3. e \in Seq(Plain \cup {Dot}) /\ N = c \o e
    BY DEF c
  <2> DEFINE S == Plain \cup {Dot}
  <2> HIDE DEF N, S
  <2>4. c \in Seq(S) /\ e \in Seq(S) /\ N = c \o e
    BY <2>2, <2>3 DEF S
  <2>a. /\ Len(N) = Len(c) + Len(e)
        /\ \A k \in 1 .. Len(c) + Len(e) : N[k] = IF k <= Len(c) THEN c[k] ELSE e[k - Len(c)]
    BY <2>4, ConcatProperties
  <2>5. Len(N) = m + 1 + l
    BY <2>2, <2>a
  <2>6. \A k \in 1 .. m + 1 : N[k] = c[k]
    BY <2>2, <2>a, SMTT(60)
  <2>7. \A k \in 1 .. l : N[m + 1 + k] = e[k]
    <3> TAKE k \in 1 .. l
    <3> HIDE DEF m, l
    <3>0. m \in Nat /\ l \in Nat
      BY <1>1
    <3>1. m + 1 + k \in 1 .. m + 1 + l /\ ~(m + 1 + k <= m + 1) /\ m + 1 + k - (m + 1) = k
      BY ONLY <3>0, k \in 1 .. l
    <3>2. Len(c) + Len(e) = m + 1 + l /\ Len(c) = m + 1
      BY <2>2 DEF l
    <3>3. N[m + 1 + k] = IF m + 1 + k <= Len(c) THEN c[m + 1 + k] ELSE e[m + 1 + k - Len(c)]
      BY ONLY <2>a, <3>1, <3>2
    <3> QED BY ONLY <3>1, <3>2, <3>3
  <2> HIDE DEF m, l
  <2>8. m \in Nat /\ m + 1 \in 1 .. m + 1 /\ \A k \in 1 .. m : k \in 1 .. m + 1
    BY <1>1
  <2>9. N[m + 1] = Dot
    BY <2>2, <2>6, <2>8
  <2>10. \A k \in 1 .. m : N[k] = b[k]
    BY <2>2, <2>6, <2>8
  <2> QED BY <2>5, <2>7, <2>9, <2>10
<1>8. (IF e = <<>> THEN b ELSE b \o <<Dot>> \o e) = (IF l = 0 THEN b ELSE N)
  OBVIOUS
<1> HIDE DEF E, N
<1>9. CASE l = 0
  <2>1. \A k \in 1 .. 12 : E[k] = IF k <= m THEN b[k] ELSE Space
    <3> TAKE k \in 1 .. 12
    <3> HIDE DEF m
    <3>1. CASE k > 9
      <4>1. k - 9 \in 1 .. 3 /\ 9 + (k - 9) = k /\ ~(k - 9 <= l) /\ ~(k <= m)
        BY <1>1, <1>9, <3>1
      <4> HIDE DEF l
      <4>2. E[9 + (k - 9)] = Space
        BY <1>6, <4>1
      <4> QED BY <4>1, <4>2
    <3>2. CASE k = 9
      <4>1. ~(k <= m)
        BY <1>1, <3>2
      <4> HIDE DEF l
      <4> QED BY <1>6, <1>9, <3>2, <4>1
    <3>3. CASE k < 9
      <4>1. k \in 1 .. 8
        BY <3>3
      <4> HIDE DEF l
      <4> QED BY <1>6, <4>1
    <3> QED BY <3>1, <3>2, <3>3
  <2> HIDE DEF m
  <2>2. CompareNames(E, b)
    BY <1>1, <1>3, <1>5, <1>6, <2>1, NameAlone DEF m
  <2> QED BY <1>8, <1>9, <2>2 DEF E
<1>10. CASE l # 0
  <2> HIDE DEF m, l
  <2>1. l >= 1
    BY <1>1, <1>10
  <2>2. \A k \in 1 .. m : E[k] = N[k] /\ E[k] # Space
    BY <1>1, <1>3, <1>6, <1>7, SMTT(60)
  <2>3. \A k \in m + 1 .. 8 : E[k] = Space
    BY <1>1, <1>6, SMTT(60)
  <2>4. E[9] = Dot
    BY <1>6, <1>10
  <2>5. \A k \in 10 .. 12 : E[k] # Dot
    <3> TAKE k \in 10 .. 12
    <3>1. k - 9 \in 1 .. 3 /\ 9 + (k - 9) = k /\ (k - 9 <= l => k - 9 \in 1 .. l)
      BY <1>1
    <3> QED BY <1>4, <1>5, <1>6, <3>1, SMTT(60)
  <2>6. \A k \in 1 .. l : N[m + 1 + k] = E[9 + k] /\ N[m + 1 + k] # Dot
    <3> TAKE k \in 1 .. l
    <3>1. k \in 1 .. 3
      BY <1>1
    <3> QED BY <1>4, <1>6, <1>7, <3>1, SMTT(60)
  <2>7. PaddedForm(E, N, m, l)
    BY <1>1, <1>6, <1>7, <2>1, <2>2, <2>3, <2>4, <2>5, <2>6 DEF PaddedForm
  <2>8. CompareNames(E, N) <=> (l = 3)
    BY <1>1, <2>7, NameWithExtension
  <2> QED BY <1>8, <1>10, <2>8 DEF E, l
<1> QED BY <1>9, <1>10

(***************************************************************************)
(* Long names.                                                             *)
(***************************************************************************)
\* Entries read from the last to the first each fill their thirteen places, and the
\* first read fixes how many there are.
Counted(no, n) ==
  no[0] = 0 /\ \A k \in 1 .. n : no[k] = IF no[k - 1] = 0 THEN n - k + 1 ELSE no[k - 1]

Filled(M, want, str, n) ==
  \A k \in 1 .. n : \A p \in 0 .. M :
    str[k][p] = IF p < (n - k) * 13 \/ p >= (n - k) * 13 + 13 THEN str[k - 1][p] ELSE want[p]

Whole(M, want, string, n) == \A p \in 0 .. M : p < n * 13 => string[p] = want[p]

LEMMA EntriesFill ==
  ASSUME NEW M \in Nat, NEW want, NEW no, NEW str, NEW n \in Nat, n >= 1,
         Counted(no, n), Filled(M, want, str, n)
  PROVE  no[n] = n /\ Whole(M, want, str[n], n)
<1> USE DEF Counted, Filled, Whole
<1> DEFINE Good(k) == no[k] = n /\ \A p \in 0 .. M : p >= (n - k) * 13 /\ p < n * 13 => str[k][p] = want[p]
           bad     == {k \in 1 .. n : ~Good(k)}
<1>1. Good(1)
  <2>1. 1 \in 1 .. n /\ 1 - 1 = 0
    OBVIOUS
  <2>2. no[1] = n
    BY <2>1
  <2>3. (n - 1) * 13 + 13 = n * 13
    OBVIOUS
  <2>4. \A p \in 0 .. M : p >= (n - 1) * 13 /\ p < n * 13 => str[1][p] = want[p]
    BY <2>1, <2>3
  <2> QED BY <2>2, <2>4
<1>2. ASSUME NEW k \in 2 .. n, Good(k - 1) PROVE Good(k)
  <2>1. k \in 1 .. n /\ (n - (k - 1)) * 13 = (n - k) * 13 + 13
    OBVIOUS
  <2>2. no[k - 1] = n /\ \A p \in 0 .. M : p >= (n - k) * 13 + 13 /\ p < n * 13 => str[k - 1][p] = want[p]
    BY <1>2, <2>1
  <2>3. no[k] = n
    <3>1. n # 0
      OBVIOUS
    <3> QED BY <2>1, <2>2, <3>1, Zenon
  <2>4. \A p \in 0 .. M : p >= (n - k) * 13 /\ p < n * 13 => str[k][p] = want[p]
    <3> TAKE p \in 0 .. M
    <3>1. CASE p < (n - k) * 13 + 13
      BY <2>1, <3>1
    <3>2. CASE ~(p < (n - k) * 13 + 13)
      <4>1. p >= (n - k) * 13 + 13
        BY <3>2
      <4> QED BY <2>1, <2>2, <4>1
    <3> QED BY <3>1, <3>2
  <2> QED BY <2>3, <2>4
<1> HIDE DEF Good
<1>3. Good(n)
  <2>1. SUFFICES ASSUME bad # {} PROVE FALSE
    OBVIOUS
  <2>2. bad \subseteq Nat
    OBVIOUS
  <2> HIDE DEF bad
  <2>3. PICK k \in bad : \A j \in bad : k <= j
    BY <2>1, <2>2, Least
  <2> USE DEF bad
  <2>4. k \in 2 .. n /\ Good(k - 1)
    BY <1>1, <2>3
  <2> QED BY <1>2, <2>3, <2>4
<1>4. (n - n) * 13 = 0
  OBVIOUS
<1> QED BY <1>3, <1>4 DEF Good

LEMMA SmallNumber == ASSUME NEW m \in Nat, m < 32 PROVE m % 32 = m
OBVIOUS

\* A long name of up to 260 characters is read back as it was written: however the
\* caches' bytes stood before, when the entries _create_file's fatfs_add_file_entry wrote (the last
\* part first) are read in their order into a cache that was initialised,
\* fatfs_lfn_cache_get returns the name, but for characters of code 255, which are
\* read as spaces.
THEOREM LongNameReadBack ==
  ASSUME NEW name \in Seq(Char), name # <<>>, Len(name) <= LfnEnd,
         NEW n \in Nat, n = EntriesRequired(name),
         NEW lfn \in [0 .. n -> LfnCache],
         NEW old \in LfnCache, NEW wipeTable \in BOOLEAN, lfn[0] = CacheInit(old, wipeTable),
         \A k \in 1 .. n : lfn[k] = CacheEntry(lfn[k - 1], FilenameToLfn(name, n - k))
  PROVE  CacheGet(lfn[n]) = [i \in 1 .. Len(name) |-> IF name[i] = 255 THEN Space ELSE name[i]]
<1>0. lfn[0].no_of_strings = 0
  BY SMT DEF CacheInit
<1> USE <1>0
<1> DEFINE L == Len(name)
           read(c) == IF c = 255 THEN Space ELSE c
           want(p) == IF p < L THEN read(name[p + 1]) ELSE IF p = L THEN 0 ELSE Space
<1>1. L \in Nat /\ L > 0 /\ L <= LfnEnd /\ LfnEnd \in Nat
  BY DEF LfnEnd, MAX_LONGFILENAME_ENTRIES, MAX_LFN_ENTRY_LENGTH
<1>2. n >= 1 /\ n <= 20 /\ L <= 13 * n /\ L > 13 * (n - 1)
  <2>1. LfnEnd = 260
    BY DEF LfnEnd, MAX_LONGFILENAME_ENTRIES, MAX_LFN_ENTRY_LENGTH
  <2> QED BY <1>1, <2>1, SMT DEF EntriesRequired, MAX_LFN_ENTRY_LENGTH
<1>3. ASSUME NEW k \in 1 .. n
      PROVE  /\ lfn[k].no_of_strings = (IF lfn[k - 1].no_of_strings = 0 THEN n - k + 1 ELSE lfn[k - 1].no_of_strings)
             /\ \A p \in 0 .. LfnEnd :
                  lfn[k].String[p] = IF p < (n - k) * 13 \/ p >= (n - k) * 13 + 13 THEN lfn[k - 1].String[p]
                                     ELSE want(p)
  <2> DEFINE e     == FilenameToLfn(name, n - k)
             start == (n - k) * 13
  <2>1. e.number = n - k + 1
    <3>1. (n - k + 1) % 32 = n - k + 1
      <4>1. n - k + 1 \in Nat /\ n - k + 1 < 32
        BY <1>2, SMTT(60)
      <4> QED BY <4>1, SmallNumber
    <3>2. e.number = (n - k + 1) % 32
      BY Zenon DEF FilenameToLfn
    <3> QED BY <3>1, <3>2, Zenon
  <2>2. \A i \in LfnText : e.text[i] = (IF start + i < L THEN name[start + i + 1] ELSE IF start + i = L THEN 0 ELSE 255)
    BY DEF FilenameToLfn, MAX_LFN_ENTRY_LENGTH
  <2> HIDE DEF e
  <2>3. lfn[k] = CacheEntry(lfn[k - 1], e)
    BY DEF e
  <2>4. (e.number - 1) * MAX_LFN_ENTRY_LENGTH = start /\ start \in Nat
    BY <1>2, <2>1, SMTT(60) DEF MAX_LFN_ENTRY_LENGTH
  <2>5. ~(e.number > MAX_LONGFILENAME_ENTRIES \/ e.number = 0)
    BY <1>2, <2>1, SMTT(60) DEF MAX_LONGFILENAME_ENTRIES
  <2> HIDE DEF start
  <2>6. lfn[k] = [no_of_strings |-> IF lfn[k - 1].no_of_strings = 0 THEN e.number ELSE lfn[k - 1].no_of_strings,
                  String |-> [p \in 0 .. LfnEnd |->
                                IF p < start \/ p >= start + MAX_LFN_ENTRY_LENGTH THEN lfn[k - 1].String[p]
                                ELSE IF e.text[p - start] = 255 THEN Space ELSE e.text[p - start]]]
    BY <2>3, <2>4, <2>5, ZenonT(60) DEF CacheEntry
  <2>7. lfn[k].no_of_strings = (IF lfn[k - 1].no_of_strings = 0 THEN n - k + 1 ELSE lfn[k - 1].no_of_strings)
    BY <2>1, <2>6
  <2>8. ASSUME NEW p \in 0 .. LfnEnd
        PROVE  lfn[k].String[p] = IF p < start \/ p >= start + 13 THEN lfn[k - 1].String[p] ELSE want(p)
    <3>1. lfn[k].String[p] = IF p < start \/ p >= start + 13 THEN lfn[k - 1].String[p]
                             ELSE IF e.text[p - start] = 255 THEN Space ELSE e.text[p - start]
      BY <2>6 DEF MAX_LFN_ENTRY_LENGTH
    <3>2. CASE p < start \/ p >= start + 13
      BY <3>1, <3>2
    <3>3. CASE ~(p < start \/ p >= start + 13)
      <4>1. p - start \in LfnText /\ start + (p - start) = p
        BY <3>3, <1>1, <2>4 DEF LfnText, MAX_LFN_ENTRY_LENGTH
      <4>2. e.text[p - start] = (IF p < L THEN name[p + 1] ELSE IF p = L THEN 0 ELSE 255)
        <5>1. PICK i : i = p - start
          OBVIOUS
        <5>2. i \in LfnText /\ start + i = p
          BY <4>1, <5>1
        <5>3. e.text[i] = (IF start + i < L THEN name[start + i + 1] ELSE IF start + i = L THEN 0 ELSE 255)
          BY <2>2, <5>2
        <5> QED BY <5>1, <5>2, <5>3
      <4>3. read(e.text[p - start]) = want(p)
        BY <4>2, <1>1
      <4> QED BY <3>1, <3>3, <4>3
    <3> QED BY <3>2, <3>3
  <2> QED BY <2>7, <2>8 DEF start
<1> DEFINE wanted == [p \in 0 .. LfnEnd |-> want(p)]
           no     == [k \in 0 .. n |-> lfn[k].no_of_strings]
           str    == [k \in 0 .. n |-> lfn[k].String]
<1>4. lfn[n].no_of_strings = n /\ \A p \in 0 .. LfnEnd : p < n * 13 => lfn[n].String[p] = want(p)
  <2> HIDE DEF want
  <2>1. \A k \in 1 .. n : k \in 0 .. n /\ k - 1 \in 0 .. n
    OBVIOUS
  <2>2. 0 \in 0 .. n /\ n \in 0 .. n /\ LfnEnd \in Nat
    BY <1>1
  <2>3. /\ \A k \in 1 .. n : no[k] = lfn[k].no_of_strings /\ no[k - 1] = lfn[k - 1].no_of_strings
        /\ \A k \in 1 .. n : str[k] = lfn[k].String /\ str[k - 1] = lfn[k - 1].String
        /\ no[0] = lfn[0].no_of_strings /\ no[n] = lfn[n].no_of_strings /\ str[n] = lfn[n].String
        /\ \A p \in 0 .. LfnEnd : wanted[p] = want(p)
    BY <2>1, <2>2, Zenon
  <2> HIDE DEF no, str, wanted
  <2>4. \A k \in 1 .. n : no[k] = IF no[k - 1] = 0 THEN n - k + 1 ELSE no[k - 1]
    BY <1>3, <2>3, Zenon
  <2>5. \A k \in 1 .. n : \A p \in 0 .. LfnEnd :
          str[k][p] = IF p < (n - k) * 13 \/ p >= (n - k) * 13 + 13 THEN str[k - 1][p] ELSE wanted[p]
    <3> TAKE k \in 1 .. n
    <3> TAKE p \in 0 .. LfnEnd
    <3> DEFINE outside == p < (n - k) * 13 \/ p >= (n - k) * 13 + 13
    <3>1. lfn[k].String[p] = IF outside THEN lfn[k - 1].String[p] ELSE want(p)
      BY <1>3
    <3>2. str[k] = lfn[k].String /\ str[k - 1] = lfn[k - 1].String /\ wanted[p] = want(p)
      BY <2>3, Zenon
    <3> HIDE DEF outside
    <3>3. str[k][p] = IF outside THEN str[k - 1][p] ELSE wanted[p]
      BY ONLY <3>1, <3>2, Zenon
    <3> QED BY <3>3 DEF outside
  <2>6. Counted(no, n) /\ Filled(LfnEnd, wanted, str, n)
    BY <2>3, <2>4, <2>5, Zenon DEF Counted, Filled
  <2>7. n \in Nat /\ n >= 1 /\ LfnEnd \in Nat
    BY <1>2, <2>2
  <2>8. no[n] = n /\ Whole(LfnEnd, wanted, str[n], n)
    BY ONLY <2>6, <2>7, EntriesFill, Zenon
  <2> QED BY <2>3, <2>8 DEF Whole
<1>5. lfn[n].no_of_strings * MAX_LFN_ENTRY_LENGTH = n * 13
  BY <1>4 DEF MAX_LFN_ENTRY_LENGTH
<1> DEFINE string == [lfn[n].String EXCEPT ![lfn[n].no_of_strings * MAX_LFN_ENTRY_LENGTH] = 0]
<1>7. \A c \in Char : read(c) # 0
  BY DEF Char, Space
<1>8. ASSUME NEW p \in 0 .. LfnEnd, p <= L
      PROVE  string[p] = IF p = L THEN 0 ELSE read(name[p + 1])
  <2>1. lfn[n].String \in [0 .. LfnEnd -> 0 .. 255]
    <3>1. lfn[n] \in LfnCache
      BY <1>2
    <3> QED BY ONLY <3>1, Zenon DEF LfnCache
  <2>2. CASE p = n * 13
    <3>1. p = L BY <1>1, <1>2, <1>8, <2>2
    <3> QED BY <1>5, <2>1, <2>2, <3>1
  <2>3. CASE p # n * 13
    <3>1. p < n * 13
      <4>1. p \in Nat /\ L \in Nat /\ p <= L /\ L <= n * 13 /\ n * 13 \in Nat
        BY <1>1, <1>2, <1>8
      <4> QED BY ONLY <4>1, <2>3, SMT
    <3>2. lfn[n].String[p] = want(p)
      <4> HIDE DEF want
      <4> QED BY <1>4, <3>1
    <3>3. string[p] = lfn[n].String[p]
      BY <1>5, <2>1, <2>3, Zenon
    <3>4. p \in Nat /\ (p < L \/ p = L)
      BY <1>1, <1>8
    <3> QED BY <1>1, <3>2, <3>3, <3>4
  <2> QED BY <2>2, <2>3
<1>9. string[L] = 0 /\ \A m \in 0 .. L - 1 : string[m] = read(name[m + 1]) /\ string[m] # 0
  <2>1. string[L] = 0
    <3>1. L \in 0 .. LfnEnd /\ L <= L
      BY <1>1
    <3> HIDE DEF string
    <3> QED BY <1>8, <3>1
  <2>2. ASSUME NEW m \in 0 .. L - 1 PROVE string[m] = read(name[m + 1]) /\ string[m] # 0
    <3>1. m \in 0 .. LfnEnd /\ m <= L /\ m # L /\ m + 1 \in 1 .. Len(name)
      BY <1>1
    <3>2. name[m + 1] \in Char
      BY <3>1
    <3> HIDE DEF string, read
    <3> QED BY <1>7, <1>8, <3>1, <3>2
  <2> QED BY <2>1, <2>2
<1> DEFINE length == CHOOSE k \in 0 .. LfnEnd : string[k] = 0 /\ \A m \in 0 .. k - 1 : string[m] # 0
<1>10. CacheGet(lfn[n]) = [i \in 1 .. length |-> string[i - 1]]
  BY Zenon DEF CacheGet
<1> HIDE DEF string, read
<1>11. length = L
  <2>1. L \in 0 .. LfnEnd
    BY <1>1
  <2>2. ASSUME NEW k \in 0 .. LfnEnd, string[k] = 0, \A m \in 0 .. k - 1 : string[m] # 0 PROVE k = L
    BY <1>1, <1>9, <2>2
  <2> QED BY <1>9, <2>1, <2>2
<1> HIDE DEF length
<1>12. \A i \in 1 .. Len(name) : string[i - 1] = read(name[i])
  BY <1>1, <1>9
<1> QED BY <1>10, <1>11, <1>12 DEF read

(***************************************************************************)
(* Paths.                                                                  *)
(***************************************************************************)
\* A separator is a level, and there are no other levels.
LEMMA Levels ==
  ASSUME NEW path, NEW i \in Nat, NEW k \in Nat, Root(path) <= i, i <= k
  PROVE  /\ Level(path, i) \in Nat /\ Level(path, k) \in Nat
         /\ Level(path, i) <= Level(path, k)
         /\ Level(path, i) = Level(path, k) <=> \A j \in i + 1 .. k : path[j] # Separator(path)
<1> DEFINE sep(n) == {j \in Root(path) + 1 .. n : path[j] = Separator(path)}
<1>1. Root(path) \in Nat
  BY DEF Root
<1>2. \A n \in Nat : IsFiniteSet(sep(n))
  <2> TAKE n \in Nat
  <2>1. IsFiniteSet(Root(path) + 1 .. n)
    BY <1>1, FS_Interval
  <2> QED BY <2>1, FS_Subset
<1>3. sep(i) \subseteq sep(k)
  BY <1>1
<1>4. sep(i) = sep(k) <=> \A j \in i + 1 .. k : path[j] # Separator(path)
  BY <1>1
<1>5. Level(path, i) = Cardinality(sep(i)) /\ Level(path, k) = Cardinality(sep(k))
  BY DEF Level
<1> HIDE DEF sep
<1> QED BY <1>2, <1>3, <1>4, <1>5, FS_CardinalityType, FS_Subset

\* fatfs_split_path splits exactly: of a path that does not end in a separator,
\* the file's name is all that is behind the last separator, and the folder what is
\* before it; the root's files have the empty folder.  This holds for names and
\* folders that fit the buffers: longer names are cut.
THEOREM SplitExact ==
  ASSUME NEW path \in Paths, Acceptable(path), Len(path) > Root(path),
         NEW k \in Nat, Root(path) <= k, k < Len(path),
         k = Root(path) \/ path[k] = Separator(path),
         \A j \in k + 1 .. Len(path) : path[j] # Separator(path),
         NEW max_path \in Nat, NEW max_filename \in Nat,
         k <= max_path, Len(path) - k < max_filename
  PROVE  /\ ~SplitFails(path, max_filename)
         /\ SplitPath(path, max_path, max_filename).filename = SubSeq(path, k + 1, Len(path))
         /\ SplitPath(path, max_path, max_filename).path =
              IF k = Root(path) THEN <<>> ELSE SubSeq(path, 1, k - 1)
<1> DEFINE L      == Len(path)
           levels == TotalPathLevels(path)
           name   == GetSubstring(path, levels, max_filename)
<1>1. L \in Nat /\ path \in Seq(Char) /\ Root(path) \in {1, 3}
  BY DEF Paths, Root
<1>2. path[L] # Separator(path)
  BY <1>1
<1>3. levels = Level(path, L)
  BY <1>1, <1>2 DEF TotalPathLevels
<1>4. /\ Level(path, L) = Level(path, k)
      /\ \A i \in Nat : Root(path) <= i /\ i <= L => Level(path, i) \in Nat
      /\ \A i \in Nat : k <= i /\ i <= L => Level(path, i) = Level(path, L)
      /\ \A i \in Nat : Root(path) <= i /\ i < k => Level(path, i) # Level(path, k)
  <2>1. Level(path, L) = Level(path, k)
    BY <1>1, Levels
  <2>2. ASSUME NEW i \in Nat, Root(path) <= i, i <= L PROVE Level(path, i) \in Nat
    BY <1>1, <2>2, Levels
  <2>3. ASSUME NEW i \in Nat, k <= i, i <= L PROVE Level(path, i) = Level(path, L)
    <3>1. \A j \in i + 1 .. L : path[j] # Separator(path)
      BY <2>3
    <3> QED BY <1>1, <2>3, <3>1, Levels
  <2>4. ASSUME NEW i \in Nat, Root(path) <= i, i < k PROVE Level(path, i) # Level(path, k)
    <3>1. path[k] = Separator(path) /\ k \in i + 1 .. k
      BY <1>1, <2>4
    <3> QED BY <1>1, <2>4, <3>1, Levels
  <2> QED BY <2>1, <2>2, <2>3, <2>4
<1>5. levels \in Nat
  BY <1>1, <1>3, <1>4
<1>6. TextOf(path, levels) = k + 1 .. L
  <2>1. ASSUME NEW i \in Root(path) + 1 .. L
        PROVE  (Level(path, i) = levels /\ path[i] # Separator(path)) <=> i > k
    <3>1. i \in Nat /\ Root(path) <= i /\ i <= L
      BY <1>1
    <3>2. CASE i > k
      <4>1. i \in k + 1 .. L /\ k <= i
        BY <3>1, <3>2
      <4> QED BY <1>3, <1>4, <3>1, <3>2, <4>1
    <3>3. CASE i = k
      BY <1>1, <3>1, <3>3
    <3>4. CASE i < k
      <4> HIDE DEF levels
      <4> QED BY <1>3, <1>4, <3>1, <3>4
    <3> QED BY <3>1, <3>2, <3>3, <3>4
  <2> HIDE DEF levels
  <2> QED BY <1>1, <2>1 DEF TextOf
<1> HIDE DEF levels
<1>7. name = SubSeq(path, k + 1, L)
  <2> DEFINE text  == TextOf(path, levels)
             first == CHOOSE i \in text : \A j \in text : i <= j
             size  == IF Cardinality(text) < max_filename - 1 THEN Cardinality(text) ELSE max_filename - 1
  <2>1. text = k + 1 .. L /\ text # {}
    BY <1>1, <1>6
  <2>2. first = k + 1
    <3>1. k + 1 \in text /\ \A j \in text : k + 1 <= j
      BY <1>1, <2>1
    <3>2. \A i \in text : (\A j \in text : i <= j) => i = k + 1
      BY <1>1, <2>1
    <3> HIDE DEF text
    <3> QED BY <3>1, <3>2
  <2>3. size = L - k
    <3>1. Cardinality(text) = L - k
      BY <1>1, <2>1, FS_Interval
    <3> QED BY <1>1, <3>1
  <2>4. name = SubSeq(path, first, first + size - 1)
    BY <2>1, Zenon DEF GetSubstring
  <2> HIDE DEF first, size, text
  <2>5. first + size - 1 = L
    BY <1>1, <2>2, <2>3
  <2> QED BY <2>2, <2>4, <2>5
<1> HIDE DEF name
<1>8. Len(name) = L - k /\ name # <<>>
  <2>1. Len(name) = L - k
    BY <1>1, <1>7
  <2> QED BY <1>1, <2>1
<1>9. ~SplitFails(path, max_filename)
  BY <1>5, <1>8 DEF SplitFails, levels, name
<1>10. Strindex(path, name, max_path) = k
  BY <1>1, <1>8 DEF Strindex
<1>11. levels = 0 <=> k = Root(path)
  <2>1. Level(path, Root(path)) = 0
    <3>1. Root(path) + 1 .. Root(path) = {}
      BY <1>1
    <3>2. {j \in Root(path) + 1 .. Root(path) : path[j] = Separator(path)} = {}
      BY <3>1, Zenon
    <3> QED BY <3>2, FS_EmptySet DEF Level
  <2> QED BY <1>1, <1>3, <1>4, <2>1
<1>12. SplitPath(path, max_path, max_filename) =
         [path     |-> IF levels = 0 THEN <<>> ELSE SubSeq(path, 1, Strindex(path, name, max_path) - 1),
          filename |-> name]
  BY Zenon DEF SplitPath, levels, name
<1> QED BY <1>7, <1>9, <1>10, <1>11, <1>12

(***************************************************************************)
(* Programs loaded from files.                                             *)
(***************************************************************************)
\* What holds of a load at every stage of it.
LoadInv ==
  /\ TypeOK
  /\ stage \in {"magic", "headers", "sections"} => handle = "taken"
  /\ stage \in {"magic", "headers"} => memory = before
  /\ stage \in {"headers", "sections", "start", "running"} => file.magic \in {"ELF", "COFF"}
  /\ stage = "sections" => section <= file.sections /\ HoldsSections(section)
  /\ stage = "running" => section = file.sections
  /\ StartsLoaded
  /\ HandleLeft

\* Storing section k leaves in the memory what the first k + 1 sections have.
LEMMA SectionStored ==
  ASSUME TypeOK, section < file.sections, HoldsSections(section),
         Stored(file.header[section]),
         memory' = After(memory, file.header[section], file.header[section].size),
         section' = section + 1, UNCHANGED <<before, file>>
  PROVE  HoldsSections(section)'
<1> DEFINE s == file.header[section]
           Here(k, a) == IF Cleared(file.header[k]) THEN 0
                         ELSE file.bytes[file.header[k].offset + (a - file.header[k].address)]
<1>1. section \in Nat /\ s \in Section BY DEF TypeOK, File
<1>2. \A k, a : Covers(k, a)' <=> Covers(k, a) BY DEF Covers, Stored
<1>3. \A k, a : Here(k, a)' = Here(k, a) BY DEF Cleared
<1>4. ASSUME NEW a \in Nat
      PROVE  memory'[a] = IF Covers(section, a) THEN Here(section, a) ELSE memory[a]
  <2>1. s.address \in Nat /\ s.size \in Nat BY <1>1 DEF Section
  <2>2. Covers(section, a) <=> a >= s.address /\ a < s.address + s.size BY DEF Covers
  <2> QED BY SMT, <2>1, <2>2 DEF After
<1> SUFFICES ASSUME NEW a \in Nat
             PROVE  \/ \E k \in 0 .. section : /\ Covers(k, a) /\ \A l \in k + 1 .. section : ~Covers(l, a)
                                               /\ memory'[a] = Here(k, a)
                    \/ (\A k \in 0 .. section : ~Covers(k, a)) /\ memory'[a] = before[a]
  <2>1. section' - 1 = section BY <1>1
  <2> HIDE DEF Here
  <2> QED BY <2>1, <1>2, <1>3 DEF HoldsSections, Here
<1> HIDE DEF Here, s
<1>5. CASE Covers(section, a)
  <2>1. section \in 0 .. section /\ \A l \in section + 1 .. section : ~Covers(l, a) BY <1>1
  <2> QED BY <2>1, <1>4, <1>5
<1>6. CASE ~Covers(section, a)
  <2>1. memory'[a] = memory[a] BY <1>4, <1>6
  <2>2. \/ \E k \in 0 .. section - 1 : /\ Covers(k, a) /\ \A l \in k + 1 .. section - 1 : ~Covers(l, a)
                                       /\ memory[a] = Here(k, a)
        \/ (\A k \in 0 .. section - 1 : ~Covers(k, a)) /\ memory[a] = before[a]
    BY DEF HoldsSections, Here
  <2>3. \A k \in 0 .. section : k = section \/ k \in 0 .. section - 1 BY <1>1
  <2>4. \A k \in 0 .. section - 1 : k \in 0 .. section /\ \A l \in k + 1 .. section : l = section \/ l \in k + 1 .. section - 1
    BY <1>1
  <2> QED BY <2>1, <2>2, <2>3, <2>4, <1>6
<1> QED BY <1>5, <1>6

LEMMA AfterType ==
  ASSUME NEW m \in Memory, NEW s \in Section, NEW n \in Nat, TypeOK
  PROVE  After(m, s, n) \in Memory
<1>1. file.bytes \in [Nat -> Byte] BY DEF TypeOK, File
<1> SUFFICES ASSUME NEW a \in Nat
             PROVE  (IF a < s.address \/ a >= s.address + n THEN m[a]
                     ELSE IF Cleared(s) THEN 0 ELSE file.bytes[s.offset + (a - s.address)]) \in Byte
  BY DEF After, Memory
<1>2. m[a] \in Byte /\ 0 \in Byte BY DEF Memory, Byte
<1>3. s.address \in Nat /\ s.offset \in Nat BY DEF Section
<1>4. ~(a < s.address) => s.offset + (a - s.address) \in Nat BY <1>3
<1> QED BY <1>1, <1>2, <1>4

LEMMA LoadInvariant == Spec => []LoadInv
<1>1. Init => LoadInv
  BY DEF Init, LoadInv, TypeOK, StartsLoaded, HandleLeft
<1>2. ASSUME LoadInv, [Next]_vars PROVE LoadInv'
  <2> USE <1>2 DEF LoadInv
  <2>1. CASE NotFound BY <2>1 DEF NotFound, TypeOK, StartsLoaded, HandleLeft
  <2>2. CASE Found BY <2>2 DEF Found, TypeOK, StartsLoaded, HandleLeft
  <2>3. CASE ReadMagic
    BY <2>3 DEF ReadMagic, GiveUp, TypeOK, StartsLoaded, HandleLeft
  <2>4. CASE ReadHeaders
    <3>1. CASE stage' = "sections" /\ section' = 0 /\ UNCHANGED <<handle, answer, memory, before, file>>
      <4>1. HoldsSections(section)'
        <5>1. memory' = before' /\ section' = 0 BY <2>4, <3>1 DEF ReadHeaders
        <5>2. 0 .. section' - 1 = {} BY <5>1
        <5> QED BY <5>1, <5>2 DEF HoldsSections
      <4>2. file' \in File /\ file'.sections \in Nat BY <3>1 DEF TypeOK, File
      <4>3. section' <= file'.sections /\ section' \in Nat BY SMT, <3>1, <4>2
      <4>4. handle = "taken" /\ file.magic \in {"ELF", "COFF"} /\ TypeOK BY <2>4 DEF ReadHeaders
      <4> QED BY <3>1, <4>1, <4>2, <4>3, <4>4 DEF TypeOK, StartsLoaded, HandleLeft
    <3>2. CASE GiveUp /\ UNCHANGED <<section, memory, before, file>>
      BY <2>4, <3>2 DEF ReadHeaders, GiveUp, TypeOK, StartsLoaded, HandleLeft
    <3> QED BY <2>4, <3>1, <3>2 DEF ReadHeaders
  <2>5. CASE NoSection
    BY <2>5 DEF NoSection, GiveUp, TypeOK, StartsLoaded, HandleLeft
  <2>6. CASE NextSection
    <3> DEFINE s == file.header[section]
    <3>1. s \in Section /\ s.size \in Nat /\ section \in Nat /\ file.sections \in Nat /\ section + 1 <= file.sections
      <4>1. file \in File /\ section \in Nat /\ section < file.sections BY <2>6 DEF NextSection, TypeOK
      <4>2. file.sections \in Nat /\ s \in Section BY <4>1 DEF File
      <4>3. s.size \in Nat BY <4>2 DEF Section
      <4> HIDE DEF s
      <4> QED BY <4>1, <4>2, <4>3
    <3>2. CASE ~Stored(s) /\ section' = section + 1 /\ UNCHANGED <<memory, handle, stage, answer>>
      <4>1. HoldsSections(section)'
        <5>1. \A a : ~Covers(section, a) BY <3>2 DEF Covers
        <5>2. \A k, a : Covers(k, a)' <=> Covers(k, a) BY <2>6 DEF NextSection, Covers, Stored
        <5>3. \A k \in 0 .. section : k = section \/ k \in 0 .. section - 1 BY <3>1
        <5>4. \A k \in 0 .. section - 1 : k \in 0 .. section /\ \A l \in k + 1 .. section : l = section \/ l \in k + 1 .. section - 1
          BY <3>1
        <5>5. section' - 1 = section BY <3>1, <3>2
        <5>6. HoldsSections(section) /\ UNCHANGED <<memory, before, file>>
          BY <2>6, <3>2 DEF NextSection
        <5> QED BY <5>1, <5>2, <5>3, <5>4, <5>5, <5>6 DEF HoldsSections, Cleared
      <4>2. section' \in Nat /\ section' <= file.sections BY <3>1, <3>2
      <4> QED BY <2>6, <3>2, <4>1, <4>2 DEF NextSection, TypeOK, StartsLoaded, HandleLeft
    <3>3. ASSUME NEW n \in Nat, Stored(s), memory' = After(memory, s, n),
                 n = s.size, section' = section + 1, UNCHANGED <<handle, stage, answer>>
          PROVE  LoadInv'
      <4>1. HoldsSections(section)' BY <2>6, <3>3, SectionStored DEF NextSection
      <4>2. memory' \in Memory BY <3>1, <3>3, AfterType DEF TypeOK
      <4>3. section' \in Nat /\ section' <= file.sections BY <3>1, <3>3
      <4> QED BY <2>6, <3>3, <4>1, <4>2, <4>3 DEF NextSection, TypeOK, StartsLoaded, HandleLeft
    <3>4. ASSUME NEW n \in Nat, memory' = After(memory, s, n), GiveUp, UNCHANGED section
          PROVE  LoadInv'
      <4>1. memory' \in Memory BY <3>1, <3>4, AfterType DEF TypeOK
      <4> QED BY <2>6, <3>4, <4>1 DEF NextSection, GiveUp, TypeOK, StartsLoaded, HandleLeft
    <3>5. \A n \in IF Cleared(s) THEN {s.size} ELSE Brought(s.offset, s.size) : n \in Nat
      BY <3>1 DEF Brought
    <3> QED BY <2>6, <3>2, <3>3, <3>4, <3>5 DEF NextSection
  <2>7. CASE Start
    <3>1. HoldsSections(section)' <=> HoldsSections(section)
      BY <2>7 DEF Start, HoldsSections, Covers, Stored, Cleared
    <3> QED BY <2>7, <3>1 DEF Start, TypeOK, StartsLoaded, HandleLeft
  <2>8. CASE Run BY <2>8 DEF Run, TypeOK, StartsLoaded, HandleLeft
  <2>9. CASE Return BY <2>9 DEF Return, TypeOK, StartsLoaded, HandleLeft
  <2>10. CASE UNCHANGED vars
    <3>1. HoldsSections(section)' <=> HoldsSections(section)
      BY <2>10 DEF vars, HoldsSections, Covers, Stored, Cleared
    <3>2. HoldsSections(file.sections)' <=> HoldsSections(file.sections)
      BY <2>10 DEF vars, HoldsSections, Covers, Stored, Cleared
    <3> QED BY <2>10, <3>1, <3>2 DEF vars, TypeOK, StartsLoaded, HandleLeft
  <2> QED BY <1>2, <2>1, <2>2, <2>3, <2>4, <2>5, <2>6, <2>7, <2>8, <2>9, <2>10 DEF Next
<1> QED BY <1>1, <1>2, PTL DEF Spec

\* A program that is started finds all its sections in memory, one over the
\* other in their order, and everything else as it was: what an ELF file calls
\* NOBITS too, which the loader does not clear (executeELF, executeCOFF).
THEOREM ProgramsStartLoaded == Spec => []StartsLoaded
BY LoadInvariant, PTL DEF LoadInv

\* A failed load gives the file's handle back; a program from a COFF file runs
\* with it still taken, and it stays so until a volume is mounted again
\* (executeCE, executeCOFF).
THEOREM HandlesReturned == Spec => []HandleLeft
BY LoadInvariant, PTL DEF LoadInv

(***************************************************************************)
(* The FAT behind its buffers (fat_table.c), for buffers and a driver of   *)
(* every size: buffers of two sectors over a driver that stores one, as in *)
(* this build, included.  The theorems start from buffers that agree with  *)
(* each other and with the medium (CacheOK) and say under which condition  *)
(* on the buffers a call leaves them so.  There are two conditions, Fresh  *)
(* and Alone, for the two ways this build can lose an entry; buffers of    *)
(* one sector, the library's default, always meet both (OneSector).        *)
(***************************************************************************)

FatLbas       == FatBegin .. FatBegin + FatSectors - 1
Buffer        == 1 .. FAT_BUFFERS
Sector(Links) == [0 .. FatEntries - 1 -> Links]

\* What a buffer has of a sector it holds.
At(b, l) == b.sector[l - b.address]

\* The sectors of a buffer that reach the medium when it is saved.
StoredCount(a) == Min({Min({FAT_BUFFER_SECTORS, FatSectors - (a - FatBegin)}), DriverWrites})
StoredPart(b)  == b.address .. b.address + StoredCount(b.address) - 1

\* A sector may be other than on the medium only where saving the buffer stores it.
Unsaved(b, l) == b.dirty /\ l \in StoredPart(b)

InUse(v, b, Links) ==
  /\ b.address \in FatLbas
  /\ \A l \in FatLbas : Holds(b, l) =>
       /\ l - b.address \in DOMAIN b.sector /\ At(b, l) \in Sector(Links)
       /\ ~Unsaved(b, l) => At(b, l) = v.medium[l]

Unused(b) == b.address = Nowhere /\ ~b.dirty

\* Buffers begin at different sectors, and those that hold the same one agree on it.
CacheOK(v, Links) ==
  /\ {"type", "buffers", "hint", "medium", "writes"} \subseteq DOMAIN v
  /\ FatLbas \cup {FsInfoSector} \subseteq DOMAIN v.medium
  /\ \A l \in FatLbas : v.medium[l] \in Sector(Links)
  /\ DOMAIN v.buffers = Buffer
  /\ \A i \in Buffer :
       /\ {"address", "dirty", "sector"} \subseteq DOMAIN v.buffers[i]
       /\ v.buffers[i].dirty \in BOOLEAN
       /\ Unused(v.buffers[i]) \/ InUse(v, v.buffers[i], Links)
  /\ \A i, j \in Buffer : \A l \in FatLbas :
       Holds(v.buffers[i], l) /\ Holds(v.buffers[j], l) => At(v.buffers[i], l) = At(v.buffers[j], l)
  /\ \A i, j \in Buffer : v.buffers[i].address = v.buffers[j].address /\ i # j => Unused(v.buffers[i])

\* A sector of the FAT as the library sees it, in the first buffer that holds it, and
\* the entries of the FAT.
In(v, l)   == {i \in Buffer : Holds(v.buffers[i], l)}
Seen(v, l) == IF In(v, l) = {} THEN v.medium[l] ELSE At(v.buffers[Min(In(v, l))], l)
Clusters   == {c \in 0 .. FatSectors * FatEntries - 1 : FatSectorOf(c) \in FatLbas}
Fat(v)     == [c \in Clusters |-> Seen(v, FatSectorOf(c))[c % FatEntries]]

\* When a sector has to be read in, no buffer that stays has a change to one that is
\* read in behind it: the change would be read from the medium as it was before.
Fresh(v, s) ==
  In(v, s) = {} =>
    \A i \in Buffer \ {FAT_BUFFERS} : \A l \in FatLbas \cap (s .. s + FAT_BUFFER_SECTORS - 1) :
      Holds(v.buffers[i], l) => ~Unsaved(v.buffers[i], l)

\* A sector that is held is held by one buffer, where saving that buffer stores it.
Alone(v, s) ==
  \A i \in In(v, s) : s \in StoredPart(v.buffers[i]) /\ \A j \in In(v, s) : j = i

\* The smaller of two counts, and of one.
LEMMA MinOfTwo ==
  ASSUME NEW m \in Int, NEW n \in Int
  PROVE  Min({m, n}) \in {m, n} /\ Min({m, n}) <= m /\ Min({m, n}) <= n
<1>1. \E x \in {m, n} : \A y \in {m, n} : x <= y
  <2>1. CASE m <= n BY <2>1
  <2>2. CASE n <= m BY <2>2
  <2> QED BY <2>1, <2>2
<1> QED BY <1>1 DEF Min

\* What the constants are.
LEMMA Constants ==
  /\ FAT_BUFFERS \in Nat \ {0} /\ FAT_BUFFER_SECTORS \in Nat \ {0}
  /\ FatSectors \in Nat \ {0} /\ FatEntries \in Nat \ {0} /\ DriverWrites \in Nat \ {0}
  /\ FatBegin \in Int /\ FsInfoSector \in Int /\ FatLbas \subseteq Int
  /\ 1 \in Buffer /\ FAT_BUFFERS \in Buffer
  /\ Nowhere \notin FatLbas /\ FsInfoSector \notin FatLbas /\ Nowhere # FsInfoSector
  /\ \A a \in FatLbas : a > FsInfoSector
BY TableAssumption DEF FatLbas, Buffer, FatBegin, FsInfoSector, Nowhere

\* The first of some buffers is one of them.
LEMMA FirstBuffer ==
  ASSUME NEW S \in SUBSET Buffer, S # {}
  PROVE  Min(S) \in S
<1>1. S \subseteq Nat BY Constants DEF Buffer
<1>2. \E x \in S : \A y \in S : x <= y BY <1>1, Least
<1> QED BY <1>2 DEF Min

\* The sectors a buffer holds, and those of them that a save stores.
LEMMA HeldSectors ==
  ASSUME NEW b, b.address \in FatLbas
  PROVE  /\ \A l : Holds(b, l) <=> l \in b.address .. b.address + FAT_BUFFER_SECTORS - 1
         /\ Holds(b, b.address) /\ b.address \in StoredPart(b)
         /\ \A l \in StoredPart(b) : l \in FatLbas /\ Holds(b, l)
<1>1. PICK a : a = b.address OBVIOUS
<1>2. a \in Int /\ a # Nowhere /\ a >= FatBegin /\ a <= FatBegin + FatSectors - 1 /\ a \in FatLbas
  BY <1>1, Constants DEF FatLbas
<1>3. PICK rest : rest = FatSectors - (a - FatBegin) OBVIOUS
<1>4. rest \in Int /\ rest >= 1 /\ a + rest = FatBegin + FatSectors BY <1>2, <1>3, Constants
<1>5. PICK count : count = Min({FAT_BUFFER_SECTORS, rest}) OBVIOUS
<1>6. count \in Int /\ count >= 1 /\ count <= FAT_BUFFER_SECTORS /\ count <= rest
  <2>1. FAT_BUFFER_SECTORS \in Int /\ FAT_BUFFER_SECTORS >= 1 BY Constants
  <2>2. count \in {FAT_BUFFER_SECTORS, rest} /\ count <= FAT_BUFFER_SECTORS /\ count <= rest
    BY <1>4, <1>5, <2>1, MinOfTwo
  <2> QED BY <1>4, <2>1, <2>2
<1>7. PICK n : n = Min({count, DriverWrites}) OBVIOUS
<1>8. n \in Int /\ n >= 1 /\ n <= FAT_BUFFER_SECTORS /\ n <= rest
  <2>1. DriverWrites \in Int /\ DriverWrites >= 1 /\ FAT_BUFFER_SECTORS \in Int BY Constants
  <2>2. n \in {count, DriverWrites} /\ n <= count BY <1>6, <1>7, <2>1, MinOfTwo
  <2> QED BY <1>4, <1>6, <2>1, <2>2
<1>9. StoredPart(b) = a .. a + n - 1 BY <1>1, <1>3, <1>5, <1>7 DEF StoredPart, StoredCount
<1>10. \A l : Holds(b, l) <=> l \in a .. a + FAT_BUFFER_SECTORS - 1 BY <1>1, <1>2 DEF Holds
<1>11. a \in a .. a + FAT_BUFFER_SECTORS - 1 /\ a \in a .. a + n - 1 BY <1>2, <1>8, Constants
<1>12. \A l \in a .. a + n - 1 : l \in FatLbas /\ l \in a .. a + FAT_BUFFER_SECTORS - 1
  BY <1>2, <1>4, <1>8, Constants DEF FatLbas
<1> QED BY <1>1, <1>9, <1>10, <1>11, <1>12

\* A buffer that is not used holds nothing.
LEMMA UnusedHoldsNone == ASSUME NEW b, Unused(b) PROVE \A l : ~Holds(b, l)
BY DEF Unused, Holds

\* What a sector that a buffer holds looks like.
LEMMA SeenIn ==
  ASSUME NEW v, NEW Links, CacheOK(v, Links), NEW l \in FatLbas, NEW i \in Buffer, Holds(v.buffers[i], l)
  PROVE  Seen(v, l) = At(v.buffers[i], l) /\ InUse(v, v.buffers[i], Links)
<1>1. In(v, l) \in SUBSET Buffer /\ i \in In(v, l) BY DEF In
<1>2. PICK j : j = Min(In(v, l)) OBVIOUS
<1>3. j \in In(v, l) BY <1>1, <1>2, FirstBuffer
<1>4. j \in Buffer /\ Holds(v.buffers[j], l) BY <1>3 DEF In
<1>5. At(v.buffers[i], l) = At(v.buffers[j], l) BY <1>4 DEF CacheOK
<1>6. Seen(v, l) = At(v.buffers[j], l) BY <1>1, <1>2 DEF Seen
<1>7. InUse(v, v.buffers[i], Links) BY UnusedHoldsNone DEF CacheOK
<1> QED BY <1>5, <1>6, <1>7

\* A sector that none holds is the medium's.
LEMMA SeenOut ==
  ASSUME NEW v, NEW l, \A i \in Buffer : ~Holds(v.buffers[i], l)
  PROVE  In(v, l) = {} /\ Seen(v, l) = v.medium[l]
BY DEF In, Seen

\* A sector has one value, and it has a type.
LEMMA SeenTyped ==
  ASSUME NEW v, NEW Links, CacheOK(v, Links), NEW l \in FatLbas
  PROVE  Seen(v, l) \in Sector(Links)
<1>1. CASE \E i \in Buffer : Holds(v.buffers[i], l)
  <2>1. PICK i \in Buffer : Holds(v.buffers[i], l) BY <1>1
  <2> QED BY <2>1, SeenIn DEF InUse
<1>2. CASE \A i \in Buffer : ~Holds(v.buffers[i], l) BY <1>2, SeenOut DEF CacheOK
<1> QED BY <1>1, <1>2

\* Buffers of one sector: what the two conditions ask is always so.
THEOREM OneSector ==
  ASSUME FAT_BUFFER_SECTORS = 1, NEW v, NEW Links, CacheOK(v, Links), NEW s \in FatLbas
  PROVE  Fresh(v, s) /\ Alone(v, s)
<1>1. s \in Int /\ FAT_BUFFERS \in Buffer BY Constants
<1>2. ASSUME NEW i \in In(v, s)
      PROVE  /\ i \in Buffer /\ v.buffers[i].address = s /\ s \in StoredPart(v.buffers[i])
             /\ ~Unused(v.buffers[i])
  <2>1. i \in Buffer /\ Holds(v.buffers[i], s) BY DEF In
  <2>2. ~Unused(v.buffers[i]) /\ InUse(v, v.buffers[i], Links) BY <2>1, SeenIn, UnusedHoldsNone
  <2>3. PICK a : a = v.buffers[i].address OBVIOUS
  <2>4. a \in FatLbas /\ a \in Int BY <2>2, <2>3, Constants DEF InUse
  <2>5. s \in a .. a + 1 - 1 BY <2>1, <2>3, <2>4, HeldSectors
  <2>6. a = s BY <1>1, <2>4, <2>5
  <2>7. a \in StoredPart(v.buffers[i]) BY <2>3, <2>4, HeldSectors
  <2> QED BY <2>1, <2>2, <2>3, <2>6, <2>7
<1>3. Alone(v, s)
  <2>1. ASSUME NEW i \in In(v, s), NEW j \in In(v, s) PROVE j = i BY <1>2 DEF CacheOK
  <2> QED BY <1>2, <2>1 DEF Alone
<1>4. Fresh(v, s)
  <2>1. s .. s + FAT_BUFFER_SECTORS - 1 = {s} BY <1>1
  <2> QED BY <2>1 DEF Fresh, In
<1> QED BY <1>3, <1>4

\* A buffer is saved: the medium gets the sectors that are stored of it.
LEMMA Saved ==
  ASSUME NEW v, {"buffers", "medium", "writes", "hint", "type"} \subseteq DOMAIN v, FatLbas \subseteq DOMAIN v.medium,
         NEW b, b.dirty => b.address \in FatLbas
  PROVE  LET u == WriteBack(v, b)
         IN  /\ DOMAIN u = DOMAIN v /\ DOMAIN u.medium = DOMAIN v.medium
             /\ u.buffers = v.buffers /\ u.hint = v.hint /\ u.type = v.type
             /\ \A l \in FatLbas : u.medium[l] = IF Unsaved(b, l) THEN At(b, l) ELSE v.medium[l]
<1>1. CASE ~b.dirty BY <1>1 DEF WriteBack, Unsaved
<1>2. CASE b.dirty
  <2>1. PICK a, buf : a = b.address /\ buf = b.sector OBVIOUS
  <2>2. PICK count : count = Min({FAT_BUFFER_SECTORS, FatSectors - (a - FatBegin)}) OBVIOUS
  <2>3. PICK n : n = Min({count, DriverWrites}) OBVIOUS
  <2>4. WriteBack(v, b) = MediaWrite(v, a, buf, count) BY <1>2, <2>1, <2>2 DEF WriteBack
  <2>5. PICK ws : ws = v.writes \o [i \in 1 .. n |-> <<a + i - 1, buf[i - 1]>>] OBVIOUS
  <2>6. PICK m : m = [l \in DOMAIN v.medium |-> IF l \in a .. a + n - 1 THEN buf[l - a] ELSE v.medium[l]]
    OBVIOUS
  <2>7. MediaWrite(v, a, buf, count) = [v EXCEPT !.medium = m, !.writes = ws]
    BY <2>3, <2>5, <2>6 DEF MediaWrite
  <2>8. PICK u : u = [v EXCEPT !.medium = m, !.writes = ws] OBVIOUS
  <2>9. DOMAIN u = DOMAIN v /\ u.medium = m /\ u.buffers = v.buffers /\ u.hint = v.hint /\ u.type = v.type
    BY <2>8
  <2>10. StoredPart(b) = a .. a + n - 1 BY <2>1, <2>2, <2>3 DEF StoredPart, StoredCount
  <2>11. \A l \in FatLbas : m[l] = IF l \in StoredPart(b) THEN At(b, l) ELSE v.medium[l]
    BY <2>1, <2>6, <2>10 DEF At
  <2>12. DOMAIN m = DOMAIN v.medium BY <2>6
  <2>13. WriteBack(v, b) = u BY <2>4, <2>7, <2>8
  <2> QED BY <1>2, <2>9, <2>11, <2>12, <2>13 DEF Unsaved
<1> QED BY <1>1, <1>2

\* A sector that some have is found in the first of them.
LEMMA FoundInBuffer ==
  ASSUME NEW v, NEW s, NEW i \in Buffer, Holds(v.buffers[i], s)
  PROVE  \E j \in Buffer : Holds(v.buffers[j], s) /\ ReadFat(v, s) = [v |-> v, at |-> j]
<1>1. In(v, s) \in SUBSET Buffer /\ i \in In(v, s) BY DEF In
<1>2. PICK j : j = Min(In(v, s)) OBVIOUS
<1>3. j \in In(v, s) BY <1>1, <1>2, FirstBuffer
<1>4. In(v, s) = {k \in 1 .. FAT_BUFFERS : Holds(v.buffers[k], s)} BY DEF In, Buffer
<1>5. ReadFat(v, s) = [v |-> v, at |-> j] BY <1>1, <1>2, <1>4 DEF ReadFat
<1> QED BY <1>3, <1>5 DEF In

\* What is left behind a miss: the buffer that was last is on the medium, the others
\* moved down, and the first has what the medium holds from the sector read on.
Loaded(v, s, w) ==
  /\ {"type", "buffers", "hint", "medium", "writes"} \subseteq DOMAIN w
  /\ DOMAIN w.medium = DOMAIN v.medium /\ DOMAIN w.buffers = Buffer /\ w.hint = v.hint /\ w.type = v.type
  /\ w.buffers[1] = [address |-> s, dirty |-> FALSE, sector |-> MediaRead(w, s, FAT_BUFFER_SECTORS)]
  /\ \A i \in Buffer \ {1} : i - 1 \in Buffer \ {FAT_BUFFERS} /\ w.buffers[i] = v.buffers[i - 1]
  /\ \A l \in FatLbas :
       w.medium[l] = IF Holds(v.buffers[FAT_BUFFERS], l) THEN At(v.buffers[FAT_BUFFERS], l) ELSE v.medium[l]

\* A miss leaves that (fatfs_fat_read_sector).
LEMMA MissLoads ==
  ASSUME NEW v, NEW Links, CacheOK(v, Links), NEW s, \A i \in Buffer : ~Holds(v.buffers[i], s)
  PROVE  ReadFat(v, s).at = 1 /\ Loaded(v, s, ReadFat(v, s).v)
<1>1. PICK b : b = v.buffers[FAT_BUFFERS] OBVIOUS
<1>2. PICK u : u = WriteBack(v, b) OBVIOUS
<1>3. PICK new : new = [address |-> s, dirty |-> FALSE, sector |-> MediaRead(u, s, FAT_BUFFER_SECTORS)] OBVIOUS
<1>4. PICK list : list = [i \in Buffer |-> IF i = 1 THEN new ELSE v.buffers[i - 1]] OBVIOUS
<1>5. PICK w : w = [u EXCEPT !.buffers = list] OBVIOUS
<1>6. Unused(b) \/ InUse(v, b, Links) BY <1>1, Constants DEF CacheOK
<1>7. /\ DOMAIN u = DOMAIN v /\ DOMAIN u.medium = DOMAIN v.medium
      /\ u.buffers = v.buffers /\ u.hint = v.hint /\ u.type = v.type
      /\ \A l \in FatLbas : u.medium[l] = IF Unsaved(b, l) THEN At(b, l) ELSE v.medium[l]
  <2>1. b.dirty => b.address \in FatLbas BY <1>6 DEF Unused, InUse
  <2>2. {"buffers", "medium", "writes", "hint", "type"} \subseteq DOMAIN v /\ FatLbas \subseteq DOMAIN v.medium
    BY DEF CacheOK
  <2> QED BY <1>2, <2>1, <2>2, Saved
<1>8. ASSUME NEW l \in FatLbas PROVE u.medium[l] = IF Holds(b, l) THEN At(b, l) ELSE v.medium[l]
  <2>1. Unsaved(b, l) => Holds(b, l) BY <1>6, HeldSectors DEF Unsaved, Unused, InUse
  <2>2. Holds(b, l) /\ ~Unsaved(b, l) => At(b, l) = v.medium[l] BY <1>6, UnusedHoldsNone DEF InUse
  <2> QED BY <1>7, <2>1, <2>2
<1>9. {i \in 1 .. FAT_BUFFERS : Holds(v.buffers[i], s)} = {} BY DEF Buffer
<1>10. ReadFat(v, s) = [v |-> Reload(u, s), at |-> 1] BY <1>1, <1>2, <1>9 DEF ReadFat
<1>11. Reload(u, s) = w BY <1>3, <1>4, <1>5, <1>7 DEF Reload, Buffer
<1>12. {"type", "buffers", "hint", "medium", "writes"} \subseteq DOMAIN u BY <1>7 DEF CacheOK
<1>13. DOMAIN w = DOMAIN u /\ w.medium = u.medium /\ w.hint = u.hint /\ w.type = u.type /\ w.buffers = list
  BY <1>5, <1>12
<1>14. \A i \in Buffer \ {1} : i - 1 \in Buffer \ {FAT_BUFFERS} BY Constants DEF Buffer
<1>15. list[1] = new /\ DOMAIN list = Buffer /\ \A i \in Buffer \ {1} : list[i] = v.buffers[i - 1]
  BY <1>4, Constants
<1>16. new = [address |-> s, dirty |-> FALSE, sector |-> MediaRead(w, s, FAT_BUFFER_SECTORS)]
  BY <1>3, <1>13 DEF MediaRead
<1> QED BY <1>1, <1>7, <1>8, <1>10, <1>11, <1>12, <1>13, <1>14, <1>15, <1>16 DEF Loaded

\* What a miss keeps: the buffers that stay, and the FAT in them and behind them.
Behind(v, s, w, Links) ==
  /\ FatLbas \cup {FsInfoSector} \subseteq DOMAIN w.medium
  /\ \A l \in FatLbas : w.medium[l] \in Sector(Links)
  /\ \A i \in Buffer \ {1} : /\ {"address", "dirty", "sector"} \subseteq DOMAIN w.buffers[i]
                             /\ w.buffers[i].dirty \in BOOLEAN
                             /\ Unused(w.buffers[i]) \/ InUse(w, w.buffers[i], Links)
                             /\ w.buffers[i].address # s
  /\ \A i, j \in Buffer \ {1} :
       w.buffers[i].address = w.buffers[j].address /\ i # j => Unused(w.buffers[i])
  /\ \A i \in Buffer \ {1} : \A l \in FatLbas : Holds(w.buffers[i], l) => At(w.buffers[i], l) = Seen(v, l)
  /\ \A l \in FatLbas : (\A i \in Buffer \ {1} : ~Holds(w.buffers[i], l)) => w.medium[l] = Seen(v, l)

LEMMA LoadedKeeps ==
  ASSUME NEW v, NEW Links, CacheOK(v, Links), NEW s, s # Nowhere, \A i \in Buffer : ~Holds(v.buffers[i], s),
         NEW w, Loaded(v, s, w)
  PROVE  Behind(v, s, w, Links)
<1>1. PICK b, last : b = v.buffers[last] /\ last = FAT_BUFFERS OBVIOUS
<1>2. last \in Buffer /\ (Unused(b) \/ InUse(v, b, Links)) BY <1>1, Constants DEF CacheOK
<1>3. \A l \in FatLbas : w.medium[l] = IF Holds(b, l) THEN At(b, l) ELSE v.medium[l] BY <1>1 DEF Loaded
<1>4. \A l \in FatLbas : w.medium[l] \in Sector(Links)
  BY <1>2, <1>3, UnusedHoldsNone DEF CacheOK, InUse
<1>5. \A i \in Buffer \ {1} : i - 1 \in Buffer \ {last} /\ w.buffers[i] = v.buffers[i - 1]
  BY <1>1 DEF Loaded
<1>6. ASSUME NEW i \in Buffer \ {1}
      PROVE  /\ {"address", "dirty", "sector"} \subseteq DOMAIN w.buffers[i]
             /\ w.buffers[i].dirty \in BOOLEAN
             /\ Unused(w.buffers[i]) \/ InUse(w, w.buffers[i], Links)
             /\ w.buffers[i].address # s
             /\ \A l \in FatLbas : Holds(w.buffers[i], l) => At(w.buffers[i], l) = Seen(v, l)
  <2>1. PICK k, c : k = i - 1 /\ c = v.buffers[k] OBVIOUS
  <2>2. k \in Buffer /\ c = w.buffers[i] BY <1>5, <2>1
  <2>3. {"address", "dirty", "sector"} \subseteq DOMAIN c /\ c.dirty \in BOOLEAN /\ (Unused(c) \/ InUse(v, c, Links))
    BY <2>1, <2>2 DEF CacheOK
  <2>4. ASSUME InUse(v, c, Links) PROVE InUse(w, c, Links)
    <3>1. ASSUME NEW l \in FatLbas, Holds(c, l), ~Unsaved(c, l) PROVE At(c, l) = w.medium[l]
      <4>1. At(c, l) = v.medium[l] BY <2>4, <3>1 DEF InUse
      <4>2. Holds(b, l) => At(c, l) = At(b, l) BY <1>1, <1>2, <2>1, <2>2, <3>1, SeenIn
      <4> QED BY <1>3, <4>1, <4>2
    <3> QED BY <2>4, <3>1 DEF InUse
  <2>5. c.address # s
    <3>1. CASE Unused(c) BY <3>1 DEF Unused
    <3>2. CASE InUse(v, c, Links)
      <4>1. Holds(c, c.address) BY <3>2, HeldSectors DEF InUse
      <4> QED BY <2>1, <2>2, <4>1
    <3> QED BY <2>3, <3>1, <3>2
  <2>6. \A l \in FatLbas : Holds(c, l) => At(c, l) = Seen(v, l) BY <2>1, <2>2, SeenIn
  <2> QED BY <2>2, <2>3, <2>4, <2>5, <2>6
<1>7. ASSUME NEW i \in Buffer \ {1}, NEW j \in Buffer \ {1}, w.buffers[i].address = w.buffers[j].address, i # j
      PROVE  Unused(w.buffers[i])
  <2>1. i - 1 # j - 1 BY <1>7, Constants DEF Buffer
  <2>2. PICK k, l : k = i - 1 /\ l = j - 1 OBVIOUS
  <2>3. k \in Buffer /\ l \in Buffer /\ k # l /\ w.buffers[i] = v.buffers[k] /\ w.buffers[j] = v.buffers[l]
    BY <1>5, <2>1, <2>2
  <2> QED BY <1>7, <2>3 DEF CacheOK
<1>8. ASSUME NEW l \in FatLbas, \A i \in Buffer \ {1} : ~Holds(w.buffers[i], l)
      PROVE  w.medium[l] = Seen(v, l)
  <2>1. CASE Holds(b, l)
    <3>1. Seen(v, l) = At(b, l) BY <1>1, <1>2, <2>1, SeenIn
    <3> QED BY <1>3, <2>1, <3>1
  <2>2. CASE ~Holds(b, l)
    <3>1. ASSUME NEW i \in Buffer PROVE ~Holds(v.buffers[i], l)
      <4>1. CASE i = last BY <1>1, <2>2, <4>1
      <4>2. CASE i # last
        <5>1. PICK j : j = i + 1 OBVIOUS
        <5>2. j \in Buffer \ {1} /\ j - 1 = i BY <1>1, <4>2, <5>1, Constants DEF Buffer
        <5> QED BY <1>5, <1>8, <5>2
      <4> QED BY <4>1, <4>2
    <3>2. Seen(v, l) = v.medium[l] BY <3>1, SeenOut
    <3> QED BY <1>3, <2>2, <3>2
  <2> QED BY <2>1, <2>2
<1>9. FatLbas \cup {FsInfoSector} \subseteq DOMAIN w.medium BY DEF Loaded, CacheOK
<1> QED BY <1>4, <1>6, <1>7, <1>8, <1>9 DEF Behind

\* With no buffer in use, as fatfs_fat_init leaves them, the FAT is the medium's.
THEOREM FatIsTheMediums ==
  ASSUME NEW v, NEW Links,
         {"type", "buffers", "hint", "medium", "writes"} \subseteq DOMAIN v,
         FatLbas \cup {FsInfoSector} \subseteq DOMAIN v.medium,
         \A l \in FatLbas : v.medium[l] \in Sector(Links),
         DOMAIN v.buffers = Buffer,
         \A i \in Buffer : /\ {"address", "dirty", "sector"} \subseteq DOMAIN v.buffers[i]
                          /\ v.buffers[i].dirty = FALSE /\ v.buffers[i].address = Nowhere
  PROVE  CacheOK(v, Links) /\ \A l \in FatLbas : Seen(v, l) = v.medium[l]
<1>1. \A i \in Buffer : Unused(v.buffers[i]) /\ \A l : ~Holds(v.buffers[i], l) BY UnusedHoldsNone DEF Unused
<1>2. CacheOK(v, Links) BY <1>1 DEF CacheOK
<1> QED BY <1>1, <1>2, SeenOut

\* Reading a sector of the FAT: it is in the buffer answered, as it was seen before,
\* and nothing is seen any differently.
THEOREM SectorIsRead ==
  ASSUME NEW v, NEW Links, CacheOK(v, Links), NEW s \in FatLbas, Fresh(v, s)
  PROVE  LET r == ReadFat(v, s)
         IN  /\ r.at \in Buffer /\ Holds(r.v.buffers[r.at], s)
             /\ At(r.v.buffers[r.at], s) = Seen(v, s)
             /\ CacheOK(r.v, Links) /\ r.v.hint = v.hint /\ r.v.type = v.type
             /\ \A l \in FatLbas : Seen(r.v, l) = Seen(v, l)
<1>1. CASE \E i \in Buffer : Holds(v.buffers[i], s)
  <2>1. PICK j \in Buffer : Holds(v.buffers[j], s) /\ ReadFat(v, s) = [v |-> v, at |-> j]
    BY <1>1, FoundInBuffer
  <2>2. At(v.buffers[j], s) = Seen(v, s) BY <2>1, SeenIn
  <2> QED BY <2>1, <2>2
<1>2. CASE \A i \in Buffer : ~Holds(v.buffers[i], s)
  <2>1. PICK w : w = ReadFat(v, s).v OBVIOUS
  <2>2. ReadFat(v, s).at = 1 /\ Loaded(v, s, w) BY <1>2, <2>1, MissLoads
  <2>3. PICK new : new = w.buffers[1] OBVIOUS
  <2>4. new = [address |-> s, dirty |-> FALSE, sector |-> MediaRead(w, s, FAT_BUFFER_SECTORS)]
    BY <2>2, <2>3 DEF Loaded
  <2>5. {"address", "dirty", "sector"} \subseteq DOMAIN new /\ new.dirty = FALSE /\ new.address = s
    BY <2>4
  <2>6. s \in Int /\ s # Nowhere /\ 1 \in Buffer BY Constants
  <2>6a. Behind(v, s, w, Links) BY <1>2, <2>2, <2>6, LoadedKeeps
  <2>7. /\ FatLbas \cup {FsInfoSector} \subseteq DOMAIN w.medium
        /\ \A l \in FatLbas : w.medium[l] \in Sector(Links)
        /\ \A i \in Buffer \ {1} : /\ {"address", "dirty", "sector"} \subseteq DOMAIN w.buffers[i]
                                   /\ w.buffers[i].dirty \in BOOLEAN
                                   /\ Unused(w.buffers[i]) \/ InUse(w, w.buffers[i], Links)
                                   /\ w.buffers[i].address # s
        /\ \A i, j \in Buffer \ {1} :
             w.buffers[i].address = w.buffers[j].address /\ i # j => Unused(w.buffers[i])
        /\ \A i \in Buffer \ {1} : \A l \in FatLbas : Holds(w.buffers[i], l) => At(w.buffers[i], l) = Seen(v, l)
        /\ \A l \in FatLbas : (\A i \in Buffer \ {1} : ~Holds(w.buffers[i], l)) => w.medium[l] = Seen(v, l)
    BY <2>6a DEF Behind
  <2>8. ASSUME NEW l \in FatLbas, Holds(new, l)
        PROVE  /\ l \in s .. s + FAT_BUFFER_SECTORS - 1
               /\ l - s \in DOMAIN new.sector /\ At(new, l) = w.medium[l]
    <3>1. l \in s .. s + FAT_BUFFER_SECTORS - 1 BY <2>5, <2>8, HeldSectors
    <3>2. PICK o : o = l - s OBVIOUS
    <3>3. o \in 0 .. FAT_BUFFER_SECTORS - 1 /\ s + o = l BY <2>6, <3>1, <3>2, Constants
    <3>4. new.sector = [i \in 0 .. FAT_BUFFER_SECTORS - 1 |-> w.medium[s + i]] BY <2>4 DEF MediaRead
    <3> QED BY <2>5, <3>1, <3>2, <3>3, <3>4 DEF At
  <2>9. InUse(w, new, Links) BY <2>5, <2>7, <2>8 DEF InUse
  <2>10. ASSUME NEW i \in Buffer \ {1}, NEW l \in FatLbas, Holds(w.buffers[i], l), Holds(new, l)
         PROVE  At(w.buffers[i], l) = At(new, l)
    <3>1. PICK k : k = i - 1 OBVIOUS
    <3>2. k \in Buffer \ {FAT_BUFFERS} /\ w.buffers[i] = v.buffers[k] BY <2>2, <3>1 DEF Loaded
    <3>3. In(v, s) = {} BY <1>2 DEF In
    <3>4. l \in FatLbas \cap (s .. s + FAT_BUFFER_SECTORS - 1) BY <2>8, <2>10
    <3>5. ~Unsaved(w.buffers[i], l) BY <2>10, <3>2, <3>3, <3>4 DEF Fresh
    <3>6. ~Unused(w.buffers[i]) BY <2>10, UnusedHoldsNone
    <3>7. InUse(w, w.buffers[i], Links) BY <2>7, <3>6
    <3>8. At(w.buffers[i], l) = w.medium[l] BY <2>10, <3>5, <3>7 DEF InUse
    <3> QED BY <2>8, <2>10, <3>8
  <2>11. ASSUME NEW i \in Buffer
         PROVE  /\ {"address", "dirty", "sector"} \subseteq DOMAIN w.buffers[i]
                /\ w.buffers[i].dirty \in BOOLEAN
                /\ Unused(w.buffers[i]) \/ InUse(w, w.buffers[i], Links)
    BY <2>3, <2>5, <2>7, <2>9
  <2>12. ASSUME NEW i \in Buffer, NEW j \in Buffer, NEW l \in FatLbas, Holds(w.buffers[i], l), Holds(w.buffers[j], l)
         PROVE  At(w.buffers[i], l) = At(w.buffers[j], l)
    <3>1. CASE i = 1 /\ j = 1 BY <3>1
    <3>2. CASE i = 1 /\ j # 1 BY <2>3, <2>10, <2>12, <3>2
    <3>3. CASE i # 1 /\ j = 1 BY <2>3, <2>10, <2>12, <3>3
    <3>4. CASE i # 1 /\ j # 1 BY <2>7, <2>12, <3>4
    <3> QED BY <3>1, <3>2, <3>3, <3>4
  <2>13. \A i, j \in Buffer : w.buffers[i].address = w.buffers[j].address /\ i # j => Unused(w.buffers[i])
    BY <2>3, <2>5, <2>7
  <2>14. CacheOK(w, Links)
    <3>1. {"type", "buffers", "hint", "medium", "writes"} \subseteq DOMAIN w /\ DOMAIN w.buffers = Buffer
      BY <2>2 DEF Loaded
    <3> QED BY <2>7, <2>11, <2>12, <2>13, <3>1 DEF CacheOK
  <2>15. ASSUME NEW l \in FatLbas PROVE Seen(w, l) = Seen(v, l)
    <3>1. CASE \E i \in Buffer \ {1} : Holds(w.buffers[i], l)
      <4>1. PICK i \in Buffer \ {1} : Holds(w.buffers[i], l) BY <3>1
      <4>2. Seen(w, l) = At(w.buffers[i], l) BY <2>14, <4>1, SeenIn
      <4> QED BY <2>7, <4>1, <4>2
    <3>2. CASE \A i \in Buffer \ {1} : ~Holds(w.buffers[i], l)
      <4>1. w.medium[l] = Seen(v, l) BY <2>7, <3>2
      <4>2. CASE Holds(new, l)
        <5>1. Seen(w, l) = At(new, l) BY <2>3, <2>6, <2>14, <4>2, SeenIn
        <5> QED BY <2>8, <4>1, <4>2, <5>1
      <4>3. CASE ~Holds(new, l)
        <5>1. \A i \in Buffer : ~Holds(w.buffers[i], l) BY <2>3, <3>2, <4>3
        <5> QED BY <4>1, <5>1, SeenOut
      <4> QED BY <4>2, <4>3
    <3> QED BY <3>1, <3>2
  <2>16. Holds(new, s) BY <2>5, HeldSectors
  <2>17. At(new, s) = Seen(v, s)
    <3>1. Seen(w, s) = At(new, s) BY <2>3, <2>6, <2>14, <2>16, SeenIn
    <3> QED BY <2>15, <3>1
  <2>18. w.hint = v.hint /\ w.type = v.type BY <2>2 DEF Loaded
  <2> QED BY <2>1, <2>2, <2>3, <2>6, <2>14, <2>15, <2>16, <2>17, <2>18
<1> QED BY <1>1, <1>2

\* The entries of the FAT, by sector and place.
LEMMA Places ==
  /\ \A c \in Clusters : FatSectorOf(c) \in FatLbas /\ c % FatEntries \in 0 .. FatEntries - 1
  /\ \A c, d \in Clusters :
       FatSectorOf(c) = FatSectorOf(d) /\ c % FatEntries = d % FatEntries => c = d
<1>1. ASSUME NEW c \in Clusters
      PROVE  /\ c \div FatEntries \in Int /\ c % FatEntries \in 0 .. FatEntries - 1
             /\ c = FatEntries * (c \div FatEntries) + (c % FatEntries)
  <2>1. /\ c \in Nat /\ c < FatSectors * FatEntries /\ FatEntries \in Nat /\ FatEntries > 0 /\ FatSectors \in Nat
    BY Constants DEF Clusters
  <2>2. /\ c \div FatEntries \in Int /\ c % FatEntries \in 0 .. FatEntries - 1
        /\ c = FatEntries * (c \div FatEntries) + (c % FatEntries)
    BY <2>1
  <2> QED BY <2>2
<1>2. \A c \in Clusters : FatSectorOf(c) \in FatLbas BY DEF Clusters
<1>3. ASSUME NEW c \in Clusters, NEW d \in Clusters, FatSectorOf(c) = FatSectorOf(d), c % FatEntries = d % FatEntries
      PROVE  c = d
  <2>1. c \div FatEntries \in Int /\ d \div FatEntries \in Int BY <1>1
  <2>2. c \div FatEntries = d \div FatEntries
    <3>1. PICK p, q : p = c \div FatEntries /\ q = d \div FatEntries OBVIOUS
    <3>2. 3 + p = 3 + q BY <1>3, <3>1 DEF FatSectorOf, FatBegin
    <3>3. p \in Int /\ q \in Int BY <2>1, <3>1
    <3>4. p = q BY <3>2, <3>3
    <3> QED BY <3>1, <3>4
  <2>3. c = FatEntries * (c \div FatEntries) + (c % FatEntries) BY <1>1
  <2>4. d = FatEntries * (d \div FatEntries) + (d % FatEntries) BY <1>1
  <2> QED BY <1>3, <2>2, <2>3, <2>4
<1> QED BY <1>1, <1>2, <1>3

\* A FAT with the same sectors is the same.
LEMMA SameFat ==
  ASSUME NEW v, NEW w, \A l \in FatLbas : Seen(w, l) = Seen(v, l)
  PROVE  Fat(w) = Fat(v)
BY Places DEF Fat

\* An entry that is looked up is the FAT's, and the FAT stays as it is
\* (fatfs_find_next_cluster), whatever buffer is given up for it.
THEOREM EntryIsRead ==
  ASSUME NEW v, NEW Links, CacheOK(v, Links), NEW c \in Clusters, Fresh(v, FatSectorOf(c))
  PROVE  LET r == FatEntry(v, c)
         IN  /\ r.next = Fat(v)[c] /\ r.next \in Links
             /\ Fat(r.v) = Fat(v) /\ CacheOK(r.v, Links) /\ r.v.hint = v.hint /\ r.v.type = v.type
<1>1. PICK s, e : s = FatSectorOf(c) /\ e = c % FatEntries OBVIOUS
<1>2. s \in FatLbas /\ e \in 0 .. FatEntries - 1 BY <1>1, Places
<1>3. PICK r : r = ReadFat(v, s) OBVIOUS
<1>4. /\ At(r.v.buffers[r.at], s) = Seen(v, s)
      /\ CacheOK(r.v, Links) /\ r.v.hint = v.hint /\ r.v.type = v.type
      /\ \A l \in FatLbas : Seen(r.v, l) = Seen(v, l)
  BY <1>1, <1>2, <1>3, SectorIsRead
<1>5. PICK b : b = r.v.buffers[r.at] OBVIOUS
<1>6. FatEntry(v, c) = [v |-> r.v, next |-> b.sector[s - b.address][e]] BY <1>1, <1>3, <1>5 DEF FatEntry
<1>7. FatEntry(v, c) = [v |-> r.v, next |-> Seen(v, s)[e]] BY <1>4, <1>5, <1>6 DEF At
<1>8. Seen(v, s)[e] \in Links
  <2>1. Seen(v, s) \in Sector(Links) BY <1>2, SeenTyped
  <2> QED BY <1>2, <2>1 DEF Sector
<1>9. Seen(v, s)[e] = Fat(v)[c] BY <1>1 DEF Fat
<1>10. Fat(r.v) = Fat(v) BY <1>4, SameFat
<1> QED BY <1>4, <1>7, <1>8, <1>9, <1>10

\* A sector that was alone in its buffer, or in none, is alone in the one it is read into.
LEMMA ReadAlone ==
  ASSUME NEW v, NEW Links, CacheOK(v, Links), NEW s \in FatLbas, Alone(v, s)
  PROVE  LET r == ReadFat(v, s)
         IN  /\ s \in StoredPart(r.v.buffers[r.at])
             /\ \A j \in Buffer : Holds(r.v.buffers[j], s) => j = r.at
<1>1. CASE \E i \in Buffer : Holds(v.buffers[i], s)
  <2>1. PICK i \in Buffer : Holds(v.buffers[i], s) /\ ReadFat(v, s) = [v |-> v, at |-> i]
    BY <1>1, FoundInBuffer
  <2>2. i \in In(v, s) /\ \A j \in Buffer : Holds(v.buffers[j], s) => j \in In(v, s) BY <2>1 DEF In
  <2> QED BY <2>1, <2>2 DEF Alone
<1>2. CASE \A i \in Buffer : ~Holds(v.buffers[i], s)
  <2>1. PICK w : w = ReadFat(v, s).v OBVIOUS
  <2>2. ReadFat(v, s).at = 1 /\ Loaded(v, s, w) BY <1>2, <2>1, MissLoads
  <2>3. w.buffers[1].address = s /\ \A j \in Buffer \ {1} : j - 1 \in Buffer /\ w.buffers[j] = v.buffers[j - 1]
    BY <2>2 DEF Loaded
  <2>4. s \in StoredPart(w.buffers[1]) BY <2>3, HeldSectors
  <2>5. \A j \in Buffer : Holds(w.buffers[j], s) => j = 1 BY <1>2, <2>3
  <2> QED BY <2>1, <2>2, <2>4, <2>5
<1> QED BY <1>1, <1>2

\* An entry that is set is set, and no other with it (fatfs_fat_set_cluster).
THEOREM EntryIsSet ==
  ASSUME NEW v, NEW Links, CacheOK(v, Links), NEW c \in Clusters, NEW next \in Links,
         Fresh(v, FatSectorOf(c)), Alone(v, FatSectorOf(c))
  PROVE  LET u == FatSetCluster(v, c, next)
         IN  Fat(u) = [Fat(v) EXCEPT ![c] = next] /\ CacheOK(u, Links) /\ u.hint = v.hint /\ u.type = v.type
<1>1. PICK s, e : s = FatSectorOf(c) /\ e = c % FatEntries OBVIOUS
<1>2. s \in FatLbas /\ s \in Int /\ e \in 0 .. FatEntries - 1 BY <1>1, Places, Constants
<1>3. PICK r : r = ReadFat(v, s) OBVIOUS
<1>4. PICK w, at : w = r.v /\ at = r.at OBVIOUS
<1>5. /\ at \in Buffer /\ Holds(w.buffers[at], s)
      /\ CacheOK(w, Links) /\ w.hint = v.hint /\ w.type = v.type
      /\ \A l \in FatLbas : Seen(w, l) = Seen(v, l)
  BY <1>1, <1>2, <1>3, <1>4, SectorIsRead
<1>6. s \in StoredPart(w.buffers[at]) /\ \A j \in Buffer : Holds(w.buffers[j], s) => j = at
  BY <1>1, <1>2, <1>3, <1>4, ReadAlone
<1>7. PICK b : b = w.buffers[at] OBVIOUS
<1>8. At(b, s) = Seen(w, s) /\ InUse(w, b, Links) BY <1>2, <1>5, <1>7, SeenIn
<1>9. b.address \in FatLbas /\ b.address \in Int BY <1>8, Constants DEF InUse
<1>10. PICK o : o = s - b.address OBVIOUS
<1>11. b.sector[o] = At(b, s) /\ o \in DOMAIN b.sector /\ At(b, s) \in Sector(Links)
  BY <1>2, <1>5, <1>7, <1>8, <1>10 DEF InUse, At
<1>12. PICK sector : sector = [b.sector[o] EXCEPT ![e] = next] OBVIOUS
<1>13. PICK new : new = [b EXCEPT !.sector[o] = sector, !.dirty = TRUE] OBVIOUS
<1>14. {"address", "dirty", "sector"} \subseteq DOMAIN b BY <1>5, <1>7 DEF CacheOK
<1>15. /\ {"address", "dirty", "sector"} \subseteq DOMAIN new
       /\ new.address = b.address /\ new.dirty = TRUE /\ new.sector = [b.sector EXCEPT ![o] = sector]
  BY <1>13, <1>14
<1>16. At(new, s) = sector /\ \A l \in FatLbas : l # s => At(new, l) = At(b, l)
  <2>1. At(new, s) = sector BY <1>10, <1>11, <1>15 DEF At
  <2>2. ASSUME NEW l \in FatLbas, l # s PROVE At(new, l) = At(b, l)
    <3>1. PICK k : k = l - b.address OBVIOUS
    <3>2. k # o BY <1>2, <1>9, <1>10, <2>2, <3>1, Constants
    <3>3. new.sector[k] = b.sector[k] BY <1>15, <3>2
    <3> QED BY <1>15, <3>1, <3>3 DEF At
  <2> QED BY <2>1, <2>2
<1>17. \A l : (Holds(new, l) <=> Holds(b, l)) /\ (l \in StoredPart(new) <=> l \in StoredPart(b))
  BY <1>15 DEF Holds, StoredPart
<1>18. PICK u : u = FatSetCluster(v, c, next) OBVIOUS
<1>19. u = [w EXCEPT !.buffers[at].sector[o][e] = next, !.buffers[at].dirty = TRUE]
  <2>1. u = [w EXCEPT !.buffers[at].sector[s - w.buffers[at].address][e] = next,
                     !.buffers[at].dirty = TRUE]
    BY <1>1, <1>3, <1>4, <1>18, Zenon DEF FatSetCluster
  <2>2. s - w.buffers[at].address = o BY <1>7, <1>10
  <2> QED BY <2>1, <2>2, Zenon
<1>20. {"type", "buffers", "hint", "medium", "writes"} \subseteq DOMAIN w /\ DOMAIN w.buffers = Buffer
  BY <1>5 DEF CacheOK
<1>21. /\ DOMAIN u = DOMAIN w /\ u.medium = w.medium /\ u.hint = w.hint /\ u.type = w.type
       /\ u.buffers = [i \in Buffer |-> IF i = at THEN new ELSE w.buffers[i]]
  <2>1. DOMAIN u = DOMAIN w /\ u.medium = w.medium /\ u.hint = w.hint /\ u.type = w.type BY <1>19, <1>20
  <2>2. u.buffers = [[w.buffers EXCEPT ![at].sector[o][e] = next] EXCEPT ![at].dirty = TRUE] BY <1>19, <1>20
  <2>3. PICK mid : mid = [w.buffers EXCEPT ![at].sector[o][e] = next] OBVIOUS
  <2>4. DOMAIN mid = Buffer /\ mid[at] = [b EXCEPT !.sector[o] = sector]
        /\ \A i \in Buffer : i # at => mid[i] = w.buffers[i]
    BY <1>5, <1>7, <1>12, <1>20, <2>3
  <2>5. u.buffers = [mid EXCEPT ![at].dirty = TRUE] BY <2>2, <2>3
  <2>6. [mid[at] EXCEPT !.dirty = TRUE] = new BY <1>13, <2>4
  <2>7. u.buffers = [i \in Buffer |-> IF i = at THEN new ELSE w.buffers[i]] BY <1>5, <2>4, <2>5, <2>6
  <2> QED BY <2>1, <2>7
<1>22. u.buffers[at] = new /\ DOMAIN u.buffers = Buffer /\ \A i \in Buffer : i # at => u.buffers[i] = w.buffers[i]
  BY <1>5, <1>21
<1>23. sector \in Sector(Links) BY <1>2, <1>11, <1>12 DEF Sector
<1>24. InUse(u, new, Links)
  <2>1. ASSUME NEW l \in FatLbas, Holds(new, l)
        PROVE  /\ l - new.address \in DOMAIN new.sector /\ At(new, l) \in Sector(Links)
               /\ ~Unsaved(new, l) => At(new, l) = u.medium[l]
    <3>1. /\ l - b.address \in DOMAIN b.sector /\ At(b, l) \in Sector(Links)
          /\ ~Unsaved(b, l) => At(b, l) = w.medium[l]
      BY <1>8, <1>17, <2>1 DEF InUse
    <3>2. l - new.address \in DOMAIN new.sector BY <1>15, <3>1
    <3>3. CASE l = s BY <1>6, <1>7, <1>15, <1>16, <1>17, <1>23, <3>2, <3>3 DEF Unsaved
    <3>4. CASE l # s
      <4>1. Unsaved(b, l) => Unsaved(new, l) BY <1>15, <1>17 DEF Unsaved
      <4> QED BY <1>16, <1>21, <3>1, <3>2, <3>4, <4>1
    <3> QED BY <3>3, <3>4
  <2> QED BY <1>9, <1>15, <2>1 DEF InUse
<1>25. \A i \in Buffer : /\ {"address", "dirty", "sector"} \subseteq DOMAIN u.buffers[i]
                         /\ u.buffers[i].dirty \in BOOLEAN
                         /\ Unused(u.buffers[i]) \/ InUse(u, u.buffers[i], Links)
  <2> TAKE i \in Buffer
  <2>1. CASE i = at BY <1>15, <1>22, <1>24, <2>1
  <2>2. CASE i # at BY <1>5, <1>21, <1>22, <2>2 DEF CacheOK, InUse
  <2> QED BY <2>1, <2>2
<1>26. \A i \in Buffer : \A l \in FatLbas :
         Holds(u.buffers[i], l) =>
           Holds(w.buffers[i], l) /\ At(u.buffers[i], l) = IF l = s THEN sector ELSE At(w.buffers[i], l)
  <2> SUFFICES ASSUME NEW i \in Buffer, NEW l \in FatLbas, Holds(u.buffers[i], l)
               PROVE  Holds(w.buffers[i], l) /\ At(u.buffers[i], l) = IF l = s THEN sector ELSE At(w.buffers[i], l)
    OBVIOUS
  <2>1. CASE i = at BY <1>7, <1>16, <1>17, <1>22, <2>1
  <2>2. CASE i # at BY <1>6, <1>22, <2>2
  <2> QED BY <2>1, <2>2
<1>27. ASSUME NEW i \in Buffer, NEW j \in Buffer, NEW l \in FatLbas, Holds(u.buffers[i], l), Holds(u.buffers[j], l)
       PROVE  At(u.buffers[i], l) = At(u.buffers[j], l)
  <2>1. l # s => At(w.buffers[i], l) = At(w.buffers[j], l) BY <1>5, <1>26, <1>27, SeenIn
  <2> QED BY <1>26, <1>27, <2>1
<1>28. \A i, j \in Buffer : u.buffers[i].address = u.buffers[j].address /\ i # j => Unused(u.buffers[i])
  <2>1. \A i \in Buffer : u.buffers[i].address = w.buffers[i].address BY <1>7, <1>15, <1>22
  <2>2. ~Unused(b) BY <1>9, Constants DEF Unused
  <2>3. \A j \in Buffer : w.buffers[j].address = b.address => j = at BY <1>5, <1>7, <2>2 DEF CacheOK
  <2> TAKE i, j \in Buffer
  <2>4. CASE i = at BY <1>7, <2>1, <2>3, <2>4
  <2>5. CASE i # at BY <1>5, <1>22, <2>1, <2>5 DEF CacheOK
  <2> QED BY <2>4, <2>5
<1>29. CacheOK(u, Links)
  <2>1. {"type", "buffers", "hint", "medium", "writes"} \subseteq DOMAIN u BY <1>20, <1>21
  <2>2. /\ FatLbas \cup {FsInfoSector} \subseteq DOMAIN u.medium
        /\ \A l \in FatLbas : u.medium[l] \in Sector(Links)
    BY <1>5, <1>21 DEF CacheOK
  <2> QED BY <1>22, <1>25, <1>27, <1>28, <2>1, <2>2 DEF CacheOK
<1>30. Seen(u, s) = sector
  <2>1. Holds(u.buffers[at], s) BY <1>5, <1>7, <1>17, <1>22
  <2>2. Seen(u, s) = At(u.buffers[at], s) BY <1>2, <1>5, <1>29, <2>1, SeenIn
  <2> QED BY <1>16, <1>22, <2>2
<1>31. ASSUME NEW l \in FatLbas, l # s PROVE Seen(u, l) = Seen(v, l)
  <2>1. CASE \E i \in Buffer : Holds(u.buffers[i], l)
    <3>1. PICK i \in Buffer : Holds(u.buffers[i], l) BY <2>1
    <3>2. Seen(u, l) = At(u.buffers[i], l) BY <1>29, <3>1, SeenIn
    <3>3. Holds(w.buffers[i], l) /\ At(u.buffers[i], l) = At(w.buffers[i], l) BY <1>26, <1>31, <3>1
    <3>4. Seen(w, l) = At(w.buffers[i], l) BY <1>5, <3>3, SeenIn
    <3> QED BY <1>5, <3>2, <3>3, <3>4
  <2>2. CASE \A i \in Buffer : ~Holds(u.buffers[i], l)
    <3>1. \A i \in Buffer : ~Holds(w.buffers[i], l) BY <1>7, <1>17, <1>22, <2>2
    <3>2. Seen(u, l) = u.medium[l] /\ Seen(w, l) = w.medium[l] BY <2>2, <3>1, SeenOut
    <3> QED BY <1>5, <1>21, <3>2
  <2> QED BY <2>1, <2>2
<1>32. ASSUME NEW d \in Clusters PROVE Fat(u)[d] = IF d = c THEN next ELSE Fat(v)[d]
  <2>1. FatSectorOf(d) \in FatLbas /\ d % FatEntries \in 0 .. FatEntries - 1 BY Places
  <2>2. Fat(u)[d] = Seen(u, FatSectorOf(d))[d % FatEntries] BY DEF Fat
  <2>3. Fat(v)[d] = Seen(v, FatSectorOf(d))[d % FatEntries] BY DEF Fat
  <2>4. CASE FatSectorOf(d) # s BY <1>1, <1>31, <2>1, <2>2, <2>3, <2>4
  <2>5. CASE FatSectorOf(d) = s
    <3>1. Fat(u)[d] = sector[d % FatEntries] BY <1>30, <2>2, <2>5
    <3>2. b.sector[o] = Seen(v, s) /\ b.sector[o] \in [0 .. FatEntries - 1 -> Links]
      BY <1>2, <1>5, <1>8, <1>11 DEF Sector
    <3>3. sector[d % FatEntries] = IF d % FatEntries = e THEN next ELSE Seen(v, s)[d % FatEntries]
      BY <1>12, <2>1, <3>2
    <3>4. d = c <=> d % FatEntries = e BY <1>1, <2>5, Places
    <3> QED BY <2>3, <2>5, <3>1, <3>3, <3>4
  <2> QED BY <2>4, <2>5
<1>33. Fat(u) = [Fat(v) EXCEPT ![c] = next]
  <2>1. Fat(u) = [d \in Clusters |-> Fat(u)[d]] BY DEF Fat
  <2>2. [Fat(v) EXCEPT ![c] = next] = [d \in Clusters |-> IF d = c THEN next ELSE Fat(v)[d]] BY DEF Fat
  <2> QED BY <1>32, <2>1, <2>2
<1> QED BY <1>5, <1>18, <1>21, <1>29, <1>33

\* A set with 0 and the successors of its members is all of them.
LEMMA UpTo ==
  ASSUME NEW S, S \subseteq Nat, 0 \in S, \A n \in S : n + 1 \in S
  PROVE  S = Nat
<1>1. ASSUME S # Nat PROVE FALSE
  <2>1. PICK x \in Nat \ S : \A y \in Nat \ S : x <= y BY <1>1, Least
  <2>2. x # 0 /\ x - 1 \in Nat BY <2>1
  <2>3. x - 1 \in S BY <2>1, <2>2
  <2> QED BY <2>1, <2>2, <2>3
<1> QED BY <1>1

\* The volumes left by saving the first buffers, one after the other.
SavedTo(v, n, f) == f = [k \in 0 .. n |-> IF k = 0 THEN v ELSE WriteBack(f[k - 1], v.buffers[k])]

\* There are such volumes: a recursive function is one that satisfies its equation.
LEMMA SavesExist ==
  ASSUME NEW v, NEW n \in Nat
  PROVE  \E f : SavedTo(v, n, f)
<1> DEFINE S == {m \in Nat : \E f : SavedTo(v, m, f)}
<1>1. 0 \in S
  <2>1. PICK f : f = [k \in 0 .. 0 |-> v] OBVIOUS
  <2>2. 0 .. 0 = {0} OBVIOUS
  <2>3. SavedTo(v, 0, f) BY <2>1, <2>2 DEF SavedTo
  <2> QED BY <2>3
<1>2. ASSUME NEW m \in S PROVE m + 1 \in S
  <2>1. PICK f : SavedTo(v, m, f) OBVIOUS
  <2>2. PICK u : u = WriteBack(f[m], v.buffers[m + 1]) OBVIOUS
  <2>3. PICK g : g = [k \in 0 .. m + 1 |-> IF k = m + 1 THEN u ELSE f[k]] OBVIOUS
  <2>4. m \in Nat OBVIOUS
  <2>5. \A k \in 0 .. m : k # m + 1 /\ k \in 0 .. m + 1 /\ g[k] = f[k] BY <2>3, <2>4
  <2>6. \A k \in 0 .. m + 1 : g[k] = IF k = 0 THEN v ELSE WriteBack(g[k - 1], v.buffers[k])
    <3> TAKE k \in 0 .. m + 1
    <3>1. CASE k = m + 1
      <4>1. g[k] = u BY <2>3, <3>1
      <4>2. k # 0 /\ k - 1 = m /\ m \in 0 .. m BY <2>4, <3>1
      <4>3. g[k - 1] = f[m] BY <2>5, <4>2
      <4> QED BY <2>2, <3>1, <4>1, <4>2, <4>3
    <3>2. CASE k # m + 1
      <4>1. k \in 0 .. m BY <2>4, <3>2
      <4>2. f[k] = IF k = 0 THEN v ELSE WriteBack(f[k - 1], v.buffers[k]) BY <2>1, <4>1 DEF SavedTo
      <4>3. k # 0 => k - 1 \in 0 .. m BY <2>4, <4>1
      <4> QED BY <2>5, <4>1, <4>2, <4>3
    <3> QED BY <3>1, <3>2
  <2>7. SavedTo(v, m + 1, g)
    <3>1. g = [k \in 0 .. m + 1 |-> g[k]] BY <2>3
    <3> QED BY <2>6, <3>1 DEF SavedTo
  <2> QED BY <2>4, <2>7
<1>3. S = Nat
  <2>1. S \subseteq Nat OBVIOUS
  <2> HIDE DEF S
  <2> QED BY <1>1, <1>2, <2>1, UpTo
<1> QED BY <1>3

\* The first n buffers are saved: what they hold is on the medium, and a sector of it is
\* as it was or as it is seen.
SavedFirst(v, n, u) ==
  /\ DOMAIN u = DOMAIN v /\ DOMAIN u.medium = DOMAIN v.medium
  /\ u.buffers = v.buffers /\ u.hint = v.hint /\ u.type = v.type
  /\ \A l \in FatLbas : u.medium[l] \in {v.medium[l], Seen(v, l)}
  /\ \A k \in 1 .. n : \A l \in FatLbas : Holds(v.buffers[k], l) => u.medium[l] = Seen(v, l)

\* The next buffer is saved.
LEMMA SavingStep ==
  ASSUME NEW v, NEW Links, CacheOK(v, Links),
         NEW n \in Nat, n < FAT_BUFFERS, NEW u, SavedFirst(v, n, u)
  PROVE  SavedFirst(v, n + 1, WriteBack(u, v.buffers[n + 1]))
<1>1. PICK b, m : b = v.buffers[m] /\ m = n + 1 OBVIOUS
<1>2. m \in Buffer /\ 1 .. m = 1 .. n \cup {m} /\ m \notin 1 .. n /\ 1 .. n \subseteq Buffer
  BY <1>1, Constants DEF Buffer
<1>3. PICK w : w = WriteBack(u, b) OBVIOUS
<1>4. Unused(b) \/ InUse(v, b, Links) BY <1>1, <1>2 DEF CacheOK
<1>5. b.dirty => b.address \in FatLbas BY <1>4 DEF Unused, InUse
<1>6. {"buffers", "medium", "writes", "hint", "type"} \subseteq DOMAIN u /\ FatLbas \subseteq DOMAIN u.medium
  BY DEF CacheOK, SavedFirst
<1>7. /\ DOMAIN w = DOMAIN u /\ DOMAIN w.medium = DOMAIN u.medium
      /\ w.buffers = u.buffers /\ w.hint = u.hint /\ w.type = u.type
      /\ \A l \in FatLbas : w.medium[l] = IF Unsaved(b, l) THEN At(b, l) ELSE u.medium[l]
  BY <1>3, <1>5, <1>6, Saved
<1>8. \A l \in FatLbas : Holds(b, l) => At(b, l) = Seen(v, l) BY <1>1, <1>2, SeenIn
<1>9. \A l \in FatLbas : Unsaved(b, l) => Holds(b, l) BY <1>5, HeldSectors DEF Unsaved
<1>10. \A l \in FatLbas : u.medium[l] \in {v.medium[l], Seen(v, l)} BY DEF SavedFirst
<1>11. \A l \in FatLbas : Holds(b, l) => w.medium[l] = Seen(v, l)
  <2> SUFFICES ASSUME NEW l \in FatLbas, Holds(b, l) PROVE w.medium[l] = Seen(v, l) OBVIOUS
  <2>1. CASE Unsaved(b, l) BY <1>7, <1>8, <2>1
  <2>2. CASE ~Unsaved(b, l)
    <3>1. InUse(v, b, Links) BY <1>4, UnusedHoldsNone
    <3>2. At(b, l) = v.medium[l] BY <2>2, <3>1 DEF InUse
    <3>3. u.medium[l] = Seen(v, l) BY <1>8, <1>10, <3>2
    <3> QED BY <1>7, <2>2, <3>3
  <2> QED BY <2>1, <2>2
<1>12. \A l \in FatLbas : w.medium[l] \in {v.medium[l], Seen(v, l)} BY <1>7, <1>9, <1>10, <1>11
<1>13. ASSUME NEW k \in 1 .. m, NEW l \in FatLbas, Holds(v.buffers[k], l) PROVE w.medium[l] = Seen(v, l)
  <2>1. CASE k = m BY <1>1, <1>11, <1>13, <2>1
  <2>2. CASE k # m
    <3>1. k \in 1 .. n BY <1>2, <2>2
    <3>2. u.medium[l] = Seen(v, l) BY <1>13, <3>1 DEF SavedFirst
    <3> QED BY <1>7, <1>9, <1>11, <3>2
  <2> QED BY <2>1, <2>2
<1>14. SavedFirst(v, m, w) BY <1>7, <1>12, <1>13 DEF SavedFirst
<1> QED BY <1>1, <1>3, <1>14

\* All of them are.
LEMMA AllSaved ==
  ASSUME NEW v, NEW Links, CacheOK(v, Links), NEW f, SavedTo(v, FAT_BUFFERS, f)
  PROVE  SavedFirst(v, FAT_BUFFERS, f[FAT_BUFFERS])
<1> DEFINE S == {n \in Nat : n <= FAT_BUFFERS => SavedFirst(v, n, f[n])}
<1>1. FAT_BUFFERS \in Nat BY Constants
<1>2. 0 \in S
  <2>1. f[0] = v BY <1>1 DEF SavedTo
  <2>2. SavedFirst(v, 0, v) BY DEF SavedFirst
  <2> QED BY <2>1, <2>2
<1>3. ASSUME NEW n \in S PROVE n + 1 \in S
  <2>1. n \in Nat OBVIOUS
  <2>2. SUFFICES ASSUME n + 1 <= FAT_BUFFERS PROVE SavedFirst(v, n + 1, f[n + 1]) BY <2>1
  <2>3. n < FAT_BUFFERS /\ n <= FAT_BUFFERS BY <1>1, <2>1, <2>2
  <2>4. SavedFirst(v, n, f[n]) BY <2>3
  <2>5. n + 1 \in 0 .. FAT_BUFFERS /\ n + 1 # 0 /\ n + 1 - 1 = n BY <1>1, <2>1, <2>2
  <2>6. f[n + 1] = WriteBack(f[n], v.buffers[n + 1])
    <3>1. PICK m : m = n + 1 OBVIOUS
    <3>2. m \in 0 .. FAT_BUFFERS /\ m # 0 /\ m - 1 = n BY <2>5, <3>1
    <3>3. f[m] = IF m = 0 THEN v ELSE WriteBack(f[m - 1], v.buffers[m]) BY <3>2 DEF SavedTo
    <3> QED BY <3>1, <3>2, <3>3
  <2> QED BY <2>1, <2>3, <2>4, <2>6, SavingStep
<1>4. S = Nat
  <2>1. S \subseteq Nat OBVIOUS
  <2> HIDE DEF S
  <2> QED BY <1>2, <1>3, <2>1, UpTo
<1> QED BY <1>1, <1>4

\* What Purge leaves is the last of them with its buffers clean.
LEMMA PurgeSaves ==
  ASSUME NEW v
  PROVE  \E f : /\ SavedTo(v, FAT_BUFFERS, f)
                /\ Purge(v) = [f[FAT_BUFFERS] EXCEPT
                     !.buffers = [i \in 1 .. FAT_BUFFERS |-> [@[i] EXCEPT !.dirty = FALSE]]]
<1> DEFINE f == CHOOSE g : g = [k \in 0 .. FAT_BUFFERS |-> IF k = 0 THEN v ELSE WriteBack(g[k - 1], v.buffers[k])]
<1>1. Purge(v) = [f[FAT_BUFFERS] EXCEPT
         !.buffers = [i \in 1 .. FAT_BUFFERS |-> [@[i] EXCEPT !.dirty = FALSE]]]
  BY Zenon DEF Purge
<1>2. SavedTo(v, FAT_BUFFERS, f)
  <2>1. \E g : SavedTo(v, FAT_BUFFERS, g) BY SavesExist, Constants
  <2> QED BY <2>1, Zenon DEF SavedTo
<1> HIDE DEF f
<1> QED BY <1>1, <1>2

\* After the buffers are purged the medium is the FAT as it was seen, and the library
\* sees what it saw before (fatfs_fat_purge).
THEOREM FatIsPurged ==
  ASSUME NEW v, NEW Links, CacheOK(v, Links)
  PROVE  LET u == Purge(v)
         IN  /\ \A l \in FatLbas : u.medium[l] = Seen(v, l)
             /\ Fat(u) = Fat(v) /\ CacheOK(u, Links) /\ u.hint = v.hint /\ u.type = v.type
<1>1. PICK f : /\ SavedTo(v, FAT_BUFFERS, f)
               /\ Purge(v) = [f[FAT_BUFFERS] EXCEPT
                    !.buffers = [i \in 1 .. FAT_BUFFERS |-> [@[i] EXCEPT !.dirty = FALSE]]]
  BY PurgeSaves
<1>2. PICK w : w = f[FAT_BUFFERS] OBVIOUS
<1>3. SavedFirst(v, FAT_BUFFERS, w) BY <1>1, <1>2, AllSaved
<1>4. PICK list : list = [i \in Buffer |-> [v.buffers[i] EXCEPT !.dirty = FALSE]] OBVIOUS
<1>5. PICK u : u = [w EXCEPT !.buffers = list] OBVIOUS
<1>6. {"type", "buffers", "hint", "medium", "writes"} \subseteq DOMAIN w /\ w.buffers = v.buffers
  BY <1>3 DEF SavedFirst, CacheOK
<1>7. Purge(v) = u BY <1>1, <1>2, <1>4, <1>5, <1>6 DEF Buffer
<1>8. /\ {"type", "buffers", "hint", "medium", "writes"} \subseteq DOMAIN u
      /\ u.buffers = list /\ u.medium = w.medium /\ u.hint = w.hint /\ u.type = w.type
  BY <1>5, <1>6
<1>9. \A i \in Buffer : {"address", "dirty", "sector"} \subseteq DOMAIN v.buffers[i] BY DEF CacheOK
<1>10. DOMAIN list = Buffer
       /\ \A i \in Buffer : /\ list[i].address = v.buffers[i].address /\ list[i].sector = v.buffers[i].sector
                            /\ list[i].dirty = FALSE /\ {"address", "dirty", "sector"} \subseteq DOMAIN list[i]
  BY <1>4, <1>9
<1>11. \A i \in Buffer : \A l : (Holds(list[i], l) <=> Holds(v.buffers[i], l)) /\ At(list[i], l) = At(v.buffers[i], l)
  BY <1>10 DEF Holds, At
<1>12. ASSUME NEW l \in FatLbas PROVE u.medium[l] = Seen(v, l)
  <2>1. CASE \E i \in Buffer : Holds(v.buffers[i], l)
    <3>1. PICK i \in 1 .. FAT_BUFFERS : Holds(v.buffers[i], l) BY <2>1 DEF Buffer
    <3> QED BY <1>3, <1>8, <3>1 DEF SavedFirst
  <2>2. CASE \A i \in Buffer : ~Holds(v.buffers[i], l)
    <3>1. Seen(v, l) = v.medium[l] BY <2>2, SeenOut
    <3> QED BY <1>3, <1>8, <3>1 DEF SavedFirst
  <2> QED BY <2>1, <2>2
<1>13. ASSUME NEW i \in Buffer PROVE Unused(list[i]) \/ InUse(u, list[i], Links)
  <2>1. CASE Unused(v.buffers[i]) BY <1>10, <2>1 DEF Unused
  <2>2. CASE InUse(v, v.buffers[i], Links)
    <3>1. ASSUME NEW l \in FatLbas, Holds(list[i], l)
          PROVE  /\ l - list[i].address \in DOMAIN list[i].sector /\ At(list[i], l) \in Sector(Links)
                 /\ At(list[i], l) = u.medium[l]
      <4>1. Holds(v.buffers[i], l) /\ At(list[i], l) = At(v.buffers[i], l) BY <1>11, <3>1
      <4>2. At(v.buffers[i], l) = Seen(v, l) BY <4>1, SeenIn
      <4> QED BY <1>10, <1>12, <2>2, <4>1, <4>2 DEF InUse
    <3> QED BY <1>10, <2>2, <3>1 DEF InUse
  <2> QED BY <2>1, <2>2 DEF CacheOK
<1>14. CacheOK(u, Links)
  <2>1. DOMAIN u.medium = DOMAIN v.medium BY <1>3, <1>8 DEF SavedFirst
  <2>2. \A l \in FatLbas : u.medium[l] \in Sector(Links) BY <1>12, SeenTyped
  <2>3. \A i, j \in Buffer : list[i].address = list[j].address /\ i # j => Unused(list[i])
    BY <1>10 DEF CacheOK, Unused
  <2>4. FatLbas \cup {FsInfoSector} \subseteq DOMAIN u.medium BY <2>1 DEF CacheOK
  <2>5. ASSUME NEW i \in Buffer, NEW j \in Buffer, NEW l \in FatLbas, Holds(list[i], l), Holds(list[j], l)
        PROVE  At(list[i], l) = At(list[j], l)
    <3>1. Holds(v.buffers[i], l) /\ Holds(v.buffers[j], l) BY <1>11, <2>5
    <3>2. At(v.buffers[i], l) = At(v.buffers[j], l) BY <3>1, SeenIn
    <3> QED BY <1>11, <3>2
  <2> QED BY <1>8, <1>10, <1>13, <2>2, <2>3, <2>4, <2>5 DEF CacheOK
<1>15. ASSUME NEW l \in FatLbas PROVE Seen(u, l) = Seen(v, l)
  <2>1. CASE \E i \in Buffer : Holds(list[i], l)
    <3>1. PICK i \in Buffer : Holds(list[i], l) BY <2>1
    <3>2. Seen(u, l) = At(list[i], l) BY <1>8, <1>14, <3>1, SeenIn
    <3>3. Seen(v, l) = At(v.buffers[i], l) BY <1>11, <3>1, SeenIn
    <3> QED BY <1>11, <3>2, <3>3
  <2>2. CASE \A i \in Buffer : ~Holds(list[i], l)
    <3>1. Seen(u, l) = u.medium[l] BY <1>8, <2>2, SeenOut
    <3> QED BY <1>12, <3>1
  <2> QED BY <2>1, <2>2
<1>16. Fat(u) = Fat(v) BY <1>15, SameFat
<1>17. u.hint = v.hint /\ u.type = v.type BY <1>3, <1>8 DEF SavedFirst
<1> QED BY <1>7, <1>12, <1>14, <1>16, <1>17

\* Forgetting the hint writes FSINFO through a buffer of the FAT and leaves the FAT as
\* it was seen (fatfs_set_fs_info_next_free_cluster).
THEOREM HintIsForgotten ==
  ASSUME NEW v, NEW Links, CacheOK(v, Links)
  PROVE  LET u == ForgetHint(v)
         IN  /\ Fat(u) = Fat(v) /\ CacheOK(u, Links) /\ u.type = v.type
             /\ v.type = 32 /\ v.hint \in BOOLEAN => u.hint = FALSE
<1>1. CASE ~(v.hint /\ v.type = 32)
  <2>1. ForgetHint(v) = v BY <1>1 DEF ForgetHint
  <2>2. v.type = 32 /\ v.hint \in BOOLEAN => v.hint = FALSE BY <1>1
  <2> QED BY <2>1, <2>2
<1>2. CASE v.hint /\ v.type = 32
  <2>1. PICK s : s = FsInfoSector OBVIOUS
  <2>2. s \in Int /\ s # Nowhere /\ s \notin FatLbas /\ 1 \in Buffer /\ FAT_BUFFER_SECTORS \in Int
    BY <2>1, Constants
  <2>3. ASSUME NEW i \in Buffer PROVE ~Holds(v.buffers[i], s)
    <3>1. CASE Unused(v.buffers[i]) BY <3>1, UnusedHoldsNone
    <3>2. CASE InUse(v, v.buffers[i], Links)
      <4>1. PICK a : a = v.buffers[i].address OBVIOUS
      <4>2. a \in FatLbas /\ a \in Int /\ a > s BY <2>1, <3>2, <4>1, Constants DEF InUse
      <4>3. s \notin a .. a + FAT_BUFFER_SECTORS - 1 BY <2>2, <4>2
      <4> QED BY <4>1, <4>2, <4>3, HeldSectors
    <3> QED BY <3>1, <3>2 DEF CacheOK
  <2>4. PICK r, w : r = ReadFat(v, s) /\ w = r.v OBVIOUS
  <2>5. r.at = 1 /\ Loaded(v, s, w) BY <2>3, <2>4, MissLoads
  <2>6. Behind(v, s, w, Links) BY <2>2, <2>3, <2>5, LoadedKeeps
  <2>7. PICK b, buf : b = w.buffers[1] /\ buf = [b.sector EXCEPT ![0] = [@ EXCEPT ![0] = <<"unknown">>]] OBVIOUS
  <2>8. b = [address |-> s, dirty |-> FALSE, sector |-> MediaRead(w, s, FAT_BUFFER_SECTORS)] BY <2>5, <2>7 DEF Loaded
  <2>9. b.address = s /\ {"address", "dirty", "sector"} \subseteq DOMAIN b BY <2>8
  <2>10. PICK x : x = MediaWrite(w, s, buf, 1) OBVIOUS
  <2>11. {"type", "buffers", "hint", "medium", "writes"} \subseteq DOMAIN w /\ DOMAIN w.buffers = Buffer
    BY <2>5 DEF Loaded
  <2>12. /\ DOMAIN x = DOMAIN w /\ DOMAIN x.medium = DOMAIN w.medium
         /\ x.buffers = w.buffers /\ x.hint = w.hint /\ x.type = w.type
         /\ \A l \in DOMAIN w.medium : l # s => x.medium[l] = w.medium[l]
    <3>1. Min({1, DriverWrites}) = 1 BY MinOfTwo, Constants
    <3>2. PICK ws : ws = w.writes \o [i \in 1 .. 1 |-> <<s + i - 1, buf[i - 1]>>] OBVIOUS
    <3>3. PICK m : m = [l \in DOMAIN w.medium |-> IF l \in s .. s + 1 - 1 THEN buf[l - s] ELSE w.medium[l]]
      OBVIOUS
    <3>4. x = [w EXCEPT !.medium = m, !.writes = ws] BY <2>10, <3>1, <3>2, <3>3 DEF MediaWrite
    <3>5. s .. s + 1 - 1 = {s} BY <2>2
    <3>6. DOMAIN m = DOMAIN w.medium /\ \A l \in DOMAIN w.medium : l # s => m[l] = w.medium[l] BY <3>3, <3>5
    <3>7. DOMAIN x = DOMAIN w /\ x.medium = m /\ x.buffers = w.buffers /\ x.hint = w.hint /\ x.type = w.type
      BY <2>11, <3>4
    <3> QED BY <3>6, <3>7
  <2>13. PICK u : u = ForgetHint(v) OBVIOUS
  <2>14. u = [x EXCEPT !.buffers[1].address = Nowhere, !.buffers[1].dirty = FALSE, !.hint = FALSE]
    <3>1. ForgetHint(v) = [MediaWrite(w, b.address, buf, 1) EXCEPT
             !.buffers[1].address = Nowhere, !.buffers[1].dirty = FALSE, !.hint = FALSE]
      BY <1>2, <2>1, <2>4, <2>5, <2>7 DEF ForgetHint
    <3> QED BY <2>9, <2>10, <2>13, <3>1
  <2>15. PICK new : new = [b EXCEPT !.address = Nowhere, !.dirty = FALSE] OBVIOUS
  <2>16. Unused(new) /\ {"address", "dirty", "sector"} \subseteq DOMAIN new /\ new.dirty \in BOOLEAN
         /\ new.address = Nowhere
    BY <2>9, <2>15 DEF Unused
  <2>17. /\ DOMAIN u = DOMAIN w /\ u.medium = x.medium /\ u.hint = FALSE /\ u.type = w.type
         /\ DOMAIN u.buffers = Buffer /\ u.buffers[1] = new
         /\ \A i \in Buffer \ {1} : u.buffers[i] = w.buffers[i]
    <3>1. DOMAIN u = DOMAIN w /\ u.medium = x.medium /\ u.hint = FALSE /\ u.type = w.type
      BY <2>11, <2>12, <2>14
    <3>2. u.buffers = [[w.buffers EXCEPT ![1].address = Nowhere] EXCEPT ![1].dirty = FALSE]
      BY <2>11, <2>12, <2>14
    <3>3. PICK mid : mid = [w.buffers EXCEPT ![1].address = Nowhere] OBVIOUS
    <3>4. DOMAIN mid = Buffer /\ mid[1] = [b EXCEPT !.address = Nowhere]
          /\ \A i \in Buffer : i # 1 => mid[i] = w.buffers[i]
      BY <2>2, <2>7, <2>11, <3>3
    <3>5. [mid[1] EXCEPT !.dirty = FALSE] = new BY <2>15, <3>4
    <3>6. u.buffers = [mid EXCEPT ![1].dirty = FALSE] BY <3>2, <3>3
    <3>7. u.buffers = [i \in Buffer |-> IF i = 1 THEN new ELSE w.buffers[i]] BY <3>4, <3>5, <3>6
    <3> QED BY <2>2, <3>1, <3>7
  <2>18. FatLbas \cup {FsInfoSector} \subseteq DOMAIN w.medium BY <2>6 DEF Behind
  <2>19. \A l \in FatLbas : u.medium[l] = w.medium[l] BY <2>2, <2>12, <2>17, <2>18
  <2>20. \A l : ~Holds(new, l) BY <2>16, UnusedHoldsNone
  <2>21. \A i \in Buffer : /\ {"address", "dirty", "sector"} \subseteq DOMAIN u.buffers[i]
                           /\ u.buffers[i].dirty \in BOOLEAN
                           /\ Unused(u.buffers[i]) \/ InUse(u, u.buffers[i], Links)
    <3> TAKE i \in Buffer
    <3>1. CASE i = 1 BY <2>16, <2>17, <3>1
    <3>2. CASE i # 1
      <4>1. i \in Buffer \ {1} /\ u.buffers[i] = w.buffers[i] BY <2>17, <3>2
      <4> QED BY <2>6, <2>19, <4>1 DEF Behind, InUse
    <3> QED BY <3>1, <3>2
  <2>22. ASSUME NEW i \in Buffer, NEW l \in FatLbas, Holds(u.buffers[i], l)
         PROVE  At(u.buffers[i], l) = Seen(v, l)
    <3>1. i \in Buffer \ {1} /\ u.buffers[i] = w.buffers[i] BY <2>17, <2>20, <2>22
    <3> QED BY <2>6, <2>22, <3>1 DEF Behind
  <2>23. \A i, j \in Buffer : u.buffers[i].address = u.buffers[j].address /\ i # j => Unused(u.buffers[i])
    <3> SUFFICES ASSUME NEW i \in Buffer, NEW j \in Buffer, u.buffers[i].address = u.buffers[j].address, i # j
                 PROVE  Unused(u.buffers[i])
      OBVIOUS
    <3>1. CASE i = 1 BY <2>16, <2>17, <3>1
    <3>2. CASE i # 1 /\ j = 1
      <4>1. u.buffers[i].address = Nowhere BY <2>16, <2>17, <3>2
      <4> QED BY <2>21, <4>1, Constants DEF InUse
    <3>3. CASE i # 1 /\ j # 1
      <4>1. /\ i \in Buffer \ {1} /\ j \in Buffer \ {1}
            /\ u.buffers[i] = w.buffers[i] /\ u.buffers[j] = w.buffers[j]
        BY <2>17, <3>3
      <4> QED BY <2>6, <4>1 DEF Behind
    <3> QED BY <3>1, <3>2, <3>3
  <2>24. CacheOK(u, Links)
    <3>1. \A l \in FatLbas : u.medium[l] \in Sector(Links) BY <2>6, <2>19 DEF Behind
    <3>2. FatLbas \cup {FsInfoSector} \subseteq DOMAIN u.medium BY <2>12, <2>17, <2>18
    <3>3. {"type", "buffers", "hint", "medium", "writes"} \subseteq DOMAIN u BY <2>11, <2>17
    <3> QED BY <2>17, <2>21, <2>22, <2>23, <3>1, <3>2, <3>3 DEF CacheOK
  <2>25. ASSUME NEW l \in FatLbas PROVE Seen(u, l) = Seen(v, l)
    <3>1. CASE \E i \in Buffer : Holds(u.buffers[i], l) BY <2>22, <2>24, <3>1, SeenIn
    <3>2. CASE \A i \in Buffer : ~Holds(u.buffers[i], l)
      <4>1. \A i \in Buffer \ {1} : ~Holds(w.buffers[i], l) BY <2>17, <3>2
      <4>2. w.medium[l] = Seen(v, l) BY <2>6, <4>1 DEF Behind
      <4> QED BY <2>19, <3>2, <4>2, SeenOut
    <3> QED BY <3>1, <3>2
  <2>26. Fat(u) = Fat(v) BY <2>25, SameFat
  <2>27. u.type = v.type BY <2>5, <2>17 DEF Loaded
  <2> QED BY <2>13, <2>17, <2>24, <2>26, <2>27
<1> QED BY <1>1, <1>2, Zenon
================================================================================
