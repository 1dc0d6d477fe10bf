------------------------------- MODULE FatFormat -------------------------------
(***************************************************************************)
(* Formatting a volume (src/fat/src/fat_format.c) and telling, when it is  *)
(* mounted, what it was formatted as (fatfs_init in fat_access.c).  Format *)
(* chooses the type of the volume by its size in sectors; fatfs_init       *)
(* chooses it again by the number of clusters it computes from the boot    *)
(* sector.  A boot sector is the record of the fields fatfs_init reads; a  *)
(* struct fatfs is the record of the fields that say where things are.     *)
(***************************************************************************)
EXTENDS Integers

CONSTANTS
  WordSize,   \* uint32 counts modulo WordSize: 2^32 in the code
  Label       \* what four bytes of a volume's name make, read as a number

\* The largest number in the tables but one is 67108864.
ASSUME WordAssumption == WordSize \in Nat /\ WordSize > 134217728

FAT_SECTOR_SIZE == 512

Row(limit, size) == [sectors |-> limit, sectors_per_cluster |-> size]

ClusterSizeTable16 ==
  <<Row(32680, 2), Row(262144, 4), Row(524288, 8), Row(1048576, 16),
    Row(2097152, 32), Row(4194304, 64), Row(8388608, 128)>>

ClusterSizeTable32 ==
  <<Row(532480, 1), Row(16777216, 8), Row(33554432, 16), Row(67108864, 32),
    Row(WordSize - 1, 64)>>

\* The first row that holds the size; the last row of the table ends the search
\* with 0, and creating the boot sector fails.
CalcClusterSize(sectors, type) ==
  LET table == IF type = 16 THEN ClusterSizeTable16 ELSE ClusterSizeTable32
      holds(i) == sectors <= table[i].sectors /\ \A j \in 1 .. i - 1 : sectors > table[j].sectors
  IN  IF \E i \in DOMAIN table : holds(i)
      THEN table[CHOOSE i \in DOMAIN table : holds(i)].sectors_per_cluster
      ELSE 0

\* Entries in a sector of the FAT.
EntriesPerSector(type) == IF type = 16 THEN FAT_SECTOR_SIZE \div 2 ELSE FAT_SECTOR_SIZE \div 4

\* fat_sectors: one entry more than there are clusters in the whole volume, and
\* one sector more than they need.
FatSize(sectors, size, type) == (sectors \div size + 1) \div EntriesPerSector(type) + 1

RootDirSectors(entries) == (entries * 32 + FAT_SECTOR_SIZE - 1) \div FAT_SECTOR_SIZE

\* What fatfs_format_fat16 or fatfs_format_fat32 leaves in struct fatfs; a FAT32
\* volume has no rootdir_first_sector of its own.
Formatted(sectors, type) ==
  LET size     == CalcClusterSize(sectors, type)
      reserved == IF type = 16 THEN 8 ELSE 32
      fats     == FatSize(sectors, size, type)
      entries  == IF type = 16 THEN 512 ELSE 0
  IN  [fat_type              |-> type,
       sectors_per_cluster   |-> size,
       fat_sectors           |-> fats,
       root_entry_count      |-> entries,
       rootdir_sectors       |-> RootDirSectors(entries),
       rootdir_first_cluster |-> IF type = 16 THEN 0 ELSE 2,
       fs_info_sector        |-> IF type = 16 THEN 0 ELSE 1,
       lba_begin             |-> 0,
       fat_begin_lba         |-> reserved,
       cluster_begin_lba     |-> reserved + 2 * fats]

\* The fields that only a FAT32 boot sector has: in a FAT16 one they fall on its
\* drive number, signature and name.
Fat32Fields(fs, type) ==
  IF type = 16 THEN [FATSZ32 |-> Label, ROOTCLUS |-> Label, FSINFO |-> Label]
  ELSE [FATSZ32 |-> fs.fat_sectors % WordSize, ROOTCLUS |-> 2, FSINFO |-> 1]

\* fatfs_create_boot_sector.
BootSector(sectors, type) ==
  LET fs == Formatted(sectors, type)
  IN  [BPB_BYTSPERSEC     |-> FAT_SECTOR_SIZE,
       BPB_SECPERCLUS     |-> fs.sectors_per_cluster,
       BPB_RSVDSECCNT     |-> fs.fat_begin_lba,
       BPB_NUMFATS        |-> 2,
       BPB_ROOTENTCNT     |-> fs.root_entry_count,
       BPB_TOTSEC16       |-> 0,
       BPB_FATSZ16        |-> IF type = 16 THEN fs.fat_sectors % 65536 ELSE 0,
       BPB_TOTSEC32       |-> sectors % WordSize,
       BPB_FAT32_FATSZ32  |-> Fat32Fields(fs, type).FATSZ32,
       BPB_FAT32_ROOTCLUS |-> Fat32Fields(fs, type).ROOTCLUS,
       BPB_FAT32_FSINFO   |-> Fat32Fields(fs, type).FSINFO,
       typecode           |-> 0,
       lba_begin          |-> 0,
       signature          |-> 43605]   \* 0xAA55

\* fatfs_format: the type a volume of this size gets.
FormatType(sectors) == IF sectors <= 4194304 THEN 16 ELSE 32

\* fatfs_erase_fat: the entries that are taken, the root directory's cluster on
\* FAT32 among them, are written at the beginning of the first FAT alone.  The
\* second FAT starts as all free; nothing in this library reads it.
ErasedFat(type, copy) ==
  [cluster \in Nat |-> IF copy = 1 /\ cluster < (IF type = 16 THEN 2 ELSE 3) THEN "taken" ELSE "free"]

\* The first cluster a file may get.
FirstFree(type) ==
  CHOOSE c \in Nat \ {0, 1} : /\ ErasedFat(type, 1)[c] = "free"
                             /\ \A d \in 2 .. c - 1 : ErasedFat(type, 1)[d] = "taken"

\* The sectors formatting writes when no write fails, in the order it writes
\* them: the boot sector, the FSINFO sector, both FATs, the root directory.
FormatWrites(sectors) ==
  LET type == FormatType(sectors)
      fs   == Formatted(sectors, type)
      head == IF type = 16 THEN 1 ELSE 2
      fats == 2 * fs.fat_sectors
      root == IF type = 16 THEN fs.rootdir_sectors ELSE fs.sectors_per_cluster
  IN  [i \in 1 .. head + fats + root |->
         IF i <= head THEN i - 1
         ELSE IF i <= head + fats THEN fs.fat_begin_lba + i - head - 1
         ELSE fs.cluster_begin_lba + i - head - fats - 1]

(***************************************************************************)
(* Mounting.                                                               *)
(***************************************************************************)
\* The partition type codes fatfs_init takes for FAT.
FatTypeCodes == (1 .. 6) \cup {11, 12, 14, 15}

DataSectors(b, fats) ==
  LET total == IF b.BPB_TOTSEC16 # 0 THEN b.BPB_TOTSEC16 ELSE b.BPB_TOTSEC32
      root  == (b.BPB_ROOTENTCNT * 32 + b.BPB_BYTSPERSEC - 1) \div b.BPB_BYTSPERSEC
  IN  (total - (b.BPB_RSVDSECCNT + b.BPB_NUMFATS * fats + root)) % WordSize

\* fatfs_init: sector 0 is the boot sector of the volume or has a partition table
\* that says where it is.  The answer has no fs when the volume is refused.
FatfsInit(sector) ==
  LET lba  == IF sector[0].typecode \in FatTypeCodes THEN sector[0].lba_begin ELSE 0
      b    == sector[lba]
      fats == IF b.BPB_FATSZ16 # 0 THEN b.BPB_FATSZ16 ELSE b.BPB_FAT32_FATSZ32
      clusters == DataSectors(b, fats) \div b.BPB_SECPERCLUS
      Known(type) ==
        [result |-> "FAT_INIT_OK",
         fs |-> [fat_type              |-> type,
                 sectors_per_cluster   |-> b.BPB_SECPERCLUS,
                 fat_sectors           |-> fats,
                 root_entry_count      |-> b.BPB_ROOTENTCNT,
                 rootdir_sectors       |-> RootDirSectors(b.BPB_ROOTENTCNT),
                 rootdir_first_cluster |-> IF type = 16 THEN 0 ELSE b.BPB_FAT32_ROOTCLUS,
                 fs_info_sector        |-> b.BPB_FAT32_FSINFO,
                 lba_begin             |-> lba,
                 fat_begin_lba         |-> lba + b.BPB_RSVDSECCNT,
                 cluster_begin_lba     |-> lba + b.BPB_RSVDSECCNT + b.BPB_NUMFATS * fats]]
      Refused(why) == [result |-> why]
  IN  IF sector[0].signature # 43605 THEN Refused("FAT_INIT_INVALID_SIGNATURE")
      ELSE IF b.BPB_BYTSPERSEC # FAT_SECTOR_SIZE THEN Refused("FAT_INIT_INVALID_SECTOR_SIZE")
      ELSE IF b.signature # 43605 THEN Refused("FAT_INIT_INVALID_SIGNATURE")
      ELSE IF b.BPB_SECPERCLUS = 0 \/ clusters < 4085 THEN Refused("FAT_INIT_WRONG_FILESYS_TYPE")
      ELSE Known(IF clusters < 65525 THEN 16 ELSE 32)

\* fatfs_lba_of_cluster.
FirstLbaOf(fs, cluster) ==
  fs.cluster_begin_lba + (cluster - 2) * fs.sectors_per_cluster
    + IF fs.fat_type = 16 THEN (fs.root_entry_count * 32) \div FAT_SECTOR_SIZE ELSE 0

\* Clusters that lie in a volume of that many sectors whole.
ClustersIn(fs, sectors) == (sectors - FirstLbaOf(fs, 2)) \div fs.sectors_per_cluster

\* Mounting a volume as formatting leaves it.
MountFormatted(sectors) == FatfsInit([lba \in {0} |-> BootSector(sectors, FormatType(sectors))])

(***************************************************************************)
(* Properties of a size in sectors.                                        *)
(***************************************************************************)
\* The fields of struct fatfs that both set; FSINFO is used on FAT32 only.
SameLayout(fs, gs) ==
  /\ \A k \in DOMAIN fs \ {"fs_info_sector"} : fs[k] = gs[k]
  /\ fs.fat_type = 32 => fs.fs_info_sector = gs.fs_info_sector

\* Mounting finds everything where formatting put it (fatfs_init against
\* fatfs_format).
MountsAsFormatted(sectors) ==
  LET m == MountFormatted(sectors)
  IN  /\ m.result = "FAT_INIT_OK"
      /\ SameLayout(Formatted(sectors, FormatType(sectors)), m.fs)

\* Every cluster that lies in the volume has an entry in the FAT, clusters being
\* numbered from 2, and a FAT ends where the next structure begins.
FatCoversVolume(sectors) ==
  LET fs == Formatted(sectors, FormatType(sectors))
  IN  ClustersIn(fs, sectors) + 2 <= fs.fat_sectors * EntriesPerSector(fs.fat_type)

\* Formatting writes no sector twice, none outside the volume and none of a
\* cluster that a file may get.
WritesInPlace(sectors) ==
  LET fs == Formatted(sectors, FormatType(sectors))
      w  == FormatWrites(sectors)
  IN  /\ \A i \in DOMAIN w : /\ w[i] \in 0 .. sectors - 1
                             /\ w[i] < FirstLbaOf(fs, FirstFree(fs.fat_type))
      /\ \A i, j \in DOMAIN w : i < j => w[i] < w[j]
================================================================================
