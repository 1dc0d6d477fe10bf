------------------------------- MODULE FatNames --------------------------------
(***************************************************************************)
(* The names of files in the FAT library: what a path is split into and    *)
(* how names are compared (fat_string.c), the directory entries of a long  *)
(* name and the short name made from one (fat_misc.c), and the short name  *)
(* as fatfs_get_file_entry and the listing read it (fat_access.c).         *)
(* A C string is the sequence of its characters, a character its code.     *)
(***************************************************************************)
EXTENDS Integers, Sequences, FiniteSets

Char      == 1 .. 255
Space     == 32
Dot       == 46
Slash     == 47
Colon     == 58
Backslash == 92
Tilde     == 126
ZeroDigit      == 48

Lower(c) == IF c \in 65 .. 90 THEN c + 32 ELSE c
Upper(c) == IF c \in 97 .. 122 THEN c - 32 ELSE c

\* How many of the first n characters are in the set.
Count(s, set, n) == Cardinality({j \in 1 .. n : s[j] \in set})

\* The first n characters less those in the set, in a loop that copies the others.
Without(s, set, n) ==
  LET kept(i) == i - Count(s, set, i)
  IN  [k \in 1 .. kept(n) |-> s[CHOOSE i \in 1 .. n : s[i] \notin set /\ kept(i) = k]]

(***************************************************************************)
(* Comparing names.                                                        *)
(***************************************************************************)
\* FileString_GetExtension; 0 where there is no dot.
LastDot(s) ==
  IF \E i \in 1 .. Len(s) : s[i] = Dot
  THEN CHOOSE i \in 1 .. Len(s) : s[i] = Dot /\ \A j \in i + 1 .. Len(s) : s[j] # Dot
  ELSE 0

ExtLength(s) == Len(s) - LastDot(s)

\* FileString_TrimLength of what comes before the extension.
MainLength(s) ==
  LET n == IF LastDot(s) = 0 THEN Len(s) ELSE LastDot(s) - 1
  IN  CHOOSE k \in 0 .. n : /\ k = 0 \/ s[k] # Space
                            /\ \A j \in k + 1 .. n : s[j] = Space

\* FileString_StrCmpNoCase from place i of a and place j of b, n characters.
SameNoCase(a, i, b, j, n) == \A k \in 1 .. n : Lower(a[i + k]) = Lower(b[j + k])

\* fatfs_compare_names.
CompareNames(a, b) ==
  /\ LastDot(a) = 0 <=> LastDot(b) = 0
  /\ LastDot(a) # 0 => /\ ExtLength(a) = ExtLength(b)
                       /\ SameNoCase(a, LastDot(a), b, LastDot(b), ExtLength(a))
  /\ MainLength(a) = MainLength(b)
  /\ SameNoCase(a, 0, b, 0, MainLength(a))

(***************************************************************************)
(* Paths: /dev/file.ext or c:\folder\file.ext.  Two bytes behind a path    *)
(* shorter than three would be looked at; nobody passes one.               *)
(***************************************************************************)
Paths == {p \in Seq(Char) : p # <<>> /\ (p[1] = Slash \/ Len(p) >= 3)}

Acceptable(path) == path[1] = Slash \/ path[2] = Colon \/ path[3] = Backslash
Separator(path)  == IF path[1] = Slash THEN Slash ELSE Backslash
Root(path)       == IF path[1] = Slash THEN 1 ELSE 3

\* What is left of the path at its place i: the separators met so far.
Level(path, i) == Cardinality({j \in Root(path) + 1 .. i : path[j] = Separator(path)})

\* fatfs_total_path_levels; -1 is the error.
TotalPathLevels(path) ==
  IF ~Acceptable(path) THEN -1
  ELSE IF Len(path) <= Root(path) \/ path[Len(path)] = Separator(path)
       THEN Level(path, Len(path)) - 1
       ELSE Level(path, Len(path))

\* fatfs_get_substring: the places of a level's text, which are one next to the
\* other, and its first characters; an empty answer is the error.
TextOf(path, level) ==
  {i \in Root(path) + 1 .. Len(path) : Level(path, i) = level /\ path[i] # Separator(path)}

GetSubstring(path, level, max_len) ==
  LET text  == TextOf(path, level)
      first == CHOOSE i \in text : \A j \in text : i <= j
      size  == IF Cardinality(text) < max_len - 1 THEN Cardinality(text) ELSE max_len - 1
  IN  IF text = {} THEN <<>> ELSE SubSeq(path, first, first + size - 1)

\* fatfs_split_path: how much of the path is copied, its last character to be
\* replaced by the end of the string.
Strindex(full_path, filename, max_path) ==
  IF Len(full_path) - Len(filename) > max_path THEN max_path
  ELSE Len(full_path) - Len(filename)

SplitFails(full_path, max_filename) ==
  \/ TotalPathLevels(full_path) = -1
  \/ GetSubstring(full_path, TotalPathLevels(full_path), max_filename) = <<>>

SplitPath(full_path, max_path, max_filename) ==
  LET levels   == TotalPathLevels(full_path)
      filename == GetSubstring(full_path, levels, max_filename)
  IN  [path     |-> IF levels = 0 THEN <<>>
                    ELSE SubSeq(full_path, 1, Strindex(full_path, filename, max_path) - 1),
       filename |-> filename]

\* FATFS_MAX_LONG_FILENAME, the length of the buffers for names.
MaxName == 20

\* _open_directory: the cluster of the folder a path names, or none, each level's folder
\* looked up in the one before: folder[cluster][name] is its cluster.  Cluster 0, the
\* root of a FAT16 volume, is a cluster like any other.
OpenDirectory(path, root, folder) ==
  LET levels  == TotalPathLevels(path)
      name(l) == GetSubstring(path, l, MaxName)
      startcluster[l \in 0 .. levels + 1] ==
        IF l = 0 THEN {root}
        ELSE {folder[c][name(l - 1)] :
               c \in {d \in startcluster[l - 1] : name(l - 1) \in DOMAIN folder[d] \ {<<>>}}}
  IN  startcluster[levels + 1]

(***************************************************************************)
(* Long names.                                                             *)
(***************************************************************************)
MAX_LONGFILENAME_ENTRIES == 20
MAX_LFN_ENTRY_LENGTH     == 13
LfnText == 0 .. MAX_LFN_ENTRY_LENGTH - 1
LfnEnd  == MAX_LONGFILENAME_ENTRIES * MAX_LFN_ENTRY_LENGTH   \* lfn->Null

\* The table of strings and the byte after it, as the one string it is read as.
LfnCache == [no_of_strings : 0 .. MAX_LONGFILENAME_ENTRIES, String : [0 .. LfnEnd -> 0 .. 255]]

\* fatfs_lfn_cache_init; the byte after the table is left alone.
CacheInit(lfn, wipeTable) ==
  [no_of_strings |-> 0,
   String |-> IF wipeTable THEN [p \in 0 .. LfnEnd |-> IF p < LfnEnd THEN 0 ELSE lfn.String[p]] ELSE lfn.String]

EntriesRequired(filename) == (Len(filename) + MAX_LFN_ENTRY_LENGTH - 1) \div MAX_LFN_ENTRY_LENGTH

\* fatfs_filename_to_lfn; of an entry's number the five bits that are read.
FilenameToLfn(filename, entry) ==
  [number |-> (entry + 1) % 32,
   text   |-> [i \in LfnText |->
                 LET at == entry * MAX_LFN_ENTRY_LENGTH + i
                 IN  IF at < Len(filename) THEN filename[at + 1]
                     ELSE IF at = Len(filename) THEN 0 ELSE 255]]

\* fatfs_lfn_cache_entry.
CacheEntry(lfn, e) ==
  LET start == (e.number - 1) * MAX_LFN_ENTRY_LENGTH
      byte(p) == e.text[p - start]
  IN  IF e.number > MAX_LONGFILENAME_ENTRIES \/ e.number = 0 THEN lfn
      ELSE [no_of_strings |-> IF lfn.no_of_strings = 0 THEN e.number ELSE lfn.no_of_strings,
            String |-> [p \in 0 .. LfnEnd |->
                          IF p < start \/ p >= start + MAX_LFN_ENTRY_LENGTH THEN lfn.String[p]
                          ELSE IF byte(p) = 255 THEN Space ELSE byte(p)]]

\* fatfs_lfn_cache_get: the string is ended behind the strings there are.
CacheGet(lfn) ==
  LET string == [lfn.String EXCEPT ![lfn.no_of_strings * MAX_LFN_ENTRY_LENGTH] = 0]
      length == CHOOSE n \in 0 .. LfnEnd : string[n] = 0 /\ \A m \in 0 .. n - 1 : string[m] # 0
  IN  [i \in 1 .. length |-> string[i - 1]]

(***************************************************************************)
(* Short names: eight characters and three of the extension.               *)
(***************************************************************************)
FAT_SFN_SIZE_PARTIAL == 8
FAT_SFN_SIZE_FULL    == 11
ShortName == [1 .. FAT_SFN_SIZE_FULL -> 0 .. 255]

\* fatfs_lfn_create_sfn: a name that begins with a dot leaves the output as it
\* was, which its callers do not notice.
CreateSfn(sfn_output, filename) ==
  LET dotPos == LastDot(filename)
      len    == IF dotPos = 0 THEN Len(filename) ELSE dotPos - 1
      main   == Without(filename, {Space, Dot}, len)
      ext(k) == dotPos + k - FAT_SFN_SIZE_PARTIAL
  IN  IF filename[1] = Dot THEN sfn_output
      ELSE [k \in 1 .. FAT_SFN_SIZE_FULL |->
              IF k <= FAT_SFN_SIZE_PARTIAL
              THEN IF k <= Len(main) THEN Upper(main[k]) ELSE Space
              ELSE IF dotPos # 0 /\ ext(k) <= Len(filename) THEN Upper(filename[ext(k)]) ELSE Space]

\* fatfs_itoa, for numbers of up to five digits.
Power(k) == IF k = 0 THEN 1 ELSE IF k = 1 THEN 10 ELSE IF k = 2 THEN 100
            ELSE IF k = 3 THEN 1000 ELSE 10000
Digits(num) == IF num < 10 THEN 1 ELSE IF num < 100 THEN 2 ELSE IF num < 1000 THEN 3
               ELSE IF num < 10000 THEN 4 ELSE 5

\* fatfs_lfn_generate_tail.
GenerateTail(sfn_input, tailNum) ==
  LET tilde == FAT_SFN_SIZE_PARTIAL - Digits(tailNum)
  IN  [k \in 1 .. FAT_SFN_SIZE_FULL |->
         IF k < tilde \/ k > FAT_SFN_SIZE_PARTIAL THEN sfn_input[k]
         ELSE IF k = tilde THEN Tilde
         ELSE ZeroDigit + ((tailNum \div Power(FAT_SFN_SIZE_PARTIAL - k)) % 10)]

\* _create_file and _create_directory: the name tried with each tail, and the
\* first that no entry of the directory has; MaxTail when all are taken.
MaxTail == 9999
Candidate(shortFilename, filename, tailNum) ==
  IF tailNum = 0 THEN CreateSfn(shortFilename, filename)
  ELSE GenerateTail(CreateSfn(shortFilename, filename), tailNum)

TailFor(shortFilename, filename, taken) ==
  LET free == {t \in 0 .. MaxTail - 1 : Candidate(shortFilename, filename, t) \notin taken}
  IN  IF free = {} THEN MaxTail ELSE CHOOSE t \in free : \A u \in free : t <= u

\* short_filename in fatfs_get_file_entry and fatfs_list_directory_next.
EntryName(sfn) ==
  [i \in 1 .. 12 |->
     IF i <= 8 THEN sfn[i]
     ELSE IF i = 9 THEN IF sfn[1] # Dot /\ \E k \in 9 .. 11 : sfn[k] # Space THEN Dot ELSE Space
     ELSE sfn[i - 1]]

\* fatfs_get_sfn_display_name.
DisplayName(short_filename) ==
  LET shown == Without(short_filename, {Space}, Len(short_filename))
  IN  [i \in 1 .. Len(shown) |-> Lower(shown[i])]
================================================================================
