------------------------------ MODULE MCFatFiles -------------------------------
(***************************************************************************)
(* Instances of FatFiles for TLC: names and bytes are model values that    *)
(* nothing in the module tells apart.  Formatting is a function of a size: *)
(* it is evaluated on the smallest volume, on the edges of its tables and  *)
(* on both sides of the sizes that mount as the other type.  So are the    *)
(* names: on paths and on short names of a few characters.                 *)
(***************************************************************************)
EXTENDS FatFiles, FatFormat, FatNames

\* A FAT32 volume keeps its root directory in clusters and needs one more.
MCFree == 16 :> {4, 5} @@ 32 :> {3, 4, 5}
\* Free clusters on both sides of the end of a FAT sector.
MCFreeTwoSectors == 16 :> {5, 6}

Sizes == {8244, 32680, 32681, 262145, 4194151, 4194305, 16777217, 67108865}
ASSUME FormatSizes == \A s \in Sizes : MountsAsFormatted(s) /\ FatCoversVolume(s)
ASSUME OtherSizes  == \A s \in {8243, 4194152, 4194304} : ~MountsAsFormatted(s)

\* Absolute paths of up to six characters, and names of one to three characters with an
\* extension of up to three.
Paths2  == UNION {{p \in [1 .. n -> {Slash, Dot, 65}] : p[1] = Slash /\ p[n] # Slash} : n \in 2 .. 6}
Short   == UNION {[1 .. n -> {65, 98}] : n \in 1 .. 3}
Written(b, e) == IF e = <<>> THEN b ELSE b \o <<Dot>> \o e

ASSUME SplitPaths ==
  \A p \in Paths2 : LET s == SplitPath(p, 20, 20)
                    IN  ~SplitFails(p, 20) /\ (IF TotalPathLevels(p) = 0 THEN <<Slash>> ELSE s.path \o <<Slash>>) \o s.filename = p

\* The folder a path names is found in the one its own folder names, with the root of
\* a FAT16 volume and with another: clusters are numbered by the names on the way to
\* them, some names are missing, and ".." leads back, to 0 from below a root of 0.
DotDot == <<Dot, Dot>>
Folder ==
  [c \in Nat |-> [n \in Seq({Dot, 65}) \ {<<65, 65>>, IF c < 40 THEN DotDot ELSE <<>>} |->
                 IF n = DotDot THEN c \div 40
                 ELSE c * 40 + 40 + Len(n) + 6 * Cardinality({i \in 1 .. Len(n) : n[i] = Dot})]]

ASSUME FoldersInFolders ==
  \A root \in {0, 1} : \A p \in {q \in Paths2 : \A i \in 2 .. Len(q) : <<q[i - 1], q[i]>> # <<Slash, Slash>>} :
    LET s == SplitPath(p, 20, 20)
        parents == IF TotalPathLevels(p) = 0 THEN {root} ELSE OpenDirectory(s.path, root, Folder)
    IN  OpenDirectory(p, root, Folder)
          = {Folder[c][s.filename] : c \in {d \in parents : s.filename \in DOMAIN Folder[d]}}

ASSUME ShortNames ==
  \A b \in Short, e \in Short \cup {<<>>} :
    LET name == Written(b, e)
        entry == EntryName(CreateSfn(<<>>, name))
    IN  /\ DisplayName(entry) = [i \in 1 .. Len(name) |-> Lower(name[i])]
        /\ CompareNames(entry, name) <=> Len(e) \in {0, 3}

Symmetry == Permutations(Names) \cup Permutations(Bytes)
================================================================================
