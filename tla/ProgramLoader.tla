----------------------------- MODULE ProgramLoader -----------------------------
(***************************************************************************)
(* Loading and starting a program (src/boot/lib/exec-elf.c), what the exec *)
(* and unix commands do after they have mounted the volume.  A file is the *)
(* record of what its headers read as and of its bytes.  A program is not  *)
(* loaded over the monitor, and a section's size fits an int.              *)
(***************************************************************************)
EXTENDS Integers

Byte   == 0 .. 255
Memory == [Nat -> Byte]

\* What the 40 bytes of a section header say: "content" is PROGBITS and ALLOC in
\* an ELF file, "empty" is NOBITS and ALLOC there and flag 0x80 in a COFF file.
Section == [kind : {"content", "empty", "other"}, address : Nat, offset : Nat, size : Nat]

\* The section headers are size entry bytes apart from offset table on.
\* executable: type ET_EXEC, machine EM_68K.
File == [magic : {"ELF", "COFF", "other"}, executable : BOOLEAN,
         table : Nat, entry : Nat, sections : Nat,
         header : [Nat -> Section], length : Nat, bytes : [Nat -> Byte]]

FileHeaders(magic) == IF magic = "ELF" THEN 52 ELSE 20 + 28
SectionHeader      == 40

VARIABLES
  memory,   \* the memory programs are loaded into
  before,   \* what it was when executeCE was called
  file,     \* the file being loaded
  section,  \* the section that is next
  handle,   \* "taken" while a handle of the FAT library is open for it
  stage,    \* "idle", "magic", "headers", "sections", "start", "running"
  answer    \* what executeCE returned

vars == <<memory, before, file, section, handle, stage, answer>>

Init ==
  /\ memory \in Memory /\ before = memory
  /\ file \in File /\ section = 0
  /\ handle = "free" /\ stage = "idle" /\ answer = 0

\* The bytes fl_fread may bring of count bytes at that offset: no more than the
\* file has, and fewer when its chain of clusters is too short.
Brought(offset, count) ==
  {n \in 0 .. count : n = 0 \/ offset + n <= file.length}

\* fl_fclose and return 0, from wherever a read falls short.
GiveUp == handle' = "free" /\ stage' = "idle" /\ answer' = 0

\* The section is one the loader stores.
Stored(s) == IF file.magic = "ELF" THEN s.kind = "content" ELSE TRUE

\* A COFF section with flag 0x80 is cleared; an ELF one is not.
Cleared(s) == file.magic = "COFF" /\ s.kind = "empty"

\* What the first n bytes of the section make of the memory.
After(m, s, n) ==
  [a \in Nat |-> IF a < s.address \/ a >= s.address + n THEN m[a]
                 ELSE IF Cleared(s) THEN 0 ELSE file.bytes[s.offset + (a - s.address)]]

(***************************************************************************)
(* executeCE.  Mounting has emptied the library's list of open files, so a *)
(* handle is free.                                                         *)
(***************************************************************************)
NotFound ==
  /\ stage = "idle"
  /\ handle' = "free" /\ answer' = 1
  /\ UNCHANGED <<memory, before, file, section, stage>>

Found ==
  /\ stage = "idle"
  /\ file' \in File
  /\ handle' = "taken" /\ before' = memory /\ stage' = "magic"
  /\ UNCHANGED <<memory, section, answer>>

ReadMagic ==
  /\ stage = "magic"
  /\ \E n \in Brought(0, 4) :
       IF n = 4 /\ file.magic \in {"ELF", "COFF"}
       THEN stage' = "headers" /\ UNCHANGED <<handle, answer>>
       ELSE GiveUp
  /\ UNCHANGED <<memory, before, file, section>>

ReadHeaders ==
  /\ stage = "headers"
  /\ \E n \in Brought(0, FileHeaders(file.magic)) :
       IF n = FileHeaders(file.magic) /\ (file.magic = "ELF" => file.executable)
       THEN stage' = "sections" /\ section' = 0 /\ UNCHANGED <<handle, answer>>
       ELSE GiveUp /\ UNCHANGED section
  /\ UNCHANGED <<memory, before, file>>

\* The header of a section cannot be read whole.
NoSection ==
  /\ stage = "sections" /\ section < file.sections
  /\ \E n \in Brought(file.table + section * file.entry, SectionHeader) : n # SectionHeader
  /\ GiveUp
  /\ UNCHANGED <<memory, before, file, section>>

\* One turn of the loop: the section is passed over, cleared, or read into its
\* place in memory, which a short read leaves half written.
NextSection ==
  /\ stage = "sections" /\ section < file.sections
  /\ SectionHeader \in Brought(file.table + section * file.entry, SectionHeader)
  /\ LET s == file.header[section]
     IN  \/ /\ ~Stored(s)
            /\ section' = section + 1 /\ UNCHANGED <<memory, handle, stage, answer>>
         \/ /\ Stored(s)
            /\ \E n \in IF Cleared(s) THEN {s.size} ELSE Brought(s.offset, s.size) :
                 /\ memory' = After(memory, s, n)
                 /\ IF n = s.size THEN section' = section + 1 /\ UNCHANGED <<handle, stage, answer>>
                    ELSE GiveUp /\ UNCHANGED section
  /\ UNCHANGED <<before, file>>

\* Only the ELF loader closes the file before it calls the entry point.
Start ==
  /\ stage = "sections" /\ section = file.sections
  /\ stage' = "start"
  /\ handle' = IF file.magic = "ELF" THEN "free" ELSE handle
  /\ UNCHANGED <<memory, before, file, section, answer>>

\* The program changes what memory it likes, and its answer is executeCE's.
Run ==
  /\ stage \in {"start", "running"}
  /\ stage' = "running" /\ memory' \in Memory
  /\ UNCHANGED <<before, file, section, handle, answer>>

Return ==
  /\ stage \in {"start", "running"}
  /\ stage' = "idle" /\ answer' \in Nat
  /\ UNCHANGED <<memory, before, file, section, handle>>

Next == NotFound \/ Found \/ ReadMagic \/ ReadHeaders \/ NoSection \/ NextSection \/ Start \/ Run \/ Return

Spec == Init /\ [][Next]_vars

--------------------------------------------------------------------------------
\* Every variable has its type.
TypeOK ==
  /\ memory \in Memory /\ before \in Memory
  /\ file \in File /\ section \in Nat
  /\ handle \in {"free", "taken"}
  /\ stage \in {"idle", "magic", "headers", "sections", "start", "running"}
  /\ answer \in Nat

\* The loader stores section k of the file at address a.
Covers(k, a) ==
  LET s == file.header[k]
  IN  Stored(s) /\ a >= s.address /\ a < s.address + s.size

\* The memory holds, at every address, what the last of the first n sections
\* that cover it has there, and where none does what it held before.
HoldsSections(n) ==
  \A a \in Nat :
    \/ \E k \in 0 .. n - 1 :
         /\ Covers(k, a) /\ \A l \in k + 1 .. n - 1 : ~Covers(l, a)
         /\ memory[a] = IF Cleared(file.header[k]) THEN 0
                        ELSE file.bytes[file.header[k].offset + (a - file.header[k].address)]
    \/ (\A k \in 0 .. n - 1 : ~Covers(k, a)) /\ memory[a] = before[a]

\* A program is started only with all its sections in place and nothing else
\* changed (executeELF, executeCOFF).
StartsLoaded == stage = "start" => section = file.sections /\ HoldsSections(file.sections)

\* A program from a COFF file runs with a handle of the library still taken, one
\* from an ELF file without; a load that fails leaves none (fl_fclose).
HandleLeft ==
  /\ stage \in {"start", "running"} => (handle = "taken" <=> file.magic = "COFF")
  /\ (stage = "idle" /\ handle = "taken") => file.magic = "COFF" /\ section = file.sections
================================================================================
