------------------------------ MODULE ZmodemProofs ------------------------------
(***************************************************************************)
(* Proofs about the ZMODEM receiver for files of every number and length,  *)
(* every set of ends and formats, and any bounds.  Types hold whatever the *)
(* lines do; that a session without faults stores what was sent follows    *)
(* from an invariant that knows, at every read of the receiver, the tokens *)
(* that are still on the line.  That a session with faults stores nothing  *)
(* but a beginning of its first file, unless data is repeated, follows     *)
(* from what the CRCs on a damaged line can still have the receiver take.  *)
(***************************************************************************)
EXTENDS Zmodem, FiniteSetTheorems, SequenceTheorems, WellFoundedInduction, TLAPS

(***************************************************************************)
(* Sequences of tokens of any kind.                                        *)
(***************************************************************************)
IsSeq(s) == \E S : s \in Seq(S)

LEMMA EmptyIsSeq == IsSeq(<<>>) /\ Len(<<>>) = 0
<1>1. <<>> \in Seq({}) OBVIOUS
<1> QED BY <1>1 DEF IsSeq

LEMMA SeqFacts ==
  ASSUME NEW s, IsSeq(s)
  PROVE  /\ Len(s) \in Nat /\ DOMAIN s = 1 .. Len(s)
         /\ s = <<>> <=> Len(s) = 0
         /\ s # <<>> => IsSeq(Tail(s)) /\ Len(Tail(s)) = Len(s) - 1
<1>1. PICK S : s \in Seq(S) BY DEF IsSeq
<1>2. s # <<>> => Tail(s) \in Seq(S) BY <1>1
<1> QED BY <1>1, <1>2 DEF IsSeq

LEMMA AppendFacts ==
  ASSUME NEW s, IsSeq(s), NEW x
  PROVE  /\ IsSeq(Append(s, x)) /\ Len(Append(s, x)) = Len(s) + 1
         /\ Append(s, x) # <<>>
         /\ \A i \in 1 .. Len(s) : Append(s, x)[i] = s[i]
         /\ Append(s, x)[Len(s) + 1] = x
<1>1. PICK S : s \in Seq(S) BY DEF IsSeq
<1> DEFINE T == S \cup {x}
<1>2. s \in Seq(T) /\ x \in T
  <2>1. Len(s) \in Nat /\ \A i \in 1 .. Len(s) : s[i] \in S BY <1>1
  <2>2. s = [i \in 1 .. Len(s) |-> s[i]] BY <1>1
  <2> QED BY <2>1, <2>2
<1>3. Append(s, x) \in Seq(T) BY <1>2
<1> HIDE DEF T
<1> QED BY <1>2, <1>3 DEF IsSeq

LEMMA ConsFacts ==
  ASSUME NEW rest, IsSeq(rest), NEW x
  PROVE  /\ IsSeq(Cons(x, rest)) /\ Len(Cons(x, rest)) = Len(rest) + 1
         /\ Cons(x, rest) # <<>> /\ Head(Cons(x, rest)) = x /\ Cons(x, rest)[1] = x
         /\ Tail(Cons(x, rest)) = rest
         /\ SubSeq(Cons(x, rest), 2, Len(Cons(x, rest))) = rest
<1>1. PICK S : rest \in Seq(S) BY DEF IsSeq
<1> DEFINE T == S \cup {x}  c == Cons(x, rest)
<1>2. rest \in Seq(T) /\ <<x>> \in Seq(T)
  <2>1. Len(rest) \in Nat /\ \A i \in 1 .. Len(rest) : rest[i] \in S BY <1>1
  <2>2. rest = [i \in 1 .. Len(rest) |-> rest[i]] BY <1>1
  <2> QED BY <2>1, <2>2
<1> HIDE DEF T
<1>3. c \in Seq(T) /\ Len(c) = Len(rest) + 1 BY <1>2 DEF Cons
<1>4. c[1] = x /\ \A i \in 1 .. Len(rest) : c[i + 1] = rest[i] BY <1>2 DEF Cons
<1> HIDE DEF c
<1>5. Tail(c) \in Seq(T) /\ Len(Tail(c)) = Len(rest) BY <1>2, <1>3
<1>6. \A i \in 1 .. Len(rest) : Tail(c)[i] = rest[i] BY <1>2, <1>3, <1>4
<1>7. Tail(c) = rest BY <1>2, <1>5, <1>6
<1>8. SubSeq(c, 2, Len(c)) = Tail(c) BY <1>3, <1>2
<1>9. c # <<>> /\ Head(c) = x BY <1>2, <1>3, <1>4
<1> QED BY <1>3, <1>4, <1>7, <1>8, <1>9 DEF IsSeq, c

LEMMA ExceptFacts ==
  ASSUME NEW s, IsSeq(s), NEW k \in DOMAIN s, NEW x
  PROVE  IsSeq([s EXCEPT ![k] = x]) /\ Len([s EXCEPT ![k] = x]) = Len(s)
<1>1. PICK S : s \in Seq(S) BY DEF IsSeq
<1> DEFINE T == S \cup {x}
<1>2. s \in Seq(T) /\ x \in T
  <2>1. Len(s) \in Nat /\ \A i \in 1 .. Len(s) : s[i] \in S BY <1>1
  <2>2. s = [i \in 1 .. Len(s) |-> s[i]] BY <1>1
  <2> QED BY <2>1, <2>2
<1>3. [s EXCEPT ![k] = x] \in Seq(T) BY <1>2
<1> HIDE DEF T
<1> QED BY <1>2, <1>3 DEF IsSeq

LEMMA ConcatFacts ==
  ASSUME NEW a, IsSeq(a), NEW b, IsSeq(b)
  PROVE  /\ IsSeq(a \o b) /\ Len(a \o b) = Len(a) + Len(b)
         /\ \A i \in 1 .. Len(a) : (a \o b)[i] = a[i]
         /\ \A i \in 1 .. Len(b) : (a \o b)[Len(a) + i] = b[i]
<1>1. PICK S : a \in Seq(S) BY DEF IsSeq
<1>2. PICK Q : b \in Seq(Q) BY DEF IsSeq
<1> DEFINE T == S \cup Q
<1>3. a \in Seq(T)
  <2>1. Len(a) \in Nat /\ \A i \in 1 .. Len(a) : a[i] \in S BY <1>1
  <2>2. a = [i \in 1 .. Len(a) |-> a[i]] BY <1>1
  <2> QED BY <2>1, <2>2
<1>4. b \in Seq(T)
  <2>1. Len(b) \in Nat /\ \A i \in 1 .. Len(b) : b[i] \in Q BY <1>2
  <2>2. b = [i \in 1 .. Len(b) |-> b[i]] BY <1>2
  <2> QED BY <2>1, <2>2
<1> HIDE DEF T
<1>5. a \o b \in Seq(T) BY <1>3, <1>4
<1> QED BY <1>3, <1>4, <1>5 DEF IsSeq

LEMMA TabulateFacts ==
  ASSUME NEW n \in Nat, NEW s
  PROVE  IsSeq([i \in 1 .. n |-> s[i]]) /\ Len([i \in 1 .. n |-> s[i]]) = n
<1> DEFINE t == [i \in 1 .. n |-> s[i]]  T == {s[i] : i \in 1 .. n}
<1>1. t \in Seq(T) OBVIOUS
<1>2. Len(t) = n OBVIOUS
<1> HIDE DEF T, t
<1>3. IsSeq(t) BY <1>1 DEF IsSeq
<1> QED BY <1>2, <1>3 DEF t

(***************************************************************************)
(* Types: the inductive invariant.                                         *)
(***************************************************************************)
Places == {"rz", "zdle", "kind", "hex", "cr", "lf", "bin", "data", "crc", "ended"}

\* The receiver and its files: received_data_size is what the files hold, and what
\* it has read fits where it is kept.
ReceiverOK ==
  /\ DOMAIN r = {"pc", "width", "block", "got", "crc", "size", "out"}
  /\ r.pc \in Places /\ r.width \in {16, 32} /\ r.block \in {"name", "file"} /\ r.out \in BOOLEAN
  /\ IsSeq(r.got) /\ IsSeq(r.crc)
  /\ Len(r.got) <= BufLen /\ Len(r.crc) <= 2
  /\ r.pc = "data" => Len(r.got) < BufLen
  /\ r.pc = "crc" => r.got # <<>>
  /\ r.size = EndOf(Len(files))
  /\ r.out => files # <<>>

FilesOK ==
  /\ IsSeq(files)
  /\ \A n \in DOMAIN files :
       /\ DOMAIN files[n] = {"name", "start", "data", "closed"}
       /\ files[n].start \in Nat /\ IsSeq(files[n].data)
       /\ files[n].start = EndOf(n - 1)

Sends(q) ==
  /\ DOMAIN q = {"pc", "file", "count", "style", "format", "last", "tries", "strayed"}
  /\ q.pc \in {"off", "init", "file", "data", "fin", "done", "aborted"}
  /\ q.count \in 1 .. Len(Files) /\ q.file \in 0 .. q.count /\ q.tries \in 0 .. MaxTries
  /\ q.style \in Styles /\ q.format \in Formats

SenderOK == Sends(snd)

FaultsOK == faults \in 0 .. MaxFaults

TypeInv == ReceiverOK /\ FilesOK /\ SenderOK /\ FaultsOK

LEMMA Constants ==
  /\ BufLen \in Nat \ {0, 1} /\ MaxTries \in Nat /\ MaxFaults \in Nat
  /\ Files \in Seq(Seq(Chars))
BY ZmodemAssumption

LEMMA SizeTyped == ASSUME TypeInv PROVE r.size \in Nat /\ Len(files) \in Nat
<1>1. IsSeq(files) BY DEF TypeInv, FilesOK
<1>2. Len(files) \in Nat /\ DOMAIN files = 1 .. Len(files) BY <1>1, SeqFacts
<1>3. CASE Len(files) = 0
  <2>1. EndOf(Len(files)) = 0 BY <1>3 DEF EndOf
  <2> QED BY <1>2, <2>1 DEF TypeInv, ReceiverOK
<1>4. CASE Len(files) # 0
  <2>1. Len(files) \in DOMAIN files BY <1>2, <1>4
  <2>2. files[Len(files)].start \in Nat /\ IsSeq(files[Len(files)].data) BY <2>1 DEF TypeInv, FilesOK
  <2>3. Len(files[Len(files)].data) \in Nat BY <2>2, SeqFacts
  <2>4. EndOf(Len(files)) \in Nat BY <1>4, <2>2, <2>3 DEF EndOf
  <2> QED BY <1>2, <2>4 DEF TypeInv, ReceiverOK
<1> QED BY <1>3, <1>4

(***************************************************************************)
(* Types: the pieces of the receiver's steps.                              *)
(***************************************************************************)
\* A press of ESC is counted like a fault.
Counts(used) == used \in {0, 1} /\ (used = 1 => faults < MaxFaults)

LEMMA FaultsCounted ==
  ASSUME FaultsOK, NEW used, Counts(used)
  PROVE  /\ Silent(used) => FaultsOK'
         /\ \A type, pos : Answer(type, pos, used) => FaultsOK'
<1> USE Constants DEF FaultsOK, Counts
<1>1. Silent(used) => FaultsOK' BY DEF Silent
<1>2. ASSUME NEW type, NEW pos, Answer(type, pos, used) PROVE FaultsOK' BY <1>2 DEF Answer
<1> QED BY <1>1, <1>2

LEMMA GoTyped ==
  ASSUME ReceiverOK, FilesOK, NEW pc \in Places \ {"crc"}, Go(pc)
  PROVE  ReceiverOK' /\ FilesOK'
<1>1. files' = files /\ r' = [r EXCEPT !.pc = pc, !.got = <<>>, !.crc = <<>>] BY DEF Go
<1>2. r'.pc = pc /\ r'.got = <<>> /\ r'.crc = <<>> /\ r'.width = r.width /\ r'.block = r.block
      /\ r'.size = r.size /\ r'.out = r.out /\ DOMAIN r' = DOMAIN r
  BY <1>1 DEF ReceiverOK
<1>3. FilesOK' /\ EndOf(Len(files))' = EndOf(Len(files)) BY <1>1 DEF FilesOK, EndOf
<1> QED BY <1>1, <1>2, <1>3, EmptyIsSeq, Constants DEF ReceiverOK

Typed == ReceiverOK /\ FilesOK /\ FaultsOK

\* A step that leaves the files alone and changes only these fields of r.
LEMMA ReadTyped ==
  ASSUME ReceiverOK, FilesOK, files' = files, DOMAIN r' = DOMAIN r,
         r'.size = r.size, r'.out = r.out \/ r'.out = FALSE,
         r'.pc \in Places, r'.width \in {16, 32}, r'.block \in {"name", "file"},
         IsSeq(r'.got), IsSeq(r'.crc), Len(r'.got) <= BufLen, Len(r'.crc) <= 2,
         r'.pc = "data" => Len(r'.got) < BufLen, r'.pc = "crc" => r'.got # <<>>
  PROVE  ReceiverOK' /\ FilesOK'
<1>1. FilesOK' /\ EndOf(Len(files))' = EndOf(Len(files)) BY DEF FilesOK, EndOf
<1> QED BY <1>1 DEF ReceiverOK

LEMMA CleanupTyped ==
  ASSUME ReceiverOK, FilesOK, Cleanup
  PROVE  ReceiverOK' /\ FilesOK'
<1>1. r' = [r EXCEPT !.pc = "ended"] BY DEF Cleanup
<1>2. r'.pc = "ended" /\ r'.got = r.got /\ r'.crc = r.crc /\ r'.width = r.width /\ r'.block = r.block
      /\ r'.size = r.size /\ r'.out = r.out /\ DOMAIN r' = DOMAIN r
  BY <1>1 DEF ReceiverOK
<1>3. CASE ~r.out
  <2>1. files' = files BY <1>3 DEF Cleanup
  <2> QED BY <1>2, <2>1, ReadTyped DEF ReceiverOK, Places
<1>4. CASE r.out
  <2> DEFINE k == Len(files)
  <2>1. files # <<>> /\ IsSeq(files) BY <1>4 DEF ReceiverOK, FilesOK
  <2>2. k \in Nat \ {0} /\ DOMAIN files = 1 .. k BY <2>1, SeqFacts
  <2>3. k \in DOMAIN files BY <2>2
  <2>4. files' = [files EXCEPT ![k] = [files[k] EXCEPT !.closed = TRUE]] BY <1>4 DEF Cleanup
  <2>5. IsSeq(files') /\ Len(files') = k /\ DOMAIN files' = DOMAIN files
    BY <2>1, <2>3, <2>4, ExceptFacts
  <2>6. \A n \in DOMAIN files : files'[n].start = files[n].start /\ files'[n].data = files[n].data
                               /\ DOMAIN files'[n] = DOMAIN files[n]
    <3> SUFFICES ASSUME NEW n \in DOMAIN files
                 PROVE  files'[n].start = files[n].start /\ files'[n].data = files[n].data
                        /\ DOMAIN files'[n] = DOMAIN files[n]
      OBVIOUS
    <3>1. DOMAIN files[n] = {"name", "start", "data", "closed"} BY DEF FilesOK
    <3>2. files'[n] = IF n = k THEN [files[k] EXCEPT !.closed = TRUE] ELSE files[n] BY <2>4
    <3> HIDE DEF k
    <3> QED BY <3>1, <3>2
  <2>7. \A n \in 0 .. k : EndOf(n)' = EndOf(n)
    <3>1. \A n \in 1 .. k : files'[n].start = files[n].start /\ files'[n].data = files[n].data
      BY <2>2, <2>6
    <3>2. ASSUME NEW n \in 0 .. k PROVE EndOf(n)' = EndOf(n)
      <4>1. n = 0 \/ n \in 1 .. k BY <2>2
      <4> HIDE DEF k
      <4> QED BY <3>1, <4>1 DEF EndOf
    <3> QED BY <3>2
  <2>8. FilesOK'
    <3> SUFFICES ASSUME NEW n \in DOMAIN files
                 PROVE  /\ DOMAIN files'[n] = {"name", "start", "data", "closed"}
                        /\ files'[n].start \in Nat /\ IsSeq(files'[n].data)
                        /\ files'[n].start = EndOf(n - 1)'
      BY <2>5 DEF FilesOK
    <3>1. n - 1 \in 0 .. k BY <2>2
    <3> QED BY <2>6, <2>7, <3>1 DEF FilesOK
  <2>9. files' # <<>> /\ EndOf(Len(files))' = EndOf(k)
    <3>1. Len(files') = k /\ k \in 0 .. k BY <2>5, <2>2
    <3>2. EndOf(Len(files))' = EndOf(k)' BY <3>1 DEF EndOf
    <3>3. files' # <<>> BY <2>2, <2>5, SeqFacts
    <3> QED BY <2>7, <3>1, <3>2, <3>3
  <2> QED BY <1>2, <2>8, <2>9 DEF ReceiverOK, Places
<1> QED BY <1>3, <1>4

LEMMA BailTyped ==
  ASSUME Typed, NEW used, Counts(used), Bail(used)
  PROVE  Typed'
BY CleanupTyped, FaultsCounted DEF Typed, Bail

LEMMA RejectTyped ==
  ASSUME Typed, NEW used, Counts(used), Reject(used)
  PROVE  Typed'
BY GoTyped, FaultsCounted DEF Typed, Reject, Places

LEMMA NoHeaderTyped ==
  ASSUME Typed, NEW c, NEW used, Counts(used), NoHeader(c, used)
  PROVE  Typed'
BY BailTyped, RejectTyped DEF NoHeader

LEMMA NoBlockTyped ==
  ASSUME Typed, NEW c, NEW used, Counts(used), NoBlock(c, used)
  PROVE  Typed'
<1>1. CASE c = CANCELLED \/ (r.block = "file" /\ ~r.out) BY <1>1, BailTyped DEF NoBlock
<1>2. CASE ~ (c = CANCELLED \/ (r.block = "file" /\ ~r.out))
  <2>1. Go("zdle") /\ (Silent(used) \/ Answer("ZRPOS", r.size, used)) BY <1>2 DEF NoBlock
  <2> QED BY <2>1, GoTyped, FaultsCounted DEF Typed, Places
<1> QED BY <1>1, <1>2

LEMMA KeepTyped ==
  ASSUME Typed, NEW got, NEW used, Counts(used), Keep(got, used),
         r.pc # "crc", IsSeq(got), Len(got) <= BufLen, r.pc = "data" => Len(got) < BufLen
  PROVE  Typed'
<1>1. r' = [r EXCEPT !.got = got] /\ files' = files /\ Silent(used) BY DEF Keep
<1>2. r'.pc = r.pc /\ r'.got = got /\ r'.crc = r.crc /\ r'.width = r.width /\ r'.block = r.block
      /\ r'.size = r.size /\ r'.out = r.out /\ DOMAIN r' = DOMAIN r
  BY <1>1 DEF Typed, ReceiverOK
<1>3. ReceiverOK' /\ FilesOK' BY <1>1, <1>2, ReadTyped DEF Typed, ReceiverOK
<1> QED BY <1>1, <1>3, FaultsCounted DEF Typed

\* A step that only moves the place, to none that needs more.
LEMMA PlaceTyped ==
  ASSUME Typed, NEW pc \in Places \ {"data", "crc"}, NEW used, Counts(used),
         r' = [r EXCEPT !.pc = pc], files' = files, Silent(used)
  PROVE  Typed'
<1>1. r'.pc = pc /\ r'.got = r.got /\ r'.crc = r.crc /\ r'.width = r.width /\ r'.block = r.block
      /\ r'.size = r.size /\ r'.out = r.out /\ DOMAIN r' = DOMAIN r
  BY DEF Typed, ReceiverOK
<1>2. ReceiverOK' /\ FilesOK' BY <1>1, ReadTyped DEF Typed, ReceiverOK
<1> QED BY <1>2, FaultsCounted DEF Typed

LEMMA CreateTyped ==
  ASSUME Typed, NEW name, NEW used, Counts(used), Create(name, used)
  PROVE  Typed'
<1> DEFINE new == [name |-> name, start |-> r.size, data |-> <<>>, closed |-> FALSE]  k == Len(files)
<1>1. CASE NotOpened /\ \/ faults' = faults + used
                        \/ faults + used < MaxFaults /\ faults' = faults + used + 1
  <2>1. r' = [r EXCEPT !.pc = "ended", !.out = FALSE] /\ files' = files BY <1>1 DEF NotOpened
  <2>2. r'.pc = "ended" /\ r'.got = r.got /\ r'.crc = r.crc /\ r'.width = r.width /\ r'.block = r.block
        /\ r'.size = r.size /\ r'.out = FALSE /\ DOMAIN r' = DOMAIN r
    BY <2>1 DEF Typed, ReceiverOK
  <2>3. ReceiverOK' /\ FilesOK' BY <2>1, <2>2, ReadTyped DEF Typed, ReceiverOK, Places
  <2>4. FaultsOK' BY <1>1, Constants DEF Typed, FaultsOK, Counts
  <2> QED BY <2>3, <2>4 DEF Typed
<1>2. CASE /\ files' = Append(files, new)
           /\ r' = [r EXCEPT !.pc = "zdle", !.out = TRUE, !.got = <<>>, !.crc = <<>>]
           /\ Answer("ZRPOS", r.size, used)
  <2>1. /\ files' = Append(files, new)
        /\ r' = [r EXCEPT !.pc = "zdle", !.out = TRUE, !.got = <<>>, !.crc = <<>>]
        /\ Answer("ZRPOS", r.size, used)
    BY <1>2
  <2>2. r'.pc = "zdle" /\ r'.got = <<>> /\ r'.crc = <<>> /\ r'.width = r.width /\ r'.block = r.block
        /\ r'.size = r.size /\ r'.out \in BOOLEAN /\ r'.out /\ DOMAIN r' = DOMAIN r
    BY <2>1 DEF Typed, ReceiverOK
  <2>3. IsSeq(files) /\ k \in Nat /\ DOMAIN files = 1 .. k BY SeqFacts DEF Typed, FilesOK
  <2>4. IsSeq(files') /\ Len(files') = k + 1 /\ files' # <<>> /\ files'[k + 1] = new
        /\ \A i \in 1 .. k : files'[i] = files[i]
    BY <2>1, <2>3, AppendFacts
  <2>5. DOMAIN files' = 1 .. k + 1 BY <2>4, SeqFacts
  <2>6. \A n \in 0 .. k : EndOf(n)' = EndOf(n)
    <3> SUFFICES ASSUME NEW n \in 0 .. k PROVE EndOf(n)' = EndOf(n) OBVIOUS
    <3>1. n = 0 \/ n \in 1 .. k BY <2>3
    <3> HIDE DEF k
    <3> QED BY <2>4, <3>1 DEF EndOf
  <2>7. r.size = EndOf(k) /\ r.size \in Nat
    <3>1. r.size = EndOf(k) BY DEF Typed, ReceiverOK
    <3>2. k \in 0 .. k BY <2>3
    <3>3. CASE k = 0 BY <3>1, <3>3 DEF EndOf
    <3>4. CASE k # 0
      <4>1. k \in DOMAIN files BY <2>3, <3>4
      <4>2. files[k].start \in Nat /\ IsSeq(files[k].data) BY <4>1 DEF Typed, FilesOK
      <4>3. Len(files[k].data) \in Nat BY <4>2, SeqFacts
      <4> QED BY <3>1, <3>4, <4>2, <4>3 DEF EndOf
    <3> QED BY <3>3, <3>4
  <2>8. EndOf(Len(files))' = r.size
    <3>1. files'[k + 1].start = r.size /\ Len(files'[k + 1].data) = 0 BY <2>4, EmptyIsSeq
    <3>2. k + 1 # 0 BY <2>3
    <3>3. EndOf(Len(files))' = files'[k + 1].start + Len(files'[k + 1].data) BY <2>4, <3>2 DEF EndOf
    <3> QED BY <2>7, <3>1, <3>3
  <2>9. FilesOK'
    <3> SUFFICES ASSUME NEW n \in DOMAIN files'
                 PROVE  /\ DOMAIN files'[n] = {"name", "start", "data", "closed"}
                        /\ files'[n].start \in Nat /\ IsSeq(files'[n].data)
                        /\ files'[n].start = EndOf(n - 1)'
      BY <2>4 DEF FilesOK
    <3>1. CASE n \in 1 .. k
      <4>1. n - 1 \in 0 .. k /\ files'[n] = files[n] /\ n \in DOMAIN files BY <2>3, <2>4, <3>1
      <4> QED BY <2>6, <4>1 DEF Typed, FilesOK
    <3>2. CASE n = k + 1
      <4>1. files'[n] = new /\ n - 1 = k /\ n - 1 \in 0 .. k BY <2>3, <2>4, <3>2
      <4>2. EndOf(n - 1)' = EndOf(n - 1) /\ EndOf(n - 1) = EndOf(k) BY <2>6, <4>1
      <4> HIDE DEF k
      <4> QED BY <2>7, <4>1, <4>2, EmptyIsSeq
    <3> QED BY <2>3, <2>5, <3>1, <3>2
  <2>10. ReceiverOK'
    <3>1. Len(r'.got) = 0 /\ Len(r'.crc) = 0 /\ IsSeq(r'.got) /\ IsSeq(r'.crc) BY <2>2, EmptyIsSeq
    <3> QED BY <2>2, <2>4, <2>8, <3>1, Constants DEF Typed, ReceiverOK, Places
  <2> QED BY <2>1, <2>9, <2>10, FaultsCounted DEF Typed
<1> QED BY <1>1, <1>2 DEF Create

LEMMA StoreTyped ==
  ASSUME Typed, NEW end, NEW used, Counts(used), Store(end, used), r.out, r.got # <<>>
  PROVE  Typed'
<1>0. PICK k : k = Len(files) OBVIOUS
<1> DEFINE m    == Len(r.got) - 1
           more == [i \in 1 .. m |-> r.got[i]]
           data == files[k].data \o more
<1>1. IsSeq(files) /\ files # <<>> /\ IsSeq(r.got) BY DEF Typed, ReceiverOK, FilesOK
<1>2. k \in Nat \ {0} /\ DOMAIN files = 1 .. k /\ k \in DOMAIN files BY <1>0, <1>1, SeqFacts
<1>3. m \in Nat BY <1>1, SeqFacts
<1>4. IsSeq(more) /\ Len(more) = m
  <2> HIDE DEF m
  <2> QED BY <1>3, TabulateFacts
<1>5. DOMAIN files[k] = {"name", "start", "data", "closed"} /\ IsSeq(files[k].data)
      /\ files[k].start \in Nat
  BY <1>2 DEF Typed, FilesOK
<1>6. IsSeq(data) /\ Len(data) = Len(files[k].data) + m /\ Len(files[k].data) \in Nat
  <2> HIDE DEF more, m
  <2> QED BY <1>4, <1>5, ConcatFacts, SeqFacts
<1>7. files' = [files EXCEPT ![k] = [files[k] EXCEPT !.data = data]] BY <1>0 DEF Store
<1> HIDE DEF data, more
<1>8. /\ files'[k] = [files[k] EXCEPT !.data = data]
      /\ \A n \in DOMAIN files \ {k} : files'[n] = files[n]
      /\ IsSeq(files') /\ Len(files') = k
  <2> DEFINE new == [files[k] EXCEPT !.data = data]
  <2>1. files' = [files EXCEPT ![k] = new] BY <1>7
  <2> HIDE DEF new
  <2>2. IsSeq(files') /\ Len(files') = k BY <1>0, <1>1, <1>2, <2>1, ExceptFacts
  <2>3. files'[k] = new /\ \A n \in DOMAIN files \ {k} : files'[n] = files[n] BY <1>2, <2>1
  <2> QED BY <2>2, <2>3 DEF new
<1>9. DOMAIN files' = 1 .. k /\ files' # <<>> BY <1>2, <1>8, SeqFacts
<1>10. /\ DOMAIN files'[k] = {"name", "start", "data", "closed"} /\ files'[k].data = data
       /\ files'[k].start = files[k].start
  BY <1>5, <1>8
<1> HIDE DEF m
<1>11. \A n \in 0 .. k - 1 : EndOf(n)' = EndOf(n)
  <2> SUFFICES ASSUME NEW n \in 0 .. k - 1 PROVE EndOf(n)' = EndOf(n) OBVIOUS
  <2>1. n = 0 \/ n \in DOMAIN files \ {k} BY <1>2
  <2> QED BY <1>8, <2>1 DEF EndOf
<1>12. EndOf(Len(files))' = r.size + m /\ r.size \in Nat
  <2>1. r.size = files[k].start + Len(files[k].data) BY <1>0, <1>2 DEF Typed, ReceiverOK, EndOf
  <2>2. EndOf(Len(files))' = files'[k].start + Len(files'[k].data) BY <1>2, <1>8 DEF EndOf
  <2>3. \A a, b, c \in Nat : a + (b + c) = (a + b) + c OBVIOUS
  <2> QED BY <1>3, <1>5, <1>6, <1>10, <2>1, <2>2, <2>3
<1>13. FilesOK'
  <2> SUFFICES ASSUME NEW n \in 1 .. k
               PROVE  /\ DOMAIN files'[n] = {"name", "start", "data", "closed"}
                      /\ files'[n].start \in Nat /\ IsSeq(files'[n].data)
                      /\ files'[n].start = EndOf(n - 1)'
    BY <1>8, <1>9 DEF FilesOK
  <2>1. n - 1 \in 0 .. k - 1 /\ n \in DOMAIN files BY <1>2
  <2>2. files[n].start = EndOf(n - 1) BY <2>1 DEF Typed, FilesOK
  <2>3. CASE n = k BY <1>5, <1>6, <1>10, <1>11, <2>1, <2>2, <2>3
  <2>4. CASE n # k
    <3>1. files'[n] = files[n] BY <1>8, <2>1, <2>4
    <3> QED BY <1>11, <2>1, <3>1 DEF Typed, FilesOK
  <2> QED BY <2>3, <2>4
<1>14. /\ r'.pc \in {"zdle", "data"} /\ r'.got = <<>> /\ r'.crc = <<>> /\ r'.width = r.width
       /\ r'.block = r.block /\ r'.size = r.size + m /\ r'.out = r.out /\ DOMAIN r' = DOMAIN r
  BY DEF Store, Counted, Typed, ReceiverOK, m
<1>15. ReceiverOK'
  <2>1. Len(r'.got) = 0 /\ Len(r'.crc) = 0 /\ IsSeq(r'.got) /\ IsSeq(r'.crc) BY <1>14, EmptyIsSeq
  <2> QED BY <1>9, <1>12, <1>14, <2>1, Constants DEF Typed, ReceiverOK, Places
<1>16. FaultsOK' BY FaultsCounted DEF Store, Typed
<1> QED BY <1>13, <1>15, <1>16 DEF Typed

LEMMA BlockTyped ==
  ASSUME Typed, NEW used, Counts(used), Block(used), r.got # <<>>
  PROVE  Typed'
<1>1. CASE r.block = "name" BY <1>1, CreateTyped DEF Block
<1>2. CASE r.block # "name" /\ ~r.out BY <1>2, BailTyped DEF Block
<1>3. CASE r.block # "name" /\ r.out
  <2>1. Store(Last(r.got)[2], used) BY <1>3 DEF Block
  <2> QED BY <1>3, <2>1, StoreTyped
<1> QED BY <1>1, <1>2, <1>3

LEMMA DispatchTyped ==
  ASSUME Typed, NEW header, NEW used, Counts(used), Dispatch(header, used)
  PROVE  Typed'
<1>1. CASE header[2] \in {"ZRQINIT", "ZEOF"}
  <2>1. Go("zdle") /\ Answer("ZRINIT", 0, used) BY <1>1 DEF Dispatch
  <2> QED BY <2>1, GoTyped, FaultsCounted DEF Typed, Places
<1>2. CASE header[2] = "ZFIN"
  <2>1. Cleanup /\ Answer("ZFIN", 0, used) BY <1>2 DEF Dispatch
  <2> QED BY <2>1, CleanupTyped, FaultsCounted DEF Typed
<1>3. CASE header[2] \notin {"ZRQINIT", "ZEOF", "ZFIN"}
  <2>1. /\ r' = [r EXCEPT !.pc = "data", !.block = IF header[2] = "ZFILE" THEN "name" ELSE "file",
                          !.got = <<>>, !.crc = <<>>]
        /\ files' = files /\ Silent(used)
    BY <1>3 DEF Dispatch
  <2>2. r'.pc = "data" /\ r'.got = <<>> /\ r'.crc = <<>> /\ r'.width = r.width
        /\ r'.block \in {"name", "file"} /\ r'.size = r.size /\ r'.out = r.out /\ DOMAIN r' = DOMAIN r
    BY <2>1 DEF Typed, ReceiverOK
  <2>3. Len(r'.got) = 0 /\ Len(r'.crc) = 0 /\ IsSeq(r'.got) /\ IsSeq(r'.crc) BY <2>2, EmptyIsSeq
  <2>4. ReceiverOK' /\ FilesOK' BY <2>1, <2>2, <2>3, ReadTyped, Constants DEF Typed, ReceiverOK, Places
  <2> QED BY <2>1, <2>4, FaultsCounted DEF Typed
<1> QED BY <1>1, <1>2, <1>3

(***************************************************************************)
(* Types: what the receiver does with a read.                              *)
(***************************************************************************)
LEMMA OnRzTyped ==
  ASSUME Typed, NEW c, NEW used, Counts(used), OnRz(c, used)
  PROVE  Typed'
<1>1. CASE IsError(c) BY <1>1, BailTyped DEF OnRz
<1>2. CASE ~IsError(c)
  <2>1. Go(IF c = Rz THEN "zdle" ELSE "rz") /\ Silent(used) BY <1>2 DEF OnRz
  <2> QED BY <2>1, GoTyped, FaultsCounted DEF Typed, Places
<1> QED BY <1>1, <1>2

LEMMA OnZdleTyped ==
  ASSUME Typed, NEW c, NEW used, Counts(used), OnZdle(c, used)
  PROVE  Typed'
<1>1. CASE IsError(c) BY <1>1, RejectTyped DEF OnZdle
<1>2. CASE ~IsError(c)
  <2>1. Go(IF c = ZDLE THEN "kind" ELSE "zdle") /\ Silent(used) BY <1>2 DEF OnZdle
  <2> QED BY <2>1, GoTyped, FaultsCounted DEF Typed, Places
<1> QED BY <1>1, <1>2

LEMMA OnKindTyped ==
  ASSUME Typed, NEW c, NEW used, Counts(used), OnKind(c, used), r.pc = "kind"
  PROVE  Typed'
<1>1. CASE IsError(c)
  <2>1. c[1] # "kind" BY <1>1 DEF IsError, CANCELLED, BAD_ESCAPE
  <2>2. Go("zdle") /\ Silent(used) BY <1>1, <2>1 DEF OnKind
  <2> QED BY <2>2, GoTyped, FaultsCounted DEF Typed, Places
<1>2. CASE ~IsError(c) /\ c[1] = "kind"
  <2>1. /\ r' = [r EXCEPT !.pc = IF c[2] = "hex" THEN "hex" ELSE "bin", !.width = Width(c[2])]
        /\ files' = files /\ Silent(used)
    BY <1>2 DEF OnKind
  <2>2. r'.pc \in {"hex", "bin"} /\ r'.got = r.got /\ r'.crc = r.crc /\ r'.width \in {16, 32}
        /\ r'.block = r.block /\ r'.size = r.size /\ r'.out = r.out /\ DOMAIN r' = DOMAIN r
    BY <2>1 DEF Typed, ReceiverOK, Width
  <2>3. ReceiverOK' /\ FilesOK' BY <2>1, <2>2, ReadTyped DEF Typed, ReceiverOK, Places
  <2> QED BY <2>1, <2>3, FaultsCounted DEF Typed
<1>3. CASE ~IsError(c) /\ c[1] # "kind" BY <1>3, RejectTyped DEF OnKind
<1> QED BY <1>1, <1>2, <1>3

LEMMA OnHexTyped ==
  ASSUME Typed, NEW c, NEW used, Counts(used), OnHex(c, used), r.pc = "hex"
  PROVE  Typed'
<1>1. CASE c[1] \notin HexDigits BY <1>1, NoHeaderTyped DEF OnHex
<1>2. CASE c[1] \in HexDigits /\ r.got = <<>>
  <2>1. Keep(<<c>>, used) BY <1>2 DEF OnHex
  <2>2. IsSeq(<<c>>) /\ Len(<<c>>) = 1
    <3>1. <<c>> \in Seq({c}) /\ Len(<<c>>) = 1 OBVIOUS
    <3> QED BY <3>1 DEF IsSeq
  <2>3. Len(<<c>>) <= BufLen BY <2>2, Constants
  <2> QED BY <1>2, <2>1, <2>2, <2>3, KeepTyped
<1>3. CASE c[1] \in HexDigits /\ r.got # <<>> /\ GoodHeader(16, Append(r.got, c))
  <2>1. r' = [r EXCEPT !.pc = "cr"] /\ files' = files /\ Silent(used) BY <1>3 DEF OnHex
  <2> QED BY <2>1, PlaceTyped DEF Places
<1>4. CASE c[1] \in HexDigits /\ r.got # <<>> /\ ~GoodHeader(16, Append(r.got, c))
  BY <1>4, RejectTyped DEF OnHex
<1> QED BY <1>1, <1>2, <1>3, <1>4

LEMMA OnCrLfTyped ==
  ASSUME Typed, NEW c, NEW used, Counts(used), OnCrLf(c, used)
  PROVE  Typed'
<1>1. CASE c = LF
  <2>1. LF # CR BY DEF LF, CR
  <2>2. Dispatch(Head(r.got), used) BY <1>1, <2>1 DEF OnCrLf
  <2> QED BY <2>2, DispatchTyped
<1>2. CASE c # LF /\ c = CR /\ r.pc = "cr"
  <2>1. r' = [r EXCEPT !.pc = "lf"] /\ files' = files /\ Silent(used) BY <1>2 DEF OnCrLf
  <2> QED BY <2>1, PlaceTyped DEF Places
<1>3. CASE c # LF /\ ~ (c = CR /\ r.pc = "cr") BY <1>3, NoHeaderTyped DEF OnCrLf
<1> QED BY <1>1, <1>2, <1>3

LEMMA Widths == ASSUME ReceiverOK PROVE r.width \div 16 \in {1, 2} /\ r.width \div 16 <= BufLen
<1>1. 16 \div 16 = 1 /\ 32 \div 16 = 2 OBVIOUS
<1> QED BY <1>1, Constants DEF ReceiverOK

LEMMA OnBinTyped ==
  ASSUME Typed, NEW c, NEW used, Counts(used), OnBin(c, used), r.pc = "bin"
  PROVE  Typed'
<1>1. CASE IsError(c) BY <1>1, NoHeaderTyped DEF OnBin
<1>2. CASE ~IsError(c)
  <2> DEFINE got == Append(r.got, c)
  <2>1. /\ Len(got) <= r.width \div 16 => Keep(got, used)
        /\ Len(got) > r.width \div 16 => Dispatch(Head(got), used) \/ Reject(used)
    <3>1. IsSeq(got) /\ Len(got) = Len(r.got) + 1 /\ Len(r.got) \in Nat
      BY AppendFacts, SeqFacts DEF Typed, ReceiverOK
    <3> QED BY <1>2, <3>1, Widths DEF OnBin, Typed
  <2>2. IsSeq(got) /\ Len(got) \in Nat BY AppendFacts, SeqFacts DEF Typed, ReceiverOK
  <2> HIDE DEF got
  <2>3. CASE Len(got) <= r.width \div 16
    <3>1. Len(got) <= BufLen BY <2>2, <2>3, Widths, Constants DEF Typed
    <3> QED BY <2>1, <2>2, <2>3, <3>1, KeepTyped
  <2>4. CASE ~ (Len(got) <= r.width \div 16)
    <3>1. Len(got) > r.width \div 16 BY <2>2, <2>4, Widths DEF Typed
    <3> QED BY <2>1, <3>1, DispatchTyped, RejectTyped
  <2> QED BY <2>3, <2>4
<1> QED BY <1>1, <1>2

LEMMA OnDataTyped ==
  ASSUME Typed, NEW c, NEW used, Counts(used), OnData(c, used), r.pc = "data"
  PROVE  Typed'
<1>1. CASE IsError(c) BY <1>1, NoBlockTyped DEF OnData
<1>2. CASE ~IsError(c)
  <2> DEFINE got == Append(r.got, c)
  <2>1. IsSeq(got) /\ Len(got) \in Nat /\ got # <<>> /\ Len(got) <= BufLen
    <3>1. IsSeq(r.got) /\ Len(r.got) < BufLen BY DEF Typed, ReceiverOK
    <3>2. Len(r.got) \in Nat BY <3>1, SeqFacts
    <3>3. IsSeq(got) /\ Len(got) = Len(r.got) + 1 /\ got # <<>> BY <3>1, AppendFacts
    <3> HIDE DEF got
    <3> QED BY <3>1, <3>2, <3>3, Constants
  <2>2. CASE c[1] = "fin"
    <3>1. r' = [r EXCEPT !.pc = "crc", !.got = got] /\ files' = files /\ Silent(used)
      BY <1>2, <2>2 DEF OnData
    <3> HIDE DEF got
    <3>2. r'.pc = "crc" /\ r'.got = got /\ r'.crc = r.crc /\ r'.width = r.width /\ r'.block = r.block
          /\ r'.size = r.size /\ r'.out = r.out /\ DOMAIN r' = DOMAIN r
      BY <3>1 DEF Typed, ReceiverOK
    <3>3. ReceiverOK' /\ FilesOK' BY <2>1, <3>1, <3>2, ReadTyped DEF Typed, ReceiverOK, Places
    <3> QED BY <3>1, <3>3, FaultsCounted DEF Typed
  <2>3. CASE c[1] # "fin" /\ Len(got) = BufLen
    <3>1. NoBlock(<<"outofspace">>, used) BY <1>2, <2>3 DEF OnData
    <3> QED BY <3>1, NoBlockTyped
  <2>4. CASE c[1] # "fin" /\ Len(got) # BufLen
    <3>1. Keep(got, used) BY <1>2, <2>4 DEF OnData
    <3> HIDE DEF got
    <3> QED BY <2>1, <2>4, <3>1, KeepTyped, Constants
  <2> QED BY <2>2, <2>3, <2>4
<1> QED BY <1>1, <1>2

LEMMA OnCrcTyped ==
  ASSUME Typed, NEW c, NEW used, Counts(used), OnCrc(c, used), r.pc = "crc"
  PROVE  Typed'
<1>1. CASE IsError(c) /\ r.crc = <<>> BY <1>1, NoBlockTyped DEF OnCrc
<1>2. CASE ~ (IsError(c) /\ r.crc = <<>>)
  <2> DEFINE crc == Append(r.crc, c)
  <2>1. IsSeq(crc) /\ Len(crc) \in Nat BY AppendFacts, SeqFacts DEF Typed, ReceiverOK
  <2>2. \/ Len(crc) < r.width \div 16 /\ r' = [r EXCEPT !.crc = crc] /\ files' = files /\ Silent(used)
        \/ Block(used) \/ NoBlock(<<"badcrc">>, used)
    BY <1>2 DEF OnCrc
  <2> HIDE DEF crc
  <2>3. CASE Len(crc) < r.width \div 16 /\ r' = [r EXCEPT !.crc = crc] /\ files' = files /\ Silent(used)
    <3>1. r'.pc = r.pc /\ r'.got = r.got /\ r'.crc = crc /\ r'.width = r.width /\ r'.block = r.block
          /\ r'.size = r.size /\ r'.out = r.out /\ DOMAIN r' = DOMAIN r
      BY <2>3 DEF Typed, ReceiverOK
    <3>2. Len(crc) <= 2 BY <2>1, <2>3, Widths DEF Typed
    <3>3. ReceiverOK' /\ FilesOK' BY <2>1, <2>3, <3>1, <3>2, ReadTyped DEF Typed, ReceiverOK, Places
    <3> QED BY <2>3, <3>3, FaultsCounted DEF Typed
  <2>4. r.got # <<>> BY DEF Typed, ReceiverOK
  <2> QED BY <2>2, <2>3, <2>4, BlockTyped, NoBlockTyped
<1> QED BY <1>1, <1>2

LEMMA ReadsCount ==
  ASSUME FaultsOK, NEW R, NEW x \in Reads(R)
  PROVE  Counts(x[3])
<1>1. CASE \E y \in R : x = <<y[1], y[2], 0>> BY <1>1 DEF Counts
<1>2. CASE x = <<CANCELLED, 0, 1>> /\ faults < MaxFaults BY <1>2 DEF Counts
<1> QED BY <1>1, <1>2 DEF Reads

LEMMA ReceiverTyped ==
  ASSUME Typed, Receiver
  PROVE  Typed' /\ snd' = snd
<1> USE DEF Taken
<1>0. FaultsOK BY DEF Typed
<1>1. CASE AwaitRz BY <1>0, <1>1, ReadsCount, OnRzTyped DEF AwaitRz
<1>2. CASE AwaitZdle BY <1>0, <1>2, ReadsCount, OnZdleTyped DEF AwaitZdle
<1>3. CASE ReadKind BY <1>0, <1>3, ReadsCount, OnKindTyped DEF ReadKind
<1>4. CASE ReadHex BY <1>0, <1>4, ReadsCount, OnHexTyped DEF ReadHex
<1>5. CASE ReadCrLf BY <1>0, <1>5, ReadsCount, OnCrLfTyped DEF ReadCrLf
<1>6. CASE ReadBin BY <1>0, <1>6, ReadsCount, OnBinTyped DEF ReadBin
<1>7. CASE ReadData BY <1>0, <1>7, ReadsCount, OnDataTyped DEF ReadData
<1>8. CASE ReadCrc BY <1>0, <1>8, ReadsCount, OnCrcTyped DEF ReadCrc
<1>9. CASE SkipXon
  <2>1. UNCHANGED <<r, files, snd, faults>> BY <1>9 DEF SkipXon
  <2> QED BY <2>1 DEF Typed, ReceiverOK, FilesOK, FaultsOK, EndOf
<1> QED BY <1>1, <1>2, <1>3, <1>4, <1>5, <1>6, <1>7, <1>8, <1>9 DEF Receiver

(***************************************************************************)
(* Types: the sender.                                                      *)
(***************************************************************************)
LEMMA TransmitTyped ==
  ASSUME FaultsOK, NEW state, Sends(state), NEW last, NEW prefix, Transmit(state, last, prefix)
  PROVE  SenderOK' /\ FaultsOK'
<1>1. snd' = [state EXCEPT !.last = last] BY DEF Transmit
<1>2. SenderOK' BY <1>1 DEF SenderOK, Sends
<1>3. FaultsOK' BY Constants DEF Transmit, Fault, FaultsOK
<1> QED BY <1>2, <1>3

LEMMA SendFileTyped ==
  ASSUME FaultsOK, SenderOK, NEW n \in 0 .. snd.count, SendFile(n)
  PROVE  SenderOK' /\ FaultsOK'
<1> DEFINE state == [snd EXCEPT !.pc = "file", !.file = n]
<1>1. Sends(state) BY DEF SenderOK, Sends
<1>2. \E last : Transmit(state, last, <<>>) BY DEF SendFile
<1> HIDE DEF state
<1> QED BY <1>1, <1>2, TransmitTyped

LEMMA SendFromTyped ==
  ASSUME FaultsOK, SenderOK, NEW pos, SendFrom(pos)
  PROVE  SenderOK' /\ FaultsOK'
<1> DEFINE state == [snd EXCEPT !.pc = "data", !.strayed = @ \/ (snd.pc = "file" /\ Len(files) # snd.file)]
<1>1. Sends(state) BY DEF SenderOK, Sends
<1>2. \E last : Transmit(state, last, <<>>) BY DEF SendFrom
<1> HIDE DEF state
<1> QED BY <1>1, <1>2, TransmitTyped

LEMMA NextFileTyped ==
  ASSUME FaultsOK, SenderOK, NextFile
  PROVE  SenderOK' /\ FaultsOK'
<1>1. CASE snd.file < snd.count
  <2>1. snd.file + 1 \in 0 .. snd.count BY <1>1 DEF SenderOK, Sends
  <2>2. SendFile(snd.file + 1) BY <1>1 DEF NextFile
  <2> QED BY <2>1, <2>2, SendFileTyped
<1>2. CASE ~ (snd.file < snd.count)
  <2> DEFINE state == [snd EXCEPT !.pc = "fin"]
  <2>1. Sends(state) BY DEF SenderOK, Sends
  <2>2. \E last : Transmit(state, last, <<>>) BY <1>2 DEF NextFile
  <2> HIDE DEF state
  <2> QED BY <2>1, <2>2, TransmitTyped
<1> QED BY <1>1, <1>2

LEMMA AnsweredTyped ==
  ASSUME FaultsOK, SenderOK, Answered
  PROVE  SenderOK' /\ FaultsOK'
<1> DEFINE done == [snd EXCEPT !.pc = "done"]  again == [snd EXCEPT !.strayed = TRUE]
<1>1. Sends(done) /\ Sends(again) BY DEF SenderOK, Sends
<1>2. \/ NextFile \/ \E pos : SendFrom(pos)
      \/ snd' = done /\ faults' = faults
      \/ snd' = snd /\ faults' = faults
      \/ Transmit(again, snd.last, <<>>)
  <2> HIDE DEF done, again
  <2>1. PICK type \in {Head(up)[1]}, pos \in {Head(up)[2]} :
          CASE type = "ZRINIT" /\ snd.pc \in {"init", "data"} -> NextFile
            [] type = "ZRPOS" /\ snd.pc \in {"file", "data"} -> SendFrom(pos)
            [] type = "ZACK" /\ snd.pc = "data" /\ snd.style = "wait" -> SendFrom(pos)
            [] type = "ZFIN" /\ snd.pc = "fin" -> snd' = done /\ UNCHANGED <<down, faults>>
            [] OTHER -> \/ UNCHANGED <<snd, down, faults>>
                        \/ /\ type = "ZNAK" /\ snd.pc \in {"init", "file", "data", "fin"}
                           /\ Transmit(again, snd.last, <<>>)
    BY DEF Answered, done, again
  <2>2. CASE type = "ZRINIT" /\ snd.pc \in {"init", "data"} BY <2>1, <2>2
  <2>3. CASE type = "ZRPOS" /\ snd.pc \in {"file", "data"} BY <2>1, <2>3
  <2>4. CASE type = "ZACK" /\ snd.pc = "data" /\ snd.style = "wait" BY <2>1, <2>4
  <2>5. CASE type = "ZFIN" /\ snd.pc = "fin" BY <2>1, <2>5
  <2>6. CASE ~ \/ type = "ZRINIT" /\ snd.pc \in {"init", "data"}
               \/ type = "ZRPOS" /\ snd.pc \in {"file", "data"}
               \/ type = "ZACK" /\ snd.pc = "data" /\ snd.style = "wait"
               \/ type = "ZFIN" /\ snd.pc = "fin"
    BY <2>1, <2>6
  <2> QED BY <2>2, <2>3, <2>4, <2>5, <2>6
<1> HIDE DEF done, again
<1>3. CASE snd' = done /\ faults' = faults BY <1>1, <1>3 DEF SenderOK, FaultsOK
<1>4. CASE snd' = snd /\ faults' = faults BY <1>4 DEF SenderOK, FaultsOK
<1> QED BY <1>1, <1>2, <1>3, <1>4, NextFileTyped, SendFromTyped, TransmitTyped

LEMMA SenderTyped ==
  ASSUME FaultsOK, SenderOK, Sender
  PROVE  SenderOK' /\ FaultsOK' /\ r' = r /\ files' = files
<1>1. CASE Start
  <2> DEFINE state == [snd EXCEPT !.pc = "init"]
  <2>1. Sends(state) BY DEF SenderOK, Sends
  <2>2. \E last, prefix : Transmit(state, last, prefix) BY <1>1 DEF Start
  <2> HIDE DEF state
  <2>3. SenderOK' /\ FaultsOK' BY <2>1, <2>2, TransmitTyped
  <2> QED BY <1>1, <2>3 DEF Start
<1>2. CASE Answered BY <1>2, AnsweredTyped DEF Answered
<1>3. CASE Timeout
  <2> DEFINE more == [snd EXCEPT !.tries = @ + 1, !.strayed = TRUE]  over == [snd EXCEPT !.pc = "aborted"]
  <2>1. Sends(over) /\ (snd.tries < MaxTries => Sends(more)) BY Constants DEF SenderOK, Sends
  <2>2. \/ snd.tries < MaxTries /\ Transmit(more, snd.last, <<>>)
        \/ snd' = over /\ faults' = faults
    BY <1>3 DEF Timeout
  <2> HIDE DEF more, over
  <2>3. SenderOK' /\ FaultsOK'
    <3>1. CASE snd' = over /\ faults' = faults BY <2>1, <3>1 DEF SenderOK, FaultsOK
    <3> QED BY <2>1, <2>2, <3>1, TransmitTyped
  <2> QED BY <1>3, <2>3 DEF Timeout
<1> QED BY <1>1, <1>2, <1>3 DEF Sender

LEMMA TypeInit == Init => TypeInv
<1> SUFFICES ASSUME Init PROVE TypeInv OBVIOUS
<1>1. FilesOK /\ EndOf(Len(files)) = 0
  <2>1. files = <<>> BY DEF Init
  <2>2. DOMAIN files = {} BY <2>1
  <2> QED BY <2>1, <2>2, EmptyIsSeq DEF FilesOK, EndOf
<1>2. ReceiverOK
  <2>1. IsSeq(r.got) /\ IsSeq(r.crc) /\ Len(r.got) = 0 /\ Len(r.crc) = 0 BY EmptyIsSeq DEF Init
  <2> QED BY <1>1, <2>1, Constants DEF Init, ReceiverOK, Places
<1>3. SenderOK
  <2>1. Len(Files) \in Nat BY Constants
  <2>2. snd \in [pc : {"off"}, file : {0}, count : 1 .. Len(Files), style : Styles, format : Formats,
                 last : {<<>>}, tries : {0}, strayed : {FALSE}]
    BY DEF Init
  <2> QED BY <2>1, <2>2, Constants DEF SenderOK, Sends
<1>4. FaultsOK BY Constants DEF Init, FaultsOK
<1> QED BY <1>1, <1>2, <1>3, <1>4 DEF TypeInv

LEMMA TypeStep == TypeInv /\ [Next]_vars => TypeInv'
<1> SUFFICES ASSUME TypeInv, [Next]_vars PROVE TypeInv' OBVIOUS
<1>1. CASE Sender
  <2>1. SenderOK' /\ FaultsOK' /\ r' = r /\ files' = files BY <1>1, SenderTyped DEF TypeInv
  <2>2. ReceiverOK' /\ FilesOK' BY <2>1 DEF TypeInv, ReceiverOK, FilesOK, EndOf
  <2> QED BY <2>1, <2>2 DEF TypeInv
<1>2. CASE Receiver
  <2>1. Typed' /\ snd' = snd BY <1>2, ReceiverTyped DEF TypeInv, Typed
  <2> QED BY <2>1 DEF TypeInv, Typed, SenderOK
<1>3. CASE LoseSubpacket
  <2>1. SenderOK' /\ FaultsOK'
    <3>1. snd' = [snd EXCEPT !.strayed = TRUE] /\ faults < MaxFaults /\ faults' = faults + 1
      BY <1>3 DEF LoseSubpacket, Fault
    <3>2. SenderOK' BY <3>1 DEF TypeInv, SenderOK, Sends
    <3>3. FaultsOK' BY <3>1, Constants DEF TypeInv, FaultsOK
    <3> QED BY <3>2, <3>3
  <2>2. ReceiverOK' /\ FilesOK' BY <1>3 DEF LoseSubpacket, TypeInv, ReceiverOK, FilesOK, EndOf
  <2> QED BY <2>1, <2>2 DEF TypeInv
<1>4. CASE UNCHANGED vars
  BY <1>4 DEF vars, TypeInv, ReceiverOK, FilesOK, SenderOK, FaultsOK, EndOf
<1> QED BY <1>1, <1>2, <1>3, <1>4 DEF Next

\* Whatever the lines and the sender do, every field keeps its type, what is read
\* fits where it is kept, and received_data_size is what the files hold, each of
\* which starts where the one before ended.
THEOREM TypeCorrect == Spec => []TypeOK
<1>1. TypeInv => TypeOK
  BY DEF TypeInv, ReceiverOK, FilesOK, SenderOK, Sends, FaultsOK, TypeOK, Places
<1> QED BY <1>1, TypeInit, TypeStep, PTL DEF Spec

(***************************************************************************)
(* A session without faults: the tokens of a transmission, each with what  *)
(* follows it.                                                             *)
(***************************************************************************)
HexLf      == Cons(LF, Cons(XON, <<>>))
HexCr      == Cons(CR, HexLf)
HexCrc(h)  == Cons(<<"crc16", <<h>>>>, HexCr)
HexHdr(h)  == Cons(h, HexCrc(h))
HexKind(h) == Cons(<<"kind", "hex">>, HexHdr(h))
HexZdle(h) == Cons(ZDLE, HexKind(h))
HexPad(h)  == Cons(ZPAD, HexZdle(h))
HexAll(h)  == Cons(ZPAD, HexPad(h))

\* The CRC of some tokens and what follows it; the second half of a long one.
Crc2(tokens, rest) == Cons(<<"crc32b", tokens>>, rest)
Crc(format, tokens, rest) ==
  IF format = "bin32" THEN Cons(<<"crc32a", tokens>>, Crc2(tokens, rest)) ELSE Cons(<<"crc16", tokens>>, rest)

BinHdr(format, h, rest)  == Cons(h, Crc(format, <<h>>, rest))
BinKind(format, h, rest) == Cons(<<"kind", format>>, BinHdr(format, h, rest))
BinZdle(format, h, rest) == Cons(ZDLE, BinKind(format, h, rest))
BinAll(format, h, rest)  == Cons(ZPAD, BinZdle(format, h, rest))

PacketEnd(format, char, end, rest) ==
  Cons(ZDLE, Cons(<<"end", end>>, Crc(format, <<char, <<"fin", end>>>>, rest)))
Packet(format, char, end, rest) ==
  IF char[1] = "data" /\ char[2] \in Escaped
  THEN Cons(ZDLE, Cons(<<"escaped", char[2]>>, PacketEnd(format, char, end, rest)))
  ELSE Cons(char, PacketEnd(format, char, end, rest))

(***************************************************************************)
(* A session without faults: where the receiver is in what it reads.  h is *)
(* the header, rest what follows.  An XON or a CR may be left in front.    *)
(***************************************************************************)
InHex(h) ==
  \/ /\ r.pc = "zdle"
     /\ down \in {Cons(XON, HexAll(h)), Cons(CR, HexAll(h)), HexAll(h), HexPad(h), HexZdle(h)}
  \/ r.pc = "kind" /\ r.got = <<>> /\ down = HexKind(h)
  \/ r.pc = "hex" /\ r.got = <<>> /\ down = HexHdr(h)
  \/ r.pc = "hex" /\ r.got = <<h>> /\ down = HexCrc(h)
  \/ r.pc = "cr" /\ r.got = <<h>> /\ down = HexCr
  \/ r.pc = "lf" /\ r.got = <<h>> /\ down = HexLf

InBin(format, h, rest) ==
  \/ /\ r.pc = "zdle"
     /\ down \in {Cons(XON, BinAll(format, h, rest)), BinAll(format, h, rest), BinZdle(format, h, rest)}
  \/ r.pc = "kind" /\ r.got = <<>> /\ down = BinKind(format, h, rest)
  \/ /\ r.pc = "bin" /\ r.width = Width(format)
     /\ \/ r.got = <<>> /\ down = BinHdr(format, h, rest)
        \/ r.got = <<h>> /\ down = Crc(format, <<h>>, rest)
        \/ format = "bin32" /\ r.got = <<h, <<"crc32a", <<h>>>>>> /\ down = Crc2(<<h>>, rest)

InPacket(format, char, end, rest) ==
  /\ r.width = Width(format)
  /\ \/ /\ r.pc = "data" /\ r.crc = <<>>
        /\ \/ r.got = <<>> /\ down = Packet(format, char, end, rest)
           \/ r.got = <<char>> /\ down = PacketEnd(format, char, end, rest)
     \/ /\ r.pc = "crc" /\ r.got = <<char, <<"fin", end>>>>
        /\ \/ r.crc = <<>> /\ down = Crc(format, r.got, rest)
           \/ format = "bin32" /\ r.crc = <<<<"crc32a", r.got>>>> /\ down = Crc2(r.got, rest)

\* Nothing but an XON is left to read.
Idle == r.pc = "zdle" /\ down \in {<<>>, Cons(XON, <<>>)}

(***************************************************************************)
(* A session without faults: the stage of the sender, what the receiver    *)
(* does of it, and the answers under way.                                  *)
(***************************************************************************)
Size == Len(Files[snd.file])

\* The subpacket that is read or comes next, and what follows it.
NextChar == <<"data", Files[snd.file][r.size + 1]>>
NextEnd ==
  IF snd.style = "wait" THEN "W"
  ELSE IF Size - r.size = 1 THEN "E" ELSE IF snd.style = "query" THEN "Q" ELSE "G"
NextRest ==
  IF snd.style = "wait" THEN <<>> ELSE Remaining(snd.format, snd.style, snd.file)[Size - r.size - 1]

Acks(line) ==
  /\ IsSeq(line) /\ \A i \in DOMAIN line : line[i][1] = "ZACK"
  /\ snd.style = "wait" => line = <<>>

Initial ==
  /\ files = <<>> /\ snd.file = 0 /\ ~r.out
  /\ \/ snd.pc = "off" /\ r.pc = "rz" /\ down = <<>> /\ up = <<>>
     \/ /\ snd.pc = "init" /\ up = <<>>
        /\ \/ r.pc = "rz" /\ down = Cons(Rz, Cons(CR, HexAll(Header("ZRQINIT", 0))))
           \/ InHex(Header("ZRQINIT", 0))
     \/ snd.pc = "init" /\ up = <<<<"ZRINIT", 0>>>> /\ Idle

Offering ==
  /\ snd.pc = "file" /\ snd.file \in 1 .. snd.count
  /\ \/ /\ up = <<>> /\ Len(files) = snd.file - 1
        /\ files # <<>> => EndOf(snd.file - 1) >= Len(Files[snd.file - 1])
        /\ \/ InBin(snd.format, Header("ZFILE", 0), Packet(snd.format, <<"name", snd.file>>, "W", <<>>))
           \/ r.block = "name" /\ InPacket(snd.format, <<"name", snd.file>>, "W", <<>>)
     \/ /\ up = <<<<"ZRPOS", r.size>>>> /\ Len(files) = snd.file /\ r.out
        /\ r.pc = "zdle" /\ down = <<>>

SendingData ==
  /\ snd.pc = "data" /\ snd.file \in 1 .. snd.count /\ Len(files) = snd.file /\ r.out
  /\ \/ /\ Acks(up) /\ r.size < Size
        /\ InBin(snd.format, Header("ZDATA", r.size), Packet(snd.format, NextChar, NextEnd, NextRest))
     \/ /\ Acks(up) /\ r.size < Size
        /\ r.block = "file" /\ InPacket(snd.format, NextChar, NextEnd, NextRest)
     \/ Acks(up) /\ r.size >= Size /\ \E pos \in Nat : InHex(Header("ZEOF", pos))
     \/ /\ r.size >= Size /\ Idle
        /\ \E acks : Acks(acks) /\ up = Append(acks, <<"ZRINIT", 0>>)
     \/ snd.style = "wait" /\ up = <<<<"ZACK", r.size>>>> /\ r.pc = "zdle" /\ down = <<>>

Finishing ==
  /\ snd.file = snd.count /\ Len(files) = snd.count /\ r.size >= Len(Files[snd.count]) /\ r.out
  /\ \/ snd.pc = "fin" /\ up = <<>> /\ InHex(Header("ZFIN", 0))
     \/ snd.pc = "fin" /\ up = <<<<"ZFIN", 0>>>> /\ r.pc = "ended"
     \/ snd.pc = "done" /\ r.pc = "ended"

\* What is stored of file n is its bytes from start on, and all of them once there is
\* another file.
StoredOf(n) ==
  /\ files[n].name = <<"name", n>>
  /\ files[n].closed <=> r.pc = "ended" /\ n = Len(files)
  /\ \A i \in DOMAIN files[n].data :
       files[n].start + i <= Len(Files[n]) /\ files[n].data[i] = <<"data", Files[n][files[n].start + i]>>
  /\ n < Len(files) => EndOf(n) >= Len(Files[n])

Stages == Initial \/ Offering \/ SendingData \/ Finishing

Stored == \A n \in DOMAIN files : StoredOf(n)

\* fl_fopen had no handle for the file that was offered.
TurnedAway == r.pc = "ended" /\ up = <<>> /\ snd.pc \in {"file", "aborted"}

Session == faults = 0 => (Stages /\ Stored) \/ TurnedAway

(***************************************************************************)
(* A session without faults: what is sent, token by token.                 *)
(***************************************************************************)
LEMMA ConsConcat ==
  ASSUME NEW a, IsSeq(a), NEW b, IsSeq(b), NEW x
  PROVE  Cons(x, a) \o b = Cons(x, a \o b) /\ <<>> \o b = b
<1>1. PICK S : a \in Seq(S) BY DEF IsSeq
<1>2. PICK Q : b \in Seq(Q) BY DEF IsSeq
<1> DEFINE T == S \cup Q \cup {x}
<1>3. a \in Seq(T) /\ b \in Seq(T) /\ <<x>> \in Seq(T)
  <2>1. Len(a) \in Nat /\ \A i \in 1 .. Len(a) : a[i] \in S BY <1>1
  <2>2. Len(b) \in Nat /\ \A i \in 1 .. Len(b) : b[i] \in Q BY <1>2
  <2>3. a = [i \in 1 .. Len(a) |-> a[i]] /\ b = [i \in 1 .. Len(b) |-> b[i]] BY <1>1, <1>2
  <2> QED BY <2>1, <2>2, <2>3
<1> HIDE DEF T
<1>4. (<<x>> \o a) \o b = <<x>> \o (a \o b) BY <1>3, ConcatAssociative
<1>5. <<>> \o b = b BY <1>3, ConcatEmptySeq
<1> QED BY <1>4, <1>5 DEF Cons

\* A tuple in front of a transmission is its tokens, one by one.
LEMMA Tuples2 == ASSUME NEW a, NEW b PROVE <<a, b>> = Cons(a, <<b>>)
<1> DEFINE T == {a, b}  s == <<a>> \o <<b>>
<1>1. <<a>> \in Seq(T) /\ <<b>> \in Seq(T) /\ <<a, b>> \in Seq(T) OBVIOUS
<1>2. Len(s) = 2 /\ s[1] = a /\ s[2] = b /\ s \in Seq(T) BY <1>1
<1> HIDE DEF T, s
<1>3. s = <<a, b>> BY <1>1, <1>2
<1> QED BY <1>3 DEF s, Cons

LEMMA Tuples3 == ASSUME NEW a, NEW b, NEW c PROVE <<a, b, c>> = Cons(a, <<b, c>>)
<1> DEFINE T == {a, b, c}  s == <<a>> \o <<b, c>>
<1>1. <<a>> \in Seq(T) /\ <<b, c>> \in Seq(T) /\ <<a, b, c>> \in Seq(T) OBVIOUS
<1>2. Len(s) = 3 /\ s[1] = a /\ s[2] = b /\ s[3] = c /\ s \in Seq(T) BY <1>1
<1> HIDE DEF T, s
<1>3. s = <<a, b, c>> BY <1>1, <1>2
<1> QED BY <1>3 DEF s, Cons

LEMMA Tuples4 == ASSUME NEW a, NEW b, NEW c, NEW d PROVE <<a, b, c, d>> = Cons(a, <<b, c, d>>)
<1> DEFINE T == {a, b, c, d}  s == <<a>> \o <<b, c, d>>
<1>1. <<a>> \in Seq(T) /\ <<b, c, d>> \in Seq(T) /\ <<a, b, c, d>> \in Seq(T) OBVIOUS
<1>2. Len(s) = 4 /\ s[1] = a /\ s[2] = b /\ s[3] = c /\ s[4] = d /\ s \in Seq(T) BY <1>1
<1> HIDE DEF T, s
<1>3. s = <<a, b, c, d>> BY <1>1, <1>2
<1> QED BY <1>3 DEF s, Cons

LEMMA Tuples5 ==
  ASSUME NEW a, NEW b, NEW c, NEW d, NEW e
  PROVE  <<a, b, c, d, e>> = Cons(a, <<b, c, d, e>>)
<1> DEFINE T == {a, b, c, d, e}  s == <<a>> \o <<b, c, d, e>>
<1>1. <<a>> \in Seq(T) /\ <<b, c, d, e>> \in Seq(T) /\ <<a, b, c, d, e>> \in Seq(T) OBVIOUS
<1>2. Len(s) = 5 /\ s[1] = a /\ s[2] = b /\ s[3] = c /\ s[4] = d /\ s[5] = e /\ s \in Seq(T) BY <1>1
<1> HIDE DEF T, s
<1>3. s = <<a, b, c, d, e>> BY <1>1, <1>2
<1> QED BY <1>3 DEF s, Cons

LEMMA TuplesAreSeqs ==
  /\ \A a : IsSeq(<<a>>) /\ <<a>> = Cons(a, <<>>)
  /\ \A a, b : IsSeq(<<a, b>>)
  /\ \A a, b, c : IsSeq(<<a, b, c>>)
  /\ \A a, b, c, d : IsSeq(<<a, b, c, d>>)
<1>1. \A a : IsSeq(<<a>>) /\ <<a>> = Cons(a, <<>>)
  <2> SUFFICES ASSUME NEW a PROVE IsSeq(<<a>>) /\ <<a>> = Cons(a, <<>>) OBVIOUS
  <2>1. <<a>> \in Seq({a}) OBVIOUS
  <2>2. <<a>> \o <<>> = <<a>> BY <2>1, ConcatEmptySeq
  <2> QED BY <2>1, <2>2 DEF IsSeq, Cons
<1>2. ASSUME NEW a, NEW b PROVE IsSeq(<<a, b>>)
  <2>1. IsSeq(<<b>>) BY <1>1
  <2>2. IsSeq(Cons(a, <<b>>)) BY <2>1, ConsFacts
  <2>3. <<a, b>> = Cons(a, <<b>>) BY Tuples2
  <2> QED BY <2>2, <2>3
<1>3. ASSUME NEW a, NEW b, NEW c PROVE IsSeq(<<a, b, c>>)
  <2>1. IsSeq(<<b, c>>) BY <1>2
  <2>2. IsSeq(Cons(a, <<b, c>>)) BY <2>1, ConsFacts
  <2>3. <<a, b, c>> = Cons(a, <<b, c>>) BY Tuples3
  <2> QED BY <2>2, <2>3
<1>4. ASSUME NEW a, NEW b, NEW c, NEW d PROVE IsSeq(<<a, b, c, d>>)
  <2>1. IsSeq(<<b, c, d>>) BY <1>3
  <2>2. IsSeq(Cons(a, <<b, c, d>>)) BY <2>1, ConsFacts
  <2>3. <<a, b, c, d>> = Cons(a, <<b, c, d>>) BY Tuples4
  <2> QED BY <2>2, <2>3
<1> QED BY <1>1, <1>2, <1>3, <1>4

\* The same where the tokens are the front of a transmission.
LEMMA InFront ==
  ASSUME NEW rest, IsSeq(rest)
  PROVE  /\ <<>> \o rest = rest
         /\ \A a : <<a>> \o rest = Cons(a, rest)
         /\ \A a, b : <<a, b>> \o rest = Cons(a, Cons(b, rest))
         /\ \A a, b, c : <<a, b, c>> \o rest = Cons(a, Cons(b, Cons(c, rest)))
         /\ \A a, b, c, d : <<a, b, c, d>> \o rest = Cons(a, Cons(b, Cons(c, Cons(d, rest))))
<1>1. <<>> \o rest = rest BY ConsConcat, EmptyIsSeq
<1>2. \A a : <<a>> \o rest = Cons(a, rest) BY DEF Cons
<1>3. ASSUME NEW a, NEW b PROVE <<a, b>> \o rest = Cons(a, Cons(b, rest))
  <2>1. IsSeq(<<b>>) BY TuplesAreSeqs
  <2>2. Cons(a, <<b>>) \o rest = Cons(a, <<b>> \o rest)
    <3>1. PICK s : s = <<b>> OBVIOUS
    <3>2. IsSeq(s) BY <2>1, <3>1
    <3>3. Cons(a, s) \o rest = Cons(a, s \o rest) BY <3>2, ConsConcat
    <3> QED BY <3>1, <3>3
  <2>3. <<a, b>> = Cons(a, <<b>>) BY Tuples2
  <2> QED BY <1>2, <2>2, <2>3
<1>4. ASSUME NEW a, NEW b, NEW c PROVE <<a, b, c>> \o rest = Cons(a, Cons(b, Cons(c, rest)))
  <2>1. IsSeq(<<b, c>>) BY TuplesAreSeqs
  <2>2. Cons(a, <<b, c>>) \o rest = Cons(a, <<b, c>> \o rest)
    <3>1. PICK s : s = <<b, c>> OBVIOUS
    <3>2. IsSeq(s) BY <2>1, <3>1
    <3>3. Cons(a, s) \o rest = Cons(a, s \o rest) BY <3>2, ConsConcat
    <3> QED BY <3>1, <3>3
  <2>3. <<a, b, c>> = Cons(a, <<b, c>>) BY Tuples3
  <2> QED BY <1>3, <2>2, <2>3
<1>5. ASSUME NEW a, NEW b, NEW c, NEW d
      PROVE  <<a, b, c, d>> \o rest = Cons(a, Cons(b, Cons(c, Cons(d, rest))))
  <2>1. IsSeq(<<b, c, d>>) BY TuplesAreSeqs
  <2>2. Cons(a, <<b, c, d>>) \o rest = Cons(a, <<b, c, d>> \o rest)
    <3>1. PICK s : s = <<b, c, d>> OBVIOUS
    <3>2. IsSeq(s) BY <2>1, <3>1
    <3>3. Cons(a, s) \o rest = Cons(a, s \o rest) BY <3>2, ConsConcat
    <3> QED BY <3>1, <3>3
  <2>3. <<a, b, c, d>> = Cons(a, <<b, c, d>>) BY Tuples4
  <2> QED BY <1>4, <2>2, <2>3
<1> QED BY <1>1, <1>2, <1>3, <1>4, <1>5

LEMMA InFront2 ==
  ASSUME NEW rest, IsSeq(rest), NEW a, NEW b
  PROVE  <<a, b>> \o rest = Cons(a, Cons(b, rest))
BY InFront, SMTT(60)

LEMMA InFront4 ==
  ASSUME NEW rest, IsSeq(rest), NEW a, NEW b, NEW c, NEW d
  PROVE  <<a, b, c, d>> \o rest = Cons(a, Cons(b, Cons(c, Cons(d, rest))))
BY InFront, SMTT(60)

LEMMA Assoc ==
  ASSUME NEW a, IsSeq(a), NEW b, IsSeq(b), NEW c, IsSeq(c)
  PROVE  (a \o b) \o c = a \o (b \o c)
<1>1. PICK S : a \in Seq(S) BY DEF IsSeq
<1>2. PICK Q : b \in Seq(Q) BY DEF IsSeq
<1>3. PICK R : c \in Seq(R) BY DEF IsSeq
<1> DEFINE T == S \cup Q \cup R
<1>4. S \subseteq T /\ Q \subseteq T /\ R \subseteq T OBVIOUS
<1> HIDE DEF T
<1>5. a \in Seq(T) /\ b \in Seq(T) /\ c \in Seq(T) BY <1>1, <1>2, <1>3, <1>4, SeqMonotonic
<1>6. (a \o b) \o c = a \o (b \o c) BY <1>5, ConcatAssociative
<1> QED BY <1>6

LEMMA CrcSent ==
  ASSUME NEW rest, IsSeq(rest), NEW format, NEW tokens
  PROVE  /\ CrcOf(Width(format), tokens) \o rest = Crc(format, tokens, rest)
         /\ IsSeq(CrcOf(Width(format), tokens)) /\ IsSeq(Crc(format, tokens, rest)) /\ IsSeq(Crc2(tokens, rest))
<1>1. CASE format = "bin32"
  <2>1. CrcOf(Width(format), tokens) = <<<<"crc32a", tokens>>, <<"crc32b", tokens>>>> BY <1>1 DEF CrcOf, Width
  <2>2. CrcOf(Width(format), tokens) \o rest = Crc(format, tokens, rest)
    <3>1. \A a, b : <<a, b>> \o rest = Cons(a, Cons(b, rest)) BY InFront2
    <3>2. Crc(format, tokens, rest) = Cons(<<"crc32a", tokens>>, Cons(<<"crc32b", tokens>>, rest))
      BY <1>1 DEF Crc, Crc2
    <3> QED BY <2>1, <3>1, <3>2, Zenon
  <2>3. IsSeq(CrcOf(Width(format), tokens)) BY <2>1, TuplesAreSeqs
  <2> QED BY <2>2, <2>3, ConsFacts DEF Crc, Crc2
<1>2. CASE format # "bin32"
  <2>1. CrcOf(Width(format), tokens) = <<<<"crc16", tokens>>>> BY <1>2 DEF CrcOf, Width
  <2>2. CrcOf(Width(format), tokens) \o rest = Crc(format, tokens, rest)
    BY <1>2, <2>1, InFront DEF Crc
  <2>3. IsSeq(CrcOf(Width(format), tokens)) BY <2>1, TuplesAreSeqs
  <2> QED BY <2>2, <2>3, ConsFacts DEF Crc, Crc2
<1> QED BY <1>1, <1>2

LEMMA HexSeqs ==
  ASSUME NEW h
  PROVE  /\ IsSeq(HexLf) /\ IsSeq(HexCr) /\ IsSeq(HexCrc(h)) /\ IsSeq(HexHdr(h)) /\ IsSeq(HexKind(h))
         /\ IsSeq(HexZdle(h)) /\ IsSeq(HexPad(h)) /\ IsSeq(HexAll(h))
<1>1. IsSeq(Cons(XON, <<>>)) BY ConsFacts, EmptyIsSeq
<1>2. IsSeq(HexLf) BY <1>1, ConsFacts DEF HexLf
<1>3. IsSeq(HexCr) BY <1>2, ConsFacts DEF HexCr
<1>4. IsSeq(HexCrc(h)) BY <1>3, ConsFacts DEF HexCrc
<1>5. IsSeq(HexHdr(h)) BY <1>4, ConsFacts DEF HexHdr
<1>6. IsSeq(HexKind(h)) BY <1>5, ConsFacts DEF HexKind
<1>7. IsSeq(HexZdle(h)) BY <1>6, ConsFacts DEF HexZdle
<1>8. IsSeq(HexPad(h)) BY <1>7, ConsFacts DEF HexPad
<1>9. IsSeq(HexAll(h)) BY <1>8, ConsFacts DEF HexAll
<1> QED BY <1>2, <1>3, <1>4, <1>5, <1>6, <1>7, <1>8, <1>9

LEMMA HexSent ==
  ASSUME NEW type, NEW pos
  PROVE  HexHeader(type, pos) = HexAll(Header(type, pos))
<1>1. PICK h : h = Header(type, pos) OBVIOUS
<1> DEFINE crc == <<<<"crc16", <<h>>>>>>  all == <<ZPAD, ZPAD, ZDLE, <<"kind", "hex">>, h>>
<1>2. HexHeader(type, pos) = (all \o crc) \o <<CR, LF, XON>>
  BY <1>1 DEF HexHeader, CrcOf
<1>3. IsSeq(crc) /\ IsSeq(<<CR, LF, XON>>) /\ IsSeq(<<ZPAD, ZDLE, <<"kind", "hex">>, h>>)
  BY TuplesAreSeqs
<1>4. all = Cons(ZPAD, <<ZPAD, ZDLE, <<"kind", "hex">>, h>>) BY Tuples5
<1>5. IsSeq(all) BY <1>3, <1>4, ConsFacts
<1>6. crc \o <<CR, LF, XON>> = HexCrc(h)
  <2>1. crc \o <<CR, LF, XON>> = Cons(<<"crc16", <<h>>>>, <<CR, LF, XON>>) BY <1>3, InFront
  <2>2. <<CR, LF, XON>> = Cons(CR, <<LF, XON>>) BY Tuples3
  <2>3. <<LF, XON>> = Cons(LF, <<XON>>) BY Tuples2
  <2>4. <<XON>> = Cons(XON, <<>>) BY TuplesAreSeqs
  <2> QED BY <2>1, <2>2, <2>3, <2>4 DEF HexCrc, HexCr, HexLf
<1> HIDE DEF crc, all
<1>7. HexHeader(type, pos) = all \o HexCrc(h)
  <2>1. PICK line : line = <<CR, LF, XON>> OBVIOUS
  <2>2. IsSeq(line) BY <1>3, <2>1
  <2>3. (all \o crc) \o line = all \o (crc \o line)
    <3>1. PICK a, b : a = all /\ b = crc OBVIOUS
    <3>2. IsSeq(a) /\ IsSeq(b) BY <1>3, <1>5, <3>1
    <3>3. (a \o b) \o line = a \o (b \o line) BY <2>2, <3>2, Assoc
    <3> QED BY <3>1, <3>3
  <2> QED BY <1>2, <1>6, <2>1, <2>3
<1>8. PICK four : four = <<ZPAD, ZDLE, <<"kind", "hex">>, h>> OBVIOUS
<1>9. all \o HexCrc(h) = Cons(ZPAD, four \o HexCrc(h))
  <2>1. IsSeq(four) /\ IsSeq(HexCrc(h)) BY <1>3, <1>8, HexSeqs
  <2>2. Cons(ZPAD, four) \o HexCrc(h) = Cons(ZPAD, four \o HexCrc(h)) BY <2>1, ConsConcat
  <2> QED BY <1>4, <1>8, <2>2
<1>10. four \o HexCrc(h) = HexPad(h)
  <2>1. \A a, b, c, d : <<a, b, c, d>> \o HexCrc(h) = Cons(a, Cons(b, Cons(c, Cons(d, HexCrc(h)))))
    BY HexSeqs, InFront4
  <2>2. four \o HexCrc(h) = Cons(ZPAD, Cons(ZDLE, Cons(<<"kind", "hex">>, Cons(h, HexCrc(h)))))
    BY <1>8, <2>1, Zenon
  <2> QED BY <2>2 DEF HexPad, HexZdle, HexKind, HexHdr
<1> QED BY <1>1, <1>7, <1>9, <1>10 DEF HexAll

LEMMA BinSeqs ==
  ASSUME NEW rest, IsSeq(rest), NEW format, NEW h
  PROVE  /\ IsSeq(BinHdr(format, h, rest)) /\ IsSeq(BinKind(format, h, rest))
         /\ IsSeq(BinZdle(format, h, rest)) /\ IsSeq(BinAll(format, h, rest))
<1>1. IsSeq(BinHdr(format, h, rest)) BY CrcSent, ConsFacts DEF BinHdr
<1>2. IsSeq(BinKind(format, h, rest)) BY <1>1, ConsFacts DEF BinKind
<1>3. IsSeq(BinZdle(format, h, rest)) BY <1>2, ConsFacts DEF BinZdle
<1>4. IsSeq(BinAll(format, h, rest)) BY <1>3, ConsFacts DEF BinAll
<1> QED BY <1>1, <1>2, <1>3, <1>4

LEMMA BinSent ==
  ASSUME NEW rest, IsSeq(rest), NEW format, NEW type, NEW pos
  PROVE  /\ BinHeader(format, type, pos) \o rest = BinAll(format, Header(type, pos), rest)
         /\ IsSeq(BinHeader(format, type, pos))
<1>1. PICK h : h = Header(type, pos) OBVIOUS
<1>2. PICK front : front = <<ZPAD, ZDLE, <<"kind", format>>, h>> OBVIOUS
<1>3. PICK crc : crc = CrcOf(Width(format), <<h>>) OBVIOUS
<1>4. BinHeader(format, type, pos) = front \o crc BY <1>1, <1>2, <1>3 DEF BinHeader
<1>5. IsSeq(front) /\ IsSeq(crc) BY <1>2, <1>3, TuplesAreSeqs, CrcSent
<1>6. crc \o rest = Crc(format, <<h>>, rest) /\ IsSeq(crc \o rest) BY <1>3, CrcSent
<1>7. (front \o crc) \o rest = front \o (crc \o rest) BY <1>5, Assoc
<1>8. front \o (crc \o rest) = Cons(ZPAD, Cons(ZDLE, Cons(<<"kind", format>>, Cons(h, crc \o rest))))
  <2>1. PICK more : more = crc \o rest OBVIOUS
  <2>2. IsSeq(more) BY <1>6, <2>1
  <2>3. \A a, b, c, d : <<a, b, c, d>> \o more = Cons(a, Cons(b, Cons(c, Cons(d, more)))) BY <2>2, InFront4
  <2>4. PICK kind : kind = <<"kind", format>> OBVIOUS
  <2>5. <<ZPAD, ZDLE, kind, h>> \o more = Cons(ZPAD, Cons(ZDLE, Cons(kind, Cons(h, more)))) BY <2>3
  <2> QED BY <1>2, <2>1, <2>4, <2>5
<1>9. IsSeq(front \o crc) BY <1>5, ConcatFacts
<1>10. (front \o crc) \o rest = BinAll(format, h, rest)
  BY <1>6, <1>7, <1>8 DEF BinAll, BinZdle, BinKind, BinHdr
<1> QED BY <1>1, <1>4, <1>9, <1>10

(***************************************************************************)
(* Induction over the natural numbers, for a set.                          *)
(***************************************************************************)
LEMMA Least ==
  ASSUME NEW T, T \subseteq Nat, T # {}
  PROVE  \E x \in T : \A y \in T : x <= y
<1> DEFINE R == OpToRel(<, Nat)
<1>1. IsWellFoundedOn(R, Nat)
  BY NatLessThanWellFounded
<1>2. PICK x \in T : \A y \in T : ~(<<y, x>> \in R)
  BY <1>1, WFMin
<1>3. \A y \in T : (<<y, x>> \in R) <=> y < x
  BY DEF OpToRel
<1> HIDE DEF R
<1>4. \A y \in T : ~(y < x)
  BY <1>2, <1>3, Zenon
<1>5. \A y \in T : x <= y
  BY <1>4
<1> QED BY <1>5

LEMMA SetInduction ==
  ASSUME NEW S, S \subseteq Nat, 0 \in S, \A n \in S : n + 1 \in S
  PROVE  S = Nat
<1>1. ASSUME S # Nat PROVE FALSE
  <2>1. PICK x \in Nat \ S : \A y \in Nat \ S : x <= y
    BY <1>1, Least
  <2>2. x # 0 /\ x - 1 \in Nat
    BY <2>1
  <2>3. x - 1 \in S
    BY <2>1, <2>2
  <2> QED BY <2>1, <2>2, <2>3
<1> QED BY <1>1

(***************************************************************************)
(* A session without faults: the subpackets of a file.                     *)
(***************************************************************************)
LEMMA PacketSent ==
  ASSUME NEW rest, IsSeq(rest), NEW format, NEW char, NEW end
  PROVE  /\ Subpacket(format, char, end) \o rest = Packet(format, char, end, rest)
         /\ IsSeq(Subpacket(format, char, end))
         /\ IsSeq(PacketEnd(format, char, end, rest)) /\ IsSeq(Packet(format, char, end, rest))
<1>1. PICK crc : crc = CrcOf(Width(format), <<char, <<"fin", end>>>>) OBVIOUS
<1>2. PICK mark : mark = <<"end", end>> OBVIOUS
<1>3. PICK sent : sent = Sent(char) OBVIOUS
<1>4. PICK tail : tail = Crc(format, <<char, <<"fin", end>>>>, rest) OBVIOUS
<1>5. IsSeq(crc) /\ crc \o rest = tail /\ IsSeq(tail) BY <1>1, <1>4, CrcSent
<1>6. IsSeq(<<ZDLE, mark>>) BY TuplesAreSeqs
<1>7. PICK pair : pair = <<ZDLE, mark>> OBVIOUS
<1>8. Subpacket(format, char, end) = (sent \o pair) \o crc BY <1>1, <1>2, <1>3, <1>7 DEF Subpacket
<1>9. IsSeq(pair) BY <1>6, <1>7
<1>10. pair \o tail = PacketEnd(format, char, end, rest)
  <2>1. <<ZDLE, mark>> \o tail = Cons(ZDLE, Cons(mark, tail)) BY <1>5, InFront2
  <2> QED BY <1>2, <1>4, <1>7, <2>1 DEF PacketEnd
<1>11. PICK over : over = PacketEnd(format, char, end, rest) OBVIOUS
<1>12. IsSeq(over)
  <2>1. IsSeq(Cons(mark, tail)) BY <1>5, ConsFacts
  <2>2. IsSeq(Cons(ZDLE, Cons(mark, tail))) BY <2>1, ConsFacts
  <2> QED BY <1>2, <1>4, <1>11, <2>2 DEF PacketEnd
<1>13. IsSeq(sent) /\ sent \o over = Packet(format, char, end, rest) /\ IsSeq(Packet(format, char, end, rest))
  <2>1. CASE char[1] = "data" /\ char[2] \in Escaped
    <3>1. PICK e : e = <<"escaped", char[2]>> OBVIOUS
    <3>2. sent = <<ZDLE, e>> BY <1>3, <2>1, <3>1 DEF Sent
    <3>3. <<ZDLE, e>> \o over = Cons(ZDLE, Cons(e, over)) BY <1>12, InFront2
    <3>4. IsSeq(Cons(e, over)) BY <1>12, ConsFacts
    <3>5. IsSeq(Cons(ZDLE, Cons(e, over))) BY <3>4, ConsFacts
    <3>6. Packet(format, char, end, rest) = Cons(ZDLE, Cons(e, over)) BY <1>11, <2>1, <3>1 DEF Packet
    <3> QED BY <3>2, <3>3, <3>5, <3>6, TuplesAreSeqs
  <2>2. CASE ~ (char[1] = "data" /\ char[2] \in Escaped)
    <3>1. sent = <<char>> BY <1>3, <2>2 DEF Sent
    <3>2. <<char>> \o over = Cons(char, over) BY DEF Cons
    <3>3. IsSeq(Cons(char, over)) BY <1>12, ConsFacts
    <3>4. Packet(format, char, end, rest) = Cons(char, over) BY <1>11, <2>2 DEF Packet
    <3> QED BY <3>1, <3>2, <3>3, <3>4, TuplesAreSeqs
  <2> QED BY <2>1, <2>2
<1>14. IsSeq(sent \o pair) BY <1>9, <1>13, ConcatFacts
<1>15. PICK both : both = sent \o pair OBVIOUS
<1>16. (both \o crc) \o rest = both \o tail
  <2>1. IsSeq(both) /\ IsSeq(crc) BY <1>5, <1>14, <1>15
  <2>2. (both \o crc) \o rest = both \o (crc \o rest) BY <2>1, Assoc
  <2> QED BY <1>5, <2>2
<1>17. IsSeq(both \o crc) BY <1>5, <1>14, <1>15, ConcatFacts
<1>18. both \o tail = sent \o (pair \o tail)
  <2>1. IsSeq(sent) /\ IsSeq(pair) /\ IsSeq(tail) BY <1>5, <1>9, <1>13
  <2>2. (sent \o pair) \o tail = sent \o (pair \o tail) BY <2>1, Assoc
  <2> QED BY <1>15, <2>2
<1> QED BY <1>8, <1>10, <1>11, <1>12, <1>13, <1>15, <1>16, <1>17, <1>18

\* The frame end of the subpacket that leaves i - 1 bytes, when all are sent at once.
EndAt(style, i) == IF i = 1 THEN "E" ELSE IF style = "query" THEN "Q" ELSE "G"
Piece(format, style, file, i) ==
  Subpacket(format, <<"data", Files[file][Len(Files[file]) - i + 1]>>, EndAt(style, i))

IsLast(last, format, style, file, n) ==
  last = [i \in 0 .. n |-> IF i = 0 THEN HexHeader("ZEOF", Len(Files[file]))
                           ELSE Piece(format, style, file, i) \o last[i - 1]]

LEMMA LastExists ==
  ASSUME NEW format, NEW style, NEW file
  PROVE  \A n \in Nat : \E last : IsLast(last, format, style, file, n)
<1> DEFINE Base == HexHeader("ZEOF", Len(Files[file]))
           S == {n \in Nat : \E last : IsLast(last, format, style, file, n)}
<1>1. 0 \in S
  <2> DEFINE last == [i \in 0 .. 0 |-> Base]
  <2>1. IsLast(last, format, style, file, 0)
    <3>1. \A i \in 0 .. 0 : i = 0 OBVIOUS
    <3> HIDE DEF Base
    <3>2. last = [i \in 0 .. 0 |-> IF i = 0 THEN Base ELSE Piece(format, style, file, i) \o last[i - 1]] BY <3>1
    <3> QED BY <3>2 DEF IsLast, Base
  <2> HIDE DEF last
  <2> QED BY <2>1
<1>2. ASSUME NEW n \in S PROVE n + 1 \in S
  <2>1. PICK last : IsLast(last, format, style, file, n) BY <1>2
  <2> DEFINE more == [i \in 0 .. n + 1 |-> IF i = n + 1 THEN Piece(format, style, file, n + 1) \o last[n] ELSE last[i]]
  <2>2. n \in Nat OBVIOUS
  <2> HIDE DEF S
  <2>3. \A i \in 0 .. n : last[i] = IF i = 0 THEN Base ELSE Piece(format, style, file, i) \o last[i - 1]
    BY <2>1, <2>2 DEF IsLast
  <2>4. \A i \in 0 .. n : more[i] = last[i] BY <2>2
  <2>5. more[n + 1] = Piece(format, style, file, n + 1) \o last[n] BY <2>2
  <2>6. ASSUME NEW i \in 0 .. n + 1
        PROVE  more[i] = IF i = 0 THEN Base ELSE Piece(format, style, file, i) \o more[i - 1]
    <3> HIDE DEF more, Base
    <3>1. CASE i = n + 1
      <4>1. i # 0 /\ i - 1 = n /\ n \in 0 .. n BY <2>2, <3>1
      <4> QED BY <2>4, <2>5, <3>1, <4>1
    <3>2. CASE i = 0 BY <2>2, <2>3, <2>4, <3>2
    <3>3. CASE i \in 1 .. n
      <4>1. i \in 0 .. n /\ i - 1 \in 0 .. n /\ i # 0 BY <2>2, <3>3
      <4> QED BY <2>3, <2>4, <4>1
    <3> QED BY <2>2, <3>1, <3>2, <3>3
  <2>7. IsLast(more, format, style, file, n + 1)
    <3>1. more = [i \in 0 .. n + 1 |-> more[i]] OBVIOUS
    <3> HIDE DEF more
    <3> QED BY <2>6, <3>1 DEF IsLast
  <2> HIDE DEF more
  <2> QED BY <2>2, <2>7 DEF S
<1>3. S \subseteq Nat OBVIOUS
<1>4. \A n \in S : n + 1 \in S BY <1>2
<1> HIDE DEF S
<1>5. S = Nat BY <1>1, <1>3, <1>4, SetInduction
<1> QED BY <1>5 DEF S

LEMMA RemainingIsLast ==
  ASSUME NEW format, NEW style, NEW file, Len(Files[file]) \in Nat
  PROVE  IsLast(Remaining(format, style, file), format, style, file, Len(Files[file]))
<1>1. Remaining(format, style, file) = CHOOSE last : IsLast(last, format, style, file, Len(Files[file]))
  BY Zenon DEF Remaining, IsLast, Piece, EndAt
<1>2. \E last : IsLast(last, format, style, file, Len(Files[file])) BY LastExists
<1> HIDE DEF IsLast
<1> QED BY <1>1, <1>2, Zenon

\* What is left of a file: ZEOF, or the next byte and what is left then.
LEMMA RemainingIs ==
  ASSUME NEW format, NEW style, NEW file, Len(Files[file]) \in Nat, NEW k \in 0 .. Len(Files[file])
  PROVE  /\ IsSeq(Remaining(format, style, file)[k])
         /\ k = 0 => Remaining(format, style, file)[k] = HexAll(Header("ZEOF", Len(Files[file])))
         /\ k # 0 => Remaining(format, style, file)[k] =
                       Packet(format, <<"data", Files[file][Len(Files[file]) - k + 1]>>, EndAt(style, k),
                              Remaining(format, style, file)[k - 1])
<1>1. PICK size : size = Len(Files[file]) OBVIOUS
<1>2. PICK last : last = Remaining(format, style, file) OBVIOUS
<1>3. last = [i \in 0 .. size |-> IF i = 0 THEN HexHeader("ZEOF", size) ELSE Piece(format, style, file, i) \o last[i - 1]]
  BY <1>1, <1>2, RemainingIsLast, SMTT(60) DEF IsLast
<1>4. size \in Nat /\ k \in 0 .. size BY <1>1
<1>5. last[0] = HexAll(Header("ZEOF", size)) BY <1>3, <1>4, HexSent
<1>6. \A i \in 1 .. size : last[i] = Piece(format, style, file, i) \o last[i - 1]
  <2> SUFFICES ASSUME NEW i \in 1 .. size PROVE last[i] = Piece(format, style, file, i) \o last[i - 1] OBVIOUS
  <2>1. i \in 0 .. size /\ i # 0 BY <1>4
  <2>2. last[i] = IF i = 0 THEN HexHeader("ZEOF", size) ELSE Piece(format, style, file, i) \o last[i - 1]
    BY <1>3, <2>1
  <2> QED BY <2>1, <2>2
<1> DEFINE S == {i \in Nat : i <= size => IsSeq(last[i])}
<1>7. 0 \in S BY <1>5, HexSeqs
<1>8. ASSUME NEW i \in S PROVE i + 1 \in S
  <2>1. SUFFICES ASSUME i + 1 <= size PROVE IsSeq(last[i + 1]) OBVIOUS
  <2>2. i \in Nat /\ IsSeq(last[i]) BY <1>4, <2>1
  <2>3. i + 1 \in 1 .. size /\ (i + 1) - 1 = i BY <1>4, <2>1, <2>2
  <2>4. last[i + 1] = Piece(format, style, file, i + 1) \o last[i] BY <1>6, <2>3
  <2>5. IsSeq(Piece(format, style, file, i + 1)) BY EmptyIsSeq, PacketSent DEF Piece
  <2> QED BY <2>2, <2>4, <2>5, ConcatFacts
<1>9. S \subseteq Nat OBVIOUS
<1>10. \A i \in S : i + 1 \in S BY <1>8
<1> HIDE DEF S
<1>11. S = Nat BY <1>7, <1>9, <1>10, SetInduction
<1>12. \A i \in 0 .. size : IsSeq(last[i]) BY <1>4, <1>11 DEF S
<1>13. ASSUME k # 0
       PROVE  last[k] = Packet(format, <<"data", Files[file][size - k + 1]>>, EndAt(style, k), last[k - 1])
  <2>1. k \in 1 .. size /\ k - 1 \in 0 .. size BY <1>4, <1>13
  <2>2. last[k] = Piece(format, style, file, k) \o last[k - 1] BY <1>6, <2>1
  <2>3. PICK rest : rest = last[k - 1] OBVIOUS
  <2>4. IsSeq(rest) BY <1>12, <2>1, <2>3
  <2>5. Piece(format, style, file, k) \o rest
          = Packet(format, <<"data", Files[file][size - k + 1]>>, EndAt(style, k), rest)
    BY <1>1, <2>4, PacketSent DEF Piece
  <2> QED BY <2>2, <2>3, <2>5
<1> QED BY <1>1, <1>2, <1>4, <1>5, <1>12, <1>13

LEMMA NoneRemain ==
  ASSUME NEW format, NEW style, NEW file, Len(Files[file]) \in Nat, NEW k, k = 0
  PROVE  Remaining(format, style, file)[k] = HexAll(Header("ZEOF", Len(Files[file])))
<1>1. PICK size : size = Len(Files[file]) OBVIOUS
<1>2. PICK last : last = Remaining(format, style, file) OBVIOUS
<1>3. last = [i \in 0 .. size |-> IF i = 0 THEN HexHeader("ZEOF", size) ELSE Piece(format, style, file, i) \o last[i - 1]]
  <2>1. IsLast(Remaining(format, style, file), format, style, file, Len(Files[file])) BY RemainingIsLast
  <2>2. IsLast(last, format, style, file, size) BY <1>1, <1>2, <2>1
  <2> QED BY <1>1, <2>2 DEF IsLast
<1>4. k \in 0 .. size BY <1>1
<1>5. last[k] = HexHeader("ZEOF", size) BY <1>3, <1>4
<1> QED BY <1>1, <1>2, <1>5, HexSent

(***************************************************************************)
(* A session without faults: what one read of the receiver takes.          *)
(***************************************************************************)
LEMMA RecvFacts ==
  ASSUME NEW x, NEW rest, IsSeq(rest), down = Cons(x, rest)
  PROVE  zm_recv = {<<x, 1>>} /\ SubSeq(down, 1 + 1, Len(down)) = rest
<1>1. down # <<>> /\ Head(down) = x /\ SubSeq(down, 2, Len(down)) = rest BY ConsFacts
<1>2. 1 + 1 = 2 OBVIOUS
<1> QED BY <1>1, <1>2 DEF zm_recv

LEMMA PlainFacts ==
  ASSUME NEW x, NEW rest, IsSeq(rest), down = Cons(x, rest), x # ZDLE, x # XON
  PROVE  zm_read_escaped = {<<x, 1>>} /\ SubSeq(down, 1 + 1, Len(down)) = rest
<1>1. /\ down # <<>> /\ Head(down) = x /\ down[1] = x /\ SubSeq(down, 2, Len(down)) = rest
      /\ Len(rest) \in Nat /\ Len(down) = Len(rest) + 1
  BY ConsFacts, SeqFacts
<1>2. {k \in 1 .. 5 : k <= Len(down) /\ \A i \in 1 .. k : down[i] = ZDLE} = {}
  <2>1. ASSUME NEW k \in 1 .. 5, \A i \in 1 .. k : down[i] = ZDLE PROVE FALSE
    <3>1. 1 \in 1 .. k OBVIOUS
    <3> QED BY <1>1, <2>1, <3>1
  <2> QED BY <2>1
<1>3. Cans = 0 BY <1>2, FS_EmptySet DEF Cans
<1>4. ~ (down = <<>> \/ (Cans = Len(down) /\ Cans < 5)) BY <1>1, <1>3
<1>5. zm_read_escaped = {<<IF Head(down) = XON THEN AGAIN ELSE Head(down), 1>>}
  BY <1>3, <1>4 DEF zm_read_escaped
<1>6. 1 + 1 = 2 OBVIOUS
<1> QED BY <1>1, <1>5, <1>6

LEMMA EscapedFacts ==
  ASSUME NEW y, NEW rest, IsSeq(rest), down = Cons(ZDLE, Cons(y, rest)), y # ZDLE
  PROVE  zm_read_escaped = {<<Unescaped(y), 2>>} /\ SubSeq(down, 2 + 1, Len(down)) = rest
<1> DEFINE more == Cons(y, rest)
<1>1. IsSeq(more) /\ Len(more) = Len(rest) + 1 /\ more[1] = y /\ more # <<>> /\ Tail(more) = rest
  BY ConsFacts
<1>2. Len(rest) \in Nat BY SeqFacts
<1> HIDE DEF more
<1>3. down = Cons(ZDLE, more) BY DEF more
<1>4. down # <<>> /\ down[1] = ZDLE /\ Tail(down) = more /\ Len(down) = Len(rest) + 2 /\ IsSeq(down)
  <2>1. IsSeq(Cons(ZDLE, more)) /\ Len(Cons(ZDLE, more)) = Len(more) + 1 /\ Cons(ZDLE, more) # <<>>
        /\ Cons(ZDLE, more)[1] = ZDLE /\ Tail(Cons(ZDLE, more)) = more
    BY <1>1, ConsFacts
  <2> QED BY <1>1, <1>2, <1>3, <2>1
<1>5. PICK S : down \in Seq(S) BY <1>4 DEF IsSeq
<1>6. down[2] = y
  <2>1. Tail(down)[1] = down[1 + 1] BY <1>2, <1>4, <1>5, HeadTailProperties
  <2> QED BY <1>1, <1>4, <2>1
<1>7. {k \in 1 .. 5 : k <= Len(down) /\ \A i \in 1 .. k : down[i] = ZDLE} = {1}
  <2>1. ASSUME NEW k \in 1 .. 5, \A i \in 1 .. k : down[i] = ZDLE PROVE k = 1
    <3>1. ~ (2 \in 1 .. k) BY <1>6, <2>1
    <3> QED BY <3>1
  <2>2. \A i \in 1 .. 1 : down[i] = ZDLE BY <1>4
  <2>3. 1 \in 1 .. 5 /\ 1 <= Len(down) BY <1>2, <1>4
  <2> QED BY <2>1, <2>2, <2>3
<1>8. Cans = 1 BY <1>7, FS_Singleton DEF Cans
<1>9. ~ (down = <<>> \/ (Cans = Len(down) /\ Cans < 5)) BY <1>2, <1>4, <1>8
<1>10. zm_read_escaped = {<<Unescaped(down[Cans + 1]), Cans + 1>>}
  BY <1>8, <1>9 DEF zm_read_escaped
<1>11. SubSeq(down, 3, Len(down)) = rest
  <2>1. more # <<>> /\ down # <<>> BY <1>1, <1>4
  <2>2. \A n \in Nat : n + 2 - 1 = n + 1 /\ n + 2 >= 1 OBVIOUS
  <2>3. Len(rest) = Len(down) - 2 /\ Len(down) \in Nat BY <1>2, <1>4
  <2>4. \A i \in 1 .. Len(rest) : rest[i] = down[i + 2]
    <3> SUFFICES ASSUME NEW i \in 1 .. Len(rest) PROVE rest[i] = down[i + 2] OBVIOUS
    <3>1. more \in Seq(S) BY <1>4, <1>5, HeadTailProperties
    <3>2. Tail(more)[i] = more[i + 1] BY <1>1, <3>1, HeadTailProperties
    <3>3. Tail(down)[i + 1] = down[(i + 1) + 1]
      <4>1. Len(Tail(down)) = Len(rest) + 1 BY <1>1, <1>4
      <4>2. i + 1 \in 1 .. Len(Tail(down)) BY <1>2, <4>1
      <4> QED BY <1>4, <1>5, <4>2, HeadTailProperties
    <3> QED BY <1>1, <1>4, <3>2, <3>3, SMTT(60)
  <2>5. rest \in Seq(S)
    <3>1. more \in Seq(S) BY <1>4, <1>5, HeadTailProperties
    <3> QED BY <1>1, <3>1, HeadTailProperties
  <2>6. SubSeq(down, 3, Len(down)) \in Seq(S) /\ Len(SubSeq(down, 3, Len(down))) = Len(rest)
        /\ \A i \in 1 .. Len(rest) : SubSeq(down, 3, Len(down))[i] = down[i + 2]
    BY <1>2, <1>5, <2>3
  <2>7. \A i \in 1 .. Len(rest) : SubSeq(down, 3, Len(down))[i] = rest[i] BY <2>4, <2>6
  <2> QED BY <2>5, <2>6, <2>7, SeqEqual
<1>12. 2 + 1 = 3 /\ 1 + 1 = 2 OBVIOUS
<1> QED BY <1>6, <1>8, <1>10, <1>11, <1>12

(***************************************************************************)
(* A session without faults: a step of the receiver handles a token; ESC   *)
(* is not pressed and no answer is lost.                                   *)
(***************************************************************************)
Clean == faults = 0 /\ faults' = 0

Handle(c) ==
  \/ r.pc = "rz" /\ OnRz(c, 0)
  \/ r.pc = "zdle" /\ OnZdle(c, 0)
  \/ r.pc = "kind" /\ OnKind(c, 0)
  \/ r.pc = "hex" /\ OnHex(c, 0)
  \/ r.pc \in {"cr", "lf"} /\ OnCrLf(c, 0)
  \/ r.pc = "bin" /\ OnBin(c, 0)
  \/ r.pc = "data" /\ OnData(c, 0)
  \/ r.pc = "crc" /\ OnCrc(c, 0)

Takes(c, rest) == snd' = snd /\ down' = rest /\ Handle(c)

LEMMA CleanAnswers ==
  ASSUME Clean, NEW used \in {0, 1}
  PROVE  /\ Silent(used) => used = 0 /\ up' = up
         /\ \A type, pos : Answer(type, pos, used) => used = 0 /\ up' = Append(up, <<type, pos>>)
BY DEF Clean, Silent, Answer

\* Every end of a read counts the press of ESC that it was, and takes no fault back.
NoneBefore(used) == used = 0 /\ faults = 0

LEMMA EscCounts ==
  ASSUME faults \in Nat, faults' = 0, NEW used \in {0, 1}, NEW c
  PROVE  /\ OnRz(c, used) => NoneBefore(used)
         /\ OnZdle(c, used) => NoneBefore(used)
         /\ OnKind(c, used) => NoneBefore(used)
         /\ OnHex(c, used) => NoneBefore(used)
         /\ OnCrLf(c, used) => NoneBefore(used)
         /\ OnBin(c, used) => NoneBefore(used)
         /\ OnData(c, used) => NoneBefore(used)
         /\ OnCrc(c, used) => NoneBefore(used)
<1>1. Silent(used) => NoneBefore(used) BY DEF Silent, NoneBefore
<1>2. \A type, pos : Answer(type, pos, used) => NoneBefore(used) BY DEF Answer, NoneBefore
<1>3. Bail(used) => NoneBefore(used) BY <1>1 DEF Bail
<1>4. Reject(used) => NoneBefore(used) BY <1>2 DEF Reject
<1>5. \A e : NoHeader(e, used) => NoneBefore(used) BY <1>3, <1>4 DEF NoHeader
<1>6. \A e : NoBlock(e, used) => NoneBefore(used) BY <1>1, <1>2, <1>3 DEF NoBlock
<1>7. \A got : Keep(got, used) => NoneBefore(used) BY <1>1 DEF Keep
<1>8. \A header : Dispatch(header, used) => NoneBefore(used)
  <2> SUFFICES ASSUME NEW header, Dispatch(header, used) PROVE NoneBefore(used) OBVIOUS
  <2>1. Answer("ZRINIT", 0, used) \/ Answer("ZFIN", 0, used) \/ Silent(used) BY DEF Dispatch
  <2> QED BY <1>1, <1>2, <2>1
<1>9. Block(used) => NoneBefore(used)
  <2>1. ASSUME NEW name, Create(name, used) PROVE NoneBefore(used)
    <3>1. \/ faults' = faults + used \/ faults' = faults + used + 1
          \/ Answer("ZRPOS", r.size, used)
      BY <2>1 DEF Create
    <3> QED BY <1>2, <3>1 DEF NoneBefore
  <2>2. ASSUME NEW end, Store(end, used) PROVE NoneBefore(used)
    <3>1. Silent(used) \/ Answer("ZACK", r.size + Counted(r.got), used) BY <2>2 DEF Store
    <3> QED BY <1>1, <1>2, <3>1
  <2> QED BY <1>3, <2>1, <2>2 DEF Block
<1>10. OnRz(c, used) => NoneBefore(used) BY <1>1, <1>3 DEF OnRz
<1>11. OnZdle(c, used) => NoneBefore(used) BY <1>1, <1>4 DEF OnZdle
<1>12. OnKind(c, used) => NoneBefore(used)
  <2> SUFFICES ASSUME OnKind(c, used) PROVE NoneBefore(used) OBVIOUS
  <2>1. Silent(used) \/ Reject(used) BY DEF OnKind
  <2> QED BY <1>1, <1>4, <2>1
<1>13. OnHex(c, used) => NoneBefore(used) BY <1>1, <1>4, <1>5, <1>7 DEF OnHex
<1>14. OnCrLf(c, used) => NoneBefore(used)
  <2> SUFFICES ASSUME OnCrLf(c, used) PROVE NoneBefore(used) OBVIOUS
  <2>1. Silent(used) \/ Dispatch(Head(r.got), used) \/ NoHeader(c, used) BY DEF OnCrLf
  <2> QED BY <1>1, <1>5, <1>8, <2>1
<1>15. OnBin(c, used) => NoneBefore(used) BY <1>4, <1>5, <1>7, <1>8 DEF OnBin
<1>16. OnData(c, used) => NoneBefore(used) BY <1>1, <1>6, <1>7 DEF OnData
<1>17. OnCrc(c, used) => NoneBefore(used) BY <1>1, <1>6, <1>9 DEF OnCrc
<1> QED BY <1>10, <1>11, <1>12, <1>13, <1>14, <1>15, <1>16, <1>17

\* The set of reads that may end where the receiver is.
Ready == IF r.pc \in {"zdle", "hex"} THEN zm_recv ELSE zm_read_escaped

LEMMA CleanStep ==
  ASSUME Receiver, Clean
  PROVE  \/ SkipXon
         \/ \E y \in Ready : y[1] # AGAIN /\ Takes(y[1], SubSeq(down, y[2] + 1, Len(down)))
<1> DEFINE Result == \E y \in Ready : y[1] # AGAIN /\ Takes(y[1], SubSeq(down, y[2] + 1, Len(down)))
<1>1. ASSUME NEW R, R = Ready, NEW x \in Reads(R), x[3] = 0, Taken(r.pc, x), Handle(x[1]) PROVE Result
  <2>1. PICK y \in R : x = <<y[1], y[2], 0>> \/ x = <<CANCELLED, 0, 1>> BY <1>1 DEF Reads
  <2>2. x = <<y[1], y[2], 0>> BY <1>1, <2>1
  <2>3. x[1] = y[1] /\ x[2] = y[2] BY <2>2
  <2> QED BY <1>1, <2>3 DEF Taken, Takes
<1>2. \A R : \A x \in Reads(R) : x[3] \in {0, 1} BY DEF Reads
<1> HIDE DEF Result
<1>3. CASE AwaitRz
  <2>1. PICK x \in Reads(zm_read_escaped) : Taken("rz", x) /\ OnRz(x[1], x[3]) BY <1>3 DEF AwaitRz
  <2>2. x[3] = 0 BY <1>2, <2>1, EscCounts DEF Clean, NoneBefore
  <2>3. r.pc = "rz" BY <2>1 DEF Taken
  <2> QED BY <1>1, <2>1, <2>2, <2>3 DEF Ready, Handle, Result
<1>4. CASE AwaitZdle
  <2>1. PICK x \in Reads(zm_recv) : Taken("zdle", x) /\ OnZdle(x[1], x[3]) BY <1>4 DEF AwaitZdle
  <2>2. x[3] = 0 BY <1>2, <2>1, EscCounts DEF Clean, NoneBefore
  <2>3. r.pc = "zdle" BY <2>1 DEF Taken
  <2> QED BY <1>1, <2>1, <2>2, <2>3 DEF Ready, Handle, Result
<1>5. CASE ReadKind
  <2>1. PICK x \in Reads(zm_read_escaped) : Taken("kind", x) /\ OnKind(x[1], x[3]) BY <1>5 DEF ReadKind
  <2>2. x[3] = 0 BY <1>2, <2>1, EscCounts DEF Clean, NoneBefore
  <2>3. r.pc = "kind" BY <2>1 DEF Taken
  <2> QED BY <1>1, <2>1, <2>2, <2>3 DEF Ready, Handle, Result
<1>6. CASE ReadHex
  <2>1. PICK x \in Reads(zm_recv) : Taken("hex", x) /\ OnHex(x[1], x[3]) BY <1>6 DEF ReadHex
  <2>2. x[3] = 0 BY <1>2, <2>1, EscCounts DEF Clean, NoneBefore
  <2>3. r.pc = "hex" BY <2>1 DEF Taken
  <2> QED BY <1>1, <2>1, <2>2, <2>3 DEF Ready, Handle, Result
<1>7. CASE ReadCrLf
  <2>1. PICK x \in Reads(zm_read_escaped) : (Taken("cr", x) \/ Taken("lf", x)) /\ OnCrLf(x[1], x[3])
    BY <1>7 DEF ReadCrLf
  <2>2. x[3] = 0 BY <1>2, <2>1, EscCounts DEF Clean, NoneBefore
  <2>3. r.pc \in {"cr", "lf"} BY <2>1 DEF Taken
  <2> QED BY <1>1, <2>1, <2>2, <2>3 DEF Ready, Handle, Result, Taken
<1>8. CASE ReadBin
  <2>1. PICK x \in Reads(zm_read_escaped) : Taken("bin", x) /\ OnBin(x[1], x[3]) BY <1>8 DEF ReadBin
  <2>2. x[3] = 0 BY <1>2, <2>1, EscCounts DEF Clean, NoneBefore
  <2>3. r.pc = "bin" BY <2>1 DEF Taken
  <2> QED BY <1>1, <2>1, <2>2, <2>3 DEF Ready, Handle, Result
<1>9. CASE ReadData
  <2>1. PICK x \in Reads(zm_read_escaped) : Taken("data", x) /\ OnData(x[1], x[3]) BY <1>9 DEF ReadData
  <2>2. x[3] = 0 BY <1>2, <2>1, EscCounts DEF Clean, NoneBefore
  <2>3. r.pc = "data" BY <2>1 DEF Taken
  <2> QED BY <1>1, <2>1, <2>2, <2>3 DEF Ready, Handle, Result
<1>10. CASE ReadCrc
  <2>1. PICK x \in Reads(zm_read_escaped) : Taken("crc", x) /\ OnCrc(x[1], x[3]) BY <1>10 DEF ReadCrc
  <2>2. x[3] = 0 BY <1>2, <2>1, EscCounts DEF Clean, NoneBefore
  <2>3. r.pc = "crc" BY <2>1 DEF Taken
  <2> QED BY <1>1, <2>1, <2>2, <2>3 DEF Ready, Handle, Result
<1> QED BY <1>3, <1>4, <1>5, <1>6, <1>7, <1>8, <1>9, <1>10 DEF Receiver, Result

\* Nothing on the line, or the program ended: no step.
LEMMA NothingToRead ==
  ASSUME down = <<>> \/ r.pc = "ended", Receiver, Clean
  PROVE  FALSE
<1>1. CASE r.pc = "ended"
  <2>1. ~SkipXon /\ ~ \E c : Handle(c) BY <1>1 DEF SkipXon, Handle
  <2> QED BY <2>1, CleanStep DEF Takes
<1>2. CASE down = <<>>
  <2>1. Ready = {} /\ zm_read_escaped = {} BY <1>2 DEF Ready, zm_recv, zm_read_escaped
  <2> QED BY <2>1, CleanStep DEF SkipXon
<1> QED BY <1>1, <1>2

LEMMA ReadsByte ==
  ASSUME NEW x, NEW rest, IsSeq(rest), down = Cons(x, rest), r.pc \in {"zdle", "hex"}
  PROVE  ~Waiting /\ (Receiver /\ Clean => Takes(x, rest))
<1>1. zm_recv = {<<x, 1>>} /\ SubSeq(down, 1 + 1, Len(down)) = rest BY RecvFacts
<1>2. ~SkipXon BY DEF SkipXon
<1>3. Ready = zm_recv BY DEF Ready
<1>4. ~Waiting BY <1>1 DEF Waiting
<1>5. ASSUME Receiver, Clean PROVE Takes(x, rest)
  <2>1. PICK y \in {<<x, 1>>} : Takes(y[1], SubSeq(down, y[2] + 1, Len(down)))
    BY <1>1, <1>2, <1>3, <1>5, CleanStep
  <2>2. y[1] = x /\ y[2] = 1 OBVIOUS
  <2> QED BY <1>1, <2>1, <2>2
<1> QED BY <1>4, <1>5

LEMMA ReadsPlain ==
  ASSUME NEW x, NEW rest, IsSeq(rest), down = Cons(x, rest), r.pc \notin {"zdle", "hex", "ended"},
         x # ZDLE, x # XON, x # AGAIN
  PROVE  ~Waiting /\ (Receiver /\ Clean => Takes(x, rest))
<1>1. zm_read_escaped = {<<x, 1>>} /\ SubSeq(down, 1 + 1, Len(down)) = rest BY PlainFacts
<1>2. ~SkipXon
  <2>1. \A y \in {<<x, 1>>} : y[1] = x OBVIOUS
  <2> QED BY <1>1, <2>1 DEF SkipXon
<1>3. Ready = zm_read_escaped BY DEF Ready
<1>4. ~Waiting BY <1>1 DEF Waiting
<1>5. ASSUME Receiver, Clean PROVE Takes(x, rest)
  <2>1. PICK y \in {<<x, 1>>} : Takes(y[1], SubSeq(down, y[2] + 1, Len(down)))
    BY <1>1, <1>2, <1>3, <1>5, CleanStep
  <2>2. y[1] = x /\ y[2] = 1 OBVIOUS
  <2> QED BY <1>1, <2>1, <2>2
<1> QED BY <1>4, <1>5

LEMMA ReadsEscaped ==
  ASSUME NEW x, NEW rest, IsSeq(rest), down = Cons(ZDLE, Cons(x, rest)), r.pc \notin {"zdle", "hex", "ended"},
         x # ZDLE, Unescaped(x) # AGAIN
  PROVE  ~Waiting /\ (Receiver /\ Clean => Takes(Unescaped(x), rest))
<1>1. zm_read_escaped = {<<Unescaped(x), 2>>} /\ SubSeq(down, 2 + 1, Len(down)) = rest BY EscapedFacts
<1>2. ~SkipXon
  <2>1. \A y \in {<<Unescaped(x), 2>>} : y[1] = Unescaped(x) OBVIOUS
  <2> QED BY <1>1, <2>1 DEF SkipXon
<1>3. Ready = zm_read_escaped BY DEF Ready
<1>4. ~Waiting BY <1>1 DEF Waiting
<1>5. ASSUME Receiver, Clean PROVE Takes(Unescaped(x), rest)
  <2>1. PICK y \in {<<Unescaped(x), 2>>} : Takes(y[1], SubSeq(down, y[2] + 1, Len(down)))
    BY <1>1, <1>2, <1>3, <1>5, CleanStep
  <2>2. y[1] = Unescaped(x) /\ y[2] = 2 OBVIOUS
  <2> QED BY <1>1, <2>1, <2>2
<1> QED BY <1>4, <1>5

(***************************************************************************)
(* A session without faults: the receiver reads a header or a subpacket    *)
(* token by token, and handles it when it is complete.                     *)
(***************************************************************************)
Unmoved ==
  /\ files' = files /\ snd' = snd /\ up' = up
  /\ r'.block = r.block /\ r'.size = r.size /\ r'.out = r.out

\* A token that is none of those that reading treats apart.
LEMMA OtherToken ==
  ASSUME NEW x, x[1] \notin {"zdle", "xon", "again", "cancelled", "badescape"}
  PROVE  x # ZDLE /\ x # XON /\ x # AGAIN /\ ~IsError(x)
BY DEF ZDLE, XON, AGAIN, IsError, CANCELLED, BAD_ESCAPE

LEMMA GoFacts ==
  ASSUME TypeInv, NEW pc, Go(pc)
  PROVE  /\ r'.pc = pc /\ r'.got = <<>> /\ r'.crc = <<>> /\ r'.width = r.width /\ files' = files
         /\ r'.block = r.block /\ r'.size = r.size /\ r'.out = r.out
BY DEF Go, TypeInv, ReceiverOK

LEMMA KeepFacts ==
  ASSUME TypeInv, NEW got, Keep(got, 0), Clean
  PROVE  /\ r'.pc = r.pc /\ r'.got = got /\ r'.crc = r.crc /\ r'.width = r.width /\ files' = files
         /\ r'.block = r.block /\ r'.size = r.size /\ r'.out = r.out /\ up' = up
BY DEF Keep, Silent, TypeInv, ReceiverOK

\* Before a header: what is not a ZDLE is passed over.
LEMMA ZdleStep ==
  ASSUME TypeInv, r.pc = "zdle", NEW x, NEW rest, IsSeq(rest), down = Cons(x, rest), ~IsError(x)
  PROVE  /\ ~Waiting
         /\ Receiver /\ Clean =>
              /\ Unmoved /\ down' = rest /\ r'.got = <<>> /\ r'.pc = IF x = ZDLE THEN "kind" ELSE "zdle"
<1>1. ~Waiting /\ (Receiver /\ Clean => Takes(x, rest)) BY ReadsByte
<1>2. ASSUME Receiver, Clean
      PROVE  /\ Unmoved /\ down' = rest /\ r'.got = <<>> /\ r'.pc = IF x = ZDLE THEN "kind" ELSE "zdle"
  <2>1. snd' = snd /\ down' = rest /\ OnZdle(x, 0) BY <1>1, <1>2 DEF Takes, Handle
  <2>2. Go(IF x = ZDLE THEN "kind" ELSE "zdle") /\ Silent(0) BY <2>1 DEF OnZdle
  <2>3. up' = up BY <2>2 DEF Silent
  <2> QED BY <2>1, <2>2, <2>3, GoFacts DEF Unmoved
<1> QED BY <1>1, <1>2

LEMMA KindStep ==
  ASSUME TypeInv, r.pc = "kind", r.got = <<>>, NEW kind, NEW rest, IsSeq(rest), down = Cons(<<"kind", kind>>, rest)
  PROVE  /\ ~Waiting
         /\ Receiver /\ Clean =>
              /\ Unmoved /\ down' = rest /\ r'.got = <<>> /\ r'.pc = IF kind = "hex" THEN "hex" ELSE "bin"
              /\ r'.width = Width(kind)
<1>1. PICK x : x = <<"kind", kind>> OBVIOUS
<1>2. x[1] = "kind" /\ x[2] = kind BY <1>1
<1>3. x # ZDLE /\ x # XON /\ x # AGAIN /\ ~IsError(x) BY <1>2, OtherToken
<1>4. ~Waiting /\ (Receiver /\ Clean => Takes(x, rest)) BY <1>1, <1>3, ReadsPlain
<1>5. ASSUME Receiver, Clean
      PROVE  /\ Unmoved /\ down' = rest /\ r'.got = <<>> /\ r'.pc = IF kind = "hex" THEN "hex" ELSE "bin"
             /\ r'.width = Width(kind)
  <2>1. snd' = snd /\ down' = rest /\ OnKind(x, 0) BY <1>4, <1>5 DEF Takes, Handle
  <2>2. /\ r' = [r EXCEPT !.pc = IF x[2] = "hex" THEN "hex" ELSE "bin", !.width = Width(x[2])]
        /\ files' = files /\ Silent(0)
    BY <1>2, <1>3, <2>1 DEF OnKind
  <2>3. up' = up BY <2>2 DEF Silent
  <2> QED BY <1>2, <2>1, <2>2, <2>3 DEF Unmoved, TypeInv, ReceiverOK
<1> QED BY <1>4, <1>5

LEMMA AppendOne == \A a : Append(<<>>, a) = <<a>>
OBVIOUS

LEMMA AppendTwo ==
  ASSUME NEW a, NEW b
  PROVE  Append(<<a>>, b) = <<a, b>> /\ Tail(<<a, b>>) = <<b>> /\ Head(<<a, b>>) = a
<1> DEFINE T == {a, b}
<1>1. a \in T /\ b \in T /\ <<a>> \in Seq(T) /\ <<b>> \in Seq(T) /\ <<a, b>> \in Seq(T) OBVIOUS
<1> HIDE DEF T
<1>2. Append(<<a>>, b) = <<a, b>>
  <2> DEFINE s == Append(<<a>>, b)
  <2>1. s \in Seq(T) /\ Len(s) = 2 /\ s[1] = a /\ s[2] = b BY <1>1
  <2> HIDE DEF s
  <2>2. s = <<a, b>> BY <1>1, <2>1
  <2> QED BY <2>2 DEF s
<1>3. Tail(<<a, b>>) = <<b>>
  <2> DEFINE s == Tail(<<a, b>>)
  <2>1. s \in Seq(T) /\ Len(s) = 1 /\ s[1] = b BY <1>1
  <2> HIDE DEF s
  <2>2. s = <<b>> BY <1>1, <2>1
  <2> QED BY <2>2 DEF s
<1> QED BY <1>2, <1>3

LEMMA AppendThree ==
  ASSUME NEW a, NEW b, NEW c
  PROVE  Append(<<a, b>>, c) = <<a, b, c>> /\ Tail(<<a, b, c>>) = <<b, c>> /\ Head(<<a, b, c>>) = a
<1> DEFINE T == {a, b, c}
<1>1. /\ a \in T /\ b \in T /\ c \in T
      /\ <<a, b>> \in Seq(T) /\ <<b, c>> \in Seq(T) /\ <<a, b, c>> \in Seq(T)
  OBVIOUS
<1> HIDE DEF T
<1>2. Append(<<a, b>>, c) = <<a, b, c>>
  <2> DEFINE s == Append(<<a, b>>, c)
  <2>1. s \in Seq(T) /\ Len(s) = 3 /\ s[1] = a /\ s[2] = b /\ s[3] = c BY <1>1
  <2> HIDE DEF s
  <2>2. s = <<a, b, c>> BY <1>1, <2>1
  <2> QED BY <2>2 DEF s
<1>3. Tail(<<a, b, c>>) = <<b, c>>
  <2> DEFINE s == Tail(<<a, b, c>>)
  <2>1. s \in Seq(T) /\ Len(s) = 2 /\ s[1] = b /\ s[2] = c BY <1>1
  <2> HIDE DEF s
  <2>2. s = <<b, c>> BY <1>1, <2>1
  <2> QED BY <2>2 DEF s
<1> QED BY <1>2, <1>3

LEMMA HexStep ==
  ASSUME TypeInv, NEW h, h[1] = "header", InHex(h)
  PROVE  /\ ~Waiting
         /\ Receiver /\ Clean =>
              \/ InHex(h)' /\ Unmoved
              \/ snd' = snd /\ down' = Cons(XON, <<>>) /\ Dispatch(h, 0)
<1> DEFINE Result ==
      /\ ~Waiting
      /\ Receiver /\ Clean =>
           \/ InHex(h)' /\ Unmoved
           \/ snd' = snd /\ down' = Cons(XON, <<>>) /\ Dispatch(h, 0)
<1>1. ASSUME r.pc = "zdle", NEW x \in {XON, CR, ZPAD}, NEW rest, IsSeq(rest), down = Cons(x, rest),
             rest \in {HexAll(h), HexPad(h), HexZdle(h)}
      PROVE  Result
  <2>1. x # ZDLE /\ ~IsError(x) BY <1>1 DEF XON, CR, ZPAD, ZDLE, IsError, CANCELLED, BAD_ESCAPE
  <2> QED BY <1>1, <2>1, ZdleStep DEF InHex
<1>2. CASE r.pc = "zdle" /\ down \in {Cons(XON, HexAll(h)), Cons(CR, HexAll(h))}
  BY <1>1, <1>2, HexSeqs
<1>3. CASE r.pc = "zdle" /\ down \in {HexAll(h), HexPad(h)}
  BY <1>1, <1>3, HexSeqs DEF HexAll, HexPad
<1>4. CASE r.pc = "zdle" /\ down = HexZdle(h)
  <2>1. ~IsError(ZDLE) BY DEF ZDLE, IsError, CANCELLED, BAD_ESCAPE
  <2>2. down = Cons(ZDLE, HexKind(h)) /\ IsSeq(HexKind(h)) BY <1>4, HexSeqs DEF HexZdle
  <2> QED BY <1>4, <2>1, <2>2, ZdleStep DEF InHex
<1>5. CASE r.pc = "kind" /\ r.got = <<>> /\ down = HexKind(h)
  <2>1. down = Cons(<<"kind", "hex">>, HexHdr(h)) /\ IsSeq(HexHdr(h)) BY <1>5, HexSeqs DEF HexKind
  <2> QED BY <1>5, <2>1, KindStep DEF InHex
<1>6. CASE r.pc = "hex" /\ r.got = <<>> /\ down = HexHdr(h)
  <2>1. down = Cons(h, HexCrc(h)) /\ IsSeq(HexCrc(h)) BY <1>6, HexSeqs DEF HexHdr
  <2>2. ~Waiting /\ (Receiver /\ Clean => Takes(h, HexCrc(h))) BY <1>6, <2>1, ReadsByte
  <2>3. ASSUME Receiver, Clean PROVE InHex(h)' /\ Unmoved
    <3>1. snd' = snd /\ down' = HexCrc(h) /\ OnHex(h, 0) BY <1>6, <2>2, <2>3 DEF Takes, Handle
    <3>2. Keep(<<h>>, 0) BY <1>6, <3>1 DEF OnHex, HexDigits
    <3> QED BY <1>6, <2>3, <3>1, <3>2, KeepFacts DEF InHex, Unmoved
  <2> QED BY <2>2, <2>3
<1>7. CASE r.pc = "hex" /\ r.got = <<h>> /\ down = HexCrc(h)
  <2>1. PICK x : x = <<"crc16", <<h>>>> OBVIOUS
  <2>2. down = Cons(x, HexCr) /\ IsSeq(HexCr) BY <1>7, <2>1, HexSeqs DEF HexCrc
  <2>3. ~Waiting /\ (Receiver /\ Clean => Takes(x, HexCr)) BY <1>7, <2>2, ReadsByte
  <2>4. ASSUME Receiver, Clean PROVE InHex(h)' /\ Unmoved
    <3>1. snd' = snd /\ down' = HexCr /\ OnHex(x, 0) BY <1>7, <2>3, <2>4 DEF Takes, Handle
    <3>2. GoodHeader(16, Append(r.got, x))
      <4>1. Append(<<h>>, x) = <<h, x>> /\ Tail(<<h, x>>) = <<x>> /\ Head(<<h, x>>) = h BY AppendTwo
      <4>2. CrcOf(16, <<h>>) = <<x>> BY <2>1 DEF CrcOf
      <4> QED BY <1>7, <4>1, <4>2 DEF GoodHeader
    <3>3. r' = [r EXCEPT !.pc = "cr"] /\ files' = files /\ Silent(0)
      <4>1. x[1] \in HexDigits BY <2>1 DEF HexDigits
      <4>2. r.got # <<>> BY <1>7
      <4> QED BY <3>1, <3>2, <4>1, <4>2 DEF OnHex
    <3>4. up' = up BY <3>3 DEF Silent
    <3> QED BY <1>7, <3>1, <3>3, <3>4 DEF InHex, Unmoved, TypeInv, ReceiverOK
  <2> QED BY <2>3, <2>4
<1>8. CASE r.pc = "cr" /\ r.got = <<h>> /\ down = HexCr
  <2>1. down = Cons(CR, HexLf) /\ IsSeq(HexLf) BY <1>8, HexSeqs DEF HexCr
  <2>2. CR # ZDLE /\ CR # XON /\ CR # AGAIN /\ CR # LF BY DEF CR, ZDLE, XON, AGAIN, LF
  <2>3. ~Waiting /\ (Receiver /\ Clean => Takes(CR, HexLf)) BY <1>8, <2>1, <2>2, ReadsPlain
  <2>4. ASSUME Receiver, Clean PROVE InHex(h)' /\ Unmoved
    <3>1. snd' = snd /\ down' = HexLf /\ OnCrLf(CR, 0) BY <1>8, <2>3, <2>4 DEF Takes, Handle
    <3>2. r' = [r EXCEPT !.pc = "lf"] /\ files' = files /\ Silent(0) BY <1>8, <2>2, <3>1 DEF OnCrLf
    <3>3. up' = up BY <3>2 DEF Silent
    <3> QED BY <1>8, <3>1, <3>2, <3>3 DEF InHex, Unmoved, TypeInv, ReceiverOK
  <2> QED BY <2>3, <2>4
<1>9. CASE r.pc = "lf" /\ r.got = <<h>> /\ down = HexLf
  <2>1. down = Cons(LF, Cons(XON, <<>>)) /\ IsSeq(Cons(XON, <<>>)) BY <1>9, EmptyIsSeq, ConsFacts DEF HexLf
  <2>2. LF # ZDLE /\ LF # XON /\ LF # AGAIN BY DEF LF, ZDLE, XON, AGAIN
  <2>3. ~Waiting /\ (Receiver /\ Clean => Takes(LF, Cons(XON, <<>>))) BY <1>9, <2>1, <2>2, ReadsPlain
  <2>4. ASSUME Receiver, Clean PROVE snd' = snd /\ down' = Cons(XON, <<>>) /\ Dispatch(h, 0)
    <3>1. snd' = snd /\ down' = Cons(XON, <<>>) /\ OnCrLf(LF, 0) BY <1>9, <2>3, <2>4 DEF Takes, Handle
    <3>2. Dispatch(Head(r.got), 0)
      <4>1. LF # CR BY DEF LF, CR
      <4> QED BY <3>1, <4>1 DEF OnCrLf
    <3>3. Head(r.got) = h BY <1>9
    <3> QED BY <3>1, <3>2, <3>3
  <2> QED BY <2>3, <2>4
<1> QED BY <1>2, <1>3, <1>4, <1>5, <1>6, <1>7, <1>8, <1>9 DEF InHex

LEMMA BinStep ==
  ASSUME TypeInv, NEW h, h[1] = "header", NEW format \in Formats, NEW rest, IsSeq(rest), InBin(format, h, rest)
  PROVE  /\ ~Waiting
         /\ Receiver /\ Clean =>
              \/ InBin(format, h, rest)' /\ Unmoved
              \/ snd' = snd /\ down' = rest /\ Dispatch(h, 0) /\ r.width = Width(format)
<1> DEFINE Result ==
      /\ ~Waiting
      /\ Receiver /\ Clean =>
           \/ InBin(format, h, rest)' /\ Unmoved
           \/ snd' = snd /\ down' = rest /\ Dispatch(h, 0) /\ r.width = Width(format)
<1>1. /\ IsSeq(BinHdr(format, h, rest)) /\ IsSeq(BinKind(format, h, rest))
      /\ IsSeq(BinZdle(format, h, rest)) /\ IsSeq(BinAll(format, h, rest))
  BY BinSeqs
<1>2. IsSeq(Crc(format, <<h>>, rest)) /\ IsSeq(Crc2(<<h>>, rest)) BY CrcSent
<1>3. format \in {"bin16", "bin32"} BY ZmodemAssumption
<1>4. h # ZDLE /\ h # XON /\ h # AGAIN /\ ~IsError(h) BY OtherToken
<1>5. CASE r.pc = "zdle" /\ down \in {Cons(XON, BinAll(format, h, rest)), BinAll(format, h, rest)}
  <2>1. XON # ZDLE /\ ZPAD # ZDLE /\ ~IsError(XON) /\ ~IsError(ZPAD)
    BY DEF XON, ZPAD, ZDLE, IsError, CANCELLED, BAD_ESCAPE
  <2>2. CASE down = Cons(XON, BinAll(format, h, rest)) BY <1>1, <1>5, <2>1, <2>2, ZdleStep DEF InBin
  <2>3. CASE down = BinAll(format, h, rest)
    <3>1. down = Cons(ZPAD, BinZdle(format, h, rest)) BY <2>3 DEF BinAll
    <3> QED BY <1>1, <1>5, <2>1, <3>1, ZdleStep DEF InBin
  <2> QED BY <1>5, <2>2, <2>3
<1>6. CASE r.pc = "zdle" /\ down = BinZdle(format, h, rest)
  <2>1. ~IsError(ZDLE) BY DEF ZDLE, IsError, CANCELLED, BAD_ESCAPE
  <2>2. down = Cons(ZDLE, BinKind(format, h, rest)) BY <1>6 DEF BinZdle
  <2> QED BY <1>1, <1>6, <2>1, <2>2, ZdleStep DEF InBin
<1>7. CASE r.pc = "kind" /\ r.got = <<>> /\ down = BinKind(format, h, rest)
  <2>1. down = Cons(<<"kind", format>>, BinHdr(format, h, rest)) BY <1>7 DEF BinKind
  <2>2. format # "hex" BY <1>3
  <2> QED BY <1>1, <1>7, <2>1, <2>2, KindStep DEF InBin
<1>8. CASE r.pc = "bin" /\ r.width = Width(format) /\ r.got = <<>> /\ down = BinHdr(format, h, rest)
  <2>1. down = Cons(h, Crc(format, <<h>>, rest)) BY <1>8 DEF BinHdr
  <2>2. ~Waiting /\ (Receiver /\ Clean => Takes(h, Crc(format, <<h>>, rest)))
    BY <1>2, <1>4, <1>8, <2>1, ReadsPlain
  <2>3. ASSUME Receiver, Clean PROVE InBin(format, h, rest)' /\ Unmoved
    <3>1. snd' = snd /\ down' = Crc(format, <<h>>, rest) /\ OnBin(h, 0) BY <1>8, <2>2, <2>3 DEF Takes, Handle
    <3>2. Append(r.got, h) = <<h>> BY <1>8, AppendOne
    <3>3. Len(<<h>>) <= r.width \div 16 BY <1>3, <1>8 DEF Width
    <3>4. Keep(<<h>>, 0) BY <1>4, <3>1, <3>2, <3>3 DEF OnBin
    <3> QED BY <1>8, <2>3, <3>1, <3>4, KeepFacts DEF InBin, Unmoved
  <2> QED BY <2>2, <2>3
<1>9. CASE r.pc = "bin" /\ r.width = Width(format) /\ r.got = <<h>> /\ down = Crc(format, <<h>>, rest)
           /\ format = "bin16"
  <2>1. PICK x : x = <<"crc16", <<h>>>> OBVIOUS
  <2>2. down = Cons(x, rest) BY <1>9, <2>1 DEF Crc
  <2>3. x # ZDLE /\ x # XON /\ x # AGAIN /\ ~IsError(x) BY <2>1, OtherToken
  <2>4. ~Waiting /\ (Receiver /\ Clean => Takes(x, rest)) BY <1>9, <2>2, <2>3, ReadsPlain
  <2>5. ASSUME Receiver, Clean PROVE snd' = snd /\ down' = rest /\ Dispatch(h, 0) /\ r.width = Width(format)
    <3>1. snd' = snd /\ down' = rest /\ OnBin(x, 0) BY <1>9, <2>4, <2>5 DEF Takes, Handle
    <3>2. Append(r.got, x) = <<h, x>> /\ Tail(<<h, x>>) = <<x>> /\ Head(<<h, x>>) = h BY <1>9, AppendTwo
    <3>3. ~ (Len(<<h, x>>) <= r.width \div 16) BY <1>9 DEF Width
    <3>4. CrcOf(r.width, <<h>>) = <<x>> BY <1>9, <2>1 DEF CrcOf, Width
    <3>5. Dispatch(h, 0) BY <2>3, <3>1, <3>2, <3>3, <3>4 DEF OnBin, GoodHeader
    <3> QED BY <1>9, <3>1, <3>5
  <2> QED BY <2>4, <2>5
<1>10. CASE r.pc = "bin" /\ r.width = Width(format) /\ r.got = <<h>> /\ down = Crc(format, <<h>>, rest)
            /\ format = "bin32"
  <2>1. PICK x : x = <<"crc32a", <<h>>>> OBVIOUS
  <2>2. down = Cons(x, Crc2(<<h>>, rest)) BY <1>10, <2>1 DEF Crc
  <2>3. x # ZDLE /\ x # XON /\ x # AGAIN /\ ~IsError(x) BY <2>1, OtherToken
  <2>4. ~Waiting /\ (Receiver /\ Clean => Takes(x, Crc2(<<h>>, rest))) BY <1>2, <1>10, <2>2, <2>3, ReadsPlain
  <2>5. ASSUME Receiver, Clean PROVE InBin(format, h, rest)' /\ Unmoved
    <3>1. snd' = snd /\ down' = Crc2(<<h>>, rest) /\ OnBin(x, 0) BY <1>10, <2>4, <2>5 DEF Takes, Handle
    <3>2. Append(r.got, x) = <<h, x>> BY <1>10, AppendTwo
    <3>3. Len(<<h, x>>) <= r.width \div 16 BY <1>10 DEF Width
    <3>4. Keep(<<h, x>>, 0) BY <2>3, <3>1, <3>2, <3>3 DEF OnBin
    <3> QED BY <1>10, <2>1, <2>5, <3>1, <3>4, KeepFacts DEF InBin, Unmoved
  <2> QED BY <2>4, <2>5
<1>11. CASE r.pc = "bin" /\ r.width = Width(format) /\ format = "bin32"
            /\ r.got = <<h, <<"crc32a", <<h>>>>>> /\ down = Crc2(<<h>>, rest)
  <2>1. PICK x, y : x = <<"crc32a", <<h>>>> /\ y = <<"crc32b", <<h>>>> OBVIOUS
  <2>2. down = Cons(y, rest) BY <1>11, <2>1 DEF Crc2
  <2>3. y # ZDLE /\ y # XON /\ y # AGAIN /\ ~IsError(y) BY <2>1, OtherToken
  <2>4. ~Waiting /\ (Receiver /\ Clean => Takes(y, rest)) BY <1>11, <2>2, <2>3, ReadsPlain
  <2>5. ASSUME Receiver, Clean PROVE snd' = snd /\ down' = rest /\ Dispatch(h, 0) /\ r.width = Width(format)
    <3>1. snd' = snd /\ down' = rest /\ OnBin(y, 0) BY <1>11, <2>4, <2>5 DEF Takes, Handle
    <3>2. r.got = <<h, x>> BY <1>11, <2>1
    <3>3. Append(r.got, y) = <<h, x, y>> /\ Tail(<<h, x, y>>) = <<x, y>> /\ Head(<<h, x, y>>) = h
      BY <3>2, AppendThree
    <3>4. ~ (Len(<<h, x, y>>) <= r.width \div 16) BY <1>11 DEF Width
    <3>5. CrcOf(r.width, <<h>>) = <<x, y>> BY <1>11, <2>1 DEF CrcOf, Width
    <3>6. Dispatch(h, 0) BY <2>3, <3>1, <3>3, <3>4, <3>5 DEF OnBin, GoodHeader
    <3> QED BY <1>11, <3>1, <3>6
  <2> QED BY <2>4, <2>5
<1> QED BY <1>3, <1>5, <1>6, <1>7, <1>8, <1>9, <1>10, <1>11 DEF InBin

\* The characters of the subpackets that are sent.
IsChar(char) == char[1] = "name" \/ \E byte : char = <<"data", byte>>

LEMMA DataStep ==
  ASSUME TypeInv, NEW c, c # ZDLE, ~IsError(c), OnData(c, 0), Clean, r.got = <<>> \/ c[1] = "fin"
  PROVE  /\ files' = files /\ up' = up /\ r'.width = r.width /\ r'.crc = r.crc
         /\ r'.block = r.block /\ r'.size = r.size /\ r'.out = r.out
         /\ r'.got = Append(r.got, c) /\ r'.pc = IF c[1] = "fin" THEN "crc" ELSE r.pc
<1>1. PICK got : got = Append(r.got, c) OBVIOUS
<1>2. CASE c[1] = "fin"
  <2>1. r' = [r EXCEPT !.pc = "crc", !.got = got] /\ files' = files /\ Silent(0)
    BY <1>1, <1>2 DEF OnData
  <2>2. up' = up BY <2>1 DEF Silent
  <2> QED BY <1>1, <1>2, <2>1, <2>2 DEF TypeInv, ReceiverOK
<1>3. CASE c[1] # "fin"
  <2>1. got = <<c>> /\ Len(<<c>>) # BufLen
    <3>1. got = <<c>> BY <1>1, <1>3, AppendOne
    <3> QED BY <3>1, Constants
  <2>2. Keep(got, 0) BY <1>1, <1>3, <2>1 DEF OnData
  <2> QED BY <1>1, <1>3, <2>2, KeepFacts
<1> QED BY <1>2, <1>3

LEMMA PacketStep ==
  ASSUME TypeInv, NEW format \in Formats, NEW char, IsChar(char), NEW end, NEW rest, IsSeq(rest),
         InPacket(format, char, end, rest)
  PROVE  /\ ~Waiting
         /\ Receiver /\ Clean =>
              \/ InPacket(format, char, end, rest)' /\ Unmoved
              \/ snd' = snd /\ down' = rest /\ Block(0) /\ r.got = <<char, <<"fin", end>>>>
<1> DEFINE Result ==
      /\ ~Waiting
      /\ Receiver /\ Clean =>
           \/ InPacket(format, char, end, rest)' /\ Unmoved
           \/ snd' = snd /\ down' = rest /\ Block(0) /\ r.got = <<char, <<"fin", end>>>>
<1>1. PICK fin : fin = <<"fin", end>> OBVIOUS
<1>2. PICK got : got = <<char, fin>> OBVIOUS
<1>3. PICK over : over = PacketEnd(format, char, end, rest) OBVIOUS
<1>4. PICK tail : tail = Crc(format, got, rest) OBVIOUS
<1>5. IsSeq(over) /\ IsSeq(tail) /\ IsSeq(Crc2(got, rest))
  BY <1>1, <1>2, <1>3, <1>4, PacketSent, CrcSent
<1>6. format \in {"bin16", "bin32"} BY ZmodemAssumption
<1>7. char[1] \in {"name", "data"} BY DEF IsChar
<1>8. char # ZDLE /\ char # XON /\ char # AGAIN /\ ~IsError(char) BY <1>7, OtherToken
<1>9. fin # ZDLE /\ fin # XON /\ fin # AGAIN /\ ~IsError(fin) /\ fin[1] = "fin" BY <1>1, OtherToken
<1>10. CASE r.pc = "data" /\ r.crc = <<>> /\ r.width = Width(format) /\ r.got = <<>>
            /\ down = Packet(format, char, end, rest)
  <2>1. ~Waiting /\ (Receiver /\ Clean => Takes(char, over))
    <3>1. CASE char[1] = "data" /\ char[2] \in Escaped
      <4>1. PICK x : x = <<"escaped", char[2]>> OBVIOUS
      <4>2. down = Cons(ZDLE, Cons(x, over)) BY <1>3, <1>10, <3>1, <4>1 DEF Packet
      <4>3. Unescaped(x) = char
        <5>1. PICK byte : char = <<"data", byte>> BY <3>1 DEF IsChar
        <5>2. x[1] = "escaped" /\ x[2] = byte BY <4>1, <5>1
        <5> QED BY <5>1, <5>2 DEF Unescaped
      <4>4. x # ZDLE BY <4>1, OtherToken
      <4> QED BY <1>5, <1>8, <1>10, <4>2, <4>3, <4>4, ReadsEscaped
    <3>2. CASE ~ (char[1] = "data" /\ char[2] \in Escaped)
      <4>1. down = Cons(char, over) BY <1>3, <1>10, <3>2 DEF Packet
      <4> QED BY <1>5, <1>8, <1>10, <4>1, ReadsPlain
    <3> QED BY <3>1, <3>2
  <2>2. ASSUME Receiver, Clean PROVE InPacket(format, char, end, rest)' /\ Unmoved
    <3>1. snd' = snd /\ down' = over /\ OnData(char, 0) BY <1>10, <2>1, <2>2 DEF Takes, Handle
    <3>2. /\ files' = files /\ up' = up /\ r'.width = r.width /\ r'.crc = r.crc
          /\ r'.block = r.block /\ r'.size = r.size /\ r'.out = r.out
          /\ r'.got = Append(r.got, char) /\ r'.pc = IF char[1] = "fin" THEN "crc" ELSE r.pc
      BY <1>8, <1>10, <2>2, <3>1, DataStep
    <3>3. r'.got = <<char>> /\ r'.pc = "data" BY <1>7, <1>10, <3>2, AppendOne
    <3> QED BY <1>3, <1>10, <3>1, <3>2, <3>3 DEF InPacket, Unmoved
  <2> QED BY <2>1, <2>2
<1>11. CASE r.pc = "data" /\ r.crc = <<>> /\ r.width = Width(format) /\ r.got = <<char>>
            /\ down = PacketEnd(format, char, end, rest)
  <2>1. PICK x : x = <<"end", end>> OBVIOUS
  <2>2. down = Cons(ZDLE, Cons(x, tail)) BY <1>1, <1>2, <1>4, <1>11, <2>1 DEF PacketEnd
  <2>3. Unescaped(x) = fin /\ x # ZDLE
    <3>1. x[1] = "end" /\ x[2] = end BY <2>1
    <3>2. x # ZDLE BY <3>1, OtherToken
    <3> QED BY <1>1, <3>1, <3>2 DEF Unescaped
  <2>4. ~Waiting /\ (Receiver /\ Clean => Takes(fin, tail))
    BY <1>5, <1>9, <1>11, <2>2, <2>3, ReadsEscaped
  <2>5. ASSUME Receiver, Clean PROVE InPacket(format, char, end, rest)' /\ Unmoved
    <3>1. snd' = snd /\ down' = tail /\ OnData(fin, 0) BY <1>11, <2>4, <2>5 DEF Takes, Handle
    <3>2. /\ files' = files /\ up' = up /\ r'.width = r.width /\ r'.crc = r.crc
          /\ r'.block = r.block /\ r'.size = r.size /\ r'.out = r.out
          /\ r'.got = Append(r.got, fin) /\ r'.pc = IF fin[1] = "fin" THEN "crc" ELSE r.pc
      BY <1>9, <2>5, <3>1, DataStep
    <3>3. r'.got = got /\ r'.pc = "crc" /\ r'.crc = <<>> BY <1>2, <1>9, <1>11, <3>2, AppendTwo
    <3> QED BY <1>1, <1>2, <1>4, <1>11, <3>1, <3>2, <3>3 DEF InPacket, Unmoved
  <2> QED BY <2>4, <2>5
<1>12. CASE r.pc = "crc" /\ r.width = Width(format) /\ r.got = got /\ r.crc = <<>> /\ down = tail
            /\ format = "bin16"
  <2>1. PICK x : x = <<"crc16", got>> OBVIOUS
  <2>2. down = Cons(x, rest) BY <1>4, <1>12, <2>1 DEF Crc
  <2>3. x # ZDLE /\ x # XON /\ x # AGAIN /\ ~IsError(x) BY <2>1, OtherToken
  <2>4. ~Waiting /\ (Receiver /\ Clean => Takes(x, rest)) BY <1>12, <2>2, <2>3, ReadsPlain
  <2>5. ASSUME Receiver, Clean PROVE snd' = snd /\ down' = rest /\ Block(0)
    <3>1. snd' = snd /\ down' = rest /\ OnCrc(x, 0) BY <1>12, <2>4, <2>5 DEF Takes, Handle
    <3>2. Append(r.crc, x) = <<x>> BY <1>12, AppendOne
    <3>3. ~ (Len(<<x>>) < r.width \div 16) BY <1>12 DEF Width
    <3>4. GoodCrc(<<x>>) BY <1>12, <2>1 DEF GoodCrc, CrcOf, Width
    <3> QED BY <2>3, <3>1, <3>2, <3>3, <3>4 DEF OnCrc
  <2> QED BY <1>1, <1>2, <1>12, <2>4, <2>5
<1>13. CASE r.pc = "crc" /\ r.width = Width(format) /\ r.got = got /\ r.crc = <<>> /\ down = tail
            /\ format = "bin32"
  <2>1. PICK x : x = <<"crc32a", got>> OBVIOUS
  <2>2. down = Cons(x, Crc2(got, rest)) BY <1>4, <1>13, <2>1 DEF Crc
  <2>3. x # ZDLE /\ x # XON /\ x # AGAIN /\ ~IsError(x) BY <2>1, OtherToken
  <2>4. ~Waiting /\ (Receiver /\ Clean => Takes(x, Crc2(got, rest))) BY <1>5, <1>13, <2>2, <2>3, ReadsPlain
  <2>5. ASSUME Receiver, Clean PROVE InPacket(format, char, end, rest)' /\ Unmoved
    <3>1. snd' = snd /\ down' = Crc2(got, rest) /\ OnCrc(x, 0) BY <1>13, <2>4, <2>5 DEF Takes, Handle
    <3>2. Append(r.crc, x) = <<x>> BY <1>13, AppendOne
    <3>3. Len(<<x>>) < r.width \div 16 BY <1>13 DEF Width
    <3>4. r' = [r EXCEPT !.crc = <<x>>] /\ files' = files /\ Silent(0) BY <2>3, <3>1, <3>2, <3>3 DEF OnCrc
    <3>5. up' = up BY <3>4 DEF Silent
    <3>6. r'.crc = <<x>> /\ r'.pc = r.pc /\ r'.got = r.got /\ r'.width = r.width /\ r'.block = r.block
          /\ r'.size = r.size /\ r'.out = r.out
      BY <3>4 DEF TypeInv, ReceiverOK
    <3>7. Unmoved BY <3>1, <3>4, <3>5, <3>6 DEF Unmoved
    <3> QED BY <1>1, <1>2, <1>13, <2>1, <3>1, <3>6, <3>7 DEF InPacket
  <2> QED BY <2>4, <2>5
<1>14. CASE r.pc = "crc" /\ r.width = Width(format) /\ r.got = got /\ format = "bin32"
            /\ r.crc = <<<<"crc32a", r.got>>>> /\ down = Crc2(r.got, rest)
  <2>1. PICK x, y : x = <<"crc32a", got>> /\ y = <<"crc32b", got>> OBVIOUS
  <2>2. down = Cons(y, rest) BY <1>14, <2>1 DEF Crc2
  <2>3. y # ZDLE /\ y # XON /\ y # AGAIN /\ ~IsError(y) BY <2>1, OtherToken
  <2>4. ~Waiting /\ (Receiver /\ Clean => Takes(y, rest)) BY <1>14, <2>2, <2>3, ReadsPlain
  <2>5. ASSUME Receiver, Clean PROVE snd' = snd /\ down' = rest /\ Block(0)
    <3>1. snd' = snd /\ down' = rest /\ OnCrc(y, 0) BY <1>14, <2>4, <2>5 DEF Takes, Handle
    <3>2. r.crc = <<x>> BY <1>14, <2>1
    <3>3. Append(r.crc, y) = <<x, y>> BY <3>2, AppendTwo
    <3>4. ~ (Len(<<x, y>>) < r.width \div 16) BY <1>14 DEF Width
    <3>5. GoodCrc(<<x, y>>) BY <1>14, <2>1 DEF GoodCrc, CrcOf, Width
    <3> QED BY <2>3, <3>1, <3>3, <3>4, <3>5 DEF OnCrc
  <2> QED BY <1>1, <1>2, <1>14, <2>4, <2>5
<1>15. r.width = Width(format) BY DEF InPacket
<1>16. \/ r.pc = "data" /\ r.crc = <<>> /\ r.got = <<>> /\ down = Packet(format, char, end, rest)
       \/ r.pc = "data" /\ r.crc = <<>> /\ r.got = <<char>> /\ down = PacketEnd(format, char, end, rest)
       \/ r.pc = "crc" /\ r.got = got /\ r.crc = <<>> /\ down = tail
       \/ r.pc = "crc" /\ r.got = got /\ format = "bin32"
          /\ r.crc = <<<<"crc32a", r.got>>>> /\ down = Crc2(r.got, rest)
  BY <1>1, <1>2, <1>4 DEF InPacket
<1> QED BY <1>6, <1>10, <1>11, <1>12, <1>13, <1>14, <1>15, <1>16

(***************************************************************************)
(* A session without faults: the steps of the sender.                      *)
(***************************************************************************)
LEMMA FileSize == \A n \in 1 .. Len(Files) : Len(Files[n]) \in Nat
BY Constants

LEMMA CleanTransmit ==
  ASSUME Clean, NEW state, NEW last, NEW prefix, Transmit(state, last, prefix)
  PROVE  snd' = [state EXCEPT !.last = last] /\ down' = (down \o prefix) \o last
BY DEF Transmit, Fault, Clean

LEMMA AfterIdle ==
  ASSUME down \in {<<>>, Cons(XON, <<>>)}, NEW last, IsSeq(last)
  PROVE  /\ (down \o <<>>) \o last \in {last, Cons(XON, last)}
         /\ down = <<>> => (down \o <<>>) \o last = last
<1>1. <<>> \o last = last BY ConsConcat, EmptyIsSeq
<1>2. <<>> \o <<>> = <<>> BY ConsConcat, EmptyIsSeq
<1>3. Cons(XON, <<>>) \o <<>> = Cons(XON, <<>>) BY <1>2, ConsConcat, EmptyIsSeq
<1>4. Cons(XON, <<>>) \o last = Cons(XON, last)
  <2>1. PICK none : none = <<>> OBVIOUS
  <2>2. IsSeq(none) BY <2>1, EmptyIsSeq
  <2>3. Cons(XON, none) \o last = Cons(XON, none \o last) BY <2>2, ConsConcat
  <2> QED BY <1>1, <2>1, <2>3
<1> QED BY <1>1, <1>2, <1>3, <1>4

LEMMA OnePacket ==
  ASSUME NEW format, NEW char, NEW end
  PROVE  /\ Subpacket(format, char, end) = Packet(format, char, end, <<>>)
         /\ IsSeq(Packet(format, char, end, <<>>))
<1>1. PICK s : s = Subpacket(format, char, end) OBVIOUS
<1>2. IsSeq(s) /\ s \o <<>> = Packet(format, char, end, <<>>) /\ IsSeq(Packet(format, char, end, <<>>))
  BY <1>1, EmptyIsSeq, PacketSent
<1>3. PICK S : s \in Seq(S) BY <1>2 DEF IsSeq
<1>4. s \o <<>> = s BY <1>3, ConcatEmptySeq
<1> QED BY <1>1, <1>2, <1>4

\* The subpacket at r.size: what follows it is on the line, or sent when it is acknowledged.
LEMMA NextFacts ==
  ASSUME TypeInv, snd.file \in 1 .. snd.count, r.size < Size
  PROVE  /\ IsSeq(NextRest) /\ IsChar(NextChar)
         /\ DataFrom(snd.format, snd.style, snd.file, r.size)
              = BinAll(snd.format, Header("ZDATA", r.size), Packet(snd.format, NextChar, NextEnd, NextRest))
         /\ IsSeq(Packet(snd.format, NextChar, NextEnd, NextRest))
<1>1. PICK size, pos, file, style, format :
        size = Size /\ pos = r.size /\ file = snd.file /\ style = snd.style /\ format = snd.format
  OBVIOUS
<1>2. file \in 1 .. Len(Files) BY <1>1, Constants DEF TypeInv, SenderOK, Sends
<1>3. size = Len(Files[file]) /\ size \in Nat BY <1>1, <1>2, FileSize DEF Size
<1>4. pos \in Nat /\ pos < size BY <1>1, SizeTyped
<1>5. PICK char, end, rest : char = NextChar /\ end = NextEnd /\ rest = NextRest OBVIOUS
<1>6. IsChar(char) BY <1>5 DEF IsChar, NextChar
<1>7. PICK head : head = BinHeader(format, "ZDATA", pos) OBVIOUS
<1>8. DataFrom(format, style, file, pos)
        = head \o (IF style = "wait" THEN Subpacket(format, <<"data", Files[file][pos + 1]>>, "W")
                   ELSE Remaining(format, style, file)[size - pos])
  BY <1>3, <1>4, <1>7 DEF DataFrom
<1>9. char = <<"data", Files[file][pos + 1]>> BY <1>1, <1>5 DEF NextChar
<1>10. CASE style = "wait"
  <2>1. end = "W" /\ rest = <<>> BY <1>1, <1>5, <1>10 DEF NextEnd, NextRest
  <2>2. IsSeq(rest) BY <2>1, EmptyIsSeq
  <2>3. Subpacket(format, char, "W") = Packet(format, char, end, rest) /\ IsSeq(Packet(format, char, end, rest))
    BY <2>1, OnePacket
  <2>4. PICK p : p = Packet(format, char, end, rest) OBVIOUS
  <2>5. head \o p = BinAll(format, Header("ZDATA", pos), p) BY <1>7, <2>3, <2>4, BinSent, SMTT(60)
  <2> QED BY <1>1, <1>5, <1>6, <1>8, <1>9, <1>10, <2>2, <2>3, <2>4, <2>5
<1>11. CASE style # "wait"
  <2>1. end = EndAt(style, size - pos)
    BY <1>1, <1>5, <1>11 DEF NextEnd, EndAt
  <2>2. rest = Remaining(format, style, file)[size - pos - 1] BY <1>1, <1>5, <1>11 DEF NextRest
  <2>3. size - pos \in 0 .. size /\ size - pos # 0 /\ size - pos - 1 \in 0 .. size
        /\ size - (size - pos) + 1 = pos + 1
    BY <1>3, <1>4
  <2>4. IsSeq(rest) BY <1>3, <2>2, <2>3, RemainingIs
  <2>5. PICK k : k = size - pos OBVIOUS
  <2>6. k \in 0 .. Len(Files[file]) /\ k # 0 /\ Len(Files[file]) - k + 1 = pos + 1 BY <1>3, <2>3, <2>5
  <2>7. Remaining(format, style, file)[k]
          = Packet(format, <<"data", Files[file][Len(Files[file]) - k + 1]>>, EndAt(style, k),
                   Remaining(format, style, file)[k - 1])
    BY <1>3, <2>6, RemainingIs
  <2>8. Remaining(format, style, file)[size - pos] = Packet(format, char, end, rest)
    BY <1>9, <2>1, <2>2, <2>5, <2>6, <2>7
  <2>9. PICK p : p = Packet(format, char, end, rest) OBVIOUS
  <2>10. IsSeq(p) BY <2>4, <2>9, PacketSent
  <2>11. head \o p = BinAll(format, Header("ZDATA", pos), p) BY <1>7, <2>10, BinSent
  <2> QED BY <1>1, <1>5, <1>6, <1>8, <1>11, <2>4, <2>8, <2>9, <2>10, <2>11
<1> QED BY <1>10, <1>11

LEMMA SendFileClean ==
  ASSUME TypeInv, Clean, NEW n, SendFile(n), down \in {<<>>, Cons(XON, <<>>)}, r.pc = "zdle", r' = r
  PROVE  /\ snd'.pc = "file" /\ snd'.file = n
         /\ snd'.count = snd.count /\ snd'.style = snd.style /\ snd'.format = snd.format
         /\ InBin(snd.format, Header("ZFILE", 0), Packet(snd.format, <<"name", n>>, "W", <<>>))'
<1>1. PICK format, last, sub, head :
        /\ format = snd.format /\ sub = Subpacket(format, <<"name", n>>, "W")
        /\ head = BinHeader(format, "ZFILE", 0) /\ last = head \o sub
  OBVIOUS
<1>2. snd' = [[snd EXCEPT !.pc = "file", !.file = n] EXCEPT !.last = last] /\ down' = (down \o <<>>) \o last
  <2> DEFINE state == [snd EXCEPT !.pc = "file", !.file = n]
  <2>1. Transmit(state, last, <<>>) BY <1>1 DEF SendFile
  <2> HIDE DEF state
  <2>2. snd' = [state EXCEPT !.last = last] /\ down' = (down \o <<>>) \o last BY <2>1, CleanTransmit
  <2> QED BY <2>2 DEF state
<1>3. /\ snd'.pc = "file" /\ snd'.file = n
      /\ snd'.count = snd.count /\ snd'.style = snd.style /\ snd'.format = snd.format
  BY <1>2 DEF TypeInv, SenderOK, Sends
<1>4. PICK p : p = Packet(format, <<"name", n>>, "W", <<>>) OBVIOUS
<1>5. sub = p /\ IsSeq(p) BY <1>1, <1>4, OnePacket
<1>6. last = BinAll(format, Header("ZFILE", 0), p)
  <2>1. BinHeader(format, "ZFILE", 0) \o p = BinAll(format, Header("ZFILE", 0), p) BY <1>5, BinSent
  <2> QED BY <1>1, <1>5, <2>1
<1>7. IsSeq(last) BY <1>5, <1>6, BinSeqs
<1>8. down' \in {last, Cons(XON, last)} BY <1>2, <1>7, AfterIdle
<1>9. r'.pc = "zdle" OBVIOUS
<1> QED BY <1>1, <1>3, <1>4, <1>6, <1>8, <1>9 DEF InBin

LEMMA SendFromClean ==
  ASSUME TypeInv, Clean, SendFrom(r.size), down = <<>>, r.pc = "zdle", r.out,
         snd.file \in 1 .. snd.count, Len(files) = snd.file, up' = <<>>, r' = r, files' = files
  PROVE  SendingData'
<1>1. PICK last : last = DataFrom(snd.format, snd.style, snd.file, r.size) OBVIOUS
<1>2. /\ snd' = [[snd EXCEPT !.pc = "data", !.strayed = @ \/ (snd.pc = "file" /\ Len(files) # snd.file)]
                   EXCEPT !.last = last]
      /\ down' = (down \o <<>>) \o last
  <2> DEFINE state == [snd EXCEPT !.pc = "data", !.strayed = @ \/ (snd.pc = "file" /\ Len(files) # snd.file)]
  <2>1. Transmit(state, last, <<>>) BY <1>1 DEF SendFrom
  <2> HIDE DEF state
  <2>2. snd' = [state EXCEPT !.last = last] /\ down' = (down \o <<>>) \o last BY <2>1, CleanTransmit
  <2> QED BY <2>2 DEF state
<1>3. /\ snd'.pc = "data" /\ snd'.file = snd.file
      /\ snd'.count = snd.count /\ snd'.style = snd.style /\ snd'.format = snd.format
  BY <1>2 DEF TypeInv, SenderOK, Sends
<1>4. Acks(up)'
  <2>1. IsSeq(up') /\ up' = <<>> /\ DOMAIN up' = {} BY EmptyIsSeq
  <2> QED BY <2>1 DEF Acks
<1>5. Size' = Size BY <1>3 DEF Size
<1>6. r.size \in Nat /\ Size \in Nat
  <2>1. snd.file \in 1 .. Len(Files) BY Constants DEF TypeInv, SenderOK, Sends
  <2> QED BY <2>1, SizeTyped, FileSize DEF Size
<1>7. /\ snd'.pc = "data" /\ snd'.file \in 1 .. snd'.count /\ Len(files') = snd'.file /\ r'.out BY <1>3
<1>8. CASE r.size < Size
  <2>1. last = BinAll(snd.format, Header("ZDATA", r.size), Packet(snd.format, NextChar, NextEnd, NextRest))
        /\ IsSeq(Packet(snd.format, NextChar, NextEnd, NextRest))
    BY <1>1, <1>8, NextFacts
  <2>2. IsSeq(last) BY <2>1, BinSeqs
  <2>3. down' = last BY <1>2, <2>2, AfterIdle
  <2>4. NextChar' = NextChar /\ NextEnd' = NextEnd /\ NextRest' = NextRest
    BY <1>3, <1>5 DEF NextChar, NextEnd, NextRest
  <2>5. InBin(snd.format, Header("ZDATA", r.size), Packet(snd.format, NextChar, NextEnd, NextRest))'
    BY <1>3, <2>1, <2>3, <2>4 DEF InBin
  <2> QED BY <1>4, <1>5, <1>7, <1>8, <2>5 DEF SendingData
<1>9. CASE r.size >= Size
  <2>1. last = HexAll(Header("ZEOF", r.size)) BY <1>1, <1>9, HexSent DEF DataFrom, Size
  <2>2. PICK pos : pos = r.size OBVIOUS
  <2>3. last = HexAll(Header("ZEOF", pos)) /\ IsSeq(last) BY <2>1, <2>2, HexSeqs
  <2>4. down' = last BY <1>2, <2>3, AfterIdle
  <2>5. InHex(Header("ZEOF", pos))' BY <2>3, <2>4 DEF InHex
  <2>6. (\E p \in Nat : InHex(Header("ZEOF", p)))' BY <1>6, <2>2, <2>5
  <2> QED BY <1>4, <1>5, <1>7, <1>9, <2>6 DEF SendingData
<1> QED BY <1>6, <1>8, <1>9

(***************************************************************************)
(* A session without faults: the steps of the receiver, stage by stage.    *)
(***************************************************************************)
LEMMA StoredKept ==
  ASSUME Stored, files' = files, r'.pc = "ended" <=> r.pc = "ended"
  PROVE  Stored'
BY DEF Stored, StoredOf, EndOf

LEMMA InitialDispatch ==
  ASSUME TypeInv, Clean, NEW h, h[2] \in {"ZRQINIT", "ZEOF"}, Dispatch(h, 0)
  PROVE  /\ r'.pc = "zdle" /\ r'.size = r.size /\ r'.out = r.out /\ files' = files
         /\ up' = Append(up, <<"ZRINIT", 0>>)
<1>1. Go("zdle") /\ Answer("ZRINIT", 0, 0) BY DEF Dispatch
<1>2. up' = Append(up, <<"ZRINIT", 0>>) BY <1>1, CleanAnswers
<1> QED BY <1>1, <1>2, GoFacts

LEMMA DataDispatch ==
  ASSUME TypeInv, Clean, NEW h, h[2] \notin {"ZRQINIT", "ZEOF", "ZFIN"}, Dispatch(h, 0)
  PROVE  /\ r'.pc = "data" /\ r'.block = (IF h[2] = "ZFILE" THEN "name" ELSE "file")
         /\ r'.got = <<>> /\ r'.crc = <<>> /\ r'.width = r.width
         /\ r'.size = r.size /\ r'.out = r.out /\ files' = files /\ up' = up
<1>1. /\ r' = [r EXCEPT !.pc = "data", !.block = IF h[2] = "ZFILE" THEN "name" ELSE "file",
                        !.got = <<>>, !.crc = <<>>]
      /\ files' = files /\ Silent(0)
  BY DEF Dispatch
<1>2. up' = up BY <1>1 DEF Silent
<1> QED BY <1>1, <1>2 DEF TypeInv, ReceiverOK

LEMMA FinDispatch ==
  ASSUME Clean, NEW h, h[2] = "ZFIN", Dispatch(h, 0)
  PROVE  Cleanup /\ up' = Append(up, <<"ZFIN", 0>>)
<1>1. Cleanup /\ Answer("ZFIN", 0, 0) BY DEF Dispatch
<1> QED BY <1>1, CleanAnswers

LEMMA IdleStep ==
  ASSUME TypeInv, Idle, Receiver, Clean
  PROVE  Unmoved /\ Idle'
<1>1. down = Cons(XON, <<>>) BY NothingToRead DEF Idle
<1>2. XON # ZDLE /\ ~IsError(XON) BY DEF XON, ZDLE, IsError, CANCELLED, BAD_ESCAPE
<1> QED BY <1>1, <1>2, EmptyIsSeq, ZdleStep DEF Idle

LEMMA Headers ==
  \A type, pos : Header(type, pos)[1] = "header" /\ Header(type, pos)[2] = type
BY DEF Header

LEMMA InitialStep ==
  ASSUME TypeInv, Initial, Stored
  PROVE  /\ snd.pc # "off" /\ up = <<>> => ~Waiting
         /\ Receiver /\ Clean => Stages' /\ Stored'
<1>1. PICK h : h = Header("ZRQINIT", 0) OBVIOUS
<1>2. h[1] = "header" /\ h[2] = "ZRQINIT" BY <1>1, Headers
<1>3. files = <<>> /\ snd.file = 0 /\ ~r.out BY DEF Initial
<1>4. ASSUME Unmoved, r'.pc # "ended", r.pc # "ended",
             \/ InHex(h)' /\ snd.pc = "init" /\ up = <<>>
             \/ Idle' /\ snd.pc = "init" /\ up = <<<<"ZRINIT", 0>>>>
      PROVE  Stages' /\ Stored'
  <2>1. Initial' BY <1>1, <1>3, <1>4 DEF Initial, Unmoved
  <2>2. Stored' BY <1>4, StoredKept DEF Unmoved
  <2> QED BY <2>1, <2>2 DEF Stages
<1>5. CASE snd.pc = "off" /\ r.pc = "rz" /\ down = <<>> /\ up = <<>>
  BY <1>5, NothingToRead
<1>6. CASE snd.pc = "init" /\ up = <<>> /\ r.pc = "rz" /\ down = Cons(Rz, Cons(CR, HexAll(Header("ZRQINIT", 0))))
  <2>1. Rz # ZDLE /\ Rz # XON /\ Rz # AGAIN /\ ~IsError(Rz)
    BY DEF Rz, ZDLE, XON, AGAIN, IsError, CANCELLED, BAD_ESCAPE
  <2>2. PICK rest : rest = Cons(CR, HexAll(h)) OBVIOUS
  <2>3. IsSeq(rest) BY <2>2, HexSeqs, ConsFacts
  <2>4. ~Waiting /\ (Receiver /\ Clean => Takes(Rz, rest)) BY <1>1, <1>6, <2>1, <2>2, <2>3, ReadsPlain
  <2>5. ASSUME Receiver, Clean PROVE Stages' /\ Stored'
    <3>1. snd' = snd /\ down' = rest /\ OnRz(Rz, 0) BY <1>6, <2>4, <2>5 DEF Takes, Handle
    <3>2. Go("zdle") /\ Silent(0) BY <2>1, <3>1 DEF OnRz
    <3>3. up' = up BY <3>2 DEF Silent
    <3>4. Unmoved /\ r'.pc = "zdle" BY <3>1, <3>2, <3>3, GoFacts DEF Unmoved
    <3>5. InHex(h)' BY <2>2, <3>1, <3>4 DEF InHex
    <3> QED BY <1>4, <1>6, <3>4, <3>5
  <2> QED BY <2>4, <2>5
<1>7. CASE snd.pc = "init" /\ up = <<>> /\ InHex(Header("ZRQINIT", 0))
  <2>1. InHex(h) BY <1>1, <1>7
  <2>2. ~Waiting BY <1>2, <2>1, HexStep
  <2>3. ASSUME Receiver, Clean, InHex(h)', Unmoved PROVE Stages' /\ Stored'
    <3>1. r.pc # "ended" /\ r'.pc # "ended" BY <2>1, <2>3 DEF InHex
    <3> QED BY <1>4, <1>7, <2>3, <3>1
  <2>4. ASSUME Receiver, Clean, snd' = snd, down' = Cons(XON, <<>>), Dispatch(h, 0) PROVE Stages' /\ Stored'
    <3>1. /\ r'.pc = "zdle" /\ r'.size = r.size /\ r'.out = r.out /\ files' = files
          /\ up' = Append(up, <<"ZRINIT", 0>>)
      BY <1>2, <2>4, InitialDispatch
    <3>2. up' = <<<<"ZRINIT", 0>>>> BY <1>7, <3>1, AppendOne
    <3>3. Initial' BY <1>3, <1>7, <2>4, <3>1, <3>2 DEF Initial, Idle
    <3>4. r.pc # "ended" BY <2>1 DEF InHex
    <3> QED BY <3>1, <3>3, <3>4, StoredKept DEF Stages
  <2> QED BY <1>2, <2>1, <2>2, <2>3, <2>4, HexStep
<1>8. CASE snd.pc = "init" /\ up = <<<<"ZRINIT", 0>>>> /\ Idle
  <2>1. ASSUME Receiver, Clean PROVE Stages' /\ Stored'
    <3>1. Unmoved /\ Idle' BY <1>8, <2>1, IdleStep
    <3>2. r.pc # "ended" /\ r'.pc # "ended" BY <1>8, <3>1 DEF Idle
    <3> QED BY <1>4, <1>8, <3>1, <3>2
  <2>2. up # <<>> BY <1>8
  <2> QED BY <2>1, <2>2
<1> QED BY <1>5, <1>6, <1>7, <1>8 DEF Initial

LEMMA CreateStep ==
  ASSUME TypeInv, Stored, Clean, NEW n \in Nat \ {0}, Len(files) = n - 1, Create(<<"name", n>>, 0), r.pc # "ended",
         files # <<>> => EndOf(n - 1) >= Len(Files[n - 1])
  PROVE  \/ r'.pc = "ended" /\ up' = up
         \/ /\ Stored' /\ Len(files') = n /\ r'.pc = "zdle" /\ r'.size = r.size /\ r'.out
            /\ up' = Append(up, <<"ZRPOS", r.size>>)
<1>0. CASE NotOpened BY <1>0 DEF NotOpened, TypeInv, ReceiverOK
<1> SUFFICES ASSUME ~NotOpened
             PROVE  /\ Stored' /\ Len(files') = n /\ r'.pc = "zdle" /\ r'.size = r.size /\ r'.out
                    /\ up' = Append(up, <<"ZRPOS", r.size>>)
  BY <1>0
<1>1. IsSeq(files) /\ DOMAIN files = 1 .. n - 1 BY SeqFacts DEF TypeInv, FilesOK
<1>3. PICK new : new = [name |-> <<"name", n>>, start |-> r.size, data |-> <<>>, closed |-> FALSE] OBVIOUS
<1>4. /\ files' = Append(files, new)
      /\ r' = [r EXCEPT !.pc = "zdle", !.out = TRUE, !.got = <<>>, !.crc = <<>>]
      /\ Answer("ZRPOS", r.size, 0)
  BY <1>3 DEF Create
<1>5. r'.pc = "zdle" /\ r'.size = r.size /\ r'.out BY <1>4 DEF TypeInv, ReceiverOK
<1>6. up' = Append(up, <<"ZRPOS", r.size>>) BY <1>4, CleanAnswers
<1>7. IsSeq(files') /\ Len(files') = n /\ files'[n] = new /\ \A i \in 1 .. n - 1 : files'[i] = files[i]
  <2>1. Len(files) + 1 = n OBVIOUS
  <2> QED BY <1>1, <1>4, <2>1, AppendFacts
<1>8. DOMAIN files' = 1 .. n BY <1>7, SeqFacts
<1>9. ASSUME NEW i \in 1 .. n - 1 PROVE StoredOf(i)'
  <2>1. files'[i] = files[i] /\ i \in DOMAIN files /\ i # 0 BY <1>1, <1>7
  <2>2. StoredOf(i) BY <2>1 DEF Stored
  <2>3. EndOf(i)' = EndOf(i) BY <2>1 DEF EndOf
  <2>4. EndOf(i) >= Len(Files[i])
    <3>1. CASE i = n - 1
      <4>1. files # <<>> BY <1>1, SeqFacts
      <4> QED BY <3>1, <4>1
    <3>2. CASE i # n - 1
      <4>1. i < Len(files) BY <3>2
      <4> QED BY <2>2, <4>1 DEF StoredOf
    <3> QED BY <3>1, <3>2
  <2>5. ~files[i].closed BY <2>2 DEF StoredOf
  <2>6. files[i].name = <<"name", i>> /\
        \A j \in DOMAIN files[i].data :
          files[i].start + j <= Len(Files[i]) /\ files[i].data[j] = <<"data", Files[i][files[i].start + j]>>
    BY <2>2 DEF StoredOf
  <2> QED BY <1>5, <2>1, <2>3, <2>4, <2>5, <2>6 DEF StoredOf
<1>10. StoredOf(n)'
  <2>1. new.name = <<"name", n>> /\ new.data = <<>> /\ ~new.closed /\ DOMAIN new.data = {} BY <1>3
  <2>2. ~ (n < Len(files')) BY <1>7
  <2> QED BY <1>5, <1>7, <2>1, <2>2 DEF StoredOf
<1>11. Stored'
  <2>1. \A i \in 1 .. n : i \in 1 .. n - 1 \/ i = n OBVIOUS
  <2> QED BY <1>8, <1>9, <1>10, <2>1 DEF Stored
<1> QED BY <1>5, <1>6, <1>7, <1>11

LEMMA OfferingStep ==
  ASSUME TypeInv, Offering, Stored
  PROVE  /\ up = <<>> => ~Waiting
         /\ Receiver /\ Clean => (Stages' /\ Stored') \/ TurnedAway'
<1>1. PICK h, n, char, format, packet :
        /\ h = Header("ZFILE", 0) /\ n = snd.file /\ char = <<"name", n>> /\ format = snd.format
        /\ packet = Packet(format, char, "W", <<>>)
  OBVIOUS
<1>2. h[1] = "header" /\ h[2] = "ZFILE" BY <1>1, Headers
<1>3. snd.pc = "file" /\ snd.file \in 1 .. snd.count BY DEF Offering
<1>4. n \in Nat \ {0} BY <1>1, <1>3, Constants DEF TypeInv, SenderOK, Sends
<1>5. format \in Formats /\ IsSeq(packet) /\ IsChar(char)
  BY <1>1, OnePacket DEF TypeInv, SenderOK, Sends, IsChar
<1>6. CASE /\ up = <<>> /\ Len(files) = n - 1
           /\ files # <<>> => EndOf(n - 1) >= Len(Files[n - 1])
           /\ InBin(format, h, packet) \/ (r.block = "name" /\ InPacket(format, char, "W", <<>>))
  <2>1. ASSUME Unmoved, r.pc # "ended", r'.pc # "ended",
               InBin(format, h, packet)' \/ (r'.block = "name" /\ InPacket(format, char, "W", <<>>)')
        PROVE  Stages' /\ Stored'
    <3>1. Stored' BY <2>1, StoredKept DEF Unmoved
    <3>2. EndOf(n - 1)' = EndOf(n - 1) BY <2>1 DEF Unmoved, EndOf
    <3>3. Offering' BY <1>1, <1>3, <1>6, <2>1, <3>2 DEF Offering, Unmoved
    <3> QED BY <3>1, <3>3 DEF Stages
  <2>2. CASE InBin(format, h, packet)
    <3>1. ~Waiting BY <1>2, <1>5, <2>2, BinStep
    <3>2. r.pc # "ended" BY <2>2 DEF InBin
    <3>3. ASSUME Receiver, Clean, InBin(format, h, packet)', Unmoved PROVE Stages' /\ Stored'
      <4>1. r'.pc # "ended" BY <3>3 DEF InBin
      <4> QED BY <2>1, <3>2, <3>3, <4>1
    <3>4. ASSUME Receiver, Clean, snd' = snd, down' = packet, Dispatch(h, 0), r.width = Width(format)
          PROVE  Stages' /\ Stored'
      <4>1. /\ r'.pc = "data" /\ r'.block = "name"
            /\ r'.got = <<>> /\ r'.crc = <<>> /\ r'.width = r.width
            /\ r'.size = r.size /\ r'.out = r.out /\ files' = files /\ up' = up
        BY <1>2, <3>4, DataDispatch
      <4>2. InPacket(format, char, "W", <<>>)' BY <1>1, <3>4, <4>1 DEF InPacket
      <4>3. Stored' BY <3>2, <4>1, StoredKept
      <4>4. EndOf(n - 1)' = EndOf(n - 1) BY <4>1 DEF EndOf
      <4>5. Offering' BY <1>1, <1>3, <1>6, <3>4, <4>1, <4>2, <4>4 DEF Offering
      <4> QED BY <4>3, <4>5 DEF Stages
    <3> QED BY <1>2, <1>5, <2>2, <3>1, <3>3, <3>4, BinStep
  <2>3. CASE r.block = "name" /\ InPacket(format, char, "W", <<>>)
    <3>1. ~Waiting BY <1>5, <2>3, EmptyIsSeq, PacketStep
    <3>2. r.pc # "ended" BY <2>3 DEF InPacket
    <3>3. ASSUME Receiver, Clean, InPacket(format, char, "W", <<>>)', Unmoved PROVE Stages' /\ Stored'
      <4>1. r'.pc # "ended" BY <3>3 DEF InPacket
      <4>2. r'.block = "name" BY <2>3, <3>3 DEF Unmoved
      <4> QED BY <2>1, <3>2, <3>3, <4>1, <4>2
    <3>4. ASSUME Receiver, Clean, snd' = snd, down' = <<>>, Block(0), r.got = <<char, <<"fin", "W">>>>
          PROVE  (Stages' /\ Stored') \/ TurnedAway'
      <4>1. Head(r.got) = char BY <3>4
      <4>2. Create(<<"name", n>>, 0) BY <1>1, <2>3, <3>4, <4>1 DEF Block
      <4>3. CASE r'.pc = "ended" /\ up' = up BY <1>3, <1>6, <3>4, <4>3 DEF TurnedAway
      <4>4. SUFFICES ASSUME ~(r'.pc = "ended" /\ up' = up) PROVE Stages' /\ Stored' BY <4>3
      <4>5. /\ Stored' /\ Len(files') = n /\ r'.pc = "zdle" /\ r'.size = r.size /\ r'.out
            /\ up' = Append(up, <<"ZRPOS", r.size>>)
        BY <1>4, <1>6, <3>2, <3>4, <4>2, <4>4, CreateStep
      <4>6. up' = <<<<"ZRPOS", r.size>>>> BY <1>6, <4>5, AppendOne
      <4>7. Offering' BY <1>1, <1>3, <3>4, <4>5, <4>6 DEF Offering
      <4> QED BY <4>5, <4>7 DEF Stages
    <3> QED BY <1>5, <2>3, <3>1, <3>3, <3>4, EmptyIsSeq, PacketStep
  <2> QED BY <1>6, <2>2, <2>3
<1>7. CASE up = <<<<"ZRPOS", r.size>>>> /\ r.pc = "zdle" /\ down = <<>>
  BY <1>7, NothingToRead
<1> QED BY <1>1, <1>6, <1>7 DEF Offering

LEMMA StoreStep ==
  ASSUME TypeInv, Stored, Clean, r.block = "file", r.out, r.pc # "ended", Block(0),
         NEW n, n = Len(files), Len(Files[n]) \in Nat, r.size < Len(Files[n]),
         NEW end, r.got = <<<<"data", Files[n][r.size + 1]>>, <<"fin", end>>>>
  PROVE  /\ Stored' /\ Len(files') = n
         /\ r'.pc = (IF end \in {"E", "W"} THEN "zdle" ELSE "data")
         /\ r'.size = r.size + 1 /\ r'.got = <<>> /\ r'.crc = <<>>
         /\ r'.out /\ r'.block = r.block /\ r'.width = r.width
         /\ up' = IF end \in {"Q", "W"} THEN Append(up, <<"ZACK", r.size + 1>>) ELSE up
<1>1. PICK char : char = <<"data", Files[n][r.size + 1]>> OBVIOUS
<1>2. r.got = <<char, <<"fin", end>>>> BY <1>1
<1>3. Len(r.got) = 2 /\ r.got[1] = char /\ Last(r.got)[2] = end BY <1>2 DEF Last
<1>4. Counted(r.got) = 1 BY <1>3 DEF Counted
<1>5. Store(end, 0) BY <1>3 DEF Block
<1>6. PICK more : more = [i \in 1 .. 1 |-> r.got[i]] OBVIOUS
<1>7. IsSeq(more) /\ Len(more) = 1 /\ more[1] = char
  <2>1. PICK got : got = r.got OBVIOUS
  <2>2. more = [i \in 1 .. 1 |-> got[i]] BY <1>6, <2>1
  <2>3. more[1] = char BY <1>3, <2>1, <2>2
  <2>4. \A s : IsSeq([i \in 1 .. 1 |-> s[i]]) /\ Len([i \in 1 .. 1 |-> s[i]]) = 1 BY TabulateFacts
  <2>5. IsSeq(more) /\ Len(more) = 1 BY <2>2, <2>4, Zenon
  <2> QED BY <2>3, <2>5
<1>8. /\ files' = [files EXCEPT ![n].data = @ \o more]
      /\ r' = [r EXCEPT !.size = @ + 1, !.got = <<>>, !.crc = <<>>,
                        !.pc = IF end \in {"E", "W"} THEN "zdle" ELSE "data"]
      /\ IF end \in {"Q", "W"} THEN Answer("ZACK", r.size + 1, 0) ELSE Silent(0)
  <2>1. Len(r.got) - 1 = 1 BY <1>3
  <2> QED BY <1>4, <1>5, <1>6, <2>1 DEF Store
<1>9. up' = IF end \in {"Q", "W"} THEN Append(up, <<"ZACK", r.size + 1>>) ELSE up
  BY <1>8, CleanAnswers
<1>10. /\ r'.pc = (IF end \in {"E", "W"} THEN "zdle" ELSE "data")
       /\ r'.size = r.size + 1 /\ r'.got = <<>> /\ r'.crc = <<>>
       /\ r'.out /\ r'.block = r.block /\ r'.width = r.width
  BY <1>8 DEF TypeInv, ReceiverOK
<1>11. IsSeq(files) /\ files # <<>> BY DEF TypeInv, FilesOK, ReceiverOK
<1>12. n \in Nat \ {0} /\ DOMAIN files = 1 .. n /\ n \in DOMAIN files BY <1>11, SeqFacts
<1>13. PICK file : file = files[n] OBVIOUS
<1>14. DOMAIN file = {"name", "start", "data", "closed"} /\ IsSeq(file.data) /\ file.start \in Nat
  BY <1>12, <1>13 DEF TypeInv, FilesOK
<1>15. PICK new : new = [file EXCEPT !.data = @ \o more] OBVIOUS
<1>16. files' = [files EXCEPT ![n] = new] BY <1>8, <1>12, <1>13, <1>15
<1>17. Len(files') = n /\ files'[n] = new /\ DOMAIN files' = DOMAIN files
       /\ \A i \in DOMAIN files : i # n => files'[i] = files[i]
  <2>1. Len(files') = n BY <1>11, <1>12, <1>16, ExceptFacts
  <2> QED BY <1>12, <1>16, <2>1
<1>18. new.name = file.name /\ new.start = file.start /\ new.closed = file.closed /\ new.data = file.data \o more
  BY <1>14, <1>15
<1>19. PICK k : k = Len(file.data) OBVIOUS
<1>20. k \in Nat /\ IsSeq(new.data) /\ Len(new.data) = k + 1 /\ new.data[k + 1] = char
       /\ \A i \in 1 .. k : new.data[i] = file.data[i]
  <2>1. PICK data : data = file.data OBVIOUS
  <2>2. IsSeq(data) /\ k = Len(data) BY <1>14, <1>19, <2>1
  <2>3. k \in Nat BY <2>2, SeqFacts
  <2>4. /\ IsSeq(data \o more) /\ Len(data \o more) = Len(data) + Len(more)
        /\ \A i \in 1 .. Len(data) : (data \o more)[i] = data[i]
        /\ \A i \in 1 .. Len(more) : (data \o more)[Len(data) + i] = more[i]
    <3>1. IsSeq(data) /\ IsSeq(more) BY <1>7, <2>2
    <3> QED BY ONLY <3>1, ConcatFacts
  <2>5. (data \o more)[k + 1] = char
    <3>1. 1 \in 1 .. Len(more) BY <1>7
    <3> QED BY <1>7, <2>2, <2>4, <3>1
  <2> QED BY <1>7, <1>18, <2>1, <2>2, <2>3, <2>4, <2>5
<1>21. DOMAIN new.data = 1 .. k + 1 /\ DOMAIN file.data = 1 .. k BY <1>14, <1>19, <1>20, SeqFacts
<1>22. r.size = file.start + k BY <1>12, <1>13, <1>19 DEF TypeInv, ReceiverOK, EndOf
<1>23. StoredOf(n) BY <1>12 DEF Stored
<1>24. StoredOf(n)'
  <2>1. new.name = <<"name", n>> /\ ~new.closed BY <1>13, <1>18, <1>23 DEF StoredOf
  <2>2. \A i \in 1 .. k : file.start + i <= Len(Files[n]) /\ file.data[i] = <<"data", Files[n][file.start + i]>>
    BY <1>13, <1>21, <1>23 DEF StoredOf
  <2>3. \A i \in 1 .. k + 1 : new.start + i <= Len(Files[n]) /\ new.data[i] = <<"data", Files[n][new.start + i]>>
    <3> SUFFICES ASSUME NEW i \in 1 .. k + 1
                 PROVE  new.start + i <= Len(Files[n]) /\ new.data[i] = <<"data", Files[n][new.start + i]>>
      OBVIOUS
    <3>1. CASE i \in 1 .. k BY <1>18, <1>20, <2>2, <3>1
    <3>2. CASE i = k + 1
      <4>1. PICK size, length : size = r.size /\ length = Len(Files[n]) OBVIOUS
      <4>2. size \in Nat /\ length \in Nat /\ size < length BY <4>1, SizeTyped
      <4>3. size + 1 <= length BY <4>2
      <4>4. new.start + i = r.size + 1 /\ r.size + 1 <= Len(Files[n])
        BY <1>14, <1>18, <1>20, <1>22, <3>2, <4>1, <4>3
      <4> QED BY <1>1, <1>20, <3>2, <4>4
    <3> QED BY <1>20, <3>1, <3>2
  <2>4. ~ (n < Len(files')) BY <1>12, <1>17
  <2>5. r'.pc # "ended" BY <1>10
  <2> QED BY <1>17, <1>21, <2>1, <2>3, <2>4, <2>5 DEF StoredOf
<1>25. ASSUME NEW i \in DOMAIN files, i # n PROVE StoredOf(i)'
  <2>1. StoredOf(i) BY DEF Stored
  <2>2. files'[i] = files[i] BY <1>17, <1>25
  <2>3. EndOf(i)' = EndOf(i) BY <2>2 DEF EndOf
  <2>4. r'.pc # "ended" BY <1>10
  <2> QED BY <1>17, <2>1, <2>2, <2>3, <2>4 DEF StoredOf
<1>26. Stored' BY <1>17, <1>24, <1>25 DEF Stored
<1> QED BY <1>9, <1>10, <1>17, <1>26

LEMMA AcksStay ==
  ASSUME Acks(up), snd' = snd, up' = up \/ (snd.style # "wait" /\ \E pos : up' = Append(up, <<"ZACK", pos>>))
  PROVE  Acks(up)'
<1>1. CASE up' = up BY <1>1 DEF Acks
<1>2. CASE snd.style # "wait" /\ \E pos : up' = Append(up, <<"ZACK", pos>>)
  <2>1. PICK ack : up' = Append(up, ack) /\ ack[1] = "ZACK" BY <1>2
  <2>2. IsSeq(up) /\ \A i \in DOMAIN up : up[i][1] = "ZACK" BY DEF Acks
  <2>3. /\ IsSeq(up') /\ Len(up') = Len(up) + 1 /\ up'[Len(up) + 1] = ack
        /\ \A i \in 1 .. Len(up) : up'[i] = up[i]
    BY <2>1, <2>2, AppendFacts
  <2>4. Len(up) \in Nat /\ DOMAIN up = 1 .. Len(up) /\ DOMAIN up' = 1 .. Len(up') BY <2>2, <2>3, SeqFacts
  <2>5. ASSUME NEW i \in DOMAIN up' PROVE up'[i][1] = "ZACK"
    <3>1. i = Len(up) + 1 \/ i \in 1 .. Len(up) BY <2>3, <2>4
    <3> QED BY <2>1, <2>2, <2>3, <2>4, <3>1
  <2> QED BY <1>2, <2>3, <2>5 DEF Acks
<1> QED BY <1>1, <1>2

\* A subpacket is complete: it is stored, and the next one or ZEOF follows, or the
\* sender waits for the acknowledgement.
LEMMA NextStep ==
  ASSUME TypeInv, Stored, Clean, snd.pc = "data", snd.file \in 1 .. snd.count, Len(files) = snd.file, r.out,
         Acks(up), r.size < Size, r.block = "file", InPacket(snd.format, NextChar, NextEnd, NextRest),
         Block(0), r.got = <<NextChar, <<"fin", NextEnd>>>>, snd' = snd, down' = NextRest
  PROVE  SendingData' /\ Stored'
<1>1. PICK n, size, end : n = snd.file /\ size = Size /\ end = NextEnd OBVIOUS
<1>2. n \in 1 .. Len(Files) BY <1>1, Constants DEF TypeInv, SenderOK, Sends
<1>3. size = Len(Files[n]) /\ size \in Nat BY <1>1, <1>2, FileSize DEF Size
<1>4. r.size \in Nat /\ r.size < size BY <1>1, SizeTyped
<1>5. r.got = <<<<"data", Files[n][r.size + 1]>>, <<"fin", end>>>> BY <1>1 DEF NextChar
<1>6. r.pc # "ended" BY DEF InPacket
<1>7. /\ Stored' /\ Len(files') = n
      /\ r'.pc = (IF end \in {"E", "W"} THEN "zdle" ELSE "data")
      /\ r'.size = r.size + 1 /\ r'.got = <<>> /\ r'.crc = <<>>
      /\ r'.out /\ r'.block = r.block /\ r'.width = r.width
      /\ up' = IF end \in {"Q", "W"} THEN Append(up, <<"ZACK", r.size + 1>>) ELSE up
  BY <1>1, <1>3, <1>4, <1>5, <1>6, StoreStep
<1>8. r.width = Width(snd.format) BY DEF InPacket
<1>9. Size' = size BY <1>1 DEF Size
<1>10. snd'.pc = "data" /\ snd'.file \in 1 .. snd'.count /\ Len(files') = snd'.file /\ r'.out BY <1>1, <1>7
<1>11. CASE snd.style = "wait"
  <2>1. end = "W" /\ NextRest = <<>> BY <1>1, <1>11 DEF NextEnd, NextRest
  <2>2. up = <<>> BY <1>11 DEF Acks
  <2>3. up' = <<<<"ZACK", r'.size>>>> BY <1>7, <2>1, <2>2, AppendOne
  <2>4. r'.pc = "zdle" /\ down' = <<>> /\ snd'.style = "wait" BY <1>7, <1>11, <2>1
  <2> QED BY <1>7, <1>10, <2>3, <2>4 DEF SendingData
<1>12. CASE snd.style # "wait" /\ size - r.size = 1
  <2>1. end = "E" BY <1>1, <1>12 DEF NextEnd
  <2>2. size - r.size - 1 = 0 BY <1>4, <1>12
  <2>3. 0 \in 0 .. Len(Files[n]) BY <1>3
  <2>4. NextRest = HexAll(Header("ZEOF", size))
    <3>1. PICK style, format : style = snd.style /\ format = snd.format OBVIOUS
    <3>2. NextRest = Remaining(format, style, n)[0] BY <1>1, <1>12, <2>2, <3>1 DEF NextRest
    <3>3. PICK k : k = 0 OBVIOUS
    <3>4. k \in 0 .. Len(Files[n]) /\ Len(Files[n]) \in Nat BY <1>3, <2>3, <3>3
    <3>5. Remaining(format, style, n)[k] = HexAll(Header("ZEOF", Len(Files[n])))
      BY <3>3, <3>4, NoneRemain
    <3> QED BY <1>3, <3>2, <3>3, <3>5
  <2>5. r'.pc = "zdle" /\ up' = up BY <1>7, <2>1
  <2>6. Acks(up)' BY <2>5, AcksStay
  <2>7. r'.size >= Size' BY <1>3, <1>4, <1>7, <1>9, <1>12
  <2>8. InHex(Header("ZEOF", size))' BY <2>4, <2>5 DEF InHex
  <2>9. (\E pos \in Nat : InHex(Header("ZEOF", pos)))' BY <1>3, <2>8
  <2> QED BY <1>7, <1>10, <2>6, <2>7, <2>9 DEF SendingData
<1>13. CASE snd.style # "wait" /\ size - r.size # 1
  <2>1. PICK style, format, k : style = snd.style /\ format = snd.format /\ k = size - r.size - 1 OBVIOUS
  <2>2. k \in 0 .. Len(Files[n]) /\ k # 0 /\ k = size - (r.size + 1) /\ Len(Files[n]) - k + 1 = (r.size + 1) + 1
    <3>1. PICK pos : pos = r.size OBVIOUS
    <3>2. pos \in Nat /\ pos < size /\ size \in Nat /\ size - pos # 1 /\ k = size - pos - 1
      BY <1>3, <1>4, <1>13, <2>1, <3>1
    <3>3. k \in 0 .. size /\ k # 0 /\ k = size - (pos + 1) /\ size - k + 1 = (pos + 1) + 1 BY <3>2
    <3> QED BY <1>3, <3>1, <3>3
  <2>3. NextRest = Remaining(format, style, n)[k] BY <1>1, <1>13, <2>1 DEF NextRest
  <2>4. Remaining(format, style, n)[k]
          = Packet(format, <<"data", Files[n][Len(Files[n]) - k + 1]>>, EndAt(style, k),
                   Remaining(format, style, n)[k - 1])
    BY <1>3, <2>2, RemainingIs, SMTT(60)
  <2>5. NextChar' = <<"data", Files[n][Len(Files[n]) - k + 1]>> BY <1>1, <1>7, <2>2 DEF NextChar
  <2>6. Size' - r'.size = k /\ Size' - r'.size - 1 = k - 1 BY <1>7, <1>9, <2>2
  <2>7. NextEnd' = EndAt(style, k) BY <1>13, <2>1, <2>6 DEF NextEnd, EndAt
  <2>8. NextRest' = Remaining(format, style, n)[k - 1] BY <1>1, <1>13, <2>1, <2>6 DEF NextRest
  <2>9. down' = Packet(snd.format, NextChar, NextEnd, NextRest)' BY <2>1, <2>3, <2>4, <2>5, <2>7, <2>8 DEF Packet, PacketEnd
  <2>10. end \in {"Q", "G"} BY <1>1, <1>13 DEF NextEnd
  <2>11. r'.pc = "data" BY <1>7, <2>10
  <2>12. InPacket(snd.format, NextChar, NextEnd, NextRest)' BY <1>7, <1>8, <2>9, <2>11 DEF InPacket
  <2>13. Acks(up)'
    <3>1. up' = up \/ \E pos : up' = Append(up, <<"ZACK", pos>>) BY <1>7
    <3> QED BY <1>13, <3>1, AcksStay
  <2>14. r'.size < Size'
    <3>1. PICK pos : pos = r.size OBVIOUS
    <3>2. pos \in Nat /\ size \in Nat /\ k \in Nat /\ k # 0 /\ k = size - (pos + 1) BY <1>3, <1>4, <2>2, <3>1
    <3>3. pos + 1 < size BY <3>2
    <3> QED BY <1>7, <1>9, <3>1, <3>3
  <2> QED BY <1>7, <1>10, <2>12, <2>13, <2>14 DEF SendingData
<1> QED BY <1>11, <1>12, <1>13

LEMMA SendingStep ==
  ASSUME TypeInv, SendingData, Stored
  PROVE  /\ up = <<>> => ~Waiting
         /\ Receiver /\ Clean => Stages' /\ Stored'
<1>1. PICK format, char, end, rest, packet :
        /\ format = snd.format /\ char = NextChar /\ end = NextEnd /\ rest = NextRest
        /\ packet = Packet(format, char, end, rest)
  OBVIOUS
<1>2. snd.pc = "data" /\ snd.file \in 1 .. snd.count /\ Len(files) = snd.file /\ r.out BY DEF SendingData
<1>3. format \in Formats BY <1>1 DEF TypeInv, SenderOK, Sends
<1>4. r.size < Size => IsSeq(rest) /\ IsChar(char) /\ IsSeq(packet) BY <1>1, <1>2, NextFacts
<1>5. ASSUME snd' = snd, r'.size = r.size
      PROVE  /\ Size' = Size /\ NextChar' = char /\ NextEnd' = end /\ NextRest' = rest
  <2>1. Size' = Size BY <1>5 DEF Size
  <2> QED BY <1>1, <1>5, <2>1 DEF NextChar, NextEnd, NextRest
<1>6. ASSUME snd' = snd, files' = files, r'.out = r.out
      PROVE  snd'.pc = "data" /\ snd'.file \in 1 .. snd'.count /\ Len(files') = snd'.file /\ r'.out
  BY <1>2, <1>6
<1>7. CASE Acks(up) /\ r.size < Size /\ InBin(format, Header("ZDATA", r.size), packet)
  <2>1. PICK h : h = Header("ZDATA", r.size) OBVIOUS
  <2>2. h[1] = "header" /\ h[2] = "ZDATA" /\ InBin(format, h, packet) BY <1>7, <2>1, Headers
  <2>3. ~Waiting BY <1>3, <1>4, <1>7, <2>2, BinStep
  <2>4. r.pc # "ended" BY <2>2 DEF InBin
  <2>5. ASSUME Receiver, Clean, InBin(format, h, packet)', Unmoved PROVE Stages' /\ Stored'
    <3>1. Acks(up)' BY <1>7, <2>5, AcksStay DEF Unmoved
    <3>2. r'.pc # "ended" BY <2>5 DEF InBin
    <3>3. Stored' BY <2>4, <2>5, <3>2, StoredKept DEF Unmoved
    <3>4. snd' = snd /\ r'.size = r.size /\ files' = files /\ r'.out = r.out BY <2>5 DEF Unmoved
    <3>5. h = Header("ZDATA", r'.size) /\ format = snd'.format BY <1>1, <2>1, <3>4
    <3>6. packet = Packet(snd.format, NextChar, NextEnd, NextRest)'
      BY <1>1, <1>5, <3>4 DEF Packet, PacketEnd
    <3>7. InBin(snd.format, Header("ZDATA", r.size), Packet(snd.format, NextChar, NextEnd, NextRest))'
      BY <2>5, <3>5, <3>6
    <3>8. SendingData' BY <1>5, <1>6, <1>7, <3>1, <3>4, <3>7 DEF SendingData
    <3> QED BY <3>3, <3>8 DEF Stages
  <2>6. ASSUME Receiver, Clean, snd' = snd, down' = packet, Dispatch(h, 0), r.width = Width(format)
        PROVE  Stages' /\ Stored'
    <3>1. /\ r'.pc = "data" /\ r'.block = "file"
          /\ r'.got = <<>> /\ r'.crc = <<>> /\ r'.width = r.width
          /\ r'.size = r.size /\ r'.out = r.out /\ files' = files /\ up' = up
      BY <2>2, <2>6, DataDispatch
    <3>2. Acks(up)' BY <1>7, <2>6, <3>1, AcksStay
    <3>3. Stored' BY <2>4, <3>1, StoredKept
    <3>4. InPacket(format, char, end, rest)' BY <1>1, <2>6, <3>1 DEF InPacket
    <3>5. InPacket(snd.format, NextChar, NextEnd, NextRest)' BY <1>1, <1>5, <2>6, <3>1, <3>4 DEF InPacket, Packet, PacketEnd
    <3>6. SendingData' BY <1>5, <1>6, <1>7, <2>6, <3>1, <3>2, <3>5 DEF SendingData
    <3> QED BY <3>3, <3>6 DEF Stages
  <2> QED BY <1>3, <1>4, <1>7, <2>2, <2>3, <2>5, <2>6, BinStep
<1>8. CASE Acks(up) /\ r.size < Size /\ r.block = "file" /\ InPacket(format, char, end, rest)
  <2>1. ~Waiting BY <1>3, <1>4, <1>8, PacketStep
  <2>2. r.pc # "ended" BY <1>8 DEF InPacket
  <2>3. ASSUME Receiver, Clean, InPacket(format, char, end, rest)', Unmoved PROVE Stages' /\ Stored'
    <3>1. Acks(up)' BY <1>8, <2>3, AcksStay DEF Unmoved
    <3>2. r'.pc # "ended" BY <2>3 DEF InPacket
    <3>3. Stored' BY <2>2, <2>3, <3>2, StoredKept DEF Unmoved
    <3>4. snd' = snd /\ r'.size = r.size /\ files' = files /\ r'.out = r.out /\ r'.block = r.block
      BY <2>3 DEF Unmoved
    <3>5. InPacket(snd.format, NextChar, NextEnd, NextRest)'
      BY <1>1, <1>5, <2>3, <3>4 DEF InPacket, Packet, PacketEnd
    <3>6. SendingData' BY <1>5, <1>6, <1>8, <3>1, <3>4, <3>5 DEF SendingData
    <3> QED BY <3>3, <3>6 DEF Stages
  <2>4. ASSUME Receiver, Clean, snd' = snd, down' = rest, Block(0), r.got = <<char, <<"fin", end>>>>
        PROVE  Stages' /\ Stored'
    <3>1. InPacket(snd.format, NextChar, NextEnd, NextRest) BY <1>1, <1>8
    <3>2. SendingData' /\ Stored' BY <1>1, <1>2, <1>8, <2>4, <3>1, NextStep
    <3> QED BY <3>2 DEF Stages
  <2> QED BY <1>3, <1>4, <1>8, <2>1, <2>3, <2>4, PacketStep
<1>9. CASE Acks(up) /\ r.size >= Size /\ \E pos \in Nat : InHex(Header("ZEOF", pos))
  <2>1. PICK pos \in Nat : InHex(Header("ZEOF", pos)) BY <1>9
  <2>2. PICK h : h = Header("ZEOF", pos) OBVIOUS
  <2>3. h[1] = "header" /\ h[2] = "ZEOF" /\ InHex(h) BY <2>1, <2>2, Headers
  <2>4. ~Waiting BY <2>3, HexStep
  <2>5. r.pc # "ended" BY <2>3 DEF InHex
  <2>6. ASSUME Receiver, Clean, InHex(h)', Unmoved PROVE Stages' /\ Stored'
    <3>1. Acks(up)' BY <1>9, <2>6, AcksStay DEF Unmoved
    <3>2. r'.pc # "ended" BY <2>6 DEF InHex
    <3>3. Stored' BY <2>5, <2>6, <3>2, StoredKept DEF Unmoved
    <3>4. snd' = snd /\ r'.size = r.size /\ files' = files /\ r'.out = r.out BY <2>6 DEF Unmoved
    <3>5. (\E p \in Nat : InHex(Header("ZEOF", p)))' BY <2>2, <2>6
    <3>6. SendingData' BY <1>5, <1>6, <1>9, <3>1, <3>4, <3>5 DEF SendingData
    <3> QED BY <3>3, <3>6 DEF Stages
  <2>7. ASSUME Receiver, Clean, snd' = snd, down' = Cons(XON, <<>>), Dispatch(h, 0) PROVE Stages' /\ Stored'
    <3>1. /\ r'.pc = "zdle" /\ r'.size = r.size /\ r'.out = r.out /\ files' = files
          /\ up' = Append(up, <<"ZRINIT", 0>>)
      BY <2>3, <2>7, InitialDispatch
    <3>2. Stored' BY <2>5, <3>1, StoredKept
    <3>3. PICK acks : acks = up OBVIOUS
    <3>4. Acks(acks)' BY <1>9, <2>7, <3>3 DEF Acks
    <3>5. (\E line : Acks(line) /\ up = Append(line, <<"ZRINIT", 0>>))' BY <3>1, <3>3, <3>4
    <3>6. Idle' BY <2>7, <3>1 DEF Idle
    <3>7. SendingData' BY <1>5, <1>6, <1>9, <2>7, <3>1, <3>5, <3>6 DEF SendingData
    <3> QED BY <3>2, <3>7 DEF Stages
  <2> QED BY <2>3, <2>4, <2>6, <2>7, HexStep
<1>10. CASE r.size >= Size /\ Idle /\ \E acks : Acks(acks) /\ up = Append(acks, <<"ZRINIT", 0>>)
  <2>1. PICK acks : Acks(acks) /\ up = Append(acks, <<"ZRINIT", 0>>) BY <1>10
  <2>2. up # <<>> BY <2>1, AppendFacts DEF Acks
  <2>3. ASSUME Receiver, Clean PROVE Stages' /\ Stored'
    <3>1. Unmoved /\ Idle' BY <1>10, <2>3, IdleStep
    <3>2. snd' = snd /\ r'.size = r.size /\ files' = files /\ r'.out = r.out /\ up' = up BY <3>1 DEF Unmoved
    <3>3. Acks(acks)' BY <2>1, <3>2 DEF Acks
    <3>4. (\E line : Acks(line) /\ up = Append(line, <<"ZRINIT", 0>>))' BY <2>1, <3>2, <3>3
    <3>5. r.pc # "ended" /\ r'.pc # "ended" BY <1>10, <3>1 DEF Idle
    <3>6. Stored' BY <3>2, <3>5, StoredKept
    <3>7. SendingData' BY <1>5, <1>6, <1>10, <3>1, <3>2, <3>4 DEF SendingData
    <3> QED BY <3>6, <3>7 DEF Stages
  <2> QED BY <2>2, <2>3
<1>11. CASE up = <<<<"ZACK", r.size>>>> /\ r.pc = "zdle" /\ down = <<>>
  <2>1. up # <<>> BY <1>11
  <2> QED BY <1>11, <2>1, NothingToRead
<1> QED BY <1>1, <1>7, <1>8, <1>9, <1>10, <1>11 DEF SendingData

LEMMA FinishingStep ==
  ASSUME TypeInv, Finishing, Stored
  PROVE  /\ snd.pc = "fin" /\ up = <<>> => ~Waiting
         /\ Receiver /\ Clean => Stages' /\ Stored'
<1>1. PICK h : h = Header("ZFIN", 0) OBVIOUS
<1>2. h[1] = "header" /\ h[2] = "ZFIN" BY <1>1, Headers
<1>3. snd.file = snd.count /\ Len(files) = snd.count /\ r.size >= Len(Files[snd.count]) /\ r.out
  BY DEF Finishing
<1>4. CASE snd.pc = "fin" /\ up = <<>> /\ InHex(h)
  <2>1. ~Waiting BY <1>2, <1>4, HexStep
  <2>2. r.pc # "ended" BY <1>4 DEF InHex
  <2>3. ASSUME Receiver, Clean, InHex(h)', Unmoved PROVE Stages' /\ Stored'
    <3>1. r'.pc # "ended" BY <2>3 DEF InHex
    <3>2. Stored' BY <2>2, <2>3, <3>1, StoredKept DEF Unmoved
    <3>3. Finishing' BY <1>1, <1>3, <1>4, <2>3 DEF Finishing, Unmoved
    <3> QED BY <3>2, <3>3 DEF Stages
  <2>4. ASSUME Receiver, Clean, snd' = snd, down' = Cons(XON, <<>>), Dispatch(h, 0) PROVE Stages' /\ Stored'
    <3>1. Cleanup /\ up' = Append(up, <<"ZFIN", 0>>) BY <1>2, <2>4, FinDispatch
    <3>2. up' = <<<<"ZFIN", 0>>>> BY <1>4, <3>1, AppendOne
    <3>3. r'.pc = "ended" /\ r'.size = r.size /\ r'.out = r.out BY <3>1 DEF Cleanup, TypeInv, ReceiverOK
    <3>4. PICK n : n = Len(files) OBVIOUS
    <3>5. IsSeq(files) /\ files # <<>> BY <1>3 DEF TypeInv, FilesOK, ReceiverOK
    <3>6. n \in DOMAIN files /\ n \in Nat \ {0} BY <3>4, <3>5, SeqFacts
    <3>7. PICK file, new : file = files[n] /\ new = [file EXCEPT !.closed = TRUE] OBVIOUS
    <3>8. files' = [files EXCEPT ![n] = new] BY <1>3, <3>1, <3>4, <3>6, <3>7 DEF Cleanup
    <3>9. Len(files') = n /\ DOMAIN files' = DOMAIN files /\ files'[n] = new
          /\ \A i \in DOMAIN files : i # n => files'[i] = files[i]
      <4>1. Len(files') = n BY <3>4, <3>5, <3>6, <3>8, ExceptFacts
      <4> QED BY <3>6, <3>8, <4>1
    <3>10. DOMAIN file = {"name", "start", "data", "closed"} BY <3>6, <3>7 DEF TypeInv, FilesOK
    <3>11. new.name = file.name /\ new.start = file.start /\ new.data = file.data /\ new.closed BY <3>7, <3>10
    <3>12. \A i \in DOMAIN files :
             /\ files'[i].name = files[i].name /\ files'[i].start = files[i].start
             /\ files'[i].data = files[i].data /\ (i # n => files'[i].closed = files[i].closed)
      BY <3>7, <3>9, <3>11
    <3>13. ASSUME NEW i \in DOMAIN files PROVE StoredOf(i)'
      <4>1. StoredOf(i) BY DEF Stored
      <4>2. i # n => ~files[i].closed BY <2>2, <4>1 DEF StoredOf
      <4>3. files'[i].closed <=> i = n BY <3>9, <3>11, <3>12, <4>2
      <4>4. i # 0 BY <3>5, SeqFacts
      <4>5. EndOf(i)' = EndOf(i) BY <3>12, <4>4 DEF EndOf
      <4>6. files'[i].closed <=> r'.pc = "ended" /\ i = Len(files') BY <3>3, <3>9, <4>3
      <4>7. /\ files[i].name = <<"name", i>>
            /\ \A j \in DOMAIN files[i].data :
                 files[i].start + j <= Len(Files[i]) /\ files[i].data[j] = <<"data", Files[i][files[i].start + j]>>
            /\ i < n => EndOf(i) >= Len(Files[i])
        BY <3>4, <4>1 DEF StoredOf
      <4> QED BY <3>9, <3>12, <4>5, <4>6, <4>7 DEF StoredOf
    <3>14. Stored' BY <3>9, <3>13 DEF Stored
    <3>15. Finishing' BY <1>3, <1>4, <2>4, <3>2, <3>3, <3>4, <3>9 DEF Finishing
    <3> QED BY <3>14, <3>15 DEF Stages
  <2> QED BY <1>2, <1>4, <2>1, <2>3, <2>4, HexStep
<1>5. CASE up = <<<<"ZFIN", 0>>>> /\ r.pc = "ended"
  <2>1. up # <<>> BY <1>5
  <2> QED BY <1>5, <2>1, NothingToRead
<1>6. CASE snd.pc = "done" /\ r.pc = "ended"
  <2>1. snd.pc # "fin" BY <1>6
  <2> QED BY <1>6, <2>1, NothingToRead
<1> QED BY <1>1, <1>4, <1>5, <1>6 DEF Finishing

LEMMA NoTimeout ==
  ASSUME TypeInv, Stages, Stored
  PROVE  ~Timeout
<1>1. CASE Initial
  <2>1. snd.pc # "off" /\ up = <<>> => ~Waiting BY <1>1, InitialStep
  <2> QED BY <2>1 DEF Timeout, Waiting
<1>2. CASE Offering BY <1>2, OfferingStep DEF Timeout, Waiting
<1>3. CASE SendingData BY <1>3, SendingStep DEF Timeout, Waiting
<1>4. CASE Finishing
  <2>1. snd.pc = "fin" /\ up = <<>> => ~Waiting BY <1>4, FinishingStep
  <2>2. snd.pc \in {"fin", "done"} BY <1>4 DEF Finishing
  <2> QED BY <2>1, <2>2 DEF Timeout, Waiting
<1> QED BY <1>1, <1>2, <1>3, <1>4 DEF Stages

LEMMA StartStages ==
  ASSUME TypeInv, Stages, Clean, Start
  PROVE  Stages'
<1>1. snd.pc = "off" BY DEF Start
<1>2. Initial /\ r.pc = "rz" /\ down = <<>> /\ up = <<>>
  BY <1>1 DEF Stages, Initial, Offering, SendingData, Finishing
<1>3. PICK last : last = HexHeader("ZRQINIT", 0) OBVIOUS
<1>4. r' = r /\ files' = files /\ up' = up BY DEF Start
<1>5. snd' = [[snd EXCEPT !.pc = "init"] EXCEPT !.last = last] /\ down' = (down \o <<Rz, CR>>) \o last
  <2> DEFINE state == [snd EXCEPT !.pc = "init"]
  <2>1. Transmit(state, last, <<Rz, CR>>) BY <1>3 DEF Start
  <2> HIDE DEF state
  <2>2. snd' = [state EXCEPT !.last = last] /\ down' = (down \o <<Rz, CR>>) \o last BY <2>1, CleanTransmit
  <2> QED BY <2>2 DEF state
<1>6. snd'.pc = "init" /\ snd'.file = snd.file BY <1>5 DEF TypeInv, SenderOK, Sends
<1>7. last = HexAll(Header("ZRQINIT", 0)) /\ IsSeq(last) BY <1>3, HexSent, HexSeqs
<1>8. down' = Cons(Rz, Cons(CR, last))
  <2>1. PICK pair : pair = <<Rz, CR>> OBVIOUS
  <2>2. IsSeq(pair) BY <2>1, TuplesAreSeqs
  <2>3. <<>> \o pair = pair BY <2>2, ConsConcat, EmptyIsSeq
  <2>4. <<Rz, CR>> \o last = Cons(Rz, Cons(CR, last)) BY <1>7, InFront2
  <2> QED BY <1>2, <1>5, <2>1, <2>3, <2>4
<1>9. Initial' BY <1>2, <1>4, <1>6, <1>7, <1>8 DEF Initial
<1> QED BY <1>9 DEF Stages

LEMMA NextFileStages ==
  ASSUME TypeInv, Clean, NextFile, Idle, up' = <<>>, r' = r, files' = files, Len(files) = snd.file,
         files = <<>> \/ (r.out /\ EndOf(snd.file) >= Len(Files[snd.file]))
  PROVE  Stages'
<1>1. PICK n, count : n = snd.file /\ count = snd.count OBVIOUS
<1>2. n \in 0 .. count /\ count \in Nat \ {0} BY <1>1, Constants DEF TypeInv, SenderOK, Sends
<1>3. down \in {<<>>, Cons(XON, <<>>)} /\ r.pc = "zdle" BY DEF Idle
<1>4. CASE n < count
  <2>1. SendFile(n + 1) BY <1>1, <1>4 DEF NextFile
  <2>2. /\ snd'.pc = "file" /\ snd'.file = n + 1
        /\ snd'.count = count /\ snd'.style = snd.style /\ snd'.format = snd.format
        /\ InBin(snd.format, Header("ZFILE", 0), Packet(snd.format, <<"name", n + 1>>, "W", <<>>))'
    BY <1>1, <1>3, <2>1, SendFileClean
  <2>3. n + 1 \in 1 .. count /\ (n + 1) - 1 = n BY <1>2, <1>4
  <2>4. files' # <<>> => EndOf(n)' >= Len(Files[n]) BY <1>1 DEF EndOf
  <2>5. InBin(snd.format, Header("ZFILE", 0), Packet(snd.format, <<"name", snd.file>>, "W", <<>>))'
    BY <2>2 DEF InBin
  <2>6. Offering' BY <1>1, <2>2, <2>3, <2>4, <2>5 DEF Offering
  <2> QED BY <2>6 DEF Stages
<1>5. CASE n = count
  <2>1. PICK last : last = HexHeader("ZFIN", 0) OBVIOUS
  <2>2. snd' = [[snd EXCEPT !.pc = "fin"] EXCEPT !.last = last] /\ down' = (down \o <<>>) \o last
    <3> DEFINE state == [snd EXCEPT !.pc = "fin"]
    <3>1. Transmit(state, last, <<>>) BY <1>1, <1>2, <1>5, <2>1 DEF NextFile
    <3> HIDE DEF state
    <3>2. snd' = [state EXCEPT !.last = last] /\ down' = (down \o <<>>) \o last BY <3>1, CleanTransmit
    <3> QED BY <3>2 DEF state
  <2>3. snd'.pc = "fin" /\ snd'.file = snd.file /\ snd'.count = snd.count
    BY <2>2 DEF TypeInv, SenderOK, Sends
  <2>4. last = HexAll(Header("ZFIN", 0)) /\ IsSeq(last) BY <2>1, HexSent, HexSeqs
  <2>5. down' \in {last, Cons(XON, last)} BY <1>3, <2>2, <2>4, AfterIdle
  <2>6. InHex(Header("ZFIN", 0))' BY <1>3, <2>4, <2>5 DEF InHex
  <2>7. files # <<>>
    <3>1. Len(files) # 0 BY <1>1, <1>2, <1>5
    <3> QED BY <3>1, EmptyIsSeq
  <2>8. r.size >= Len(Files[count]) /\ r.out BY <1>1, <1>5, <2>7 DEF TypeInv, ReceiverOK
  <2>9. Finishing' BY <1>1, <1>5, <2>3, <2>6, <2>8 DEF Finishing
  <2> QED BY <2>9 DEF Stages
<1> QED BY <1>2, <1>4, <1>5

LEMMA AnsweredFacts ==
  ASSUME Answered, NEW head, head = Head(up)
  PROVE  /\ up # <<>> /\ up' = Tail(up) /\ r' = r /\ files' = files
         /\ head[1] = "ZRINIT" /\ snd.pc \in {"init", "data"} => NextFile
         /\ head[1] = "ZRPOS" /\ snd.pc \in {"file", "data"} => SendFrom(head[2])
         /\ head[1] = "ZACK" /\ snd.pc = "data" /\ snd.style = "wait" => SendFrom(head[2])
         /\ head[1] = "ZFIN" /\ snd.pc = "fin" => snd' = [snd EXCEPT !.pc = "done"] /\ down' = down
         /\ snd.pc = "done" => snd' = snd /\ down' = down
         /\ head[1] = "ZACK" /\ snd.pc = "data" /\ snd.style # "wait" => snd' = snd /\ down' = down
<1> DEFINE done == [snd EXCEPT !.pc = "done"]  again == [snd EXCEPT !.strayed = TRUE]
           Repeats == Transmit(again, snd.last, <<>>)
<1>1. up # <<>> /\ up' = Tail(up) /\ r' = r /\ files' = files BY DEF Answered
<1>2. PICK type, pos :
        /\ type = head[1] /\ pos = head[2]
        /\ CASE type = "ZRINIT" /\ snd.pc \in {"init", "data"} -> NextFile
             [] type = "ZRPOS" /\ snd.pc \in {"file", "data"} -> SendFrom(pos)
             [] type = "ZACK" /\ snd.pc = "data" /\ snd.style = "wait" -> SendFrom(pos)
             [] type = "ZFIN" /\ snd.pc = "fin" -> snd' = done /\ UNCHANGED <<down, faults>>
             [] OTHER -> \/ UNCHANGED <<snd, down, faults>>
                         \/ type = "ZNAK" /\ snd.pc \in {"init", "file", "data", "fin"} /\ Repeats
  BY DEF Answered
<1> HIDE DEF done, again, Repeats
<1>3. CASE type = "ZRINIT" /\ snd.pc \in {"init", "data"} BY <1>1, <1>2, <1>3
<1>4. CASE type = "ZRPOS" /\ snd.pc \in {"file", "data"} BY <1>1, <1>2, <1>4
<1>5. CASE type = "ZACK" /\ snd.pc = "data" /\ snd.style = "wait" BY <1>1, <1>2, <1>5
<1>6. CASE type = "ZFIN" /\ snd.pc = "fin" BY <1>1, <1>2, <1>6 DEF done
<1>7. CASE ~ \/ type = "ZRINIT" /\ snd.pc \in {"init", "data"}
             \/ type = "ZRPOS" /\ snd.pc \in {"file", "data"}
             \/ type = "ZACK" /\ snd.pc = "data" /\ snd.style = "wait"
             \/ type = "ZFIN" /\ snd.pc = "fin"
  <2>1. \/ snd' = snd /\ down' = down
        \/ type = "ZNAK" /\ snd.pc # "done"
    BY <1>2, <1>7
  <2> QED BY <1>1, <1>2, <1>7, <2>1
<1> QED BY <1>3, <1>4, <1>5, <1>6, <1>7

LEMMA OneAnswer ==
  ASSUME NEW head, up = <<head>>
  PROVE  up # <<>> /\ Head(up) = head /\ Tail(up) = <<>>
OBVIOUS

LEMMA HeadAndTail ==
  ASSUME NEW line, IsSeq(line), line # <<>>, NEW x
  PROVE  /\ Head(line) = line[1] /\ 1 \in DOMAIN line
         /\ IsSeq(Tail(line)) /\ \A i \in DOMAIN Tail(line) : i + 1 \in DOMAIN line /\ Tail(line)[i] = line[i + 1]
         /\ Head(Append(line, x)) = Head(line)
         /\ Tail(Append(line, x)) = Append(Tail(line), x)
<1>1. PICK S : line \in Seq(S) BY DEF IsSeq
<1> DEFINE T == S \cup {x}
<1>2. line \in Seq(T) /\ x \in T
  <2>1. Len(line) \in Nat /\ \A i \in 1 .. Len(line) : line[i] \in S BY <1>1
  <2>2. line = [i \in 1 .. Len(line) |-> line[i]] BY <1>1
  <2> QED BY <2>1, <2>2
<1> HIDE DEF T
<1>3. PICK tail : tail = Tail(line) OBVIOUS
<1>4. tail \in Seq(T) /\ Len(tail) = Len(line) - 1 /\ \A i \in 1 .. Len(tail) : tail[i] = line[i + 1]
  BY <1>2, <1>3
<1>5. Len(line) \in Nat \ {0} BY <1>2
<1>6. Head(line) = line[1] /\ 1 \in DOMAIN line BY <1>2, <1>5
<1>7. \A i \in DOMAIN tail : i + 1 \in DOMAIN line /\ tail[i] = line[i + 1] BY <1>2, <1>4, <1>5
<1>8. PICK all, more : all = Append(line, x) /\ more = Append(tail, x) OBVIOUS
<1>9. all \in Seq(T) /\ Len(all) = Len(line) + 1 /\ all # <<>> /\ all[1] = line[1] BY <1>2, <1>5, <1>8
<1>10. Head(all) = all[1] BY <1>9
<1>11. PICK after : after = Tail(all) OBVIOUS
<1>12. after \in Seq(T) /\ Len(after) = Len(line) /\ \A i \in 1 .. Len(line) : after[i] = all[i + 1]
  BY <1>5, <1>9, <1>11
<1>13. more \in Seq(T) /\ Len(more) = Len(line) BY <1>2, <1>4, <1>5, <1>8
<1>14. \A i \in 1 .. Len(line) : after[i] = more[i]
  <2> SUFFICES ASSUME NEW i \in 1 .. Len(line) PROVE after[i] = more[i] OBVIOUS
  <2>1. CASE i = Len(line)
    <3>1. all[Len(line) + 1] = x BY <1>2, <1>8
    <3>2. more[Len(tail) + 1] = x BY <1>2, <1>4, <1>8
    <3>3. Len(tail) + 1 = Len(line) BY <1>4, <1>5
    <3> QED BY <1>12, <2>1, <3>1, <3>2, <3>3
  <2>2. CASE i # Len(line)
    <3>1. i \in 1 .. Len(tail) /\ i + 1 \in 1 .. Len(line) BY <1>4, <1>5, <2>2
    <3>2. all[i + 1] = line[i + 1] BY <1>2, <1>8, <3>1
    <3>3. more[i] = tail[i] BY <1>2, <1>4, <1>8, <3>1
    <3> QED BY <1>4, <1>12, <3>1, <3>2, <3>3
  <2> QED BY <2>1, <2>2
<1>15. after = more BY <1>12, <1>13, <1>14, SeqEqual
<1>16. IsSeq(tail) BY <1>4 DEF IsSeq
<1> QED BY <1>3, <1>6, <1>7, <1>8, <1>9, <1>10, <1>11, <1>15, <1>16

LEMMA AcksTaken ==
  ASSUME NEW line, Acks(line), line # <<>>, snd' = snd
  PROVE  Head(line)[1] = "ZACK" /\ Acks(Tail(line))' /\ snd.style # "wait"
<1>1. IsSeq(line) /\ (\A i \in DOMAIN line : line[i][1] = "ZACK") /\ snd.style # "wait" BY DEF Acks
<1>2. PICK tail : tail = Tail(line) OBVIOUS
<1>3. /\ Head(line) = line[1] /\ 1 \in DOMAIN line
      /\ IsSeq(tail) /\ \A i \in DOMAIN tail : i + 1 \in DOMAIN line /\ tail[i] = line[i + 1]
  BY <1>1, <1>2, HeadAndTail
<1> QED BY <1>1, <1>2, <1>3 DEF Acks

\* The sender has an answer: each is the one its stage waits for, or an
\* acknowledgement that it does not wait for.
LEMMA AnsweredStages ==
  ASSUME TypeInv, Stages, Clean, Answered
  PROVE  Stages'
<1>1. PICK head : head = Head(up) OBVIOUS
<1>2. up # <<>> /\ up' = Tail(up) /\ r' = r /\ files' = files BY <1>1, AnsweredFacts
<1>3. r'.pc = r.pc /\ r'.size = r.size /\ r'.out = r.out BY <1>2
<1>4. CASE Initial
  <2>1. snd.pc = "init" /\ up = <<<<"ZRINIT", 0>>>> /\ Idle /\ files = <<>> /\ snd.file = 0
    BY <1>2, <1>4 DEF Initial
  <2>2. head = <<"ZRINIT", 0>> /\ up' = <<>> BY <1>1, <1>2, <2>1, OneAnswer
  <2>3. NextFile BY <1>1, <2>1, <2>2, AnsweredFacts
  <2>4. Len(files) = snd.file BY <2>1, EmptyIsSeq
  <2> QED BY <1>2, <2>1, <2>2, <2>3, <2>4, NextFileStages
<1>5. CASE Offering
  <2>1. PICK pos : pos = r.size OBVIOUS
  <2>2. /\ snd.pc = "file" /\ snd.file \in 1 .. snd.count /\ up = <<<<"ZRPOS", pos>>>>
        /\ Len(files) = snd.file /\ r.out /\ r.pc = "zdle" /\ down = <<>>
    BY <1>2, <1>5, <2>1 DEF Offering
  <2>3. head = <<"ZRPOS", pos>> /\ up' = <<>> BY <1>1, <1>2, <2>2, OneAnswer
  <2>4. SendFrom(r.size) BY <1>1, <2>1, <2>2, <2>3, AnsweredFacts
  <2>5. SendingData' BY <1>2, <2>2, <2>3, <2>4, SendFromClean
  <2> QED BY <2>5 DEF Stages
<1>6. CASE SendingData
  <2>1. snd.pc = "data" /\ snd.file \in 1 .. snd.count /\ Len(files) = snd.file /\ r.out
    BY <1>6 DEF SendingData
  <2>2. ASSUME head[1] = "ZACK", snd.style # "wait" PROVE snd' = snd /\ down' = down
    BY <1>1, <2>1, <2>2, AnsweredFacts
  <2>3. ASSUME snd' = snd, down' = down
        PROVE  /\ snd'.pc = "data" /\ snd'.file \in 1 .. snd'.count /\ Len(files') = snd'.file /\ r'.out
               /\ Size' = Size /\ NextChar' = NextChar /\ NextEnd' = NextEnd /\ NextRest' = NextRest
               /\ \A h : InHex(h) => InHex(h)'
               /\ \A format, h, rest : InBin(format, h, rest) => InBin(format, h, rest)'
               /\ \A format, char, end, rest : InPacket(format, char, end, rest) => InPacket(format, char, end, rest)'
               /\ Idle => Idle'
    <3>1. Size' = Size BY <2>3 DEF Size
    <3>2. NextChar' = NextChar /\ NextEnd' = NextEnd /\ NextRest' = NextRest
      BY <1>3, <2>3, <3>1 DEF NextChar, NextEnd, NextRest
    <3>3. \A h : InHex(h) => InHex(h)' BY <1>2, <2>3 DEF InHex
    <3>4. \A format, h, rest : InBin(format, h, rest) => InBin(format, h, rest)' BY <1>2, <2>3 DEF InBin
    <3>5. \A format, char, end, rest : InPacket(format, char, end, rest) => InPacket(format, char, end, rest)'
      BY <1>2, <2>3 DEF InPacket
    <3>6. Idle => Idle' BY <1>2, <2>3 DEF Idle
    <3> QED BY <1>2, <2>1, <2>3, <3>1, <3>2, <3>3, <3>4, <3>5, <3>6
  <2>4. CASE /\ Acks(up)
             /\ \/ r.size < Size /\ InBin(snd.format, Header("ZDATA", r.size), Packet(snd.format, NextChar, NextEnd, NextRest))
                \/ r.size < Size /\ r.block = "file" /\ InPacket(snd.format, NextChar, NextEnd, NextRest)
                \/ r.size >= Size /\ \E pos \in Nat : InHex(Header("ZEOF", pos))
    <3>1. PICK line : line = up OBVIOUS
    <3>2. Acks(line) BY <2>4, <3>1
    <3>3. snd.style # "wait" BY <1>2, <2>4 DEF Acks
    <3>4. head[1] = "ZACK"
      <4>1. IsSeq(line) /\ (\A i \in DOMAIN line : line[i][1] = "ZACK") BY <3>2 DEF Acks
      <4>2. Head(line) = line[1] /\ 1 \in DOMAIN line BY <1>2, <3>1, <4>1, HeadAndTail
      <4> QED BY <1>1, <3>1, <4>1, <4>2
    <3>5. snd' = snd /\ down' = down BY <2>2, <3>3, <3>4
    <3>6. Acks(Tail(line))' BY <1>2, <3>1, <3>2, <3>5, AcksTaken
    <3>7. Acks(up)' BY <1>2, <3>1, <3>6 DEF Acks
    <3>8. CASE r.size < Size /\ InBin(snd.format, Header("ZDATA", r.size), Packet(snd.format, NextChar, NextEnd, NextRest))
      <4>1. PICK format, h, packet :
              /\ format = snd.format /\ h = Header("ZDATA", r.size)
              /\ packet = Packet(snd.format, NextChar, NextEnd, NextRest)
        OBVIOUS
      <4>2. InBin(format, h, packet)' BY <2>3, <3>5, <3>8, <4>1
      <4>3. snd'.format = format /\ h = Header("ZDATA", r'.size) BY <1>3, <3>5, <4>1
      <4>4. packet = Packet(snd.format, NextChar, NextEnd, NextRest)'
        BY <2>3, <3>5, <4>1, <4>3 DEF Packet, PacketEnd
      <4>5. InBin(snd.format, Header("ZDATA", r.size), Packet(snd.format, NextChar, NextEnd, NextRest))'
        BY <4>2, <4>3, <4>4
      <4>6. SendingData' BY <1>3, <2>3, <3>5, <3>7, <3>8, <4>5 DEF SendingData
      <4> QED BY <4>6 DEF Stages
    <3>9. CASE r.size < Size /\ r.block = "file" /\ InPacket(snd.format, NextChar, NextEnd, NextRest)
      <4>1. PICK format, char, end, rest : format = snd.format /\ char = NextChar /\ end = NextEnd /\ rest = NextRest
        OBVIOUS
      <4>2. InPacket(format, char, end, rest)' BY <2>3, <3>5, <3>9, <4>1
      <4>3. InPacket(snd.format, NextChar, NextEnd, NextRest)'
        <5>1. format = snd'.format /\ char = NextChar' /\ end = NextEnd' /\ rest = NextRest' BY <2>3, <3>5, <4>1
        <5> QED BY <4>2, <5>1
      <4>4. r'.block = "file" BY <1>2, <3>9
      <4>5. SendingData' BY <1>3, <2>3, <3>5, <3>7, <3>9, <4>3, <4>4 DEF SendingData
      <4> QED BY <4>5 DEF Stages
    <3>10. CASE r.size >= Size /\ \E pos \in Nat : InHex(Header("ZEOF", pos))
      <4>1. PICK pos \in Nat : InHex(Header("ZEOF", pos)) BY <3>10
      <4>2. PICK h : h = Header("ZEOF", pos) OBVIOUS
      <4>3. InHex(h)' BY <2>3, <3>5, <4>1, <4>2
      <4>4. (\E p \in Nat : InHex(Header("ZEOF", p)))' BY <4>2, <4>3
      <4>5. SendingData' BY <1>3, <2>3, <3>5, <3>7, <3>10, <4>4 DEF SendingData
      <4> QED BY <4>5 DEF Stages
    <3> QED BY <2>4, <3>8, <3>9, <3>10
  <2>5. CASE r.size >= Size /\ Idle /\ \E acks : Acks(acks) /\ up = Append(acks, <<"ZRINIT", 0>>)
    <3>1. PICK acks, ready : Acks(acks) /\ ready = <<"ZRINIT", 0>> /\ up = Append(acks, ready) BY <2>5
    <3>2. IsSeq(acks) BY <3>1 DEF Acks
    <3>3. CASE acks = <<>>
      <4>1. up = <<ready>> BY <3>1, <3>3, AppendOne
      <4>2. head = ready /\ up' = <<>> BY <1>1, <1>2, <4>1, OneAnswer
      <4>3. NextFile BY <1>1, <2>1, <3>1, <4>2, AnsweredFacts
      <4>4. EndOf(snd.file) >= Len(Files[snd.file])
        BY <2>1, <2>5 DEF TypeInv, ReceiverOK, Size
      <4> QED BY <1>2, <2>1, <2>5, <4>2, <4>3, <4>4, NextFileStages
    <3>4. CASE acks # <<>>
      <4>1. PICK more : more = Tail(acks) OBVIOUS
      <4>2. /\ IsSeq(more) /\ head = Head(acks) /\ up' = Append(more, ready)
            /\ Head(acks) = acks[1] /\ 1 \in DOMAIN acks
        <5>1. /\ IsSeq(Tail(acks)) /\ Head(Append(acks, ready)) = Head(acks)
              /\ Tail(Append(acks, ready)) = Append(Tail(acks), ready)
              /\ Head(acks) = acks[1] /\ 1 \in DOMAIN acks
          BY ONLY <3>2, <3>4, HeadAndTail
        <5> QED BY <1>1, <1>2, <3>1, <4>1, <5>1
      <4>3. head[1] = "ZACK" /\ snd.style # "wait" BY <3>1, <3>4, <4>2 DEF Acks
      <4>4. snd' = snd /\ down' = down BY <2>2, <4>3
      <4>5. Acks(more)' BY <3>1, <3>4, <4>1, <4>4, AcksTaken
      <4>6. (\E line : Acks(line) /\ up = Append(line, <<"ZRINIT", 0>>))' BY <3>1, <4>2, <4>5
      <4>7. SendingData' BY <1>3, <2>3, <2>5, <4>4, <4>6 DEF SendingData
      <4> QED BY <4>7 DEF Stages
    <3> QED BY <3>3, <3>4
  <2>6. CASE snd.style = "wait" /\ up = <<<<"ZACK", r.size>>>> /\ r.pc = "zdle" /\ down = <<>>
    <3>1. PICK pos : pos = r.size OBVIOUS
    <3>2. up = <<<<"ZACK", pos>>>> BY <2>6, <3>1
    <3>3. head = <<"ZACK", pos>> /\ up' = <<>> BY <1>1, <1>2, <3>2, OneAnswer
    <3>4. SendFrom(r.size) BY <1>1, <2>1, <2>6, <3>1, <3>3, AnsweredFacts
    <3>5. SendingData' BY <1>2, <2>1, <2>6, <3>3, <3>4, SendFromClean
    <3> QED BY <3>5 DEF Stages
  <2> QED BY <1>6, <2>4, <2>5, <2>6 DEF SendingData
<1>7. CASE Finishing
  <2>1. /\ snd.file = snd.count /\ Len(files) = snd.count /\ r.size >= Len(Files[snd.count]) /\ r.out
        /\ r.pc = "ended"
        /\ (snd.pc = "fin" /\ up = <<<<"ZFIN", 0>>>>) \/ snd.pc = "done"
    BY <1>2, <1>7 DEF Finishing
  <2>2. snd'.pc = "done" /\ snd'.file = snd.file /\ snd'.count = snd.count
    <3>1. CASE snd.pc = "fin" /\ up = <<<<"ZFIN", 0>>>>
      <4>1. head = <<"ZFIN", 0>> BY <1>1, <3>1, OneAnswer
      <4>2. snd' = [snd EXCEPT !.pc = "done"] BY <1>1, <3>1, <4>1, AnsweredFacts
      <4> QED BY <4>2 DEF TypeInv, SenderOK, Sends
    <3>2. CASE snd.pc = "done"
      <4>1. snd' = snd BY <1>1, <3>2, AnsweredFacts
      <4> QED BY <3>2, <4>1
    <3> QED BY <2>1, <3>1, <3>2
  <2>3. Finishing' BY <1>2, <2>1, <2>2 DEF Finishing
  <2> QED BY <2>3 DEF Stages
<1> QED BY <1>4, <1>5, <1>6, <1>7 DEF Stages

(***************************************************************************)
(* A session without faults stores what was sent.                          *)
(***************************************************************************)
\* Faults are only ever added.
LEMMA ReceiverCounts ==
  ASSUME faults \in Nat, faults' = 0, Receiver
  PROVE  faults = 0
<1>1. \A R : \A x \in Reads(R) : x[3] \in {0, 1} BY DEF Reads
<1> USE EscCounts DEF NoneBefore
<1>2. CASE AwaitRz BY <1>1, <1>2 DEF AwaitRz
<1>3. CASE AwaitZdle BY <1>1, <1>3 DEF AwaitZdle
<1>4. CASE ReadKind BY <1>1, <1>4 DEF ReadKind
<1>5. CASE ReadHex BY <1>1, <1>5 DEF ReadHex
<1>6. CASE ReadCrLf BY <1>1, <1>6 DEF ReadCrLf
<1>7. CASE ReadBin BY <1>1, <1>7 DEF ReadBin
<1>8. CASE ReadData BY <1>1, <1>8 DEF ReadData
<1>9. CASE ReadCrc BY <1>1, <1>9 DEF ReadCrc
<1>10. CASE SkipXon BY <1>10 DEF SkipXon
<1> QED BY <1>2, <1>3, <1>4, <1>5, <1>6, <1>7, <1>8, <1>9, <1>10 DEF Receiver

LEMMA NoFaultsBefore ==
  ASSUME TypeInv, Next, faults' = 0
  PROVE  faults = 0
<1>1. faults \in Nat BY Constants DEF TypeInv, FaultsOK
<1>2. \A state, last, prefix : Transmit(state, last, prefix) => faults = 0 BY <1>1 DEF Transmit, Fault
<1>3. NextFile => faults = 0 BY <1>2 DEF NextFile, SendFile
<1>4. \A pos : SendFrom(pos) => faults = 0 BY <1>2 DEF SendFrom
<1>5. CASE Sender
  <2>1. CASE Start BY <1>2, <2>1 DEF Start
  <2>2. CASE Answered
    <3> DEFINE done == [snd EXCEPT !.pc = "done"]  again == [snd EXCEPT !.strayed = TRUE]
    <3>1. PICK type, pos :
            CASE type = "ZRINIT" /\ snd.pc \in {"init", "data"} -> NextFile
              [] type = "ZRPOS" /\ snd.pc \in {"file", "data"} -> SendFrom(pos)
              [] type = "ZACK" /\ snd.pc = "data" /\ snd.style = "wait" -> SendFrom(pos)
              [] type = "ZFIN" /\ snd.pc = "fin" -> snd' = done /\ UNCHANGED <<down, faults>>
              [] OTHER -> \/ UNCHANGED <<snd, down, faults>>
                          \/ /\ type = "ZNAK" /\ snd.pc \in {"init", "file", "data", "fin"}
                             /\ Transmit(again, snd.last, <<>>)
      BY <2>2 DEF Answered
    <3> HIDE DEF done, again
    <3>2. \/ NextFile \/ SendFrom(pos) \/ UNCHANGED faults
          \/ Transmit(again, snd.last, <<>>)
      BY <3>1
    <3> QED BY <1>2, <1>3, <1>4, <3>2
  <2>3. CASE Timeout
    <3> DEFINE more == [snd EXCEPT !.tries = @ + 1, !.strayed = TRUE]
    <3>1. Transmit(more, snd.last, <<>>) \/ UNCHANGED faults BY <2>3 DEF Timeout
    <3> HIDE DEF more
    <3> QED BY <1>2, <3>1
  <2> QED BY <1>5, <2>1, <2>2, <2>3 DEF Sender
<1>6. CASE Receiver BY <1>1, <1>6, ReceiverCounts
<1>7. ~LoseSubpacket BY <1>1 DEF LoseSubpacket, Fault
<1> QED BY <1>5, <1>6, <1>7 DEF Next

LEMMA SenderStages ==
  ASSUME TypeInv, Stages, Stored, Clean, Sender
  PROVE  Stages' /\ Stored'
<1>1. ~Timeout BY NoTimeout
<1>2. Start \/ Answered BY <1>1 DEF Sender
<1>3. Stages' BY <1>2, StartStages, AnsweredStages
<1>4. r' = r /\ files' = files BY <1>2 DEF Start, Answered
<1>5. Stored' BY <1>4, StoredKept
<1> QED BY <1>3, <1>5

LEMMA ReceiverStages ==
  ASSUME TypeInv, Stages, Stored, Clean, Receiver
  PROVE  (Stages' /\ Stored') \/ TurnedAway'
BY InitialStep, OfferingStep, SendingStep, FinishingStep DEF Stages

\* A receiver that was turned away has ended, and the sender gives up.
LEMMA TurnedAwayStays ==
  ASSUME TypeInv, TurnedAway, Clean, Sender \/ Receiver
  PROVE  TurnedAway'
<1>1. r.pc = "ended" /\ up = <<>> /\ snd.pc \in {"file", "aborted"} BY DEF TurnedAway
<1>2. ~Receiver BY <1>1, NothingToRead
<1>3. Timeout BY <1>1, <1>2 DEF Sender, Start, Answered
<1> DEFINE again == [snd EXCEPT !.tries = @ + 1, !.strayed = TRUE]
<1>4. r' = r /\ up' = up /\ (Transmit(again, snd.last, <<>>) \/ snd' = [snd EXCEPT !.pc = "aborted"])
  BY <1>3 DEF Timeout
<1>5. again.pc = snd.pc /\ DOMAIN again = DOMAIN snd /\ "pc" \in DOMAIN snd BY DEF TypeInv, SenderOK, Sends
<1> HIDE DEF again
<1>6. CASE Transmit(again, snd.last, <<>>)
  <2>1. snd' = [again EXCEPT !.last = snd.last] BY <1>6, CleanTransmit
  <2>2. snd'.pc = snd.pc BY <1>5, <2>1
  <2> QED BY <1>1, <1>4, <2>2 DEF TurnedAway
<1>7. CASE snd' = [snd EXCEPT !.pc = "aborted"]
  <2>1. snd'.pc = "aborted" BY <1>5, <1>7
  <2> QED BY <1>1, <1>4, <2>1 DEF TurnedAway
<1> QED BY <1>4, <1>6, <1>7

\* At the end every file is stored from where it starts: the stages say so.
LEMMA SessionEnded ==
  ASSUME TypeInv, Stages, Stored, snd.pc = "done"
  PROVE  /\ Len(files) = snd.count
         /\ \A n \in DOMAIN files :
              /\ Bytes(n) = SubSeq(Files[n], files[n].start + 1, Len(Files[n]))
              /\ files[n].closed <=> n = snd.count
<1>1. PICK count : count = Len(files) OBVIOUS
<1>2. snd.count = count /\ r.size >= Len(Files[count]) /\ r.pc = "ended"
  BY <1>1 DEF Stages, Initial, Offering, SendingData, Finishing
<1>3. DOMAIN files = 1 .. count /\ count \in Nat BY <1>1, SeqFacts DEF TypeInv, FilesOK
<1>4. EndOf(count) >= Len(Files[count]) BY <1>1, <1>2 DEF TypeInv, ReceiverOK
<1>5. ASSUME NEW n \in DOMAIN files
      PROVE  /\ Bytes(n) = SubSeq(Files[n], files[n].start + 1, Len(Files[n]))
             /\ files[n].closed <=> n = snd.count
  <2>1. PICK data, start, file : data = files[n].data /\ start = files[n].start /\ file = Files[n] OBVIOUS
  <2>2. StoredOf(n) BY DEF Stored
  <2>3. files[n].closed <=> n = snd.count BY <1>1, <1>2, <2>2 DEF StoredOf
  <2>4. IsSeq(data) /\ start \in Nat BY <2>1 DEF TypeInv, FilesOK
  <2>5. file \in Seq(Chars)
    <3>1. snd.count \in 1 .. Len(Files) BY DEF TypeInv, SenderOK, Sends
    <3>2. n \in 1 .. Len(Files) BY <1>2, <1>3, <3>1, Constants
    <3> QED BY <2>1, <3>2, Constants
  <2>6. \A i \in DOMAIN data : start + i <= Len(file) /\ data[i] = <<"data", file[start + i]>>
    BY <2>1, <2>2 DEF StoredOf
  <2>7. start + Len(data) >= Len(file)
    <3>1. n < count \/ n = count BY <1>3
    <3>2. EndOf(n) >= Len(file) BY <1>1, <1>4, <2>1, <2>2, <3>1 DEF StoredOf
    <3>3. n # 0 BY <1>3
    <3> QED BY <2>1, <3>2, <3>3 DEF EndOf
  <2>8. PICK k : k = Len(data) OBVIOUS
  <2>9. k \in Nat /\ DOMAIN data = 1 .. k /\ Len(file) \in Nat BY <2>4, <2>5, <2>8, SeqFacts
  <2>10. k # 0 => start + k = Len(file)
    <3>1. k # 0 => k \in DOMAIN data BY <2>9
    <3>2. k # 0 => start + k <= Len(file) BY <2>6, <3>1
    <3> QED BY <2>4, <2>7, <2>8, <2>9, <3>2
  <2>11. PICK bytes, want : bytes = Bytes(n) /\ want = SubSeq(file, start + 1, Len(file)) OBVIOUS
  <2>12. bytes = [i \in 1 .. k |-> data[i][2]] BY <2>1, <2>9, <2>11 DEF Bytes
  <2>13. \A i \in 1 .. k : bytes[i] = file[start + i] /\ start + i \in 1 .. Len(file)
    <3> SUFFICES ASSUME NEW i \in 1 .. k PROVE bytes[i] = file[start + i] /\ start + i \in 1 .. Len(file) OBVIOUS
    <3>1. start + i <= Len(file) /\ data[i] = <<"data", file[start + i]>> BY <2>6, <2>9
    <3>2. bytes[i] = data[i][2] BY <2>12
    <3> QED BY <2>4, <2>9, <3>1, <3>2
  <2>14. bytes \in Seq(Chars) /\ Len(bytes) = k
    <3>1. \A i \in 1 .. k : bytes[i] \in Chars BY <2>5, <2>13
    <3>2. bytes = [i \in 1 .. k |-> bytes[i]] BY <2>12
    <3> QED BY <2>9, <2>12, <3>1, <3>2
  <2>15. CASE k = 0
    <3>1. start + 1 > Len(file) BY <2>4, <2>7, <2>8, <2>9, <2>15
    <3>2. want = <<>> BY <2>4, <2>5, <2>9, <2>11, <3>1
    <3>3. bytes = <<>> BY <2>14, <2>15
    <3> QED BY <2>1, <2>3, <2>11, <3>2, <3>3
  <2>16. CASE k # 0
    <3>1. start + k = Len(file) BY <2>10, <2>16
    <3>2. want \in Seq(Chars) /\ Len(want) = k /\ \A i \in 1 .. k : want[i] = file[start + i]
      BY <2>4, <2>5, <2>9, <2>11, <2>16, <3>1
    <3>3. \A i \in 1 .. k : bytes[i] = want[i] BY <2>13, <3>2
    <3>4. bytes = want BY <2>14, <3>2, <3>3, SeqEqual
    <3> QED BY <2>1, <2>3, <2>11, <3>4
  <2> QED BY <2>15, <2>16
<1> QED BY <1>1, <1>2, <1>5

\* When no token, subpacket or answer was lost or changed, every file was created and
\* ESC not pressed, a sender that sees the end of the session finds every file of it
\* stored from the byte on that received_data_size stood at when it was created, and
\* the last one closed.  It sees no end of a session of more files than the library
\* has handles: fl_fopen refuses the next, since ZEOF closes none, and the receiver
\* ends.
THEOREM SessionsStore == Spec => []SessionStores
<1>1. Init => TypeInv /\ Session
  <2> SUFFICES ASSUME Init PROVE TypeInv /\ Session OBVIOUS
  <2>1. TypeInv BY TypeInit
  <2>2. files = <<>> /\ snd.file = 0 /\ ~r.out /\ snd.pc = "off" /\ r.pc = "rz" /\ down = <<>> /\ up = <<>>
    BY DEF Init
  <2>3. DOMAIN files = {} BY <2>2
  <2>4. Stages /\ Stored BY <2>2, <2>3 DEF Stages, Initial, Stored
  <2> QED BY <2>1, <2>4 DEF Session
<1>2. TypeInv /\ Session /\ [Next]_vars => TypeInv' /\ Session'
  <2> SUFFICES ASSUME TypeInv, Session, [Next]_vars, faults' = 0
               PROVE  TypeInv' /\ ((Stages' /\ Stored') \/ TurnedAway')
    BY TypeStep DEF Session
  <2>1. TypeInv' BY TypeStep
  <2>2. CASE TurnedAway /\ UNCHANGED vars BY <2>1, <2>2 DEF vars, TurnedAway
  <2>3. CASE UNCHANGED vars /\ ~TurnedAway
    <3>1. Stages /\ Stored BY <2>3 DEF vars, Session
    <3>2. Stored' BY <2>3, <3>1, StoredKept DEF vars
    <3>3. Initial => Initial' BY <2>3 DEF vars, Initial, InHex, Idle
    <3>4. Offering => Offering' BY <2>3 DEF vars, Offering, InBin, InPacket, EndOf, Packet, PacketEnd
    <3>5. SendingData => SendingData'
      <4>1. Size' = Size BY <2>3 DEF vars, Size
      <4>2. NextChar' = NextChar /\ NextEnd' = NextEnd /\ NextRest' = NextRest
        BY <2>3, <4>1 DEF vars, NextChar, NextEnd, NextRest
      <4> QED
        BY <2>3, <4>1, <4>2 DEF vars, SendingData, InHex, InBin, InPacket, Idle, Acks, Packet, PacketEnd
    <3>6. Finishing => Finishing' BY <2>3 DEF vars, Finishing, InHex
    <3>7. Stages' BY <3>1, <3>3, <3>4, <3>5, <3>6 DEF Stages
    <3> QED BY <2>1, <3>2, <3>7
  <2>4. CASE Next
    <3>1. faults = 0 /\ Clean BY <2>4, NoFaultsBefore DEF Clean
    <3>2. Sender \/ Receiver BY <2>4, <3>1 DEF Next, LoseSubpacket, Fault
    <3>3. CASE TurnedAway BY <2>1, <3>1, <3>2, <3>3, TurnedAwayStays
    <3>4. CASE Stages /\ Stored BY <2>1, <3>1, <3>2, <3>4, SenderStages, ReceiverStages
    <3> QED BY <3>1, <3>3, <3>4 DEF Session
  <2> QED BY <2>2, <2>3, <2>4
<1>3. TypeInv /\ Session => SessionStores BY SessionEnded DEF Session, SessionStores, TurnedAway
<1> QED BY <1>1, <1>2, <1>3, PTL DEF Spec

(***************************************************************************)
(* A line with damage: what a token is a CRC of.  Every block that is taken *)
(* ends in a CRC, and no damage makes one, so the CRCs on a line say which  *)
(* blocks may still be taken.                                              *)
(***************************************************************************)
Types == {"ZRQINIT", "ZFILE", "ZDATA", "ZEOF", "ZFIN"}

IsCrc(t) == t[1] \in {"crc16", "crc32a", "crc32b"}

\* Of a header, or of a character and its frame end.
Genuine(t) ==
  IsCrc(t) => \/ \E type \in Types : \E pos : t[2] = <<Header(type, pos)>>
              \/ \E char, end : t[2] = <<char, <<"fin", end>>>> /\ char[1] \in {"data", "name"}

\* Of a ZDATA or of what it announces; the last token of a ZDATA, with which the
\* receiver begins to read data.
OfFile(t) == IsCrc(t) /\ (t[2][1][1] = "data" \/ (t[2][1][1] = "header" /\ t[2][1][2] = "ZDATA"))
Grants(t) == t[1] \in {"crc16", "crc32b"} /\ t[2][1][1] = "header" /\ t[2][1][2] = "ZDATA"

Plain(t) == Genuine(t) /\ ~OfFile(t)
Known(t) == Genuine(t) /\ ~Grants(t)

PlainLine(s) == IsSeq(s) /\ \A i \in DOMAIN s : Plain(s[i])
KnownLine(s) == IsSeq(s) /\ \A i \in DOMAIN s : Known(s[i])

LEMMA NoCrc == ASSUME NEW t, ~IsCrc(t) PROVE Plain(t) /\ Known(t) /\ ~OfFile(t) /\ ~Grants(t)
BY DEF Plain, Known, Genuine, OfFile, Grants, IsCrc

LEMMA PlainIsKnown == ASSUME NEW t, Plain(t) PROVE Known(t)
BY DEF Plain, Known, OfFile, Grants, IsCrc

LEMMA Tokens ==
  /\ ~IsCrc(ZPAD) /\ ~IsCrc(ZDLE) /\ ~IsCrc(XON) /\ ~IsCrc(CR) /\ ~IsCrc(LF) /\ ~IsCrc(Rz)
  /\ \A x : ~IsCrc(<<"kind", x>>) /\ ~IsCrc(<<"end", x>>) /\ ~IsCrc(<<"escaped", x>>)
            /\ ~IsCrc(<<"data", x>>) /\ ~IsCrc(<<"name", x>>) /\ ~IsCrc(<<"fin", x>>)
  /\ \A type, pos : ~IsCrc(Header(type, pos))
BY DEF IsCrc, ZPAD, ZDLE, XON, CR, LF, Rz, Header

LEMMA HeaderCrcs ==
  ASSUME NEW type \in Types, NEW pos, NEW kind \in {"crc16", "crc32a", "crc32b"},
         NEW t, t = <<kind, <<Header(type, pos)>>>>
  PROVE  /\ IsCrc(t) /\ Genuine(t)
         /\ type # "ZDATA" => Plain(t)
         /\ type = "ZDATA" => (Grants(t) <=> kind # "crc32a")
<1>1. t[1] = kind /\ t[2] = <<Header(type, pos)>> /\ t[2][1] = Header(type, pos) OBVIOUS
<1>2. t[2][1][1] = "header" /\ t[2][1][2] = type BY <1>1 DEF Header
<1>3. IsCrc(t) BY <1>1 DEF IsCrc
<1>4. Genuine(t) BY <1>1 DEF Genuine
<1> QED BY <1>1, <1>2, <1>3, <1>4 DEF Plain, OfFile, Grants

LEMMA PacketCrcs ==
  ASSUME NEW char, char[1] \in {"data", "name"}, NEW end, NEW kind \in {"crc16", "crc32a", "crc32b"},
         NEW t, t = <<kind, <<char, <<"fin", end>>>>>>
  PROVE  /\ IsCrc(t) /\ Known(t)
         /\ char[1] = "name" => Plain(t)
         /\ char[1] = "data" => OfFile(t)
<1>1. t[1] = kind /\ t[2] = <<char, <<"fin", end>>>> /\ t[2][1] = char OBVIOUS
<1>3. IsCrc(t) BY <1>1 DEF IsCrc
<1>4. Genuine(t) BY <1>1 DEF Genuine
<1> QED BY <1>1, <1>3, <1>4 DEF Plain, Known, OfFile, Grants

\* What a CRC on the line is of holds no CRC.
LEMMA GenuineFacts ==
  ASSUME NEW t, Genuine(t), IsCrc(t)
  PROVE  /\ \A i \in DOMAIN t[2] : ~IsCrc(t[2][i])
         /\ \A h : t[2] = <<h>> => h[2] \in Types /\ h[1] = "header"
<1>1. CASE \E type \in Types : \E pos : t[2] = <<Header(type, pos)>>
  <2>1. PICK type, pos : type \in Types /\ t[2] = <<Header(type, pos)>> BY <1>1
  <2>2. DOMAIN t[2] = {1} /\ t[2][1] = Header(type, pos) BY <2>1
  <2>3. \A h : t[2] = <<h>> => h = Header(type, pos) BY <2>1
  <2>4. Header(type, pos)[1] = "header" /\ Header(type, pos)[2] = type BY DEF Header
  <2>5. ~IsCrc(Header(type, pos)) BY <2>4 DEF IsCrc
  <2>6. \A i \in DOMAIN t[2] : ~IsCrc(t[2][i]) BY <2>2, <2>5
  <2>7. \A h : t[2] = <<h>> => h[2] \in Types /\ h[1] = "header" BY <2>1, <2>3, <2>4
  <2> QED BY <2>6, <2>7
<1>2. CASE \E char, end : t[2] = <<char, <<"fin", end>>>> /\ char[1] \in {"data", "name"}
  <2>1. PICK char, end : t[2] = <<char, <<"fin", end>>>> /\ char[1] \in {"data", "name"} BY <1>2
  <2>2. DOMAIN t[2] = {1, 2} /\ t[2][1] = char /\ t[2][2] = <<"fin", end>> BY <2>1
  <2>3. ~IsCrc(char) BY <2>1 DEF IsCrc
  <2>4. \A h : t[2] # <<h>> BY <2>1
  <2> QED BY <2>2, <2>3, <2>4, Tokens
<1> QED BY <1>1, <1>2 DEF Genuine

(***************************************************************************)
(* A line with damage: sequences of tokens.                                *)
(***************************************************************************)
LEMMA ConsAt ==
  ASSUME NEW rest, IsSeq(rest), NEW x
  PROVE  \A i \in 1 .. Len(rest) : Cons(x, rest)[i + 1] = rest[i]
<1>1. IsSeq(<<x>>) /\ Len(<<x>>) = 1 BY TuplesAreSeqs
<1>2. \A i \in 1 .. Len(rest) : (<<x>> \o rest)[1 + i] = rest[i]
  <2>1. PICK one : one = <<x>> OBVIOUS
  <2>2. \A i \in 1 .. Len(rest) : (one \o rest)[Len(one) + i] = rest[i] BY <1>1, <2>1, ConcatFacts
  <2>3. Len(one) = 1 BY <1>1, <2>1
  <2> QED BY <2>1, <2>2, <2>3
<1>3. \A i \in 1 .. Len(rest) : 1 + i = i + 1 BY SeqFacts
<1> QED BY <1>2, <1>3 DEF Cons

LEMMA ConsPlain ==
  ASSUME NEW rest, PlainLine(rest), NEW x, Plain(x)
  PROVE  PlainLine(Cons(x, rest))
<1>1. PICK c : c = Cons(x, rest) OBVIOUS
<1>2. IsSeq(rest) BY DEF PlainLine
<1>3. IsSeq(c) /\ Len(c) = Len(rest) + 1 /\ c[1] = x /\ Len(rest) \in Nat /\ DOMAIN rest = 1 .. Len(rest)
  BY <1>1, <1>2, ConsFacts, SeqFacts
<1>4. DOMAIN c = 1 .. Len(rest) + 1 BY <1>3, SeqFacts
<1>5. \A i \in 1 .. Len(rest) : c[i + 1] = rest[i] BY <1>1, <1>2, ConsAt
<1>6. ASSUME NEW i \in DOMAIN c PROVE Plain(c[i])
  <2>1. CASE i = 1 BY <1>3, <2>1
  <2>2. CASE i # 1
    <3>1. i - 1 \in 1 .. Len(rest) /\ (i - 1) + 1 = i BY <1>3, <1>4, <2>2
    <3> QED BY <1>3, <1>5, <3>1 DEF PlainLine
  <2> QED BY <2>1, <2>2
<1> QED BY <1>1, <1>3, <1>6 DEF PlainLine

LEMMA ConsKnown ==
  ASSUME NEW rest, KnownLine(rest), NEW x, Known(x)
  PROVE  KnownLine(Cons(x, rest))
<1>1. PICK c : c = Cons(x, rest) OBVIOUS
<1>2. IsSeq(rest) BY DEF KnownLine
<1>3. IsSeq(c) /\ Len(c) = Len(rest) + 1 /\ c[1] = x /\ Len(rest) \in Nat /\ DOMAIN rest = 1 .. Len(rest)
  BY <1>1, <1>2, ConsFacts, SeqFacts
<1>4. DOMAIN c = 1 .. Len(rest) + 1 BY <1>3, SeqFacts
<1>5. \A i \in 1 .. Len(rest) : c[i + 1] = rest[i] BY <1>1, <1>2, ConsAt
<1>6. ASSUME NEW i \in DOMAIN c PROVE Known(c[i])
  <2>1. CASE i = 1 BY <1>3, <2>1
  <2>2. CASE i # 1
    <3>1. i - 1 \in 1 .. Len(rest) /\ (i - 1) + 1 = i BY <1>3, <1>4, <2>2
    <3> QED BY <1>3, <1>5, <3>1 DEF KnownLine
  <2> QED BY <2>1, <2>2
<1> QED BY <1>1, <1>3, <1>6 DEF KnownLine

LEMMA EmptyLine == PlainLine(<<>>) /\ KnownLine(<<>>)
<1>1. DOMAIN <<>> = {} OBVIOUS
<1> QED BY <1>1, EmptyIsSeq DEF PlainLine, KnownLine

\* What is sent that does not carry a file.
LEMMA HexPlain ==
  ASSUME NEW type \in Types, type # "ZDATA", NEW pos
  PROVE  PlainLine(HexHeader(type, pos)) /\ KnownLine(HexHeader(type, pos))
<1>1. PICK h : h = Header(type, pos) OBVIOUS
<1> DEFINE crc == <<"crc16", <<h>>>>  kind == <<"kind", "hex">>
<1>2. Plain(crc)
  <2>1. PICK t : t = <<"crc16", <<Header(type, pos)>>>> OBVIOUS
  <2>2. Plain(t) BY <2>1, HeaderCrcs
  <2> QED BY <1>1, <2>1, <2>2
<1>3. Plain(h) /\ Plain(kind) /\ Plain(CR) /\ Plain(LF) /\ Plain(XON) /\ Plain(ZDLE) /\ Plain(ZPAD)
  BY <1>1, Tokens, NoCrc
<1>4. PlainLine(HexCrc(h))
  <2>1. PlainLine(Cons(XON, <<>>)) BY <1>3, EmptyLine, ConsPlain
  <2>2. PlainLine(HexLf) BY <1>3, <2>1, ConsPlain DEF HexLf
  <2>3. PlainLine(HexCr) BY <1>3, <2>2, ConsPlain DEF HexCr
  <2> QED BY <1>2, <2>3, ConsPlain DEF HexCrc
<1> HIDE DEF crc
<1>5. PlainLine(HexKind(h))
  <2>1. PlainLine(HexHdr(h)) BY <1>3, <1>4, ConsPlain DEF HexHdr
  <2> QED BY <1>3, <2>1, ConsPlain DEF HexKind
<1>6. PlainLine(HexAll(h))
  <2>1. PlainLine(HexZdle(h)) BY <1>3, <1>5, ConsPlain DEF HexZdle
  <2>2. PlainLine(HexPad(h)) BY <1>3, <2>1, ConsPlain DEF HexPad
  <2> QED BY <1>3, <2>2, ConsPlain DEF HexAll
<1>7. PlainLine(HexHeader(type, pos)) BY <1>1, <1>6, HexSent
<1> QED BY <1>7, PlainIsKnown DEF PlainLine, KnownLine

\* A subpacket of a character of a file, and one of a name.
LEMMA PacketLine ==
  ASSUME NEW char, char[1] \in {"data", "name"}, NEW end, NEW format, NEW rest
  PROVE  /\ KnownLine(rest) => KnownLine(Packet(format, char, end, rest))
         /\ char[1] = "name" /\ PlainLine(rest) => PlainLine(Packet(format, char, end, rest))
<1> DEFINE sub == <<char, <<"fin", end>>>>  mark == <<"end", end>>  esc == <<"escaped", char[2]>>
<1>1. \A kind \in {"crc16", "crc32a", "crc32b"} :
        Known(<<kind, sub>>) /\ (char[1] = "name" => Plain(<<kind, sub>>))
  <2> SUFFICES ASSUME NEW kind \in {"crc16", "crc32a", "crc32b"}
               PROVE  Known(<<kind, sub>>) /\ (char[1] = "name" => Plain(<<kind, sub>>))
    OBVIOUS
  <2>1. PICK t : t = <<kind, <<char, <<"fin", end>>>>>> OBVIOUS
  <2>2. Known(t) /\ (char[1] = "name" => Plain(t)) BY <2>1, PacketCrcs
  <2> QED BY <2>1, <2>2
<1>2. ~IsCrc(char) BY DEF IsCrc
<1>3. ~IsCrc(ZDLE) /\ ~IsCrc(mark) /\ ~IsCrc(esc) BY Tokens
<1> HIDE DEF mark, esc
<1>4. ASSUME KnownLine(rest) PROVE KnownLine(Packet(format, char, end, rest))
  <2>1. KnownLine(Crc(format, sub, rest))
    <3> HIDE DEF sub
    <3> QED BY <1>1, <1>4, ConsKnown DEF Crc, Crc2
  <2>2. KnownLine(PacketEnd(format, char, end, rest))
    <3>1. KnownLine(Cons(mark, Crc(format, sub, rest))) BY <1>3, <2>1, NoCrc, ConsKnown
    <3>2. KnownLine(Cons(ZDLE, Cons(mark, Crc(format, sub, rest)))) BY <1>3, <3>1, NoCrc, ConsKnown
    <3> QED BY <3>2 DEF PacketEnd, mark
  <2>3. KnownLine(Cons(char, PacketEnd(format, char, end, rest))) BY <1>2, <2>2, NoCrc, ConsKnown
  <2>4. KnownLine(Cons(ZDLE, Cons(esc, PacketEnd(format, char, end, rest))))
    <3>1. KnownLine(Cons(esc, PacketEnd(format, char, end, rest))) BY <1>3, <2>2, NoCrc, ConsKnown
    <3> QED BY <1>3, <3>1, NoCrc, ConsKnown
  <2> QED BY <2>3, <2>4 DEF Packet, esc
<1>5. ASSUME PlainLine(rest), char[1] = "name" PROVE PlainLine(Packet(format, char, end, rest))
  <2>1. PlainLine(Crc(format, sub, rest))
    <3> HIDE DEF sub
    <3> QED BY <1>1, <1>5, ConsPlain DEF Crc, Crc2
  <2>2. PlainLine(PacketEnd(format, char, end, rest))
    <3>1. PlainLine(Cons(mark, Crc(format, sub, rest))) BY <1>3, <2>1, NoCrc, ConsPlain
    <3>2. PlainLine(Cons(ZDLE, Cons(mark, Crc(format, sub, rest)))) BY <1>3, <3>1, NoCrc, ConsPlain
    <3> QED BY <3>2 DEF PacketEnd, mark
  <2>3. PlainLine(Cons(char, PacketEnd(format, char, end, rest))) BY <1>2, <2>2, NoCrc, ConsPlain
  <2>4. PlainLine(Cons(ZDLE, Cons(esc, PacketEnd(format, char, end, rest))))
    <3>1. PlainLine(Cons(esc, PacketEnd(format, char, end, rest))) BY <1>3, <2>2, NoCrc, ConsPlain
    <3> QED BY <1>3, <3>1, NoCrc, ConsPlain
  <2> QED BY <2>3, <2>4 DEF Packet, esc
<1> QED BY <1>4, <1>5

\* The offer of a file.
LEMMA OfferPlain ==
  ASSUME NEW format, NEW n
  PROVE  PlainLine(BinHeader(format, "ZFILE", 0) \o Subpacket(format, <<"name", n>>, "W"))
<1>1. PICK char : char = <<"name", n>> OBVIOUS
<1>2. char[1] = "name" BY <1>1
<1>3. PICK offer : offer = Subpacket(format, char, "W") OBVIOUS
<1>4. PlainLine(offer)
  <2>1. Subpacket(format, char, "W") \o <<>> = Packet(format, char, "W", <<>>)
        /\ IsSeq(Subpacket(format, char, "W"))
    BY EmptyIsSeq, PacketSent
  <2>2. offer \o <<>> = offer
    <3>1. PICK S : offer \in Seq(S) BY <1>3, <2>1 DEF IsSeq
    <3> QED BY <3>1, ConcatEmptySeq
  <2>3. PlainLine(Packet(format, char, "W", <<>>)) BY <1>2, EmptyLine, PacketLine
  <2> QED BY <1>3, <2>1, <2>2, <2>3
<1>5. PICK h : h = Header("ZFILE", 0) OBVIOUS
<1>6. \A kind \in {"crc16", "crc32a", "crc32b"} : Plain(<<kind, <<h>>>>)
  <2> SUFFICES ASSUME NEW kind \in {"crc16", "crc32a", "crc32b"} PROVE Plain(<<kind, <<h>>>>) OBVIOUS
  <2>1. PICK t : t = <<kind, <<Header("ZFILE", 0)>>>> OBVIOUS
  <2>2. Plain(t) BY <2>1, HeaderCrcs DEF Types
  <2> QED BY <1>5, <2>1, <2>2
<1>7. PlainLine(BinHdr(format, h, offer))
  <2>1. PlainLine(Crc(format, <<h>>, offer)) BY <1>4, <1>6, ConsPlain DEF Crc, Crc2
  <2>2. Plain(h) BY <1>5, Tokens, NoCrc
  <2> QED BY <2>1, <2>2, ConsPlain DEF BinHdr
<1>8. PlainLine(BinAll(format, h, offer))
  <2>1. PlainLine(BinKind(format, h, offer)) BY <1>7, Tokens, NoCrc, ConsPlain DEF BinKind
  <2>2. PlainLine(BinZdle(format, h, offer)) BY <2>1, Tokens, NoCrc, ConsPlain DEF BinZdle
  <2> QED BY <2>2, Tokens, NoCrc, ConsPlain DEF BinAll
<1>9. IsSeq(offer) BY <1>4 DEF PlainLine
<1>10. BinHeader(format, "ZFILE", 0) \o offer = BinAll(format, h, offer)
  <2>1. BinHeader(format, "ZFILE", 0) \o offer = BinAll(format, Header("ZFILE", 0), offer) BY <1>9, BinSent
  <2> QED BY <1>5, <2>1
<1> QED BY <1>1, <1>3, <1>8, <1>10

(***************************************************************************)
(* A line with damage: the transmission of a file, token by token.         *)
(***************************************************************************)
Halves(format) == IF format = "bin32" THEN 2 ELSE 1
FirstHalf(format, tokens) == IF format = "bin32" THEN <<"crc32a", tokens>> ELSE <<"crc16", tokens>>

LEMMA ConsAll ==
  ASSUME NEW rest, IsSeq(rest), NEW x, NEW c, c = Cons(x, rest)
  PROVE  /\ IsSeq(c) /\ Len(c) = Len(rest) + 1 /\ c[1] = x /\ Len(rest) \in Nat
         /\ \A i \in 1 .. Len(rest) : c[i + 1] = rest[i]
BY ConsFacts, ConsAt, SeqFacts

LEMMA CrcAt ==
  ASSUME NEW rest, IsSeq(rest), NEW format, NEW tokens, NEW s, s = Crc(format, tokens, rest)
  PROVE  /\ IsSeq(s) /\ Len(s) = Len(rest) + Halves(format) /\ Len(rest) \in Nat
         /\ s[1] = FirstHalf(format, tokens)
         /\ format = "bin32" => s[2] = <<"crc32b", tokens>>
         /\ \A i \in 1 .. Len(rest) : s[i + Halves(format)] = rest[i]
<1>1. CASE format = "bin32"
  <2>1. PICK a, b : a = <<"crc32a", tokens>> /\ b = <<"crc32b", tokens>> OBVIOUS
  <2>2. PICK c : c = Cons(b, rest) OBVIOUS
  <2>3. s = Cons(a, c) BY <1>1, <2>1, <2>2 DEF Crc, Crc2
  <2>4. /\ IsSeq(c) /\ Len(c) = Len(rest) + 1 /\ c[1] = b /\ Len(rest) \in Nat
        /\ \A i \in 1 .. Len(rest) : c[i + 1] = rest[i]
    BY <2>2, ConsAll
  <2>5. /\ IsSeq(s) /\ Len(s) = Len(c) + 1 /\ s[1] = a
        /\ \A i \in 1 .. Len(c) : s[i + 1] = c[i]
    BY <2>3, <2>4, ConsAll
  <2>6. s[2] = b
    <3>1. 1 \in 1 .. Len(c) BY <2>4
    <3> QED BY <2>4, <2>5, <3>1
  <2>7. \A i \in 1 .. Len(rest) : s[i + 2] = rest[i]
    <3> SUFFICES ASSUME NEW i \in 1 .. Len(rest) PROVE s[i + 2] = rest[i] OBVIOUS
    <3>1. i + 1 \in 1 .. Len(c) /\ (i + 1) + 1 = i + 2 BY <2>4
    <3> QED BY <2>4, <2>5, <3>1
  <2>8. Halves(format) = 2 /\ FirstHalf(format, tokens) = a BY <1>1, <2>1 DEF Halves, FirstHalf
  <2> QED BY <2>1, <2>4, <2>5, <2>6, <2>7, <2>8
<1>2. CASE format # "bin32"
  <2>1. PICK a : a = <<"crc16", tokens>> OBVIOUS
  <2>2. s = Cons(a, rest) BY <1>2, <2>1 DEF Crc
  <2>3. Halves(format) = 1 /\ FirstHalf(format, tokens) = a BY <1>2, <2>1 DEF Halves, FirstHalf
  <2> QED BY <1>2, <2>2, <2>3, ConsAll
<1> QED BY <1>1, <1>2

\* The tokens before the CRC of a subpacket, where it begins behind offset o.
LeadLen(char) == IF char[1] = "data" /\ char[2] \in Escaped THEN 4 ELSE 3

Leads(s, o, char, end) ==
  /\ IF LeadLen(char) = 4 THEN s[o + 1] = ZDLE /\ s[o + 2] = <<"escaped", char[2]>> ELSE s[o + 1] = char
  /\ s[o + LeadLen(char) - 1] = ZDLE /\ s[o + LeadLen(char)] = <<"end", end>>

PacketIs(s, rest, format, char, end, l, h) ==
  /\ IsSeq(s) /\ Len(s) = Len(rest) + h + l /\ Len(rest) \in Nat
  /\ Leads(s, 0, char, end)
  /\ s[l + 1] = FirstHalf(format, <<char, <<"fin", end>>>>)
  /\ format = "bin32" => s[l + 2] = <<"crc32b", <<char, <<"fin", end>>>>>>
  /\ \A i \in 1 .. Len(rest) : s[i + h + l] = rest[i]

LEMMA PacketAt ==
  ASSUME NEW rest, IsSeq(rest), NEW format, NEW char, NEW end,
         NEW s, s = Packet(format, char, end, rest),
         NEW l, l = LeadLen(char), NEW h, h = Halves(format)
  PROVE  PacketIs(s, rest, format, char, end, l, h)
<1> SUFFICES
       /\ IsSeq(s) /\ Len(s) = Len(rest) + h + l /\ Len(rest) \in Nat
       /\ Leads(s, 0, char, end)
       /\ s[l + 1] = FirstHalf(format, <<char, <<"fin", end>>>>)
       /\ format = "bin32" => s[l + 2] = <<"crc32b", <<char, <<"fin", end>>>>>>
       /\ \A i \in 1 .. Len(rest) : s[i + h + l] = rest[i]
  BY DEF PacketIs
<1>1. PICK crc : crc = Crc(format, <<char, <<"fin", end>>>>, rest) OBVIOUS
<1>2. PICK mark, esc : mark = <<"end", end>> /\ esc = <<"escaped", char[2]>> OBVIOUS
<1>3. PICK m : m = Cons(mark, crc) OBVIOUS
<1>4. PICK z : z = Cons(ZDLE, m) OBVIOUS
<1>5. z = PacketEnd(format, char, end, rest) BY <1>1, <1>2, <1>3, <1>4 DEF PacketEnd
<1>6. h \in {1, 2} BY DEF Halves
<1>7. /\ IsSeq(crc) /\ Len(crc) = Len(rest) + h /\ Len(rest) \in Nat
      /\ crc[1] = FirstHalf(format, <<char, <<"fin", end>>>>)
      /\ format = "bin32" => crc[2] = <<"crc32b", <<char, <<"fin", end>>>>>>
      /\ \A i \in 1 .. Len(rest) : crc[i + h] = rest[i]
  <2>1. PICK sub : sub = <<char, <<"fin", end>>>> OBVIOUS
  <2>2. crc = Crc(format, sub, rest) BY <1>1, <2>1
  <2>3. /\ IsSeq(crc) /\ Len(crc) = Len(rest) + Halves(format) /\ Len(rest) \in Nat
        /\ crc[1] = FirstHalf(format, sub)
        /\ format = "bin32" => crc[2] = <<"crc32b", sub>>
        /\ \A i \in 1 .. Len(rest) : crc[i + Halves(format)] = rest[i]
    <3>1. IsSeq(crc) BY <2>2, CrcAt
    <3>2. Len(crc) = Len(rest) + Halves(format) /\ Len(rest) \in Nat BY <2>2, CrcAt
    <3>3. crc[1] = FirstHalf(format, sub) BY <2>2, CrcAt
    <3>4. format = "bin32" => crc[2] = <<"crc32b", sub>> BY <2>2, CrcAt
    <3>5. \A i \in 1 .. Len(rest) : crc[i + Halves(format)] = rest[i] BY <2>2, CrcAt
    <3> QED BY <3>1, <3>2, <3>3, <3>4, <3>5
  <2> QED BY <2>1, <2>3
<1>8. /\ IsSeq(m) /\ Len(m) = Len(crc) + 1 /\ m[1] = mark /\ \A i \in 1 .. Len(crc) : m[i + 1] = crc[i]
  BY <1>3, <1>7, ConsAll
<1>9. /\ IsSeq(z) /\ Len(z) = Len(m) + 1 /\ z[1] = ZDLE /\ \A i \in 1 .. Len(m) : z[i + 1] = m[i]
  BY <1>4, <1>8, ConsAll
<1>10. z[2] = mark /\ \A i \in 1 .. Len(crc) : z[i + 2] = crc[i]
  <2>1. 1 \in 1 .. Len(m) BY <1>6, <1>7, <1>8
  <2>2. ASSUME NEW i \in 1 .. Len(crc) PROVE z[i + 2] = crc[i]
    <3>1. i + 1 \in 1 .. Len(m) /\ (i + 1) + 1 = i + 2 BY <1>6, <1>7, <1>8
    <3> QED BY <1>8, <1>9, <3>1
  <2> QED BY <1>8, <1>9, <2>1, <2>2
<1>11. CASE l = 3
  <2>1. s = Cons(char, z) BY <1>5, <1>11 DEF Packet, LeadLen
  <2>2. /\ IsSeq(s) /\ Len(s) = Len(z) + 1 /\ s[1] = char /\ \A i \in 1 .. Len(z) : s[i + 1] = z[i]
    BY <1>9, <2>1, ConsAll
  <2>3. s[2] = ZDLE /\ s[3] = mark /\ \A i \in 1 .. Len(crc) : s[i + 3] = crc[i]
    <3>1. Len(z) = Len(crc) + 2 /\ 1 \in 1 .. Len(z) /\ 2 \in 1 .. Len(z) BY <1>6, <1>7, <1>8, <1>9
    <3>2. ASSUME NEW i \in 1 .. Len(crc) PROVE s[i + 3] = crc[i]
      <4>1. i + 2 \in 1 .. Len(z) /\ (i + 2) + 1 = i + 3 BY <1>7, <3>1
      <4> QED BY <1>10, <2>2, <4>1
    <3> QED BY <1>9, <1>10, <2>2, <3>1, <3>2
  <2>4. s[3 + 1] = crc[1] /\ (format = "bin32" => s[3 + 2] = crc[2])
    <3>1. 1 \in 1 .. Len(crc) /\ (format = "bin32" => 2 \in 1 .. Len(crc)) BY <1>6, <1>7 DEF Halves
    <3> QED BY <2>3, <3>1
  <2>5. \A i \in 1 .. Len(rest) : s[i + h + 3] = rest[i]
    <3> SUFFICES ASSUME NEW i \in 1 .. Len(rest) PROVE s[i + h + 3] = rest[i] OBVIOUS
    <3>1. i + h \in 1 .. Len(crc) BY <1>6, <1>7
    <3> QED BY <1>7, <2>3, <3>1
  <2>6. Leads(s, 0, char, end)
    <3>1. LeadLen(char) = 3 /\ 0 + 1 = 1 /\ 0 + 3 - 1 = 2 /\ 0 + 3 = 3 BY <1>11
    <3> QED BY <1>2, <2>2, <2>3, <3>1 DEF Leads
  <2>7. Len(s) = Len(rest) + h + 3 BY <1>6, <1>7, <1>8, <1>9, <2>2, SMTT(60)
  <2> QED BY <1>7, <1>11, <2>2, <2>4, <2>5, <2>6, <2>7
<1>12. CASE l = 4
  <2>1. PICK e : e = Cons(esc, z) OBVIOUS
  <2>2. s = Cons(ZDLE, e) BY <1>2, <1>5, <1>12, <2>1 DEF Packet, LeadLen
  <2>3. /\ IsSeq(e) /\ Len(e) = Len(z) + 1 /\ e[1] = esc /\ \A i \in 1 .. Len(z) : e[i + 1] = z[i]
    BY <1>9, <2>1, ConsAll
  <2>4. /\ IsSeq(s) /\ Len(s) = Len(e) + 1 /\ s[1] = ZDLE /\ \A i \in 1 .. Len(e) : s[i + 1] = e[i]
    BY <2>2, <2>3, ConsAll
  <2>5. /\ s[2] = esc /\ s[3] = ZDLE /\ s[4] = mark
        /\ \A i \in 1 .. Len(crc) : s[i + 4] = crc[i]
    <3>1. /\ Len(z) = Len(crc) + 2 /\ Len(e) = Len(crc) + 3 /\ 1 \in 1 .. Len(z) /\ 2 \in 1 .. Len(z)
          /\ 1 \in 1 .. Len(e) /\ 2 \in 1 .. Len(e) /\ 3 \in 1 .. Len(e)
      BY <1>6, <1>7, <1>8, <1>9, <2>3, SMTT(60)
    <3>2. ASSUME NEW i \in 1 .. Len(crc) PROVE s[i + 4] = crc[i]
      <4>1. i + 2 \in 1 .. Len(z) /\ i + 3 \in 1 .. Len(e) /\ (i + 2) + 1 = i + 3 /\ (i + 3) + 1 = i + 4
        BY <1>7, <3>1
      <4> QED BY <1>10, <2>3, <2>4, <4>1
    <3> QED BY <1>9, <1>10, <2>3, <2>4, <3>1, <3>2
  <2>6. s[4 + 1] = crc[1] /\ (format = "bin32" => s[4 + 2] = crc[2])
    <3>1. 1 \in 1 .. Len(crc) /\ (format = "bin32" => 2 \in 1 .. Len(crc)) BY <1>6, <1>7 DEF Halves
    <3> QED BY <2>5, <3>1
  <2>7. \A i \in 1 .. Len(rest) : s[i + h + 4] = rest[i]
    <3> SUFFICES ASSUME NEW i \in 1 .. Len(rest) PROVE s[i + h + 4] = rest[i] OBVIOUS
    <3>1. i + h \in 1 .. Len(crc) BY <1>6, <1>7
    <3> QED BY <1>7, <2>5, <3>1
  <2>8. Leads(s, 0, char, end)
    <3>1. LeadLen(char) = 4 /\ 0 + 1 = 1 /\ 0 + 2 = 2 /\ 0 + 4 - 1 = 3 /\ 0 + 4 = 4 BY <1>12
    <3> QED BY <1>2, <2>4, <2>5, <3>1 DEF Leads
  <2>9. Len(s) = Len(rest) + h + 4
    <3>1. Len(z) = Len(rest) + h + 2 BY <1>6, <1>7, <1>8, <1>9
    <3>2. Len(s) = Len(z) + 2 BY <1>6, <1>7, <2>3, <2>4, <3>1
    <3> QED BY <1>6, <1>7, <3>1, <3>2
  <2> QED BY <1>7, <1>12, <2>4, <2>6, <2>7, <2>8, <2>9
<1> QED BY <1>11, <1>12 DEF LeadLen

\* The first file: byte q with the end of its subpacket, what is sent after it, and
\* all that is sent from byte q on.
Total     == Len(Files[1])
CharAt(q) == <<"data", Files[1][q]>>
EndIn(style, q) == IF style = "wait" THEN "W" ELSE EndAt(style, Total - q + 1)
Sub(style, q)   == <<CharAt(q), <<"fin", EndIn(style, q)>>>>
After(format, style, q)  == IF style = "wait" THEN <<>> ELSE Remaining(format, style, 1)[Total - q]
Stream(format, style, q) == Packet(format, CharAt(q), EndIn(style, q), After(format, style, q))

\* The tokens that a read passes over.
Passed == {XON, AGAIN}

\* What is sent after a byte does not go on with a CRC.
Begins(s) == s # <<>> => ~IsCrc(s[1]) /\ s[1] \notin Passed

LEMMA PacketBegins ==
  ASSUME NEW rest, IsSeq(rest), NEW format, NEW q, NEW end
  PROVE  Begins(Packet(format, CharAt(q), end, rest))
<1>1. PICK s, char : s = Packet(format, CharAt(q), end, rest) /\ char = CharAt(q) OBVIOUS
<1>2. PICK l, h : l = LeadLen(char) /\ h = Halves(format) OBVIOUS
<1>3. s = Packet(format, char, end, rest) BY <1>1
<1>4. Leads(s, 0, char, end)
  <2>1. PacketIs(s, rest, format, char, end, l, h) BY <1>2, <1>3, PacketAt
  <2> QED BY <2>1 DEF PacketIs
<1>5. s[1] = ZDLE \/ s[1] = char
  <2>1. 0 + 1 = 1 OBVIOUS
  <2> QED BY <1>4, <2>1 DEF Leads
<1>6. ZDLE \notin Passed /\ char \notin Passed BY <1>1 DEF ZDLE, XON, AGAIN, Passed, CharAt
<1>7. ~IsCrc(char) BY <1>1, Tokens DEF CharAt
<1> QED BY <1>1, <1>5, <1>6, <1>7, Tokens DEF Begins

LEMMA HexBegins == ASSUME NEW h PROVE Begins(HexAll(h))
<1>1. PICK s, rest : s = HexAll(h) /\ rest = HexPad(h) OBVIOUS
<1>2. IsSeq(rest) BY <1>1, HexSeqs
<1>3. s = Cons(ZPAD, rest) BY <1>1 DEF HexAll
<1>4. s[1] = ZPAD BY <1>2, <1>3, ConsFacts
<1>5. ZPAD \notin Passed BY DEF ZPAD, XON, AGAIN, Passed
<1> QED BY <1>1, <1>4, <1>5, Tokens DEF Begins

LEMMA RemainingKnown ==
  ASSUME NEW format, NEW style, Total \in Nat
  PROVE  \A k \in 0 .. Total : KnownLine(Remaining(format, style, 1)[k])
                               /\ Begins(Remaining(format, style, 1)[k])
<1>1. PICK size, last : size = Total /\ last = Remaining(format, style, 1) OBVIOUS
<1>2. size = Len(Files[1]) /\ size \in Nat BY <1>1 DEF Total
<1>3. \A k \in 0 .. size :
        /\ IsSeq(last[k])
        /\ k = 0 => last[k] = HexAll(Header("ZEOF", size))
        /\ k # 0 => last[k] = Packet(format, <<"data", Files[1][size - k + 1]>>, EndAt(style, k), last[k - 1])
  <2>1. \A k \in 0 .. Len(Files[1]) :
        /\ IsSeq(Remaining(format, style, 1)[k])
        /\ k = 0 => Remaining(format, style, 1)[k] = HexAll(Header("ZEOF", Len(Files[1])))
        /\ k # 0 => Remaining(format, style, 1)[k] =
                       Packet(format, <<"data", Files[1][Len(Files[1]) - k + 1]>>, EndAt(style, k),
                              Remaining(format, style, 1)[k - 1])
    BY <1>2, RemainingIs
  <2> QED BY <1>1, <1>2, <2>1
<1> DEFINE S == {k \in Nat : k <= size => KnownLine(last[k]) /\ Begins(last[k])}
<1>4. 0 \in S
  <2>1. 0 \in 0 .. size BY <1>2
  <2>2. last[0] = HexAll(Header("ZEOF", size)) BY <1>3, <2>1
  <2>3. HexAll(Header("ZEOF", size)) = HexHeader("ZEOF", size) BY HexSent
  <2>4. KnownLine(HexHeader("ZEOF", size)) BY HexPlain DEF Types
  <2>5. Begins(last[0]) BY <2>2, HexBegins
  <2> QED BY <2>2, <2>3, <2>4, <2>5
<1>5. ASSUME NEW k \in S PROVE k + 1 \in S
  <2>1. SUFFICES ASSUME k + 1 <= size PROVE KnownLine(last[k + 1]) /\ Begins(last[k + 1]) OBVIOUS
  <2>2. k \in Nat /\ KnownLine(last[k]) BY <1>2, <2>1
  <2>3. k + 1 \in 0 .. size /\ k + 1 # 0 /\ (k + 1) - 1 = k BY <1>2, <2>1, <2>2
  <2>4. PICK q, end, rest : q = size - (k + 1) + 1 /\ end = EndAt(style, k + 1) /\ rest = last[k] OBVIOUS
  <2>5. last[k + 1] = Packet(format, CharAt(q), end, rest)
    BY <1>3, <2>3, <2>4 DEF CharAt
  <2>6. CharAt(q)[1] = "data" BY DEF CharAt
  <2>7. KnownLine(Packet(format, CharAt(q), end, rest)) BY <2>2, <2>4, <2>6, PacketLine
  <2>8. IsSeq(rest) BY <2>2, <2>4 DEF KnownLine
  <2>9. Begins(Packet(format, CharAt(q), end, rest)) BY <2>8, PacketBegins
  <2> QED BY <2>5, <2>7, <2>9
<1>6. S \subseteq Nat OBVIOUS
<1>7. \A k \in S : k + 1 \in S BY <1>5
<1> HIDE DEF S
<1>8. S = Nat BY <1>4, <1>6, <1>7, SetInduction
<1>9. \A k \in 0 .. size : KnownLine(last[k]) /\ Begins(last[k]) BY <1>2, <1>8 DEF S
<1> QED BY <1>1, <1>9

LEMMA AfterFacts ==
  ASSUME NEW format, NEW style, Total \in Nat, NEW q \in 1 .. Total
  PROVE  /\ KnownLine(After(format, style, q)) /\ Begins(After(format, style, q))
         /\ IsSeq(After(format, style, q)) /\ Len(After(format, style, q)) \in Nat
<1>1. CASE style = "wait" BY <1>1, EmptyLine, EmptyIsSeq DEF After, Begins
<1>2. CASE style # "wait"
  <2>1. PICK k : k = Total - q OBVIOUS
  <2>2. k \in 0 .. Total BY <2>1
  <2>3. After(format, style, q) = Remaining(format, style, 1)[k] BY <1>2, <2>1 DEF After
  <2>4. KnownLine(After(format, style, q)) /\ Begins(After(format, style, q)) BY <2>2, <2>3, RemainingKnown
  <2> QED BY <2>4, SeqFacts DEF KnownLine
<1> QED BY <1>1, <1>2

LEMMA StreamKnown ==
  ASSUME NEW format, NEW style, Total \in Nat, NEW q \in 1 .. Total
  PROVE  KnownLine(Stream(format, style, q))
<1>1. CharAt(q)[1] = "data" BY DEF CharAt
<1> QED BY <1>1, AfterFacts, PacketLine DEF Stream

\* After a byte comes the stream from the next one on.
LEMMA AfterIsStream ==
  ASSUME NEW format, NEW style, style # "wait", Total \in Nat, NEW q \in 1 .. Total, q # Total
  PROVE  After(format, style, q) = Stream(format, style, q + 1)
<1>1. PICK k : k = Total - q OBVIOUS
<1>2. k \in 0 .. Total /\ k # 0 /\ Total - k + 1 = q + 1 /\ k - 1 = Total - (q + 1) /\ k = Total - (q + 1) + 1
  BY <1>1
<1>3. Remaining(format, style, 1)[k]
        = Packet(format, <<"data", Files[1][Total - k + 1]>>, EndAt(style, k), Remaining(format, style, 1)[k - 1])
  BY <1>2, RemainingIs DEF Total
<1>4. After(format, style, q) = Remaining(format, style, 1)[k] BY <1>1 DEF After
<1>5. After(format, style, q + 1) = Remaining(format, style, 1)[k - 1] BY <1>2 DEF After
<1>6. EndIn(style, q + 1) = EndAt(style, k) BY <1>2 DEF EndIn
<1>7. CharAt(q + 1) = <<"data", Files[1][Total - k + 1]>> BY <1>2 DEF CharAt
<1> QED BY <1>3, <1>4, <1>5, <1>6, <1>7 DEF Stream

(***************************************************************************)
(* A line with damage: what the line carries of a transmission, and what    *)
(* stays of it when the receiver reads and more is sent.                   *)
(***************************************************************************)
\* Behind offset o the line s carries the tokens T, where token d was lost (g = 1)
\* or changed (g = 0); none when d is behind the last one.
Borne(s, o, T, d, g) ==
  /\ d \in 1 .. Len(T) + 1 /\ g \in {0, 1} /\ (d = Len(T) + 1 => g = 0)
  /\ o + Len(T) - g <= Len(s)
  /\ \A i \in 1 .. Len(T) : (i < d => s[o + i] = T[i]) /\ (i > d => s[o + i - g] = T[i])
  /\ d <= Len(T) /\ g = 0 => ~IsCrc(s[o + d])

\* The same with nothing of a file after it.
Carried(s, o, T) ==
  \E d, g : Borne(s, o, T, d, g) /\ \A i \in o + Len(T) - g + 1 .. Len(s) : Plain(s[i])

\* s2 is s with T sent after it.
Arrives(s, s2, T, d, g) ==
  /\ IsSeq(s2) /\ Borne(s2, Len(s), T, d, g) /\ Len(s2) = Len(s) + Len(T) - g
  /\ \A i \in 1 .. Len(s) : s2[i] = s[i]

\* s2 is s without its first n tokens, and with others after it that are not of a file.
Moved(s, s2, n) ==
  /\ IsSeq(s2) /\ n \in 0 .. Len(s) /\ Len(s2) >= Len(s) - n
  /\ \A i \in 1 .. Len(s) - n : s2[i] = s[i + n]
  /\ \A i \in Len(s) - n + 1 .. Len(s2) : Plain(s2[i])

LEMMA ArrivesPlain ==
  ASSUME NEW s, IsSeq(s), NEW s2, NEW T, PlainLine(T), NEW d, NEW g, Arrives(s, s2, T, d, g)
  PROVE  Moved(s, s2, 0)
<1>1. Len(s) \in Nat /\ Len(T) \in Nat /\ DOMAIN T = 1 .. Len(T) /\ IsSeq(s2) /\ Len(s2) \in Nat
  BY SeqFacts DEF PlainLine, Arrives
<1>2. /\ d \in 1 .. Len(T) + 1 /\ g \in {0, 1} /\ (d = Len(T) + 1 => g = 0)
      /\ \A i \in 1 .. Len(T) : (i < d => s2[Len(s) + i] = T[i]) /\ (i > d => s2[Len(s) + i - g] = T[i])
      /\ d <= Len(T) /\ g = 0 => ~IsCrc(s2[Len(s) + d])
      /\ Len(s2) = Len(s) + Len(T) - g
      /\ \A i \in 1 .. Len(s) : s2[i] = s[i]
  BY DEF Arrives, Borne
<1>3. ASSUME NEW i \in Len(s) + 1 .. Len(s2) PROVE Plain(s2[i])
  <2>1. PICK j : j = i - Len(s) OBVIOUS
  <2>2. j \in 1 .. Len(T) /\ Len(s) + j = i /\ j + g <= Len(T)
    <3>1. g \in Nat /\ Len(s2) = Len(s) + Len(T) - g BY <1>2
    <3>2. Len(s) \in Nat /\ Len(T) \in Nat BY <1>1
    <3> QED BY ONLY <2>1, <3>1, <3>2, i \in Len(s) + 1 .. Len(s2)
  <2>3. CASE j < d
    <3>1. s2[i] = T[j] BY <1>2, <2>2, <2>3
    <3> QED BY <1>1, <2>2, <3>1 DEF PlainLine
  <2>4. CASE j = d /\ g = 0 BY <1>1, <1>2, <2>2, <2>4, NoCrc
  <2>5. CASE j >= d /\ (j = d => g = 1)
    <3>1. j + g \in 1 .. Len(T) /\ j + g > d /\ Len(s) + (j + g) - g = i BY <1>1, <1>2, <2>2, <2>5, SMTT(60)
    <3>2. s2[i] = T[j + g] BY <1>2, <3>1
    <3> QED BY <1>1, <3>1, <3>2 DEF PlainLine
  <2> QED BY <1>1, <1>2, <2>2, <2>3, <2>4, <2>5
<1>4. \A i \in 1 .. Len(s) - 0 : s2[i] = s[i + 0] BY <1>1, <1>2
<1>5. Len(s2) >= Len(s) - 0 /\ 0 \in 0 .. Len(s) /\ Len(s) - 0 = Len(s)
  <2>1. Len(T) - g >= 0 BY <1>1, <1>2
  <2> QED BY <1>1, <1>2, <2>1
<1> QED BY <1>1, <1>3, <1>4, <1>5 DEF Moved

LEMMA ArrivesKnown ==
  ASSUME NEW s, KnownLine(s), NEW s2, NEW T, KnownLine(T), NEW d, NEW g, Arrives(s, s2, T, d, g)
  PROVE  KnownLine(s2)
<1>1. /\ Len(s) \in Nat /\ Len(T) \in Nat /\ DOMAIN T = 1 .. Len(T) /\ DOMAIN s = 1 .. Len(s)
      /\ IsSeq(s2) /\ Len(s2) \in Nat /\ DOMAIN s2 = 1 .. Len(s2)
  BY SeqFacts DEF KnownLine, Arrives
<1>2. /\ d \in 1 .. Len(T) + 1 /\ g \in {0, 1} /\ (d = Len(T) + 1 => g = 0)
      /\ \A i \in 1 .. Len(T) : (i < d => s2[Len(s) + i] = T[i]) /\ (i > d => s2[Len(s) + i - g] = T[i])
      /\ d <= Len(T) /\ g = 0 => ~IsCrc(s2[Len(s) + d])
      /\ Len(s2) = Len(s) + Len(T) - g
      /\ \A i \in 1 .. Len(s) : s2[i] = s[i]
  BY DEF Arrives, Borne
<1>3. ASSUME NEW i \in Len(s) + 1 .. Len(s2) PROVE Known(s2[i])
  <2>1. PICK j : j = i - Len(s) OBVIOUS
  <2>2. j \in 1 .. Len(T) /\ Len(s) + j = i /\ j + g <= Len(T)
    <3>1. g \in Nat /\ Len(s2) = Len(s) + Len(T) - g BY <1>2
    <3>2. Len(s) \in Nat /\ Len(T) \in Nat BY <1>1
    <3> QED BY ONLY <2>1, <3>1, <3>2, i \in Len(s) + 1 .. Len(s2)
  <2>3. CASE j < d
    <3>1. s2[i] = T[j] BY <1>2, <2>2, <2>3
    <3> QED BY <1>1, <2>2, <3>1 DEF KnownLine
  <2>4. CASE j = d /\ g = 0 BY <1>1, <1>2, <2>2, <2>4, NoCrc
  <2>5. CASE j >= d /\ (j = d => g = 1)
    <3>1. j + g \in 1 .. Len(T) /\ j + g > d /\ Len(s) + (j + g) - g = i BY <1>1, <1>2, <2>2, <2>5, SMTT(60)
    <3>2. s2[i] = T[j + g] BY <1>2, <3>1
    <3> QED BY <1>1, <3>1, <3>2 DEF KnownLine
  <2> QED BY <1>1, <1>2, <2>2, <2>3, <2>4, <2>5
<1>4. \A i \in 1 .. Len(s) : Known(s2[i]) BY <1>1, <1>2 DEF KnownLine
<1>5. \A i \in DOMAIN s2 : i \in 1 .. Len(s) \/ i \in Len(s) + 1 .. Len(s2) BY <1>1
<1> QED BY <1>1, <1>3, <1>4, <1>5 DEF KnownLine

\* Genuine alone, for a line whose ZDATA is on its way.
TrueLine(s) == IsSeq(s) /\ \A i \in DOMAIN s : Genuine(s[i])

LEMMA KnownIsTrue == ASSUME NEW s, KnownLine(s) PROVE TrueLine(s)
BY DEF KnownLine, TrueLine, Known

LEMMA MovedTrue ==
  ASSUME NEW s, IsSeq(s), NEW s2, NEW n, Moved(s, s2, n)
  PROVE  /\ TrueLine(s) => TrueLine(s2)
         /\ KnownLine(s) => KnownLine(s2)
<1>1. /\ Len(s) \in Nat /\ DOMAIN s = 1 .. Len(s) /\ IsSeq(s2) /\ Len(s2) \in Nat
      /\ DOMAIN s2 = 1 .. Len(s2) /\ n \in 0 .. Len(s)
  BY SeqFacts DEF Moved
<1>2. ASSUME NEW i \in DOMAIN s2
      PROVE  (i + n \in DOMAIN s /\ s2[i] = s[i + n]) \/ Plain(s2[i])
  <2>1. CASE i <= Len(s) - n
    <3>1. i \in 1 .. Len(s) - n /\ i + n \in DOMAIN s BY <1>1, <2>1
    <3> QED BY <3>1 DEF Moved
  <2>2. CASE i > Len(s) - n
    <3>1. i \in Len(s) - n + 1 .. Len(s2) BY <1>1, <2>2
    <3> QED BY <3>1 DEF Moved
  <2> QED BY <1>1, <2>1, <2>2
<1>3. ASSUME TrueLine(s) PROVE TrueLine(s2) BY <1>1, <1>2, <1>3 DEF TrueLine, Plain
<1>4. ASSUME KnownLine(s) PROVE KnownLine(s2) BY <1>1, <1>2, <1>4, PlainIsKnown DEF KnownLine
<1> QED BY <1>3, <1>4

LEMMA MovedCarried ==
  ASSUME NEW s, IsSeq(s), NEW s2, NEW n, Moved(s, s2, n), NEW T, IsSeq(T),
         NEW o \in Nat, n <= o, o <= Len(s), Carried(s, o, T)
  PROVE  Carried(s2, o - n, T)
<1>1. /\ Len(s) \in Nat /\ IsSeq(s2) /\ Len(s2) \in Nat /\ n \in 0 .. Len(s) /\ Len(T) \in Nat
      /\ Len(s2) >= Len(s) - n
      /\ \A i \in 1 .. Len(s) - n : s2[i] = s[i + n]
      /\ \A i \in Len(s) - n + 1 .. Len(s2) : Plain(s2[i])
  BY SeqFacts DEF Moved
<1>2. PICK d, g : Borne(s, o, T, d, g) /\ \A i \in o + Len(T) - g + 1 .. Len(s) : Plain(s[i])
  BY DEF Carried
<1>3. /\ d \in 1 .. Len(T) + 1 /\ g \in {0, 1} /\ (d = Len(T) + 1 => g = 0)
      /\ o + Len(T) - g <= Len(s)
      /\ \A i \in 1 .. Len(T) : (i < d => s[o + i] = T[i]) /\ (i > d => s[o + i - g] = T[i])
      /\ d <= Len(T) /\ g = 0 => ~IsCrc(s[o + d])
  BY <1>2 DEF Borne
<1>4. PICK p : p = o - n OBVIOUS
<1>5. p \in Nat /\ p + n = o /\ n \in Nat BY <1>1, <1>4
<1>6. \A i \in Nat : i >= 1 /\ o + i <= Len(s) => s2[p + i] = s[o + i]
  <2> SUFFICES ASSUME NEW i \in Nat, i >= 1, o + i <= Len(s) PROVE s2[p + i] = s[o + i] OBVIOUS
  <2>1. p + i \in 1 .. Len(s) - n /\ (p + i) + n = o + i BY <1>1, <1>5
  <2> QED BY <1>1, <2>1
<1>7. ASSUME NEW i \in 1 .. Len(T)
      PROVE  (i < d => s2[p + i] = T[i]) /\ (i > d => s2[p + i - g] = T[i])
  <2>1. ASSUME i < d PROVE s2[p + i] = T[i]
    <3>1. o + i <= Len(s) BY <1>1, <1>3, <2>1
    <3> QED BY <1>3, <1>6, <2>1, <3>1
  <2>2. ASSUME i > d PROVE s2[p + i - g] = T[i]
    <3>1. i - g \in Nat /\ i - g >= 1 /\ o + (i - g) <= Len(s) /\ p + (i - g) = p + i - g /\ o + (i - g) = o + i - g
      BY <1>1, <1>3, <1>5, <2>2
    <3> QED BY <1>3, <1>6, <2>2, <3>1
  <2> QED BY <2>1, <2>2
<1>8. d <= Len(T) /\ g = 0 => ~IsCrc(s2[p + d])
  <2>1. ASSUME d <= Len(T), g = 0 PROVE d \in Nat /\ d >= 1 /\ o + d <= Len(s) BY <1>1, <1>3, <2>1
  <2> QED BY <1>3, <1>6, <2>1
<1>9. p + Len(T) - g <= Len(s2) BY <1>1, <1>3, <1>5
<1>10. Borne(s2, p, T, d, g) BY <1>3, <1>7, <1>8, <1>9 DEF Borne
<1>11. ASSUME NEW i \in p + Len(T) - g + 1 .. Len(s2) PROVE Plain(s2[i])
  <2>1. CASE i <= Len(s) - n
    <3>1. i + n \in o + Len(T) - g + 1 .. Len(s) /\ i \in 1 .. Len(s) - n BY <1>1, <1>3, <1>5, <2>1
    <3> QED BY <1>1, <1>2, <3>1
  <2>2. CASE i > Len(s) - n
    <3>1. i \in Len(s) - n + 1 .. Len(s2) BY <1>1, <1>3, <1>5, <2>2
    <3> QED BY <1>1, <3>1
  <2> QED BY <1>1, <1>3, <1>5, <2>1, <2>2
<1> QED BY <1>4, <1>10, <1>11 DEF Carried

(***************************************************************************)
(* A line with damage: what the receiver can meet when it begins to read    *)
(* byte q.  Own: the CRC of this byte is the first on the line, and behind  *)
(* it the line carries what follows.  Half: the first is a second half.     *)
(* Lost: the CRC was lost, and no other stands in its place.               *)
(***************************************************************************)
\* The next token behind o, those passed over aside, is no CRC of the file.
Quiet(s, o) == \A i \in o + 1 .. Len(s) : OfFile(s[i]) => \E j \in o + 1 .. i - 1 : s[j] \notin Passed

OwnAt(format, style, q, s, k) ==
  /\ \A i \in 1 .. k - 1 : ~IsCrc(s[i])
  /\ s[k] = FirstHalf(format, Sub(style, q))
  /\ IF format = "bin32"
     THEN \/ Quiet(s, k)
          \/ k < Len(s) /\ s[k + 1] = <<"crc32b", Sub(style, q)>> /\ Carried(s, k + 1, After(format, style, q))
     ELSE Carried(s, k, After(format, style, q))

HalfAt(format, s, k) == format = "bin32" /\ (\A i \in 1 .. k - 1 : ~IsCrc(s[i])) /\ s[k][1] = "crc32b"

Own(format, style, q, s) == \E k \in 1 .. Len(s) : OwnAt(format, style, q, s, k)
Half(format, s)          == \E k \in 1 .. Len(s) : HalfAt(format, s, k)
Lost(format, style, q, s) ==
  /\ format # "bin32" /\ LeadLen(CharAt(q)) <= Len(s)
  /\ Leads(s, 0, CharAt(q), EndIn(style, q)) /\ Quiet(s, LeadLen(CharAt(q)))

Ahead(format, style, q, s) == Own(format, style, q, s) \/ Half(format, s) \/ Lost(format, style, q, s)

LEMMA MovedQuiet ==
  ASSUME NEW s, IsSeq(s), NEW s2, NEW n, Moved(s, s2, n), NEW o \in Nat, n <= o, o <= Len(s), Quiet(s, o)
  PROVE  Quiet(s2, o - n)
<1>1. /\ Len(s) \in Nat /\ IsSeq(s2) /\ Len(s2) \in Nat /\ n \in 0 .. Len(s)
      /\ \A i \in 1 .. Len(s) - n : s2[i] = s[i + n]
      /\ \A i \in Len(s) - n + 1 .. Len(s2) : Plain(s2[i])
  BY SeqFacts DEF Moved
<1>2. SUFFICES ASSUME NEW i \in (o - n) + 1 .. Len(s2), OfFile(s2[i])
               PROVE  \E j \in (o - n) + 1 .. i - 1 : s2[j] \notin Passed
  BY DEF Quiet
<1>3. i <= Len(s) - n
  <2>1. ASSUME i > Len(s) - n PROVE FALSE
    <3>1. i \in Len(s) - n + 1 .. Len(s2) BY <1>1, <2>1
    <3> QED BY <1>1, <1>2, <3>1 DEF Plain
  <2> QED BY <1>1, <2>1
<1>4. i + n \in o + 1 .. Len(s) /\ i \in 1 .. Len(s) - n BY <1>1, <1>3
<1>5. OfFile(s[i + n]) BY <1>1, <1>2, <1>4
<1>6. PICK j \in o + 1 .. (i + n) - 1 : s[j] \notin Passed BY <1>4, <1>5 DEF Quiet
<1>7. j - n \in (o - n) + 1 .. i - 1 /\ j - n \in 1 .. Len(s) - n /\ (j - n) + n = j BY <1>1, <1>4
<1>8. s2[j - n] \notin Passed BY <1>1, <1>6, <1>7
<1> QED BY <1>7, <1>8

LEMMA MovedClear ==
  ASSUME NEW s, IsSeq(s), NEW s2, NEW n, Moved(s, s2, n), NEW k \in 1 .. Len(s), n < k,
         \A i \in 1 .. k - 1 : ~IsCrc(s[i])
  PROVE  /\ k - n \in 1 .. Len(s2) /\ s2[k - n] = s[k]
         /\ \A i \in 1 .. (k - n) - 1 : ~IsCrc(s2[i])
         /\ k < Len(s) => k - n < Len(s2) /\ s2[(k - n) + 1] = s[k + 1]
<1>1. /\ Len(s) \in Nat /\ IsSeq(s2) /\ Len(s2) \in Nat /\ n \in 0 .. Len(s) /\ Len(s2) >= Len(s) - n
      /\ \A i \in 1 .. Len(s) - n : s2[i] = s[i + n]
  BY SeqFacts DEF Moved
<1>2. k - n \in 1 .. Len(s) - n /\ (k - n) + n = k BY <1>1
<1>3. k - n \in 1 .. Len(s2) /\ s2[k - n] = s[k] BY <1>1, <1>2
<1>4. ASSUME NEW i \in 1 .. (k - n) - 1 PROVE ~IsCrc(s2[i])
  <2>1. i \in 1 .. Len(s) - n /\ i + n \in 1 .. k - 1 BY <1>1, <1>2
  <2> QED BY <1>1, <2>1
<1>5. ASSUME k < Len(s) PROVE k - n < Len(s2) /\ s2[(k - n) + 1] = s[k + 1]
  <2>1. (k - n) + 1 \in 1 .. Len(s) - n /\ ((k - n) + 1) + n = k + 1 BY <1>1, <1>5
  <2> QED BY <1>1, <2>1
<1> QED BY <1>3, <1>4, <1>5

LEMMA MovedOwn ==
  ASSUME NEW s, IsSeq(s), NEW s2, NEW n, Moved(s, s2, n), NEW k \in 1 .. Len(s), n < k,
         NEW format, NEW style, Total \in Nat, NEW q \in 1 .. Total, OwnAt(format, style, q, s, k)
  PROVE  k - n \in 1 .. Len(s2) /\ OwnAt(format, style, q, s2, k - n)
<1>1. n \in Nat /\ Len(s) \in Nat BY SeqFacts DEF Moved
<1>2. PICK p : p = k - n OBVIOUS
<1>3. p \in Nat BY <1>1, <1>2
<1>4. /\ p \in 1 .. Len(s2) /\ s2[p] = s[k] /\ \A i \in 1 .. p - 1 : ~IsCrc(s2[i])
      /\ k < Len(s) => p < Len(s2) /\ s2[p + 1] = s[k + 1]
  BY <1>2, MovedClear DEF OwnAt
<1>5. Quiet(s, k) => Quiet(s2, p)
  <2>1. k \in Nat /\ n <= k /\ k <= Len(s) BY <1>1
  <2> QED BY <1>2, <2>1, MovedQuiet
<1>6. IsSeq(After(format, style, q)) BY AfterFacts
<1>7. Carried(s, k, After(format, style, q)) => Carried(s2, p, After(format, style, q))
  <2>1. k \in Nat /\ n <= k /\ k <= Len(s) BY <1>1
  <2> QED BY <1>2, <1>6, <2>1, MovedCarried
<1>8. k < Len(s) /\ Carried(s, k + 1, After(format, style, q)) => Carried(s2, p + 1, After(format, style, q))
  <2>1. SUFFICES ASSUME k < Len(s), Carried(s, k + 1, After(format, style, q))
                 PROVE  Carried(s2, p + 1, After(format, style, q))
    OBVIOUS
  <2>2. k + 1 \in Nat /\ n <= k + 1 /\ k + 1 <= Len(s) /\ (k + 1) - n = p + 1 BY <1>1, <1>2, <2>1
  <2>3. Carried(s2, (k + 1) - n, After(format, style, q)) BY <1>6, <2>1, <2>2, MovedCarried
  <2> QED BY <2>2, <2>3
<1> QED BY <1>2, <1>4, <1>5, <1>7, <1>8 DEF OwnAt

LEMMA MovedHalf ==
  ASSUME NEW s, IsSeq(s), NEW s2, NEW n, Moved(s, s2, n), NEW k \in 1 .. Len(s), n < k,
         NEW format, HalfAt(format, s, k)
  PROVE  k - n \in 1 .. Len(s2) /\ HalfAt(format, s2, k - n)
BY MovedClear DEF HalfAt

\* More that is sent changes nothing of it.
LEMMA MovedAhead ==
  ASSUME NEW s, IsSeq(s), NEW s2, Moved(s, s2, 0),
         NEW format, NEW style, Total \in Nat, NEW q \in 1 .. Total
  PROVE  /\ Own(format, style, q, s) => Own(format, style, q, s2)
         /\ Half(format, s) => Half(format, s2)
         /\ Lost(format, style, q, s) => Lost(format, style, q, s2)
<1>1. Len(s) \in Nat /\ \A k \in 1 .. Len(s) : 0 < k /\ k - 0 = k BY SeqFacts
<1>2. Own(format, style, q, s) => Own(format, style, q, s2)
  <2>1. SUFFICES ASSUME NEW k \in 1 .. Len(s), OwnAt(format, style, q, s, k) PROVE Own(format, style, q, s2)
    BY DEF Own
  <2>2. k - 0 \in 1 .. Len(s2) /\ OwnAt(format, style, q, s2, k - 0) BY <1>1, <2>1, MovedOwn
  <2> QED BY <2>2 DEF Own
<1>3. Half(format, s) => Half(format, s2)
  <2>1. SUFFICES ASSUME NEW k \in 1 .. Len(s), HalfAt(format, s, k) PROVE Half(format, s2)
    BY DEF Half
  <2>2. k - 0 \in 1 .. Len(s2) /\ HalfAt(format, s2, k - 0) BY <1>1, <2>1, MovedHalf
  <2> QED BY <2>2 DEF Half
<1>4. Lost(format, style, q, s) => Lost(format, style, q, s2)
  <2>1. SUFFICES ASSUME Lost(format, style, q, s) PROVE Lost(format, style, q, s2) OBVIOUS
  <2>2. PICK l : l = LeadLen(CharAt(q)) OBVIOUS
  <2>3. l \in {3, 4} /\ l <= Len(s) /\ Quiet(s, l) BY <2>1, <2>2 DEF Lost, LeadLen
  <2>4. \A i \in 1 .. l : s2[i] = s[i]
    <3>1. ASSUME NEW i \in 1 .. l PROVE s2[i] = s[i]
      <4>1. i \in 1 .. Len(s) - 0 /\ i + 0 = i BY <1>1, <2>3
      <4> QED BY <4>1 DEF Moved
    <3> QED BY <3>1
  <2>5. Leads(s2, 0, CharAt(q), EndIn(style, q))
    <3>1. 0 + 1 = 1 /\ 0 + 2 = 2 /\ 0 + l - 1 = l - 1 /\ 0 + l = l
          /\ 1 \in 1 .. l /\ 2 \in 1 .. l /\ l - 1 \in 1 .. l /\ l \in 1 .. l
      BY <2>3
    <3>2. Leads(s, 0, CharAt(q), EndIn(style, q)) BY <2>1 DEF Lost
    <3> QED BY <2>2, <2>4, <3>1, <3>2 DEF Leads
  <2>6. Quiet(s2, l)
    <3>1. l \in Nat /\ 0 <= l /\ l - 0 = l BY <2>3
    <3> QED BY <2>3, <3>1, MovedQuiet
  <2>7. l <= Len(s2)
    <3>1. Len(s2) >= Len(s) - 0 /\ IsSeq(s2) BY DEF Moved
    <3> QED BY <1>1, <2>3, <3>1, SeqFacts
  <2> QED BY <2>1, <2>2, <2>5, <2>6, <2>7 DEF Lost
<1> QED BY <1>2, <1>3, <1>4

LEMMA LeadsNoCrc ==
  ASSUME NEW s, NEW char, char[1] = "data", NEW end, Leads(s, 0, char, end)
  PROVE  \A i \in 1 .. LeadLen(char) : ~IsCrc(s[i])
<1>1. ~IsCrc(char) BY DEF IsCrc
<1>2. PICK mark, esc : mark = <<"end", end>> /\ esc = <<"escaped", char[2]>> OBVIOUS
<1>3. ~IsCrc(mark) /\ ~IsCrc(esc) /\ ~IsCrc(ZDLE) BY <1>2, Tokens
<1>4. CASE LeadLen(char) = 4
  <2>1. 0 + 1 = 1 /\ 0 + 2 = 2 /\ 0 + 4 - 1 = 3 /\ 0 + 4 = 4 OBVIOUS
  <2>2. s[1] = ZDLE /\ s[2] = esc /\ s[3] = ZDLE /\ s[4] = mark BY <1>2, <1>4, <2>1 DEF Leads
  <2>3. \A i \in 1 .. 4 : i = 1 \/ i = 2 \/ i = 3 \/ i = 4 OBVIOUS
  <2> QED BY <1>3, <1>4, <2>2, <2>3
<1>5. CASE LeadLen(char) = 3
  <2>1. 0 + 1 = 1 /\ 0 + 3 - 1 = 2 /\ 0 + 3 = 3 OBVIOUS
  <2>2. s[1] = char /\ s[2] = ZDLE /\ s[3] = mark BY <1>2, <1>5, <2>1 DEF Leads
  <2>3. \A i \in 1 .. 3 : i = 1 \/ i = 2 \/ i = 3 OBVIOUS
  <2> QED BY <1>1, <1>3, <1>5, <2>2, <2>3
<1> QED BY <1>4, <1>5 DEF LeadLen

\* The tokens of T behind its first n, when the damage is among them or before them.
LEMMA RestBorne ==
  ASSUME NEW s, NEW T, NEW A, IsSeq(A), NEW n \in Nat, Len(T) = Len(A) + n, Len(s) \in Nat,
         \A i \in 1 .. Len(A) : T[i + n] = A[i],
         NEW d, NEW g, NEW o \in Nat, Borne(s, o, T, d, g),
         \A i \in o + Len(T) - g + 1 .. Len(s) : Plain(s[i])
  PROVE  /\ d > n => Carried(s, o + n, A)
         /\ d <= n => Carried(s, o + n - g, A)
<1>1. Len(A) \in Nat BY SeqFacts
<1>2. /\ d \in 1 .. Len(T) + 1 /\ g \in {0, 1} /\ (d = Len(T) + 1 => g = 0)
      /\ o + Len(T) - g <= Len(s)
      /\ \A i \in 1 .. Len(T) : (i < d => s[o + i] = T[i]) /\ (i > d => s[o + i - g] = T[i])
      /\ d <= Len(T) /\ g = 0 => ~IsCrc(s[o + d])
  BY DEF Borne
<1>3. \A i \in 1 .. Len(A) : i + n \in 1 .. Len(T) BY <1>1
<1>4. ASSUME d > n PROVE Carried(s, o + n, A)
  <2>1. PICK e : e = d - n OBVIOUS
  <2>2. e \in 1 .. Len(A) + 1 /\ (e = Len(A) + 1 => g = 0) /\ (o + n) + Len(A) - g <= Len(s)
    BY <1>1, <1>2, <1>4, <2>1
  <2>3. ASSUME NEW i \in 1 .. Len(A)
        PROVE  (i < e => s[(o + n) + i] = A[i]) /\ (i > e => s[(o + n) + i - g] = A[i])
    <3>1. g \in Nat /\ d \in Nat /\ i \in Nat BY <1>1, <1>2
    <3>2. o + (i + n) = (o + n) + i /\ o + (i + n) - g = (o + n) + i - g
      BY ONLY <3>1, n \in Nat, o \in Nat
    <3>3. (i < e <=> i + n < d) /\ (i > e <=> i + n > d) BY ONLY <2>1, <3>1, n \in Nat
    <3> QED BY <1>2, <1>3, <3>2, <3>3
  <2>4. e <= Len(A) /\ g = 0 => ~IsCrc(s[(o + n) + e])
    <3>1. d \in Nat /\ Len(A) \in Nat /\ Len(T) = n + Len(A) BY <1>1, <1>2
    <3>3. (o + n) + e = o + d /\ (e <= Len(A) <=> d <= Len(T))
      BY ONLY <2>1, <3>1, n \in Nat, o \in Nat
    <3> QED BY <1>2, <3>3
  <2>5. Borne(s, o + n, A, e, g) BY <1>2, <2>2, <2>3, <2>4 DEF Borne
  <2>6. (o + n) + Len(A) - g + 1 = o + Len(T) - g + 1 BY <1>1, <1>2
  <2> QED BY <2>5, <2>6 DEF Carried
<1>5. ASSUME d <= n PROVE Carried(s, o + n - g, A)
  <2>1. PICK e, p : e = Len(A) + 1 /\ p = o + n - g OBVIOUS
  <2>2. e \in 1 .. Len(A) + 1 /\ p + Len(A) - 0 <= Len(s) BY <1>1, <1>2, <1>5, <2>1
  <2>3. ASSUME NEW i \in 1 .. Len(A)
        PROVE  (i < e => s[p + i] = A[i]) /\ (i > e => s[p + i - 0] = A[i])
    <3>1. g \in Nat /\ d \in Nat /\ i \in Nat BY <1>1, <1>2
    <3>2. o + (i + n) - g = p + i BY ONLY <2>1, <3>1, n \in Nat, o \in Nat
    <3>3. i + n > d BY ONLY <1>1, <1>5, <3>1, n \in Nat, i \in 1 .. Len(A)
    <3>4. ~(i > e) /\ p + i - 0 = p + i /\ p \in Int
      BY ONLY <1>1, <2>1, <3>1, n \in Nat, o \in Nat, i \in 1 .. Len(A)
    <3> QED BY <1>2, <1>3, <3>2, <3>3, <3>4
  <2>4. ~(e <= Len(A)) BY <1>1, <2>1
  <2>5. Borne(s, p, A, e, 0) BY <2>1, <2>2, <2>3, <2>4 DEF Borne
  <2>6. p + Len(A) - 0 + 1 = o + Len(T) - g + 1 BY <1>1, <1>2, <2>1
  <2> QED BY <2>1, <2>5, <2>6 DEF Carried
<1> QED BY <1>4, <1>5

\* The last token before A is the damaged one: what comes next is no CRC of the file.
LEMMA QuietBehind ==
  ASSUME NEW s, NEW T, NEW A, IsSeq(A), Begins(A), NEW n \in Nat \ {0}, Len(T) = Len(A) + n, Len(s) \in Nat,
         \A i \in 1 .. Len(A) : T[i + n] = A[i],
         NEW g, Borne(s, 0, T, n, g),
         \A i \in 0 + Len(T) - g + 1 .. Len(s) : Plain(s[i])
  PROVE  Quiet(s, n - 1)
<1>1. Len(A) \in Nat /\ (A = <<>> <=> Len(A) = 0) BY SeqFacts
<1>2. /\ g \in {0, 1} /\ Len(T) - g <= Len(s)
      /\ \A i \in 1 .. Len(T) : i > n => s[0 + i - g] = T[i]
      /\ g = 0 => ~IsCrc(s[0 + n])
  BY <1>1 DEF Borne
<1>3. SUFFICES ASSUME NEW i \in (n - 1) + 1 .. Len(s), OfFile(s[i])
               PROVE  \E j \in (n - 1) + 1 .. i - 1 : s[j] \notin Passed
  BY DEF Quiet
<1>4. ~Plain(s[i]) /\ IsCrc(s[i]) BY <1>3 DEF Plain, OfFile
<1>5. i <= Len(T) - g
  <2>1. PICK t : t = Len(T) OBVIOUS
  <2>2. t \in Nat /\ g \in Nat /\ i \in Nat BY <1>1, <1>2, <2>1
  <2>3. ASSUME i > t - g PROVE i \in 0 + t - g + 1 .. Len(s)
    BY ONLY <2>2, <2>3, i \in (n - 1) + 1 .. Len(s), Len(s) \in Nat, n \in Nat \ {0}
  <2>4. ~(i > t - g) BY <1>4, <2>1, <2>3
  <2> QED BY <2>1, <2>2, <2>4
<1>6. g = 0 => i # n
  <2>1. 0 + n = n OBVIOUS
  <2> QED BY <1>2, <1>4, <2>1
<1>7. Len(A) # 0 BY <1>1, <1>2, <1>5, <1>6
<1>8. PICK p : p = n + 1 - g OBVIOUS
<1>9. s[p] = A[1]
  <2>1. n + 1 \in 1 .. Len(T) /\ n + 1 > n /\ 0 + (n + 1) - g = p /\ 1 + n = n + 1 /\ 1 \in 1 .. Len(A)
    BY <1>1, <1>2, <1>7, <1>8
  <2> QED BY <1>2, <2>1
<1>10. ~IsCrc(s[p]) /\ s[p] \notin Passed BY <1>1, <1>7, <1>9 DEF Begins
<1>11. i # p BY <1>4, <1>10
<1>12. p \in (n - 1) + 1 .. i - 1 BY <1>1, <1>2, <1>6, <1>8, <1>11
<1> QED BY <1>10, <1>12

\* What is carried of the stream from byte q on is one of the three.
LEMMA CarriedAhead ==
  ASSUME NEW s, IsSeq(s), Total \in Nat, NEW q \in 1 .. Total, NEW format, NEW style,
         Carried(s, 0, Stream(format, style, q))
  PROVE  Ahead(format, style, q, s)
<1>1. PICK T, A, l, h, char, end, sub :
        /\ T = Stream(format, style, q) /\ A = After(format, style, q) /\ l = LeadLen(CharAt(q))
        /\ h = Halves(format) /\ char = CharAt(q) /\ end = EndIn(style, q) /\ sub = Sub(style, q)
  OBVIOUS
<1>2. sub = <<char, <<"fin", end>>>> /\ char[1] = "data" BY <1>1 DEF Sub, CharAt
<1>3. IsSeq(A) /\ Begins(A) /\ Len(A) \in Nat BY <1>1, AfterFacts
<1>4. T = Packet(format, char, end, A) /\ l = LeadLen(char) /\ h = Halves(format) BY <1>1 DEF Stream
<1>5. /\ IsSeq(T) /\ Len(T) = Len(A) + h + l /\ Len(A) \in Nat
      /\ Leads(T, 0, char, end)
      /\ T[l + 1] = FirstHalf(format, <<char, <<"fin", end>>>>)
      /\ format = "bin32" => T[l + 2] = <<"crc32b", <<char, <<"fin", end>>>>>>
      /\ \A i \in 1 .. Len(A) : T[i + h + l] = A[i]
  <2>1. PacketIs(T, A, format, char, end, l, h) BY <1>3, <1>4, PacketAt
  <2> QED BY <2>1 DEF PacketIs
<1>6. T[l + 1] = FirstHalf(format, sub) BY <1>2, <1>5
<1>7. format = "bin32" => T[l + 2] = <<"crc32b", sub>> BY <1>2, <1>5
<1>8. PICK n : n = h + l OBVIOUS
<1>9. l \in {3, 4} /\ h \in {1, 2} /\ (h = 2 <=> format = "bin32") BY <1>1 DEF LeadLen, Halves
<1>10. n \in Nat \ {0} /\ n \in Nat /\ Len(T) = Len(A) + n BY <1>3, <1>5, <1>8, <1>9
<1>11. \A i \in 1 .. Len(A) : T[i + n] = A[i]
  <2>1. \A i \in 1 .. Len(A) : i + h + l = i + n BY <1>3, <1>8, <1>9
  <2> QED BY <1>5, <2>1
<1>12. \A i \in 1 .. l : ~IsCrc(T[i]) BY <1>1, <1>2, <1>5, LeadsNoCrc
<1>13. PICK d, g : Borne(s, 0, T, d, g) /\ \A i \in 0 + Len(T) - g + 1 .. Len(s) : Plain(s[i])
  BY <1>1 DEF Carried
<1>14. Len(s) \in Nat BY SeqFacts
<1>15. /\ d \in 1 .. Len(T) + 1 /\ g \in {0, 1} /\ (d = Len(T) + 1 => g = 0)
       /\ Len(T) - g <= Len(s)
       /\ \A i \in 1 .. Len(T) : (i < d => s[i] = T[i]) /\ (i > d => s[i - g] = T[i])
       /\ d <= Len(T) /\ g = 0 => ~IsCrc(s[d])
  <2>1. /\ d \in 1 .. Len(T) + 1 /\ g \in {0, 1} /\ (d = Len(T) + 1 => g = 0)
        /\ 0 + Len(T) - g <= Len(s)
        /\ \A i \in 1 .. Len(T) : (i < d => s[0 + i] = T[i]) /\ (i > d => s[0 + i - g] = T[i])
        /\ d <= Len(T) /\ g = 0 => ~IsCrc(s[0 + d])
    BY <1>13 DEF Borne
  <2>2. \A i \in 1 .. Len(T) : 0 + i = i /\ 0 + i - g = i - g BY <1>3, <1>10, <2>1
  <2>3. 0 + d = d /\ 0 + Len(T) - g = Len(T) - g BY <1>3, <1>10, <2>1
  <2> QED BY <2>1, <2>2, <2>3
<1>16. d > n => Carried(s, n, A)
  <2>1. d > n => Carried(s, 0 + n, A) BY <1>3, <1>10, <1>11, <1>13, <1>14, RestBorne
  <2> QED BY <1>10, <2>1
<1>17. d <= n => Carried(s, n - g, A)
  <2>1. d <= n => Carried(s, 0 + n - g, A) BY <1>3, <1>10, <1>11, <1>13, <1>14, RestBorne
  <2> QED BY <1>10, <1>15, <2>1
<1>18. d = n => Quiet(s, n - 1)
  <2>1. SUFFICES ASSUME d = n PROVE Quiet(s, n - 1) OBVIOUS
  <2>2. Borne(s, 0, T, n, g) BY <1>13, <2>1
  <2> QED BY <1>3, <1>10, <1>11, <1>13, <1>14, <2>2, QuietBehind
<1>19. CASE d <= l
  <2>1. PICK k : k = l + 1 - g OBVIOUS
  <2>2. k \in 1 .. Len(s) /\ l + 1 > d /\ l + 1 \in 1 .. Len(T) /\ d <= Len(T)
    BY <1>3, <1>9, <1>10, <1>8, <1>14, <1>15, <1>19, <2>1
  <2>3. s[k] = FirstHalf(format, sub) 
    <3>1. s[(l + 1) - g] = T[l + 1] BY <1>15, <2>2
    <3> QED BY <1>6, <1>9, <1>15, <2>1, <3>1
  <2>4. ASSUME NEW i \in 1 .. k - 1 PROVE ~IsCrc(s[i])
    <3>1. CASE i < d
      <4>1. i \in 1 .. Len(T) /\ i \in 1 .. l BY <1>9, <1>15, <1>19, <2>1, <2>2, <3>1
      <4> QED BY <1>12, <1>15, <3>1, <4>1
    <3>2. CASE i = d /\ g = 0 BY <1>15, <2>2, <3>2
    <3>3. CASE i >= d /\ (i = d => g = 1)
      <4>1. i + g \in 1 .. Len(T) /\ i + g \in 1 .. l /\ i + g > d /\ (i + g) - g = i
        BY <1>9, <1>15, <1>19, <2>1, <2>2, <3>3
      <4> QED BY <1>12, <1>15, <4>1
    <3> QED BY <1>15, <2>1, <2>2, <3>1, <3>2, <3>3
  <2>5. CASE format = "bin32"
    <3>1. n = l + 2 /\ k + 1 = n - g /\ d <= n /\ k < Len(s) /\ l + 2 \in 1 .. Len(T) /\ l + 2 > d /\ (l + 2) - g = k + 1
      <4>1. d \in Nat /\ g \in {0, 1} /\ Len(T) - g <= Len(s) BY <1>3, <1>10, <1>15
      <4>2. l \in Nat /\ h = 2 BY <1>9, <2>5
      <4>3. n = l + 2 /\ l + 2 \in 1 .. Len(T) BY ONLY <1>3, <1>8, <1>10, <4>2
      <4> QED BY ONLY <1>3, <1>10, <1>14, <1>19, <2>1, <4>1, <4>2, <4>3
    <3>2. s[k + 1] = <<"crc32b", sub>> BY <1>7, <1>15, <2>5, <3>1
    <3>3. Carried(s, k + 1, A) BY <1>17, <3>1
    <3> QED BY <1>1, <2>2, <2>3, <2>4, <2>5, <3>1, <3>2, <3>3 DEF Ahead, Own, OwnAt
  <2>6. CASE format # "bin32"
    <3>1. k = n - g /\ d <= n BY <1>8, <1>9, <1>15, <1>19, <2>1, <2>6
    <3>2. Carried(s, k, A) BY <1>17, <3>1
    <3> QED BY <1>1, <2>2, <2>3, <2>4, <2>6, <3>2 DEF Ahead, Own, OwnAt
  <2> QED BY <2>5, <2>6
<1>20. CASE d > l + 1
  <2>1. PICK k : k = l + 1 OBVIOUS
  <2>2. k \in 1 .. Len(s) /\ k \in 1 .. Len(T) /\ k < d
    BY <1>3, <1>8, <1>9, <1>10, <1>14, <1>15, <1>20, <2>1
  <2>3. s[k] = FirstHalf(format, sub) BY <1>6, <1>15, <2>1, <2>2
  <2>4. ASSUME NEW i \in 1 .. k - 1 PROVE ~IsCrc(s[i])
    <3>1. i \in 1 .. Len(T) /\ i \in 1 .. l /\ i < d BY <1>9, <1>15, <1>20, <2>1, <2>2
    <3> QED BY <1>12, <1>15, <3>1
  <2>5. CASE format # "bin32"
    <3>1. k = n /\ d > n BY <1>8, <1>9, <1>20, <2>1, <2>5
    <3> QED BY <1>1, <1>16, <2>2, <2>3, <2>4, <2>5, <3>1 DEF Ahead, Own, OwnAt
  <2>6. CASE format = "bin32" /\ d = l + 2
    <3>1. d = n /\ n - 1 = k BY <1>8, <1>9, <2>1, <2>6
    <3>2. Quiet(s, k) BY <1>18, <3>1
    <3> QED BY <1>1, <2>2, <2>3, <2>4, <2>6, <3>2 DEF Ahead, Own, OwnAt
  <2>7. CASE format = "bin32" /\ d # l + 2
    <3>1. d > n /\ n = k + 1 /\ l + 2 = k + 1 /\ k + 1 \in 1 .. Len(T) /\ k + 1 < d
          /\ k < Len(s)
      BY <1>3, <1>8, <1>9, <1>10, <1>14, <1>15, <1>20, <2>1, <2>7
    <3>2. s[k + 1] = <<"crc32b", sub>> BY <1>7, <1>15, <2>7, <3>1
    <3>3. Carried(s, k + 1, A) BY <1>16, <3>1
    <3> QED BY <1>1, <2>2, <2>3, <2>4, <2>7, <3>1, <3>2, <3>3 DEF Ahead, Own, OwnAt
  <2> QED BY <2>5, <2>6, <2>7
<1>21. CASE d = l + 1 /\ format = "bin32"
  <2>1. PICK k : k = l + 2 - g OBVIOUS
  <2>2. l + 2 > d /\ l + 2 \in 1 .. Len(T) /\ k \in 1 .. Len(s)
    <3>1. h = 2 /\ d \in Nat /\ g \in {0, 1} /\ Len(T) - g <= Len(s) BY <1>9, <1>15, <1>21
    <3>2. l + 2 > d BY <1>9, <1>21
    <3>3. Len(T) = Len(A) + l + 2 BY <1>3, <1>8, <1>9, <1>10, <3>1
    <3>4. l + 2 \in 1 .. Len(T) BY <1>3, <1>9, <3>3
    <3>5. k \in 1 .. Len(s) BY <1>3, <1>9, <1>14, <2>1, <3>1, <3>3
    <3> QED BY <3>2, <3>4, <3>5
  <2>3. s[k] = <<"crc32b", sub>>
    <3>1. s[(l + 2) - g] = T[l + 2] BY <1>15, <2>2
    <3> QED BY <1>7, <1>9, <1>15, <1>21, <2>1, <3>1
  <2>4. ASSUME NEW i \in 1 .. k - 1 PROVE ~IsCrc(s[i])
    <3>1. CASE i < d
      <4>1. i \in 1 .. Len(T) /\ i \in 1 .. l BY <1>9, <1>15, <1>21, <2>2, <3>1
      <4> QED BY <1>12, <1>15, <3>1, <4>1
    <3>2. CASE i >= d
      <4>1. i = d /\ g = 0 /\ d <= Len(T) BY <1>9, <1>15, <1>21, <2>1, <2>2, <3>2
      <4> QED BY <1>15, <4>1
    <3> QED BY <1>15, <3>1, <3>2
  <2>5. s[k][1] = "crc32b" BY <2>3
  <2>6. HalfAt(format, s, k) BY <1>21, <2>4, <2>5 DEF HalfAt
  <2> QED BY <2>2, <2>6 DEF Ahead, Half
<1>22. CASE d = l + 1 /\ format # "bin32"
  <2>1. d = n /\ n - 1 = l /\ l <= Len(s) BY <1>3, <1>8, <1>9, <1>10, <1>14, <1>15, <1>22
  <2>2. Quiet(s, l) BY <1>18, <2>1
  <2>3. \A i \in 1 .. l : s[i] = T[i]
    <3>1. \A i \in 1 .. l : i \in 1 .. Len(T) /\ i < d BY <1>3, <1>9, <1>10, <2>1
    <3> QED BY <1>15, <3>1
  <2>4. Leads(s, 0, char, end)
    <3>1. 0 + 1 = 1 /\ 0 + 2 = 2 /\ 0 + l - 1 = l - 1 /\ 0 + l = l
          /\ 1 \in 1 .. l /\ 2 \in 1 .. l /\ l - 1 \in 1 .. l /\ l \in 1 .. l
      BY <1>9
    <3>2. LeadLen(char) = l BY <1>1
    <3> QED BY <1>5, <2>3, <3>1, <3>2 DEF Leads
  <2> QED BY <1>1, <1>22, <2>1, <2>2, <2>4 DEF Ahead, Lost
<1> QED BY <1>9, <1>15, <1>19, <1>20, <1>21, <1>22

(***************************************************************************)
(* A line with damage: what the sender puts on it.                         *)
(***************************************************************************)
\* D is T with token d lost or changed, or T itself.
Spoiled(T, D, d, g) ==
  /\ IsSeq(D) /\ d \in 1 .. Len(T) + 1 /\ g \in {0, 1} /\ (d = Len(T) + 1 => g = 0)
  /\ Len(D) = Len(T) - g
  /\ \A i \in 1 .. Len(T) : (i < d => D[i] = T[i]) /\ (i > d => D[i - g] = T[i])
  /\ d <= Len(T) /\ g = 0 => ~IsCrc(D[d])

LEMMA SubSeqFacts ==
  ASSUME NEW s, IsSeq(s), NEW a \in Nat \ {0}, NEW b \in Nat, b <= Len(s), a <= b + 1
  PROVE  /\ IsSeq(SubSeq(s, a, b)) /\ Len(SubSeq(s, a, b)) = b + 1 - a
         /\ \A i \in 1 .. b + 1 - a : SubSeq(s, a, b)[i] = s[a + i - 1]
<1>1. PICK S : s \in Seq(S) BY DEF IsSeq
<1>2. Len(s) \in Nat BY SeqFacts
<1>3. a .. b \subseteq 1 .. Len(s) BY <1>2
<1>4. /\ SubSeq(s, a, b) \in Seq(S)
      /\ Len(SubSeq(s, a, b)) = IF a <= b THEN b - a + 1 ELSE 0
      /\ \A i \in 1 .. b - a + 1 : SubSeq(s, a, b)[i] = s[a + i - 1]
  BY <1>1, <1>2, <1>3, SubSeqProperties
<1>5. b - a + 1 = b + 1 - a /\ (~(a <= b) => b + 1 - a = 0) OBVIOUS
<1>6. IsSeq(SubSeq(s, a, b)) BY <1>4 DEF IsSeq
<1> QED BY <1>4, <1>5, <1>6

Joined(a, b, c) ==
  /\ IsSeq(c) /\ Len(c) = Len(a) + Len(b)
  /\ \A i \in 1 .. Len(a) : c[i] = a[i]
  /\ \A i \in 1 .. Len(b) : c[Len(a) + i] = b[i]

LEMMA ConcatAll ==
  ASSUME NEW a, IsSeq(a), NEW b, IsSeq(b)
  PROVE  Joined(a, b, a \o b)
<1>1. /\ IsSeq(a \o b) /\ Len(a \o b) = Len(a) + Len(b)
      /\ \A i \in 1 .. Len(a) : (a \o b)[i] = a[i]
      /\ \A i \in 1 .. Len(b) : (a \o b)[Len(a) + i] = b[i]
  <2>1. IsSeq(a \o b) BY ConcatFacts
  <2>2. Len(a \o b) = Len(a) + Len(b) BY ConcatFacts
  <2>3. \A i \in 1 .. Len(a) : (a \o b)[i] = a[i] BY ConcatFacts
  <2>4. \A i \in 1 .. Len(b) : (a \o b)[Len(a) + i] = b[i] BY ConcatFacts
  <2> QED BY <2>1, <2>2, <2>3, <2>4
<1> QED BY <1>1, Zenon DEF Joined

LEMMA DamagedIs ==
  ASSUME NEW T, IsSeq(T), NEW D \in Damaged(T)
  PROVE  \E d, g : Spoiled(T, D, d, g)
<1>1. Len(T) \in Nat /\ DOMAIN T = 1 .. Len(T) BY SeqFacts
<1>2. PICK d \in DOMAIN T : D = RemoveAt(T, d) \/ \E n \in Noise : D = ReplaceAt(T, d, n) BY DEF Damaged
<1>3. d \in 1 .. Len(T) /\ d \in Nat /\ d - 1 \in Nat /\ d + 1 \in Nat \ {0} BY <1>1
<1>4. CASE D = RemoveAt(T, d)
  <2>1. PICK a, b : a = SubSeq(T, 1, d - 1) /\ b = SubSeq(T, d + 1, Len(T)) OBVIOUS
  <2>2. D = a \o b BY <1>4, <2>1 DEF RemoveAt
  <2>3. IsSeq(a) /\ Len(a) = d - 1 /\ \A i \in 1 .. d - 1 : a[i] = T[i]
    <3>1. 1 \in Nat \ {0} /\ d - 1 <= Len(T) /\ 1 <= (d - 1) + 1 /\ (d - 1) + 1 - 1 = d - 1 BY <1>1, <1>3
    <3>2. IsSeq(a) /\ Len(a) = (d - 1) + 1 - 1 /\ \A i \in 1 .. (d - 1) + 1 - 1 : a[i] = T[1 + i - 1]
      BY <1>3, <2>1, <3>1, SubSeqFacts
    <3>3. \A i \in 1 .. d - 1 : 1 + i - 1 = i BY <1>3
    <3> QED BY <3>1, <3>2, <3>3
  <2>4. IsSeq(b) /\ Len(b) = Len(T) - d /\ \A i \in 1 .. Len(T) - d : b[i] = T[d + i]
    <3>1. PICK m, n : m = d + 1 /\ n = Len(T) OBVIOUS
    <3>2. m \in Nat \ {0} /\ n \in Nat /\ m <= n + 1 /\ n <= Len(T) /\ n + 1 - m = Len(T) - d BY <1>1, <1>3, <3>1
    <3>3. b = SubSeq(T, m, n) BY <2>1, <3>1
    <3>4. IsSeq(b) /\ Len(b) = n + 1 - m /\ \A i \in 1 .. n + 1 - m : b[i] = T[m + i - 1]
      BY <3>2, <3>3, SubSeqFacts
    <3>5. \A i \in 1 .. Len(T) - d : m + i - 1 = d + i BY <1>1, <1>3, <3>1
    <3> QED BY <3>2, <3>4, <3>5
  <2>5. /\ IsSeq(D) /\ Len(D) = Len(a) + Len(b)
        /\ \A i \in 1 .. Len(a) : D[i] = a[i]
        /\ \A i \in 1 .. Len(b) : D[Len(a) + i] = b[i]
    <3>1. Joined(a, b, a \o b) BY <2>3, <2>4, ConcatAll
    <3>2. Joined(a, b, D) BY <2>2, <3>1
    <3> QED BY <3>2 DEF Joined
  <2>6. ASSUME NEW i \in 1 .. Len(T) PROVE (i < d => D[i] = T[i]) /\ (i > d => D[i - 1] = T[i])
    <3>1. ASSUME i < d PROVE D[i] = T[i]
      <4>1. i \in 1 .. d - 1 BY <1>3, <3>1
      <4> QED BY <2>3, <2>5, <4>1
    <3>2. ASSUME i > d PROVE D[i - 1] = T[i]
      <4>1. PICK j : j = i - d OBVIOUS
      <4>2. j \in 1 .. Len(T) - d /\ (d - 1) + j = i - 1 /\ d + j = i BY <1>1, <1>3, <3>2, <4>1
      <4>3. D[(d - 1) + j] = b[j] BY <2>3, <2>4, <2>5, <4>2
      <4> QED BY <2>4, <4>2, <4>3
    <3> QED BY <3>1, <3>2
  <2>7. Len(D) = Len(T) - 1 BY <1>1, <1>3, <2>3, <2>4, <2>5
  <2>8. d \in 1 .. Len(T) + 1 /\ d # Len(T) + 1 BY <1>1, <1>3
  <2>9. PICK g : g = 1 OBVIOUS
  <2>10. IsSeq(D) /\ Len(D) = Len(T) - g /\ g \in {0, 1} /\ g # 0 BY <2>5, <2>7, <2>9
  <2>11. \A i \in 1 .. Len(T) : (i < d => D[i] = T[i]) /\ (i > d => D[i - g] = T[i]) BY <2>6, <2>9
  <2>12. Spoiled(T, D, d, g) BY ONLY <2>8, <2>10, <2>11 DEF Spoiled
  <2> QED BY <2>12
<1>5. CASE \E n \in Noise : D = ReplaceAt(T, d, n)
  <2>1. PICK n \in Noise : D = [T EXCEPT ![d] = n] BY <1>5 DEF ReplaceAt
  <2>2. ~IsCrc(n) BY NoiseAssumption DEF IsCrc
  <2>3. IsSeq(D) /\ Len(D) = Len(T) BY <2>1, ExceptFacts
  <2>4. D[d] = n /\ \A i \in 1 .. Len(T) : i # d => D[i] = T[i] BY <1>1, <2>1
  <2>5. ASSUME NEW i \in 1 .. Len(T) PROVE (i < d => D[i] = T[i]) /\ (i > d => D[i - 0] = T[i])
    <3>1. i - 0 = i /\ (i < d => i # d) /\ (i > d => i # d) BY <1>3
    <3> QED BY <2>4, <3>1
  <2>6. Len(T) - 0 = Len(T) /\ d # Len(T) + 1 /\ d \in 1 .. Len(T) + 1 BY <1>1, <1>3
  <2>7. Spoiled(T, D, d, 0) BY <2>2, <2>3, <2>4, <2>5, <2>6 DEF Spoiled
  <2> QED BY <2>7
<1> QED BY <1>2, <1>4, <1>5

LEMMA Undamaged == ASSUME NEW T, IsSeq(T) PROVE Spoiled(T, T, Len(T) + 1, 0)
<1>1. Len(T) \in Nat BY SeqFacts
<1>2. Len(T) - 0 = Len(T) /\ Len(T) + 1 \in 1 .. Len(T) + 1 /\ ~(Len(T) + 1 <= Len(T)) BY <1>1
<1>3. \A i \in 1 .. Len(T) : ~(i > Len(T) + 1) BY <1>1
<1> QED BY <1>2, <1>3 DEF Spoiled

LEMMA SpoiledArrives ==
  ASSUME NEW s, IsSeq(s), NEW T, IsSeq(T), NEW D, NEW d, NEW g, Spoiled(T, D, d, g),
         NEW s2, s2 = s \o D
  PROVE  Arrives(s, s2, T, d, g)
<1>1. Len(s) \in Nat /\ Len(T) \in Nat BY SeqFacts
<1>2. /\ IsSeq(D) /\ d \in 1 .. Len(T) + 1 /\ g \in {0, 1} /\ (d = Len(T) + 1 => g = 0)
      /\ Len(D) = Len(T) - g
      /\ \A i \in 1 .. Len(T) : (i < d => D[i] = T[i]) /\ (i > d => D[i - g] = T[i])
      /\ d <= Len(T) /\ g = 0 => ~IsCrc(D[d])
  BY DEF Spoiled
<1>3. /\ IsSeq(s2) /\ Len(s2) = Len(s) + Len(D)
      /\ \A i \in 1 .. Len(s) : s2[i] = s[i]
      /\ \A i \in 1 .. Len(D) : s2[Len(s) + i] = D[i]
  <2>1. Joined(s, D, s \o D) BY <1>2, ConcatAll
  <2>2. Joined(s, D, s2) BY <2>1
  <2> QED BY <2>2 DEF Joined
<1>4. PICK o : o = Len(s) OBVIOUS
<1>5. ASSUME NEW i \in 1 .. Len(T)
      PROVE  (i < d => s2[o + i] = T[i]) /\ (i > d => s2[o + i - g] = T[i])
  <2>1. ASSUME i < d PROVE s2[o + i] = T[i]
    <3>1. i \in 1 .. Len(D) BY <1>1, <1>2, <2>1
    <3> QED BY <1>2, <1>3, <1>4, <2>1, <3>1
  <2>2. ASSUME i > d PROVE s2[o + i - g] = T[i]
    <3>1. i - g \in 1 .. Len(D) /\ o + (i - g) = o + i - g BY <1>1, <1>2, <1>4, <2>2
    <3>2. s2[o + (i - g)] = D[i - g] BY <1>3, <1>4, <3>1
    <3> QED BY <1>2, <2>2, <3>1, <3>2
  <2> QED BY <2>1, <2>2
<1>6. d <= Len(T) /\ g = 0 => ~IsCrc(s2[o + d])
  <2>1. ASSUME d <= Len(T), g = 0 PROVE d \in 1 .. Len(D) BY <1>1, <1>2, <2>1
  <2> QED BY <1>2, <1>3, <1>4, <2>1
<1>7. o + Len(T) - g <= Len(s2) /\ Len(s2) = o + Len(T) - g BY <1>1, <1>2, <1>3, <1>4
<1> QED BY <1>2, <1>3, <1>4, <1>5, <1>6, <1>7 DEF Arrives, Borne

LEMMA TransmitLine ==
  ASSUME IsSeq(down), NEW state, NEW last, NEW prefix, IsSeq(last), IsSeq(prefix), Transmit(state, last, prefix)
  PROVE  snd' = [state EXCEPT !.last = last] /\ \E d, g : Arrives(down, down', prefix \o last, d, g)
<1>1. PICK T : T = prefix \o last OBVIOUS
<1>2. IsSeq(T) BY <1>1, ConcatFacts
<1>3. CASE down' = down \o prefix \o last
  <2>1. (down \o prefix) \o last = down \o T BY <1>1, Assoc, SMTT(60)
  <2>2. down' = down \o T BY <1>3, <2>1
  <2>3. Spoiled(T, T, Len(T) + 1, 0) BY <1>2, Undamaged
  <2>4. Arrives(down, down', T, Len(T) + 1, 0) BY <1>2, <2>2, <2>3, SpoiledArrives
  <2> QED BY <1>1, <2>4 DEF Transmit
<1>4. CASE \E tokens \in {prefix \o last} : \E damaged \in Damaged(tokens) : down' = down \o damaged
  <2>1. PICK D \in Damaged(T) : down' = down \o D BY <1>1, <1>4
  <2>2. PICK d, g : Spoiled(T, D, d, g) BY <1>2, DamagedIs
  <2>3. Arrives(down, down', T, d, g) BY <1>2, <2>1, <2>2, SpoiledArrives
  <2> QED BY <1>1, <2>3 DEF Transmit
<1> QED BY <1>3, <1>4 DEF Transmit

(***************************************************************************)
(* A line with damage: the last token of a ZDATA lets the receiver read a   *)
(* file.  There is at most one on the line.                                *)
(***************************************************************************)
Grant(format, h) == IF format = "bin32" THEN <<"crc32b", <<h>>>> ELSE <<"crc16", <<h>>>>

BinIs(B, S, format, h, m) ==
  /\ IsSeq(B) /\ Len(B) = Len(S) + m /\ Len(S) \in Nat
  /\ \A i \in 1 .. m - 1 : B[i] \in {ZPAD, ZDLE, <<"kind", format>>, h, <<"crc32a", <<h>>>>}
  /\ B[m] = Grant(format, h)
  /\ \A i \in 1 .. Len(S) : B[i + m] = S[i]

LEMMA BinAt ==
  ASSUME NEW S, IsSeq(S), NEW format, NEW h, NEW m, m = 4 + Halves(format)
  PROVE  BinIs(BinAll(format, h, S), S, format, h, m)
<1>1. PICK B, z, k, x, c, kind, tokens :
        /\ B = BinAll(format, h, S) /\ z = BinZdle(format, h, S) /\ k = BinKind(format, h, S)
        /\ x = BinHdr(format, h, S) /\ c = Crc(format, tokens, S) /\ kind = <<"kind", format>>
        /\ tokens = <<h>>
  OBVIOUS
<1>2. /\ B = Cons(ZPAD, z) /\ z = Cons(ZDLE, k) /\ k = Cons(kind, x) /\ x = Cons(h, c)
  BY <1>1 DEF BinAll, BinZdle, BinKind, BinHdr
<1>3. Halves(format) \in {1, 2} /\ (format = "bin32" <=> Halves(format) = 2) BY DEF Halves
<1>4. /\ IsSeq(c) /\ Len(c) = Len(S) + Halves(format) /\ Len(S) \in Nat
      /\ c[1] = FirstHalf(format, tokens)
      /\ format = "bin32" => c[2] = <<"crc32b", tokens>>
      /\ \A i \in 1 .. Len(S) : c[i + Halves(format)] = S[i]
  BY ONLY <1>1, CrcAt, IsSeq(S)
<1>5. /\ IsSeq(x) /\ Len(x) = Len(c) + 1 /\ x[1] = h /\ \A i \in 1 .. Len(c) : x[i + 1] = c[i]
  BY ONLY <1>2, <1>4, ConsAll
<1>6. /\ IsSeq(k) /\ Len(k) = Len(x) + 1 /\ k[1] = kind /\ \A i \in 1 .. Len(x) : k[i + 1] = x[i]
  BY ONLY <1>2, <1>5, ConsAll
<1>7. /\ IsSeq(z) /\ Len(z) = Len(k) + 1 /\ z[1] = ZDLE /\ \A i \in 1 .. Len(k) : z[i + 1] = k[i]
  BY ONLY <1>2, <1>6, ConsAll
<1>8. /\ IsSeq(B) /\ Len(B) = Len(z) + 1 /\ B[1] = ZPAD /\ \A i \in 1 .. Len(z) : B[i + 1] = z[i]
  BY ONLY <1>2, <1>7, ConsAll
<1>9. PICK n : n = Len(c) OBVIOUS
<1>10. n \in Nat /\ n >= 1 /\ Len(x) = n + 1 /\ Len(k) = n + 2 /\ Len(z) = n + 3 /\ Len(B) = n + 4
  <2>1. n \in Nat /\ n >= 1 BY <1>3, <1>4, <1>9
  <2>2. Len(x) = n + 1 /\ Len(k) = n + 1 + 1 /\ Len(z) = n + 1 + 1 + 1 /\ Len(B) = n + 1 + 1 + 1 + 1
    BY <1>5, <1>6, <1>7, <1>8, <1>9
  <2> QED BY ONLY <2>1, <2>2
<1>11. B[2] = ZDLE /\ B[3] = kind /\ B[4] = h
  <2>1. 1 \in 1 .. Len(z) /\ 2 \in 1 .. Len(z) /\ 3 \in 1 .. Len(z) /\ 1 \in 1 .. Len(k) /\ 2 \in 1 .. Len(k)
        /\ 1 \in 1 .. Len(x)
    BY <1>10
  <2>2. B[1 + 1] = z[1] /\ B[2 + 1] = z[2] /\ B[3 + 1] = z[3] BY <1>8, <2>1
  <2>3. z[1 + 1] = k[1] /\ z[2 + 1] = k[2] /\ k[1 + 1] = x[1] BY <1>6, <1>7, <2>1
  <2>4. 1 + 1 = 2 /\ 2 + 1 = 3 /\ 3 + 1 = 4 OBVIOUS
  <2> QED BY <1>5, <1>6, <1>7, <2>2, <2>3, <2>4
<1>12. \A i \in 1 .. n : B[i + 4] = c[i]
  <2> SUFFICES ASSUME NEW i \in 1 .. n PROVE B[i + 4] = c[i] OBVIOUS
  <2>1. /\ i \in 1 .. Len(c) /\ i + 1 \in 1 .. Len(x) /\ i + 2 \in 1 .. Len(k) /\ i + 3 \in 1 .. Len(z)
        /\ (i + 1) + 1 = i + 2 /\ (i + 2) + 1 = i + 3 /\ (i + 3) + 1 = i + 4
    BY <1>9, <1>10
  <2>2. x[i + 1] = c[i] /\ k[i + 2] = x[i + 1] /\ z[i + 3] = k[i + 2] /\ B[i + 4] = z[i + 3]
    BY <1>5, <1>6, <1>7, <1>8, <2>1
  <2> QED BY <2>2
<1>13. B[5] = c[1] /\ (format = "bin32" => B[6] = c[2])
  <2>1. 1 \in 1 .. n /\ (format = "bin32" => 2 \in 1 .. n) /\ 1 + 4 = 5 /\ 2 + 4 = 6
    BY <1>3, <1>4, <1>9
  <2> QED BY <1>12, <2>1
<1>14. ASSUME NEW i \in 1 .. m - 1
       PROVE  B[i] \in {ZPAD, ZDLE, kind, h, <<"crc32a", tokens>>}
  <2>1. i = 1 \/ i = 2 \/ i = 3 \/ i = 4 \/ (i = 5 /\ format = "bin32") BY <1>3
  <2>2. format = "bin32" => B[5] = <<"crc32a", tokens>> BY <1>4, <1>13 DEF FirstHalf
  <2> QED BY <1>8, <1>11, <2>1, <2>2
<1>15. B[m] = Grant(format, h)
  <2>1. CASE format = "bin32"
    <3>1. m = 6 BY <1>3, <2>1
    <3> QED BY <1>1, <1>4, <1>13, <2>1, <3>1 DEF Grant
  <2>2. CASE format # "bin32"
    <3>1. m = 5 BY <1>3, <2>2
    <3> QED BY <1>1, <1>4, <1>13, <2>2, <3>1 DEF Grant, FirstHalf
  <2> QED BY <2>1, <2>2
<1>16. ASSUME NEW i \in 1 .. Len(S) PROVE B[i + m] = S[i]
  <2>1. PICK j : j = i + Halves(format) OBVIOUS
  <2>2. j \in 1 .. n /\ j + 4 = i + m BY <1>3, <1>4, <1>9, <2>1
  <2>3. B[j + 4] = c[j] BY <1>12, <2>2
  <2> QED BY <1>4, <2>1, <2>2, <2>3
<1>17. Len(B) = Len(S) + m BY <1>3, <1>4, <1>9, <1>10, SMTT(60)
<1> QED BY <1>1, <1>4, <1>8, <1>14, <1>15, <1>16, <1>17 DEF BinIs

\* What the sender sends from a position on.
LEMMA DataSent ==
  ASSUME NEW format, NEW style, NEW pos \in Nat, Total \in Nat, pos < Total
  PROVE  DataFrom(format, style, 1, pos)
           = BinAll(format, Header("ZDATA", pos), Stream(format, style, pos + 1))
<1>1. PICK q, k, S : q = pos + 1 /\ k = Total - pos /\ S = Stream(format, style, q) OBVIOUS
<1>2. q \in 1 .. Total /\ k \in 0 .. Total /\ k # 0 /\ ~(pos >= Total) BY <1>1
<1>3. IsSeq(S) BY <1>1, <1>2, StreamKnown DEF KnownLine
<1>4. CharAt(q) = <<"data", Files[1][pos + 1]>> BY <1>1 DEF CharAt
<1>5. CASE style = "wait"
  <2>1. S = Packet(format, CharAt(q), "W", <<>>) BY <1>1, <1>5 DEF Stream, After, EndIn
  <2>2. PICK sub : sub = Subpacket(format, CharAt(q), "W") OBVIOUS
  <2>3. sub \o <<>> = S /\ IsSeq(sub) BY <2>1, <2>2, EmptyIsSeq, PacketSent
  <2>4. sub \o <<>> = sub
    <3>1. PICK R : sub \in Seq(R) BY <2>3 DEF IsSeq
    <3> QED BY <3>1, ConcatEmptySeq
  <2>5. DataFrom(format, style, 1, pos) = BinHeader(format, "ZDATA", pos) \o S
    BY <1>2, <1>4, <1>5, <2>2, <2>3, <2>4 DEF DataFrom, Total
  <2> QED BY <1>1, <1>3, <2>5, BinSent, ZenonT(60)
<1>6. CASE style # "wait"
  <2>1. Remaining(format, style, 1)[k] = S
    <3>1. Remaining(format, style, 1)[k] = Packet(format, <<"data", Files[1][Total - k + 1]>>, EndAt(style, k),
                                                  Remaining(format, style, 1)[k - 1])
      BY <1>2, RemainingIs DEF Total
    <3>2. Total - k + 1 = q /\ k - 1 = Total - q /\ k = Total - q + 1 BY <1>1, <1>2
    <3>3. EndIn(style, q) = EndAt(style, k) /\ After(format, style, q) = Remaining(format, style, 1)[k - 1]
      BY <1>6, <3>2 DEF EndIn, After
    <3>4. CharAt(q) = <<"data", Files[1][Total - k + 1]>> BY <3>2 DEF CharAt
    <3> QED BY <1>1, <3>1, <3>3, <3>4 DEF Stream
  <2>2. DataFrom(format, style, 1, pos) = BinHeader(format, "ZDATA", pos) \o S
    BY <1>1, <1>2, <1>6, <2>1 DEF DataFrom, Total
  <2> QED BY <1>1, <1>3, <2>2, BinSent, ZenonT(60)
<1> QED BY <1>5, <1>6

LEMMA EndSent ==
  ASSUME NEW format, NEW style, NEW pos \in Nat, Total \in Nat, ~(pos < Total)
  PROVE  DataFrom(format, style, 1, pos) = HexHeader("ZEOF", pos)
<1>1. pos >= Total OBVIOUS
<1> QED BY <1>1 DEF DataFrom, Total

LastTag(format) == IF format = "bin32" THEN "crc32b" ELSE "crc16"

GrantAt(format, s, k) ==
  s[k][1] = LastTag(format) /\ Grants(s[k]) /\ \A i \in DOMAIN s : i # k => ~Grants(s[i])

Granted(format, style, q, s) == \E k \in 1 .. Len(s) : GrantAt(format, s, k) /\ Carried(s, k, Stream(format, style, q))

\* A ZDATA arrives, or its last token does not.
LEMMA GrantArrives ==
  ASSUME NEW s, KnownLine(s), NEW format, NEW style, Total \in Nat, NEW q \in 1 .. Total, NEW pos,
         NEW s2, NEW d, NEW g,
         Arrives(s, s2, BinAll(format, Header("ZDATA", pos), Stream(format, style, q)), d, g)
  PROVE  /\ TrueLine(s2)
         /\ KnownLine(s2) \/ Granted(format, style, q, s2)
<1>1. PICK h, S, B, m, o :
        /\ h = Header("ZDATA", pos) /\ S = Stream(format, style, q) /\ B = BinAll(format, h, S)
        /\ m = 4 + Halves(format) /\ o = Len(s)
  OBVIOUS
<1>2. KnownLine(S) BY <1>1, StreamKnown
<1>3. IsSeq(S) /\ IsSeq(s) /\ DOMAIN S = 1 .. Len(S) /\ Len(S) \in Nat /\ o \in Nat /\ DOMAIN s = 1 .. o
  BY <1>1, <1>2, SeqFacts DEF KnownLine
<1>4. BinIs(B, S, format, h, m) BY <1>1, <1>3, BinAt
<1>5. /\ IsSeq(B) /\ Len(B) = Len(S) + m /\ m \in {5, 6} /\ m \in Nat
      /\ \A i \in 1 .. m - 1 : B[i] \in {ZPAD, ZDLE, <<"kind", format>>, h, <<"crc32a", <<h>>>>}
      /\ B[m] = Grant(format, h)
      /\ \A i \in 1 .. Len(S) : B[i + m] = S[i]
  BY <1>1, <1>4 DEF BinIs, Halves
<1>6. Arrives(s, s2, B, d, g) BY <1>1
<1>7. /\ IsSeq(s2) /\ Borne(s2, o, B, d, g) /\ Len(s2) = o + Len(B) - g
      /\ \A i \in 1 .. o : s2[i] = s[i]
  BY <1>1, <1>6 DEF Arrives
<1>8. /\ d \in 1 .. Len(B) + 1 /\ g \in {0, 1} /\ (d = Len(B) + 1 => g = 0)
      /\ \A i \in 1 .. Len(B) : (i < d => s2[o + i] = B[i]) /\ (i > d => s2[o + i - g] = B[i])
      /\ d <= Len(B) /\ g = 0 => ~IsCrc(s2[o + d])
  BY <1>7 DEF Borne
<1>9. \A i \in 1 .. Len(B) : i # m => Known(B[i])
  <2> SUFFICES ASSUME NEW i \in 1 .. Len(B), i # m PROVE Known(B[i]) OBVIOUS
  <2>1. CASE i < m
    <3>1. i \in 1 .. m - 1 BY <1>5, <2>1
    <3>2. PICK kind, t : kind = <<"kind", format>> /\ t = <<"crc32a", <<h>>>> OBVIOUS
    <3>3. Known(t)
      <4>1. t = <<"crc32a", <<Header("ZDATA", pos)>>>> BY <1>1, <3>2
      <4>2. Genuine(t) /\ (Grants(t) <=> "crc32a" # "crc32a") BY <4>1, HeaderCrcs DEF Types
      <4> QED BY <4>2 DEF Known
    <3>4. Known(ZPAD) /\ Known(ZDLE) /\ Known(kind) /\ Known(h) BY <1>1, <3>2, Tokens, NoCrc
    <3>5. B[i] \in {ZPAD, ZDLE, kind, h, t} BY <1>5, <3>1, <3>2
    <3> QED BY <3>3, <3>4, <3>5
  <2>2. CASE i > m
    <3>1. i - m \in 1 .. Len(S) /\ (i - m) + m = i BY <1>3, <1>5, <2>2
    <3>2. B[i] = S[i - m] BY <1>5, <3>1
    <3> QED BY <1>2, <1>3, <3>1, <3>2 DEF KnownLine
  <2> QED BY <1>5, <2>1, <2>2
<1>10. Genuine(B[m]) /\ Grants(B[m]) /\ B[m][1] = LastTag(format)
  <2>1. PICK tag : tag = LastTag(format) OBVIOUS
  <2>2. tag \in {"crc16", "crc32a", "crc32b"} /\ tag # "crc32a" BY <2>1 DEF LastTag
  <2>3. B[m] = <<tag, <<Header("ZDATA", pos)>>>> BY <1>1, <1>5, <2>1 DEF Grant, LastTag
  <2>4. PICK t : t = <<tag, <<Header("ZDATA", pos)>>>> OBVIOUS
  <2>5. Genuine(t) /\ (Grants(t) <=> tag # "crc32a") BY <2>2, <2>4, HeaderCrcs DEF Types
  <2> QED BY <2>1, <2>2, <2>3, <2>4, <2>5
\* Where token i of s2 comes from.
<1>11. ASSUME NEW i \in 1 .. Len(s2)
       PROVE  \/ Known(s2[i])
              \/ m < d /\ i = o + m /\ s2[i] = B[m]
              \/ m > d /\ i = o + m - g /\ s2[i] = B[m]
  <2>1. CASE i <= o
    <3>1. i \in 1 .. o BY <1>3, <2>1
    <3> QED BY <1>3, <1>7, <3>1 DEF KnownLine
  <2>2. CASE i > o
    <3>1. PICK j : j = i - o OBVIOUS
    <3>2. j \in 1 .. Len(B) /\ o + j = i /\ j + g <= Len(B)
      <4>1. Len(B) \in Nat /\ o \in Nat /\ g \in {0, 1} /\ Len(s2) = o + Len(B) - g BY <1>3, <1>5, <1>7, <1>8
      <4> QED BY ONLY <2>2, <3>1, <4>1, i \in 1 .. Len(s2)
    <3>3. CASE j < d
      <4>1. s2[i] = B[j] BY <1>8, <3>2, <3>3
      <4> QED BY <1>9, <3>2, <3>3, <4>1
    <3>4. CASE j = d /\ g = 0
      <4>1. ~IsCrc(s2[i]) BY <1>5, <1>8, <3>2, <3>4
      <4> QED BY <4>1, NoCrc
    <3>5. CASE j >= d /\ (j = d => g = 1)
      <4>1. PICK e : e = j + g OBVIOUS
      <4>2. e \in 1 .. Len(B) /\ e > d /\ o + e - g = i BY <1>3, <1>8, <3>2, <3>5, <4>1
      <4>3. s2[i] = B[e] BY <1>8, <4>2
      <4>4. e = m => m > d /\ i = o + m - g BY <4>2
      <4> QED BY <1>9, <4>2, <4>3, <4>4
    <3> QED BY <1>8, <3>2, <3>3, <3>4, <3>5
  <2> QED BY <1>3, <2>1, <2>2
<1>12. Len(s2) \in Nat /\ DOMAIN s2 = 1 .. Len(s2) BY <1>7, SeqFacts
<1>13. TrueLine(s2)
  <2>1. ASSUME NEW i \in DOMAIN s2 PROVE Genuine(s2[i]) BY <1>10, <1>11, <1>12 DEF Known
  <2> QED BY <1>7, <2>1 DEF TrueLine
<1>14. CASE m = d
  <2>1. ~(m < d) /\ ~(m > d) BY <1>5, <1>14
  <2>2. \A i \in DOMAIN s2 : Known(s2[i]) BY <1>11, <1>12, <2>1
  <2> QED BY <1>7, <1>13, <2>2 DEF KnownLine
<1>15. CASE m # d
  <2>1. PICK k : k = IF m < d THEN o + m ELSE o + m - g OBVIOUS
  <2>2. k \in 1 .. Len(s2) /\ s2[k] = B[m]
    <3>1. CASE m < d
      <4>1. k = o + m /\ m \in 1 .. Len(B) BY <1>3, <1>5, <2>1, <3>1
      <4>2. k \in 1 .. Len(s2) BY <1>3, <1>5, <1>7, <1>8, <3>1, <4>1
      <4> QED BY <1>8, <3>1, <4>1, <4>2
    <3>2. CASE m > d
      <4>1. k = o + m - g /\ m \in 1 .. Len(B) BY <1>3, <1>5, <1>8, <2>1, <3>2
      <4>2. k \in 1 .. Len(s2) BY <1>3, <1>5, <1>7, <1>8, <3>2, <4>1
      <4> QED BY <1>8, <3>2, <4>1, <4>2
    <3> QED BY <1>5, <1>8, <1>15, <3>1, <3>2
  <2>3. ASSUME NEW i \in DOMAIN s2, i # k PROVE ~Grants(s2[i])
    <3>1. (m < d /\ i = o + m => i = k) /\ (m > d /\ i = o + m - g => i = k) BY <1>5, <1>8, <2>1
    <3>2. Known(s2[i]) BY <1>11, <1>12, <2>3, <3>1
    <3> QED BY <3>2 DEF Known
  <2>4. GrantAt(format, s2, k) BY <1>10, <2>2, <2>3 DEF GrantAt
  <2>5. Carried(s2, k, S)
    <3>1. \A i \in o + Len(B) - g + 1 .. Len(s2) : Plain(s2[i])
      <4>1. o + Len(B) - g + 1 .. Len(s2) = {} BY <1>3, <1>5, <1>7, <1>8
      <4> QED BY <4>1
    <3>2. d > m => Carried(s2, o + m, S)
      BY <1>3, <1>5, <1>7, <1>12, <3>1, RestBorne
    <3>3. d <= m => Carried(s2, o + m - g, S)
      BY <1>3, <1>5, <1>7, <1>12, <3>1, RestBorne
    <3> QED BY <1>5, <1>8, <2>1, <3>2, <3>3
  <2> QED BY <1>1, <1>13, <2>2, <2>4, <2>5 DEF Granted
<1> QED BY <1>14, <1>15

LEMMA MovedGranted ==
  ASSUME NEW s, TrueLine(s), NEW s2, NEW n, Moved(s, s2, n), NEW format, NEW S, IsSeq(S),
         NEW k \in 1 .. Len(s), GrantAt(format, s, k), Carried(s, k, S)
  PROVE  /\ n < k => k - n \in 1 .. Len(s2) /\ GrantAt(format, s2, k - n) /\ Carried(s2, k - n, S)
         /\ n >= k => KnownLine(s2)
<1>1. /\ IsSeq(s) /\ Len(s) \in Nat /\ DOMAIN s = 1 .. Len(s) /\ IsSeq(s2) /\ Len(s2) \in Nat
      /\ DOMAIN s2 = 1 .. Len(s2) /\ n \in 0 .. Len(s) /\ Len(s2) >= Len(s) - n
      /\ \A i \in 1 .. Len(s) - n : s2[i] = s[i + n]
      /\ \A i \in Len(s) - n + 1 .. Len(s2) : Plain(s2[i])
  BY SeqFacts DEF Moved, TrueLine
<1>2. /\ s[k][1] = LastTag(format) /\ Grants(s[k]) /\ \A i \in DOMAIN s : i # k => Known(s[i])
  BY DEF GrantAt, TrueLine, Known
<1>3. ASSUME NEW i \in DOMAIN s2, i # k - n PROVE Known(s2[i])
  <2>1. CASE i <= Len(s) - n
    <3>1. i \in 1 .. Len(s2) /\ Len(s) \in Nat /\ Len(s2) \in Nat BY <1>1, <1>3
    <3>2. n \in Nat /\ k \in Nat /\ i # k - n BY <1>1, <1>3
    <3>3. i \in 1 .. Len(s) - n /\ i + n \in 1 .. Len(s) BY ONLY <2>1, <3>1, <3>2
    <3>4. i + n # k BY ONLY <3>1, <3>2
    <3> QED BY <1>1, <1>2, <3>3, <3>4
  <2>2. CASE i > Len(s) - n
    <3>1. i \in Len(s) - n + 1 .. Len(s2) BY <1>1, <2>2
    <3> QED BY <1>1, <3>1, PlainIsKnown
  <2> QED BY <1>1, <2>1, <2>2
<1>4. ASSUME n < k
      PROVE  k - n \in 1 .. Len(s2) /\ GrantAt(format, s2, k - n) /\ Carried(s2, k - n, S)
  <2>1. k - n \in 1 .. Len(s) - n /\ (k - n) + n = k /\ k - n \in 1 .. Len(s2) BY <1>1, <1>4
  <2>2. s2[k - n] = s[k] BY <1>1, <2>1
  <2>3. \A i \in DOMAIN s2 : i # k - n => ~Grants(s2[i]) BY <1>3 DEF Known
  <2>4. GrantAt(format, s2, k - n) BY <1>2, <2>2, <2>3 DEF GrantAt
  <2>5. k \in Nat /\ n <= k /\ k <= Len(s) BY <1>1, <1>4
  <2>6. Carried(s2, k - n, S) BY <1>1, <2>5, MovedCarried
  <2> QED BY <2>1, <2>4, <2>6
<1>5. ASSUME n >= k PROVE KnownLine(s2)
  <2>1. \A i \in DOMAIN s2 : i # k - n BY <1>1, <1>5
  <2> QED BY <1>1, <1>3, <2>1 DEF KnownLine
<1> QED BY <1>4, <1>5

\* No grant is the token that comes first.
LEMMA KnownHead ==
  ASSUME NEW s, KnownLine(s), 1 <= Len(s)
  PROVE  Known(s[1])
<1>1. Len(s) \in Nat /\ DOMAIN s = 1 .. Len(s) BY SeqFacts DEF KnownLine
<1> QED BY <1>1 DEF KnownLine

LEMMA SubSeqMoved ==
  ASSUME NEW s, IsSeq(s), NEW n \in 0 .. Len(s)
  PROVE  Moved(s, SubSeq(s, n + 1, Len(s)), n)
<1>1. Len(s) \in Nat BY SeqFacts
<1>2. PICK a, b, t : a = n + 1 /\ b = Len(s) /\ t = SubSeq(s, a, b) OBVIOUS
<1>3. a \in Nat \ {0} /\ b \in Nat /\ b <= Len(s) /\ a <= b + 1 /\ b + 1 - a = Len(s) - n BY <1>1, <1>2
<1>4. IsSeq(t) /\ Len(t) = b + 1 - a /\ \A i \in 1 .. b + 1 - a : t[i] = s[a + i - 1]
  BY <1>2, <1>3, SubSeqFacts
<1>5. \A i \in 1 .. Len(s) - n : t[i] = s[i + n]
  <2>1. \A i \in 1 .. Len(s) - n : a + i - 1 = i + n BY <1>1, <1>2
  <2> QED BY <1>3, <1>4, <2>1
<1>6. \A i \in Len(s) - n + 1 .. Len(t) : FALSE BY <1>1, <1>3, <1>4
<1> QED BY <1>1, <1>2, <1>3, <1>4, <1>5, <1>6 DEF Moved

(***************************************************************************)
(* A line with damage: what one read of the receiver takes.                *)
(***************************************************************************)
\* A read took n tokens and gave c.
EscapedIs(c, n) ==
  \/ n = 0 /\ c = CANCELLED
  \/ n = 1 /\ n <= Len(down) /\ down[1] # ZDLE /\ c = IF down[1] = XON THEN AGAIN ELSE down[1]
  \/ n \in 2 .. Len(down) /\ (\A i \in 1 .. n - 1 : down[i] = ZDLE) /\ down[n] # ZDLE /\ c = Unescaped(down[n])
  \/ n = 5 /\ n <= Len(down) /\ c = CANCELLED /\ \A i \in 1 .. 5 : down[i] = ZDLE

Heard(c, n) ==
  /\ n \in 0 .. Len(down) /\ Moved(down, down', n)
  /\ IsCrc(c) => n = 1 /\ 1 <= Len(down) /\ c = down[1]

LEMMA CansCount ==
  ASSUME IsSeq(down)
  PROVE  /\ Cans \in 0 .. 5 /\ Cans <= Len(down) /\ \A i \in 1 .. Cans : down[i] = ZDLE
         /\ Cans < 5 /\ Cans < Len(down) => down[Cans + 1] # ZDLE
<1> DEFINE P(k) == k <= Len(down) /\ \A i \in 1 .. k : down[i] = ZDLE
           S == {k \in 1 .. 5 : P(k)}
<1>1. Len(down) \in Nat BY SeqFacts
<1>2. PICK m \in 0 .. 5 : (m = 0 \/ P(m)) /\ (m = 5 \/ ~P(m + 1))
  <2>1. CASE ~P(1)
    <3>1. ~P(0 + 1) BY <2>1
    <3> HIDE DEF P
    <3> QED BY <3>1
  <2>2. CASE P(1) /\ ~P(2)
    <3>1. ~P(1 + 1) BY <2>2
    <3> HIDE DEF P
    <3> QED BY <2>2, <3>1
  <2>3. CASE P(2) /\ ~P(3)
    <3>1. ~P(2 + 1) BY <2>3
    <3> HIDE DEF P
    <3> QED BY <2>3, <3>1
  <2>4. CASE P(3) /\ ~P(4)
    <3>1. ~P(3 + 1) BY <2>4
    <3> HIDE DEF P
    <3> QED BY <2>4, <3>1
  <2>5. CASE P(4) /\ ~P(5)
    <3>1. ~P(4 + 1) BY <2>5
    <3> HIDE DEF P
    <3> QED BY <2>5, <3>1
  <2>6. CASE P(5)
    <3> HIDE DEF P
    <3> QED BY <2>6
  <2> HIDE DEF P
  <2> QED BY <2>1, <2>2, <2>3, <2>4, <2>5, <2>6
<1>3. ASSUME NEW k \in 1 .. 5 PROVE P(k) <=> k <= m
  <2>1. ASSUME k <= m PROVE P(k)
    <3>1. m # 0 /\ P(m) BY <1>2, <1>3, <2>1
    <3> QED BY <1>1, <2>1, <3>1
  <2>2. ASSUME P(k), k > m PROVE FALSE
    <3>1. m # 5 /\ m + 1 <= k /\ 1 .. m + 1 \subseteq 1 .. k BY <2>2
    <3>2. P(m + 1) BY <1>1, <2>2, <3>1
    <3> QED BY <1>2, <3>1, <3>2
  <2> HIDE DEF P
  <2> QED BY <2>1, <2>2
<1>4. S = 1 .. m
  <2> HIDE DEF P
  <2> QED BY <1>3
<1>5. Cans = m
  <2>1. Cans = Cardinality(S) BY DEF Cans
  <2>2. Cardinality(1 .. m) = m
    <3>1. Cardinality(1 .. m) = IF 1 > m THEN 0 ELSE m - 1 + 1 BY FS_Interval
    <3> QED BY <3>1
  <2> HIDE DEF S
  <2> QED BY <1>4, <2>1, <2>2
<1>6. m <= Len(down) /\ \A i \in 1 .. m : down[i] = ZDLE BY <1>1, <1>2
<1>7. ASSUME m < 5, m < Len(down) PROVE down[m + 1] # ZDLE
  <2>1. ~P(m + 1) BY <1>2, <1>7
  <2>2. m + 1 <= Len(down) BY <1>1, <1>7
  <2>3. PICK i \in 1 .. m + 1 : down[i] # ZDLE BY <2>1, <2>2
  <2>4. i = m + 1 BY <1>6, <2>3
  <2> QED BY <2>3, <2>4
<1> QED BY <1>5, <1>6, <1>7

\* Behind a ZDLE nothing is a CRC.
LEMMA UnescapedNoCrc == ASSUME NEW t PROVE ~IsCrc(Unescaped(t)) /\ Unescaped(t) # LF /\ Unescaped(t) # CR
<1>1. Unescaped(t) = <<"fin", t[2]>> \/ Unescaped(t) = <<"data", t[2]>> \/ Unescaped(t) = <<"junk">> \/ Unescaped(t) = BAD_ESCAPE
  BY DEF Unescaped
<1>2. ~IsCrc(<<"junk">>) /\ ~IsCrc(BAD_ESCAPE) BY DEF IsCrc, BAD_ESCAPE
<1>3. \A x : ~IsCrc(<<"fin", x>>) /\ ~IsCrc(<<"data", x>>) BY Tokens
<1>4. \A x : <<"fin", x>> # LF /\ <<"data", x>> # LF /\ <<"fin", x>> # CR /\ <<"data", x>> # CR BY DEF LF, CR
<1>5. <<"junk">> # LF /\ <<"junk">> # CR /\ BAD_ESCAPE # LF /\ BAD_ESCAPE # CR BY DEF LF, CR, BAD_ESCAPE
<1> QED BY <1>1, <1>2, <1>3, <1>4, <1>5

LEMMA ReadsAre ==
  ASSUME NEW R, NEW x \in Reads(R)
  PROVE  /\ x[3] \in {0, 1} /\ ((x[1] = CANCELLED /\ x[2] = 0) \/ \E y \in R : x[1] = y[1] /\ x[2] = y[2])
<1>1. (\E y \in R : x = <<y[1], y[2], 0>>) \/ x = <<CANCELLED, 0, 1>> BY DEF Reads
<1> QED BY <1>1

LEMMA EscapedRead ==
  ASSUME IsSeq(down), NEW c, NEW n, (c = CANCELLED /\ n = 0) \/ \E y \in zm_read_escaped : c = y[1] /\ n = y[2]
  PROVE  EscapedIs(c, n)
<1>1. CASE c = CANCELLED /\ n = 0 BY <1>1 DEF EscapedIs
<1>2. CASE \E y \in zm_read_escaped : c = y[1] /\ n = y[2]
  <2>1. PICK m : m = Cans OBVIOUS
  <2>2. /\ m \in 0 .. 5 /\ m <= Len(down) /\ \A i \in 1 .. m : down[i] = ZDLE
        /\ m < 5 /\ m < Len(down) => down[m + 1] # ZDLE
        /\ Len(down) \in Nat
    BY <2>1, CansCount, SeqFacts
  <2>3. ~(down = <<>> \/ (m = Len(down) /\ m < 5)) BY <1>2, <2>1 DEF zm_read_escaped
  <2>4. Len(down) # 0 BY <2>3, SeqFacts
  <2>5. CASE m = 5
    <3>1. c = CANCELLED /\ n = 5 BY <1>2, <2>1, <2>3, <2>5 DEF zm_read_escaped
    <3> QED BY <2>2, <2>5, <3>1 DEF EscapedIs
  <2>6. CASE m # 5 /\ m > 0
    <3>1. c = Unescaped(down[m + 1]) /\ n = m + 1 BY <1>2, <2>1, <2>2, <2>3, <2>6 DEF zm_read_escaped
    <3>2. n \in 2 .. Len(down) /\ n - 1 = m /\ m < 5 /\ m < Len(down) BY <2>2, <2>3, <2>6, <3>1
    <3>3. (\A i \in 1 .. n - 1 : down[i] = ZDLE) /\ down[n] # ZDLE BY <2>2, <3>1, <3>2
    <3> QED BY <3>1, <3>2, <3>3 DEF EscapedIs
  <2>7. CASE m = 0
    <3>1. c = (IF Head(down) = XON THEN AGAIN ELSE Head(down)) /\ n = 1
      BY <1>2, <2>1, <2>3, <2>7 DEF zm_read_escaped
    <3>2. Head(down) = down[1]
      <4>1. PICK Q : down \in Seq(Q) BY DEF IsSeq
      <4> QED BY <2>4, <4>1
    <3>3. 0 + 1 = 1 /\ 0 < 5 /\ 0 < Len(down) /\ 1 <= Len(down) BY <2>2, <2>4
    <3>4. down[1] # ZDLE BY <2>2, <2>7, <3>3
    <3> QED BY <3>1, <3>2, <3>3, <3>4 DEF EscapedIs
  <2> QED BY <2>2, <2>5, <2>6, <2>7
<1> QED BY <1>1, <1>2

LEMMA RecvRead ==
  ASSUME IsSeq(down), NEW c, NEW n, (c = CANCELLED /\ n = 0) \/ \E y \in zm_recv : c = y[1] /\ n = y[2]
  PROVE  (c = CANCELLED /\ n = 0) \/ (n = 1 /\ 1 <= Len(down) /\ c = down[1])
<1>1. SUFFICES ASSUME \E y \in zm_recv : c = y[1] /\ n = y[2] PROVE n = 1 /\ 1 <= Len(down) /\ c = down[1]
  OBVIOUS
<1>2. down # <<>> /\ c = Head(down) /\ n = 1 BY <1>1 DEF zm_recv
<1>3. PICK Q : down \in Seq(Q) BY DEF IsSeq
<1> QED BY <1>2, <1>3

LEMMA ErrorsNoCrc == ~IsCrc(CANCELLED) /\ ~IsCrc(BAD_ESCAPE) /\ ~IsCrc(AGAIN)
BY DEF IsCrc, CANCELLED, BAD_ESCAPE, AGAIN

LEMMA EscapedHeard ==
  ASSUME IsSeq(down), NEW c, NEW n, EscapedIs(c, n), down' = SubSeq(down, n + 1, Len(down))
  PROVE  Heard(c, n)
<1>1. Len(down) \in Nat BY SeqFacts
<1>2. n \in 0 .. Len(down) BY <1>1 DEF EscapedIs
<1>3. Moved(down, down', n) BY <1>2, SubSeqMoved
<1>4. ASSUME IsCrc(c) PROVE n = 1 /\ 1 <= Len(down) /\ c = down[1]
  <2>1. c # CANCELLED /\ c # AGAIN /\ \A t : c # Unescaped(t) BY <1>4, UnescapedNoCrc, ErrorsNoCrc
  <2> QED BY <2>1 DEF EscapedIs
<1> QED BY <1>2, <1>3, <1>4 DEF Heard

LEMMA RecvHeard ==
  ASSUME IsSeq(down), NEW c, NEW n, (c = CANCELLED /\ n = 0) \/ (n = 1 /\ 1 <= Len(down) /\ c = down[1]),
         down' = SubSeq(down, n + 1, Len(down))
  PROVE  Heard(c, n)
<1>1. Len(down) \in Nat BY SeqFacts
<1>2. n \in 0 .. Len(down) BY <1>1
<1>3. Moved(down, down', n) BY <1>2, SubSeqMoved
<1> QED BY <1>2, <1>3, ErrorsNoCrc DEF Heard

(***************************************************************************)
(* A line with damage: the phases of the first file.  Asks are the answers  *)
(* that make the sender send from a position.  At any time there is at most *)
(* one of these: an ask under way, a grant on the line, a receiver that     *)
(* reads the file.                                                         *)
(***************************************************************************)
IsAsk(style, e)  == e[1] = "ZRPOS" \/ (e[1] = "ZACK" /\ style = "wait")
NoAsk(style, line) == \A i \in DOMAIN line : ~IsAsk(style, line[i])
OneAsk(style, line, pos) ==
  \E a \in DOMAIN line :
    IsAsk(style, line[a]) /\ line[a][2] = pos /\ \A i \in DOMAIN line : i # a => ~IsAsk(style, line[i])

\* The receiver reads data of a file; it has a ZDATA in hexadecimal, all but its CR and LF.
Others == {"ZRQINIT", "ZFILE", "ZEOF", "ZFIN"}
InFile == r.pc \in {"data", "crc"} /\ r.block = "file"
Held   == r.pc \in {"cr", "lf"} /\ Head(r.got)[2] \notin Others

\* A block that can not be taken any more: a CRC was read into it, or half a wrong one.
Hopeless ==
  \/ \E i \in DOMAIN r.got : IsCrc(r.got[i])
  \/ r.crc # <<>> /\ r.crc[1] # FirstHalf(snd.format, r.got)

\* The CRC of byte q was lost, and the receiver has the byte, then its frame end.
MetChar(q) ==
  /\ snd.format # "bin32" /\ r.pc = "data" /\ r.got = <<CharAt(q)>>
  /\ 2 <= Len(down) /\ down[1] = ZDLE /\ down[2] = <<"end", EndIn(snd.style, q)>> /\ Quiet(down, 2)
MetEnd(q) ==
  snd.format # "bin32" /\ r.pc = "crc" /\ r.crc = <<>> /\ r.got = Sub(snd.style, q) /\ Quiet(down, 0)

\* It has half of the CRC.
MetHalf(q) ==
  /\ snd.format = "bin32" /\ r.pc = "crc" /\ r.got = Sub(snd.style, q)
  /\ r.crc = <<<<"crc32a", Sub(snd.style, q)>>>>
  /\ \/ Quiet(down, 0)
     \/ /\ 1 <= Len(down) /\ down[1] = <<"crc32b", Sub(snd.style, q)>>
        /\ Carried(down, 1, After(snd.format, snd.style, q))

Reading(q) ==
  /\ r.width = Width(snd.format)
  /\ r.pc = "data" => r.crc = <<>>
  /\ \/ r.crc = <<>> /\ Own(snd.format, snd.style, q, down)
     \/ r.crc = <<>> /\ Half(snd.format, down)
     \/ r.pc = "data" /\ r.got = <<>> /\ Lost(snd.format, snd.style, q, down)
     \/ MetChar(q) \/ MetEnd(q) \/ MetHalf(q)
     \/ Hopeless

Nothing == NoAsk(snd.style, up) /\ KnownLine(down) /\ ~InFile /\ ~Held
Asked   == OneAsk(snd.style, up, r.size) /\ KnownLine(down) /\ ~InFile /\ ~Held
Coming  ==
  /\ NoAsk(snd.style, up) /\ ~InFile /\ ~Held
  /\ r.size + 1 \in 1 .. Total /\ Granted(snd.format, snd.style, r.size + 1, down)
Holding ==
  /\ NoAsk(snd.style, up) /\ KnownLine(down) /\ Held /\ snd.format # "bin32"
  /\ r.size + 1 \in 1 .. Total /\ Ahead(snd.format, snd.style, r.size + 1, down)
Taking  ==
  /\ NoAsk(snd.style, up) /\ KnownLine(down) /\ InFile
  /\ r.size + 1 \in 1 .. Total /\ Reading(r.size + 1)

HexWidth == r.pc \in {"hex", "cr", "lf"} => r.width = 16

First == \A i \in DOMAIN files[1].data : i <= Total /\ files[1].data[i] = CharAt(i)

Line ==
  /\ IsSeq(up) /\ TrueLine(down) /\ HexWidth
  /\ snd.pc = "data" => snd.file = 1
  /\ Len(files) = 0 => Nothing
  /\ Len(files) = 1 => Nothing \/ Asked \/ Coming \/ Holding \/ Taking

FirstInv == ~snd.strayed => (files # <<>> => First) /\ (Len(files) <= 1 => Line)

(***************************************************************************)
(* A line with damage: what a step of the receiver may come to.            *)
(***************************************************************************)
Says(types) == up' = up \/ \E type \in types : \E pos : up' = Append(up, <<type, pos>>)

\* No data is stored, and the receiver does not come to read any.
Stays ==
  /\ Len(files') = Len(files) /\ (files # <<>> => files'[1].data = files[1].data)
  /\ r'.size = r.size /\ ~InFile' /\ ~Held'

Quits == Stays /\ Says({"ZRINIT", "ZNAK", "ZFIN"})

Creates ==
  /\ Len(files') = Len(files) + 1
  /\ files # <<>> => files'[1].data = files[1].data
  /\ files = <<>> => files'[1].data = <<>>
  /\ r'.size = r.size /\ ~InFile' /\ ~Held'
  /\ up' = up \/ up' = Append(up, <<"ZRPOS", r.size>>)

Enters ==
  /\ files' = files /\ up' = up /\ r'.size = r.size
  /\ r'.pc = "data" /\ r'.block = "file" /\ r'.got = <<>> /\ r'.crc = <<>> /\ r'.width = r.width

Holds ==
  files' = files /\ up' = up /\ r'.size = r.size /\ r'.pc \in {"cr", "lf"} /\ r'.width = r.width

LEMMA AnswerSays ==
  ASSUME NEW used
  PROVE  /\ Silent(used) => up' = up
         /\ \A type, pos : Answer(type, pos, used) => up' = up \/ up' = Append(up, <<type, pos>>)
         /\ \A type \in {"ZRINIT", "ZNAK", "ZFIN"} : \A pos :
              Answer(type, pos, used) => Says({"ZRINIT", "ZNAK", "ZFIN"})
BY DEF Silent, Answer, Says

LEMMA GoStays ==
  ASSUME TypeInv, NEW pc \in {"rz", "zdle", "kind"}, Go(pc)
  PROVE  Stays
<1>1. r'.pc = pc /\ r'.size = r.size /\ files' = files BY GoFacts
<1> QED BY <1>1 DEF Stays, InFile, Held

LEMMA PlaceStays ==
  ASSUME TypeInv, NEW pc \in Places \ {"data", "crc", "cr", "lf"}, files' = files, r'.pc = pc, r'.size = r.size
  PROVE  Stays
BY DEF Stays, InFile, Held

LEMMA CleanupStays ==
  ASSUME TypeInv, Cleanup
  PROVE  Stays
<1>1. r' = [r EXCEPT !.pc = "ended"] BY DEF Cleanup
<1>2. r'.pc = "ended" /\ r'.size = r.size BY <1>1 DEF TypeInv, ReceiverOK
<1>3. Len(files') = Len(files) /\ (files # <<>> => files'[1].data = files[1].data)
  <2>1. CASE ~r.out
    <3>1. files' = files BY <2>1 DEF Cleanup
    <3> QED BY <3>1
  <2>2. CASE r.out
    <3>1. PICK k : k = Len(files) OBVIOUS
    <3>2. files # <<>> /\ IsSeq(files) BY <2>2 DEF TypeInv, ReceiverOK, FilesOK
    <3>3. k \in Nat \ {0} /\ DOMAIN files = 1 .. k BY <3>1, <3>2, SeqFacts
    <3>4. k \in DOMAIN files /\ 1 \in DOMAIN files BY <3>3
    <3>5. files' = [files EXCEPT ![k] = [files[k] EXCEPT !.closed = TRUE]] BY <2>2, <3>1 DEF Cleanup
    <3>6. Len(files') = k BY <3>1, <3>2, <3>4, <3>5, ExceptFacts
    <3>7. DOMAIN files[k] = {"name", "start", "data", "closed"} BY <3>4 DEF TypeInv, FilesOK
    <3>8. files'[1] = IF k = 1 THEN [files[k] EXCEPT !.closed = TRUE] ELSE files[1] BY <3>4, <3>5
    <3> QED BY <3>1, <3>6, <3>7, <3>8
  <2> QED BY <2>1, <2>2
<1> QED BY <1>2, <1>3 DEF Stays, InFile, Held

LEMMA Quit ==
  ASSUME TypeInv, NEW used
  PROVE  /\ Bail(used) => Quits
         /\ Reject(used) => Quits
         /\ \A c : NoHeader(c, used) => Quits
<1>1. Bail(used) => Quits BY CleanupStays, AnswerSays DEF Bail, Quits, Says
<1>2. Reject(used) => Quits
  <2>1. ASSUME Reject(used) PROVE Stays BY <2>1, GoStays DEF Reject
  <2>2. ASSUME Reject(used) PROVE Says({"ZRINIT", "ZNAK", "ZFIN"}) BY <2>2, AnswerSays DEF Reject
  <2> QED BY <2>1, <2>2 DEF Quits
<1> QED BY <1>1, <1>2 DEF NoHeader

LEMMA DispatchTo ==
  ASSUME TypeInv, NEW header, NEW used, Dispatch(header, used)
  PROVE  Quits \/ (header[2] \notin Others /\ Enters)
<1>1. CASE header[2] \in {"ZRQINIT", "ZEOF"}
  <2>1. Go("zdle") /\ Answer("ZRINIT", 0, used) BY <1>1 DEF Dispatch
  <2>2. Stays BY <2>1, GoStays
  <2> QED BY <2>1, <2>2, AnswerSays DEF Quits
<1>2. CASE header[2] = "ZFIN"
  <2>1. Cleanup /\ Answer("ZFIN", 0, used) BY <1>2 DEF Dispatch
  <2>2. Stays BY <2>1, CleanupStays
  <2> QED BY <2>1, <2>2, AnswerSays DEF Quits
<1>3. CASE header[2] \notin {"ZRQINIT", "ZEOF", "ZFIN"}
  <2>1. /\ r' = [r EXCEPT !.pc = "data", !.block = IF header[2] = "ZFILE" THEN "name" ELSE "file",
                          !.got = <<>>, !.crc = <<>>]
        /\ files' = files /\ Silent(used)
    BY <1>3 DEF Dispatch
  <2>2. /\ r'.pc = "data" /\ r'.block = (IF header[2] = "ZFILE" THEN "name" ELSE "file")
        /\ r'.got = <<>> /\ r'.crc = <<>> /\ r'.width = r.width /\ r'.size = r.size
    BY <2>1 DEF TypeInv, ReceiverOK
  <2>3. up' = up BY <2>1, AnswerSays
  <2>4. CASE header[2] = "ZFILE"
    <3>1. Stays BY <2>1, <2>2, <2>4 DEF Stays, InFile, Held
    <3> QED BY <2>3, <3>1 DEF Quits, Says
  <2>5. CASE header[2] # "ZFILE"
    <3>1. Enters BY <2>1, <2>2, <2>3, <2>5 DEF Enters
    <3> QED BY <1>3, <2>5, <3>1 DEF Others
  <2> QED BY <2>4, <2>5
<1> QED BY <1>1, <1>2, <1>3

\* c completes a header that is no other than a ZDATA.
Completes(c) ==
  /\ c[1] = IF r.width = 16 THEN "crc16" ELSE "crc32b"
  /\ \E header : c[2] = <<header>> /\ header[2] \notin Others

Outcome(c) == Quits \/ Creates \/ (Enters /\ Completes(c)) \/ (Holds /\ Completes(c))

\* A token that ends the header whose first token is h.
Ends(c, width, h) == c[1] = (IF width = 16 THEN "crc16" ELSE "crc32b") /\ c[2] = <<h>>

LEMMA GoodHeaderIs ==
  ASSUME NEW got, IsSeq(got), NEW c, NEW width \in {16, 32}, NEW t, t = Append(got, c), GoodHeader(width, t)
  PROVE  Ends(c, width, Head(t))
<1>1. /\ IsSeq(t) /\ Len(t) = Len(got) + 1 /\ t # <<>> /\ t[Len(got) + 1] = c /\ Len(got) \in Nat
  BY AppendFacts, SeqFacts
<1>2. PICK S : t \in Seq(S) BY <1>1 DEF IsSeq
<1>3. PICK u, h : u = Tail(t) /\ h = Head(t) OBVIOUS
<1>4. u = CrcOf(width, <<h>>) BY <1>3 DEF GoodHeader
<1>5. Len(u) = Len(got) /\ \A i \in 1 .. Len(got) : u[i] = t[i + 1]
  <2>1. Len(u) = Len(t) - 1 BY <1>1, <1>3, SeqFacts
  <2>2. Len(u) = Len(got) BY <1>1, <2>1
  <2>3. \A i \in 1 .. Len(u) : Tail(t)[i] = t[i + 1] BY <1>1, <1>2, <1>3, HeadTailProperties
  <2> QED BY <1>3, <2>2, <2>3
<1>6. CASE width = 16
  <2>1. PICK a : a = <<"crc16", <<h>>>> OBVIOUS
  <2>2. u = <<a>> BY <1>4, <1>6, <2>1 DEF CrcOf
  <2>3. Len(u) = 1 /\ u[1] = a BY <2>2
  <2>4. 1 \in 1 .. Len(got) /\ Len(got) + 1 = 1 + 1 BY <1>5, <2>3
  <2>5. a = c BY <1>1, <1>5, <2>3, <2>4
  <2> QED BY <1>3, <1>6, <2>1, <2>5 DEF Ends
<1>7. CASE width = 32
  <2>1. PICK a, b : a = <<"crc32a", <<h>>>> /\ b = <<"crc32b", <<h>>>> OBVIOUS
  <2>2. u = <<a, b>>
    <3>1. width # 16 BY <1>7
    <3> QED BY <1>4, <2>1, <3>1 DEF CrcOf
  <2>3. Len(u) = 2 /\ u[2] = b BY <2>2
  <2>4. 2 \in 1 .. Len(got) /\ Len(got) + 1 = 2 + 1 BY <1>5, <2>3
  <2>5. b = c BY <1>1, <1>5, <2>3, <2>4
  <2>6. width # 16 BY <1>7
  <2> QED BY <1>3, <2>1, <2>5, <2>6 DEF Ends
<1> QED BY <1>6, <1>7

LEMMA KeepOf ==
  ASSUME TypeInv, NEW got, NEW used, Keep(got, used)
  PROVE  /\ files' = files /\ up' = up /\ r'.pc = r.pc /\ r'.got = got /\ r'.crc = r.crc
         /\ r'.width = r.width /\ r'.block = r.block /\ r'.size = r.size
BY DEF Keep, Silent, TypeInv, ReceiverOK

LEMMA OutsideFirst ==
  ASSUME TypeInv, NEW c, NEW used
  PROVE  /\ r.pc = "rz" /\ OnRz(c, used) => Quits
         /\ r.pc = "zdle" /\ OnZdle(c, used) => Quits
         /\ r.pc = "kind" /\ OnKind(c, used) => Quits
<1>1. ASSUME r.pc = "rz", OnRz(c, used) PROVE Quits
  <2>1. CASE IsError(c) BY <1>1, <2>1, Quit DEF OnRz
  <2>2. CASE ~IsError(c)
    <3>1. PICK pc \in {"rz", "zdle", "kind"} : Go(pc) /\ Silent(used) BY <1>1, <2>2 DEF OnRz
    <3> QED BY <3>1, GoStays, AnswerSays DEF Quits, Says
  <2> QED BY <2>1, <2>2
<1>2. ASSUME r.pc = "zdle", OnZdle(c, used) PROVE Quits
  <2>1. CASE IsError(c) BY <1>2, <2>1, Quit DEF OnZdle
  <2>2. CASE ~IsError(c)
    <3>1. PICK pc \in {"rz", "zdle", "kind"} : Go(pc) /\ Silent(used) BY <1>2, <2>2 DEF OnZdle
    <3> QED BY <3>1, GoStays, AnswerSays DEF Quits, Says
  <2> QED BY <2>1, <2>2
<1>3. ASSUME r.pc = "kind", OnKind(c, used) PROVE Quits
  <2>1. CASE IsError(c)
    <3>0. c[1] # "kind" BY <2>1 DEF IsError, CANCELLED, BAD_ESCAPE
    <3>1. Go("zdle") /\ Silent(used) BY <1>3, <2>1, <3>0 DEF OnKind
    <3> QED BY <3>1, GoStays, AnswerSays DEF Quits, Says
  <2>2. CASE ~IsError(c) /\ c[1] = "kind"
    <3>1. PICK pc \in {"hex", "bin"} : /\ r' = [r EXCEPT !.pc = pc, !.width = Width(c[2])]
                                       /\ files' = files /\ Silent(used)
      BY <1>3, <2>2 DEF OnKind
    <3>2. r'.pc = pc /\ r'.size = r.size BY <3>1 DEF TypeInv, ReceiverOK
    <3>3. Stays BY <3>1, <3>2, PlaceStays DEF Places
    <3> QED BY <3>1, <3>3, AnswerSays DEF Quits, Says
  <2>3. CASE ~IsError(c) /\ c[1] # "kind" BY <1>3, <2>3, Quit DEF OnKind
  <2> QED BY <2>1, <2>2, <2>3
<1> QED BY <1>1, <1>2, <1>3

LEMMA OutsideHeader ==
  ASSUME TypeInv, ~Held, NEW c, NEW used
  PROVE  /\ r.pc = "hex" /\ r.width = 16 /\ OnHex(c, used) => Outcome(c)
         /\ r.pc \in {"cr", "lf"} /\ OnCrLf(c, used) => Outcome(c)
         /\ r.pc = "bin" /\ OnBin(c, used) => Outcome(c)
<1>0. IsSeq(r.got) /\ r.width \in {16, 32} BY DEF TypeInv, ReceiverOK
<1>1. ASSUME r.pc = "hex", r.width = 16, OnHex(c, used) PROVE Outcome(c)
  <2>1. CASE c[1] \notin HexDigits BY <1>1, <2>1, Quit DEF OnHex, Outcome
  <2>2. CASE c[1] \in HexDigits /\ r.got = <<>>
    <3>1. Keep(<<c>>, used) BY <1>1, <2>2 DEF OnHex
    <3>2. files' = files /\ up' = up /\ r'.pc = "hex" /\ r'.size = r.size BY <1>1, <3>1, KeepOf
    <3> QED BY <3>2, PlaceStays DEF Places, Quits, Says, Outcome
  <2>3. CASE c[1] \in HexDigits /\ r.got # <<>> /\ ~GoodHeader(16, Append(r.got, c))
    BY <1>1, <2>3, Quit DEF OnHex, Outcome
  <2>4. CASE c[1] \in HexDigits /\ r.got # <<>> /\ GoodHeader(16, Append(r.got, c))
    <3>1. r' = [r EXCEPT !.pc = "cr"] /\ files' = files /\ Silent(used) BY <1>1, <2>4 DEF OnHex
    <3>2. r'.pc = "cr" /\ r'.got = r.got /\ r'.width = r.width /\ r'.size = r.size /\ up' = up
      BY <3>1, AnswerSays DEF TypeInv, ReceiverOK
    <3>3. PICK t : t = Append(r.got, c) OBVIOUS
    <3>4. Ends(c, 16, Head(t)) BY <1>0, <2>4, <3>3, GoodHeaderIs
    <3>5. Head(t) = Head(r.got)
      <4>1. PICK S : r.got \in Seq(S) BY <1>0 DEF IsSeq
      <4>2. IsSeq(t) /\ t # <<>> /\ \A i \in 1 .. Len(r.got) : t[i] = r.got[i] BY <1>0, <3>3, AppendFacts
      <4>3. PICK Q : t \in Seq(Q) BY <4>2 DEF IsSeq
      <4>4. Len(r.got) \in Nat /\ Len(r.got) # 0 BY <1>0, <2>4, SeqFacts
      <4>5. t[1] = r.got[1]
        <5>1. 1 \in 1 .. Len(r.got) BY <4>4
        <5> QED BY <4>2, <5>1
      <4>6. Head(t) = t[1] BY <4>2, <4>3
      <4>7. Head(r.got) = r.got[1] BY <2>4, <4>1
      <4> QED BY <4>5, <4>6, <4>7
    <3>6. CASE Head(r.got)[2] \in Others
      <4>1. Stays BY <3>1, <3>2, <3>6 DEF Stays, InFile, Held
      <4> QED BY <3>2, <4>1 DEF Quits, Says, Outcome
    <3>7. CASE Head(r.got)[2] \notin Others
      <4>1. Completes(c) BY <1>1, <3>4, <3>5, <3>7 DEF Completes, Ends
      <4>2. Holds BY <3>1, <3>2 DEF Holds
      <4> QED BY <4>1, <4>2 DEF Outcome
    <3> QED BY <3>6, <3>7
  <2> QED BY <2>1, <2>2, <2>3, <2>4
<1>2. ASSUME r.pc \in {"cr", "lf"}, OnCrLf(c, used) PROVE Outcome(c)
  <2>1. Head(r.got)[2] \in Others BY <1>2 DEF Held
  <2>2. CASE c = LF
    <3>0. c # CR BY <2>2 DEF LF, CR
    <3>1. Dispatch(Head(r.got), used) BY <1>2, <2>2, <3>0 DEF OnCrLf
    <3> QED BY <2>1, <3>1, DispatchTo DEF Outcome
  <2>3. CASE c # LF /\ c = CR /\ r.pc = "cr"
    <3>1. r' = [r EXCEPT !.pc = "lf"] /\ files' = files /\ Silent(used) BY <1>2, <2>3 DEF OnCrLf
    <3>2. r'.pc = "lf" /\ r'.got = r.got /\ r'.size = r.size /\ up' = up
      BY <3>1, AnswerSays DEF TypeInv, ReceiverOK
    <3>3. Stays BY <2>1, <3>1, <3>2 DEF Stays, InFile, Held
    <3> QED BY <3>2, <3>3 DEF Quits, Says, Outcome
  <2>4. CASE c # LF /\ ~(c = CR /\ r.pc = "cr") BY <1>2, <2>4, Quit DEF OnCrLf, Outcome
  <2> QED BY <2>2, <2>3, <2>4
<1>3. ASSUME r.pc = "bin", OnBin(c, used) PROVE Outcome(c)
  <2>1. CASE IsError(c) BY <1>3, <2>1, Quit DEF OnBin, Outcome
  <2>2. CASE ~IsError(c)
    <3>1. PICK t : t = Append(r.got, c) OBVIOUS
    <3>2. \/ Keep(t, used)
          \/ GoodHeader(r.width, t) /\ Dispatch(Head(t), used)
          \/ Reject(used)
      BY <1>3, <2>2, <3>1 DEF OnBin
    <3>3. CASE Keep(t, used)
      <4>1. files' = files /\ up' = up /\ r'.pc = "bin" /\ r'.size = r.size BY <1>3, <3>3, KeepOf
      <4> QED BY <4>1, PlaceStays DEF Places, Quits, Says, Outcome
    <3>4. CASE GoodHeader(r.width, t) /\ Dispatch(Head(t), used)
      <4>1. Quits \/ (Head(t)[2] \notin Others /\ Enters) BY <3>4, DispatchTo
      <4>2. Ends(c, r.width, Head(t)) BY <1>0, <3>1, <3>4, GoodHeaderIs
      <4>3. Head(t)[2] \notin Others => Completes(c) BY <4>2 DEF Completes, Ends
      <4> QED BY <4>1, <4>3 DEF Outcome
    <3>5. CASE Reject(used) BY <3>5, Quit DEF Outcome
    <3> QED BY <3>2, <3>3, <3>4, <3>5
  <2> QED BY <2>1, <2>2
<1> QED BY <1>1, <1>2, <1>3

\* The name of a file.
LEMMA OutsideBlock ==
  ASSUME TypeInv, ~InFile, NEW c, NEW used
  PROVE  /\ r.pc = "data" /\ OnData(c, used) => Outcome(c)
         /\ r.pc = "crc" /\ OnCrc(c, used) => Outcome(c)
<1>1. r.pc \in {"data", "crc"} => r.block = "name" BY DEF TypeInv, ReceiverOK, InFile
<1>2. ASSUME r.block = "name", NEW e, NoBlock(e, used) PROVE Outcome(c)
  <2>1. CASE e = CANCELLED BY <1>2, <2>1, Quit DEF NoBlock, Outcome
  <2>2. CASE e # CANCELLED
    <3>1. Go("zdle") /\ Silent(used) BY <1>2, <2>2 DEF NoBlock
    <3>2. Stays BY <3>1, GoStays
    <3> QED BY <3>1, <3>2, AnswerSays DEF Quits, Says, Outcome
  <2> QED BY <2>1, <2>2
<1>3. ASSUME r.block = "name", files' = files, up' = up, r'.pc \in {"data", "crc"}, r'.block = r.block, r'.size = r.size
      PROVE  Outcome(c)
  <2>1. Stays BY <1>3 DEF Stays, InFile, Held
  <2> QED BY <1>3, <2>1 DEF Quits, Says, Outcome
<1>4. ASSUME r.pc = "data", OnData(c, used) PROVE Outcome(c)
  <2>1. CASE IsError(c) BY <1>1, <1>2, <1>4, <2>1 DEF OnData
  <2>2. CASE ~IsError(c)
    <3>1. PICK t : t = Append(r.got, c) OBVIOUS
    <3>2. \/ r' = [r EXCEPT !.pc = "crc", !.got = t] /\ files' = files /\ Silent(used)
          \/ NoBlock(<<"outofspace">>, used)
          \/ Keep(t, used)
      BY <1>4, <2>2, <3>1 DEF OnData
    <3>3. CASE r' = [r EXCEPT !.pc = "crc", !.got = t] /\ files' = files /\ Silent(used)
      <4>1. r'.pc = "crc" /\ r'.block = r.block /\ r'.size = r.size /\ up' = up
        BY <3>3, AnswerSays DEF TypeInv, ReceiverOK
      <4> QED BY <1>1, <1>3, <1>4, <3>3, <4>1
    <3>4. CASE NoBlock(<<"outofspace">>, used) BY <1>1, <1>2, <1>4, <3>4
    <3>5. CASE Keep(t, used)
      <4>1. files' = files /\ up' = up /\ r'.pc = "data" /\ r'.block = r.block /\ r'.size = r.size
        BY <1>4, <3>5, KeepOf
      <4> QED BY <1>1, <1>3, <1>4, <4>1
    <3> QED BY <3>2, <3>3, <3>4, <3>5
  <2> QED BY <2>1, <2>2
<1>5. ASSUME r.pc = "crc", OnCrc(c, used) PROVE Outcome(c)
  <2>0. r.block = "name" BY <1>1, <1>5
  <2>1. CASE IsError(c) /\ r.crc = <<>> BY <1>2, <1>5, <2>0, <2>1 DEF OnCrc
  <2>2. CASE ~(IsError(c) /\ r.crc = <<>>)
    <3>1. PICK t : t = Append(r.crc, c) OBVIOUS
    <3>2. \/ r' = [r EXCEPT !.crc = t] /\ files' = files /\ Silent(used)
          \/ Block(used)
          \/ NoBlock(<<"badcrc">>, used)
      BY <1>5, <2>2, <3>1 DEF OnCrc
    <3>3. CASE r' = [r EXCEPT !.crc = t] /\ files' = files /\ Silent(used)
      <4>1. r'.pc = "crc" /\ r'.block = r.block /\ r'.size = r.size /\ up' = up
        BY <1>5, <3>3, AnswerSays DEF TypeInv, ReceiverOK
      <4> QED BY <1>3, <2>0, <3>3, <4>1
    <3>4. CASE NoBlock(<<"badcrc">>, used) BY <1>2, <2>0, <3>4
    <3>5. CASE Block(used)
      <4>1. PICK name : Create(name, used) BY <2>0, <3>5 DEF Block
      <4>2. CASE NotOpened
        <5>1. r' = [r EXCEPT !.pc = "ended", !.out = FALSE] /\ files' = files /\ up' = up
          BY <4>2 DEF NotOpened
        <5>2. r'.pc = "ended" /\ r'.size = r.size BY <5>1 DEF TypeInv, ReceiverOK
        <5>3. Stays BY <5>1, <5>2, PlaceStays DEF Places
        <5> QED BY <5>1, <5>2, <5>3 DEF Quits, Says, Outcome
      <4>3. CASE ~NotOpened
        <5>1. PICK new : new = [name |-> name, start |-> r.size, data |-> <<>>, closed |-> FALSE] OBVIOUS
        <5>2. /\ files' = Append(files, new) /\ Answer("ZRPOS", r.size, used)
              /\ r' = [r EXCEPT !.pc = "zdle", !.out = TRUE, !.got = <<>>, !.crc = <<>>]
          BY <4>1, <4>3, <5>1 DEF Create
        <5>3. r'.pc = "zdle" /\ r'.size = r.size BY <5>2 DEF TypeInv, ReceiverOK
        <5>4. up' = up \/ up' = Append(up, <<"ZRPOS", r.size>>) BY <5>2, AnswerSays
        <5>5. IsSeq(files) /\ Len(files) \in Nat /\ (files = <<>> <=> Len(files) = 0)
          BY SeqFacts DEF TypeInv, FilesOK
        <5>6. /\ Len(files') = Len(files) + 1 /\ files'[Len(files) + 1] = new
              /\ \A i \in 1 .. Len(files) : files'[i] = files[i]
          BY <5>2, <5>5, AppendFacts
        <5>7. files # <<>> => files'[1].data = files[1].data
          <6>1. files # <<>> => 1 \in 1 .. Len(files) BY <5>5
          <6> QED BY <5>6, <6>1
        <5>8. files = <<>> => files'[1].data = <<>>
          <6>1. files = <<>> => Len(files) + 1 = 1 BY <5>5
          <6>2. new.data = <<>> BY <5>1
          <6> QED BY <5>6, <6>1, <6>2
        <5>9. ~InFile' /\ ~Held' BY <5>3 DEF InFile, Held
        <5> QED BY <5>3, <5>4, <5>6, <5>7, <5>8, <5>9 DEF Creates, Outcome
      <4> QED BY <4>2, <4>3
    <3> QED BY <3>2, <3>3, <3>4, <3>5
  <2> QED BY <2>1, <2>2
<1> QED BY <1>4, <1>5

\* The places a step leads to that is not in a hexadecimal header.
LEMMA AwayFromHex ==
  ASSUME TypeInv, NEW used
  PROVE  /\ Cleanup => r'.pc = "ended"
         /\ \A pc : Go(pc) => r'.pc = pc
         /\ \A c : NoHeader(c, used) => r'.pc \in {"ended", "zdle"}
         /\ \A e : NoBlock(e, used) => r'.pc \in {"ended", "zdle"}
         /\ Block(used) => r'.pc \in {"ended", "zdle", "data"}
         /\ \A h : Dispatch(h, used) => r'.pc \in {"ended", "zdle", "data"}
         /\ Reject(used) => r'.pc = "zdle"
         /\ Bail(used) => r'.pc = "ended"
<1>0. DOMAIN r = {"pc", "width", "block", "got", "crc", "size", "out"} BY DEF TypeInv, ReceiverOK
<1>1. Cleanup => r'.pc = "ended" BY <1>0 DEF Cleanup
<1>2. \A pc : Go(pc) => r'.pc = pc BY <1>0 DEF Go
<1>3. Reject(used) => r'.pc = "zdle" BY <1>2 DEF Reject
<1>4. Bail(used) => r'.pc = "ended" BY <1>1 DEF Bail
<1>5. \A c : NoHeader(c, used) => r'.pc \in {"ended", "zdle"} BY <1>3, <1>4 DEF NoHeader
<1>6. \A e : NoBlock(e, used) => r'.pc \in {"ended", "zdle"} BY <1>2, <1>4 DEF NoBlock
<1>7. \A h : Dispatch(h, used) => r'.pc \in {"ended", "zdle", "data"}
  <2> SUFFICES ASSUME NEW h, Dispatch(h, used) PROVE r'.pc \in {"ended", "zdle", "data"}
    OBVIOUS
  <2>1. \/ Go("zdle")
        \/ Cleanup
        \/ r' = [r EXCEPT !.pc = "data", !.block = IF h[2] = "ZFILE" THEN "name" ELSE "file",
                          !.got = <<>>, !.crc = <<>>]
    BY DEF Dispatch
  <2> QED BY <1>0, <1>1, <1>2, <2>1
<1>8. Block(used) => r'.pc \in {"ended", "zdle", "data"}
  <2>1. \A name : Create(name, used) => r'.pc \in {"ended", "zdle"} BY <1>0 DEF Create, NotOpened
  <2>2. \A end : Store(end, used) => r'.pc \in {"zdle", "data"} BY <1>0 DEF Store
  <2> QED BY <1>4, <2>1, <2>2 DEF Block
<1> QED BY <1>1, <1>2, <1>3, <1>4, <1>5, <1>6, <1>7, <1>8

\* The width of a hexadecimal header is that of its CRC.
LEMMA WidthKept ==
  ASSUME TypeInv, HexWidth, Receiver
  PROVE  HexWidth'
<1>0. DOMAIN r = {"pc", "width", "block", "got", "crc", "size", "out"} BY DEF TypeInv, ReceiverOK
<1>1. ASSUME NEW pc, NEW x, Taken(pc, x) PROVE r.pc = pc BY <1>1 DEF Taken
<1>2. CASE SkipXon BY <1>2 DEF SkipXon, HexWidth
<1>3. CASE AwaitRz
  <2>1. PICK c, used : OnRz(c, used) BY <1>3 DEF AwaitRz
  <2>2. r'.pc \in {"ended", "zdle", "rz"} BY <2>1, AwayFromHex DEF OnRz
  <2> QED BY <2>2 DEF HexWidth
<1>4. CASE AwaitZdle
  <2>1. PICK c, used : OnZdle(c, used) BY <1>4 DEF AwaitZdle
  <2>2. r'.pc \in {"kind", "zdle"} BY <2>1, AwayFromHex DEF OnZdle
  <2> QED BY <2>2 DEF HexWidth
<1>5. CASE ReadKind
  <2>1. PICK c, used : OnKind(c, used) BY <1>5 DEF ReadKind
  <2>2. \/ Go("zdle")
        \/ r' = [r EXCEPT !.pc = IF c[2] = "hex" THEN "hex" ELSE "bin", !.width = Width(c[2])]
        \/ Reject(used)
    BY <2>1 DEF OnKind
  <2>3. CASE Go("zdle") \/ Reject(used)
    <3>1. r'.pc = "zdle" BY <2>3, AwayFromHex
    <3> QED BY <3>1 DEF HexWidth
  <2>4. CASE r' = [r EXCEPT !.pc = IF c[2] = "hex" THEN "hex" ELSE "bin", !.width = Width(c[2])]
    <3>1. r'.pc = (IF c[2] = "hex" THEN "hex" ELSE "bin") /\ r'.width = Width(c[2]) BY <1>0, <2>4
    <3> QED BY <3>1 DEF HexWidth, Width
  <2> QED BY <2>2, <2>3, <2>4
<1>6. CASE ReadHex
  <2>1. PICK c, used : OnHex(c, used) /\ r.pc = "hex" BY <1>1, <1>6 DEF ReadHex
  <2>2. \/ NoHeader(c, used)
        \/ Keep(<<c>>, used)
        \/ r' = [r EXCEPT !.pc = "cr"]
        \/ Reject(used)
    BY <2>1 DEF OnHex
  <2>3. \/ r'.pc \in {"ended", "zdle"}
        \/ r'.width = r.width
    BY <1>0, <2>2, AwayFromHex DEF Keep
  <2> QED BY <2>1, <2>3 DEF HexWidth
<1>7. CASE ReadCrLf
  <2>1. PICK c, used : OnCrLf(c, used) /\ r.pc \in {"cr", "lf"} BY <1>1, <1>7 DEF ReadCrLf
  <2>2. \/ NoHeader(c, used)
        \/ Dispatch(Head(r.got), used)
        \/ r' = [r EXCEPT !.pc = "lf"]
    BY <2>1 DEF OnCrLf
  <2>3. \/ r'.pc \in {"ended", "zdle", "data"}
        \/ r'.width = r.width
    BY <1>0, <2>2, AwayFromHex
  <2> QED BY <2>1, <2>3 DEF HexWidth
<1>8. CASE ReadBin
  <2>1. PICK c, used : OnBin(c, used) /\ r.pc = "bin" BY <1>1, <1>8 DEF ReadBin
  <2>2. \/ NoHeader(c, used)
        \/ \E got : Keep(got, used)
        \/ \E h : Dispatch(h, used)
        \/ Reject(used)
    BY <2>1 DEF OnBin
  <2>3. r'.pc \in {"ended", "zdle", "data", "bin"} BY <1>0, <2>1, <2>2, AwayFromHex DEF Keep
  <2> QED BY <2>3 DEF HexWidth
<1>9. CASE ReadData
  <2>1. PICK c, used : OnData(c, used) /\ r.pc = "data" BY <1>1, <1>9 DEF ReadData
  <2>2. \/ \E e : NoBlock(e, used)
        \/ \E got : r' = [r EXCEPT !.pc = "crc", !.got = got]
        \/ \E got : Keep(got, used)
    BY <2>1 DEF OnData
  <2>3. r'.pc \in {"ended", "zdle", "data", "crc"} BY <1>0, <2>1, <2>2, AwayFromHex DEF Keep
  <2> QED BY <2>3 DEF HexWidth
<1>10. CASE ReadCrc
  <2>1. PICK c, used : OnCrc(c, used) /\ r.pc = "crc" BY <1>1, <1>10 DEF ReadCrc
  <2>2. \/ \E e : NoBlock(e, used)
        \/ \E crc : r' = [r EXCEPT !.crc = crc]
        \/ Block(used)
    BY <2>1 DEF OnCrc
  <2>3. r'.pc \in {"ended", "zdle", "data", "crc"} BY <1>0, <2>1, <2>2, AwayFromHex
  <2> QED BY <2>3 DEF HexWidth
<1> QED BY <1>2, <1>3, <1>4, <1>5, <1>6, <1>7, <1>8, <1>9, <1>10 DEF Receiver

(***************************************************************************)
(* A line with damage: a step of the receiver that reads no file.          *)
(***************************************************************************)
Skips ==
  /\ r' = r /\ files' = files /\ up' = up /\ snd' = snd
  /\ 1 <= Len(down) /\ down[1] \in Passed /\ Moved(down, down', 1)

LEMMA SkipsXon ==
  ASSUME IsSeq(down), SkipXon
  PROVE  Skips
<1>1. PICK x \in zm_read_escaped : x[1] = AGAIN BY DEF SkipXon
<1>2. PICK c, n : c = x[1] /\ n = x[2] OBVIOUS
<1>3. EscapedIs(c, n) BY <1>1, <1>2, EscapedRead
<1>4. \A t : Unescaped(t) # AGAIN BY DEF Unescaped, AGAIN, BAD_ESCAPE
<1>5. AGAIN # CANCELLED BY DEF AGAIN, CANCELLED
<1>6. n = 1 /\ 1 <= Len(down) /\ AGAIN = (IF down[1] = XON THEN AGAIN ELSE down[1])
  BY <1>1, <1>2, <1>3, <1>4, <1>5 DEF EscapedIs
<1>7. down[1] \in Passed BY <1>6 DEF Passed
<1>8. down' = SubSeq(down, 2, Len(down))
  <2>1. down # <<>> BY <1>6, SeqFacts
  <2>2. down' = Tail(down) BY DEF SkipXon
  <2>3. PICK S : down \in Seq(S) BY DEF IsSeq
  <2> QED BY <1>6, <2>1, <2>2, <2>3
<1>9. 1 \in 0 .. Len(down) /\ 1 + 1 = 2 BY <1>6, SeqFacts
<1>10. Moved(down, down', 1) BY <1>8, <1>9, SubSeqMoved
<1> QED BY <1>6, <1>7, <1>10 DEF Skips, SkipXon

LEMMA EscapedTaken ==
  ASSUME IsSeq(down), NEW pc, NEW x \in Reads(zm_read_escaped), Taken(pc, x)
  PROVE  /\ r.pc = pc /\ snd' = snd /\ x[1] # AGAIN
         /\ EscapedIs(x[1], x[2]) /\ Heard(x[1], x[2])
<1>1. PICK c, n : c = x[1] /\ n = x[2] OBVIOUS
<1>2. (c = CANCELLED /\ n = 0) \/ \E y \in zm_read_escaped : c = y[1] /\ n = y[2] BY <1>1, ReadsAre
<1>3. EscapedIs(c, n) BY <1>2, EscapedRead
<1>4. down' = SubSeq(down, n + 1, Len(down)) BY <1>1 DEF Taken
<1>5. Heard(c, n) BY <1>3, <1>4, EscapedHeard
<1> QED BY <1>1, <1>3, <1>5 DEF Taken

LEMMA RecvTaken ==
  ASSUME IsSeq(down), NEW pc, NEW x \in Reads(zm_recv), Taken(pc, x)
  PROVE  r.pc = pc /\ snd' = snd /\ Heard(x[1], x[2])
<1>1. PICK c, n : c = x[1] /\ n = x[2] OBVIOUS
<1>2. (c = CANCELLED /\ n = 0) \/ \E y \in zm_recv : c = y[1] /\ n = y[2] BY <1>1, ReadsAre
<1>3. (c = CANCELLED /\ n = 0) \/ (n = 1 /\ 1 <= Len(down) /\ c = down[1]) BY <1>2, RecvRead
<1>4. down' = SubSeq(down, n + 1, Len(down)) BY <1>1 DEF Taken
<1>5. Heard(c, n) BY <1>3, <1>4, RecvHeard
<1> QED BY <1>1, <1>5 DEF Taken

LEMMA OutsideStep ==
  ASSUME TypeInv, IsSeq(down), HexWidth, ~InFile, ~Held, Receiver
  PROVE  snd' = snd /\ (Skips \/ \E c, n : Heard(c, n) /\ Outcome(c))
<1>1. CASE SkipXon BY <1>1, SkipsXon DEF Skips
<1>2. CASE AwaitRz
  <2>1. PICK x \in Reads(zm_read_escaped) : Taken("rz", x) /\ OnRz(x[1], x[3]) BY <1>2 DEF AwaitRz
  <2>2. r.pc = "rz" /\ snd' = snd /\ Heard(x[1], x[2]) BY <2>1, EscapedTaken
  <2>3. Outcome(x[1]) BY <2>1, <2>2, OutsideFirst DEF Outcome
  <2> QED BY <2>2, <2>3
<1>3. CASE AwaitZdle
  <2>1. PICK x \in Reads(zm_recv) : Taken("zdle", x) /\ OnZdle(x[1], x[3]) BY <1>3 DEF AwaitZdle
  <2>2. r.pc = "zdle" /\ snd' = snd /\ Heard(x[1], x[2]) BY <2>1, RecvTaken
  <2>3. Outcome(x[1]) BY <2>1, <2>2, OutsideFirst DEF Outcome
  <2> QED BY <2>2, <2>3
<1>4. CASE ReadKind
  <2>1. PICK x \in Reads(zm_read_escaped) : Taken("kind", x) /\ OnKind(x[1], x[3]) BY <1>4 DEF ReadKind
  <2>2. r.pc = "kind" /\ snd' = snd /\ Heard(x[1], x[2]) BY <2>1, EscapedTaken
  <2>3. Outcome(x[1]) BY <2>1, <2>2, OutsideFirst DEF Outcome
  <2> QED BY <2>2, <2>3
<1>5. CASE ReadHex
  <2>1. PICK x \in Reads(zm_recv) : Taken("hex", x) /\ OnHex(x[1], x[3]) BY <1>5 DEF ReadHex
  <2>2. r.pc = "hex" /\ snd' = snd /\ Heard(x[1], x[2]) BY <2>1, RecvTaken
  <2>3. r.width = 16 BY <2>2 DEF HexWidth
  <2>4. Outcome(x[1]) BY <2>1, <2>2, <2>3, OutsideHeader
  <2> QED BY <2>2, <2>4
<1>6. CASE ReadCrLf
  <2>1. PICK x \in Reads(zm_read_escaped) : (Taken("cr", x) \/ Taken("lf", x)) /\ OnCrLf(x[1], x[3])
    BY <1>6 DEF ReadCrLf
  <2>2. r.pc \in {"cr", "lf"} /\ snd' = snd /\ Heard(x[1], x[2]) BY <2>1, EscapedTaken
  <2>3. Outcome(x[1]) BY <2>1, <2>2, OutsideHeader
  <2> QED BY <2>2, <2>3
<1>7. CASE ReadBin
  <2>1. PICK x \in Reads(zm_read_escaped) : Taken("bin", x) /\ OnBin(x[1], x[3]) BY <1>7 DEF ReadBin
  <2>2. r.pc = "bin" /\ snd' = snd /\ Heard(x[1], x[2]) BY <2>1, EscapedTaken
  <2>3. Outcome(x[1]) BY <2>1, <2>2, OutsideHeader
  <2> QED BY <2>2, <2>3
<1>8. CASE ReadData
  <2>1. PICK x \in Reads(zm_read_escaped) : Taken("data", x) /\ OnData(x[1], x[3]) BY <1>8 DEF ReadData
  <2>2. r.pc = "data" /\ snd' = snd /\ Heard(x[1], x[2]) BY <2>1, EscapedTaken
  <2>3. Outcome(x[1]) BY <2>1, <2>2, OutsideBlock
  <2> QED BY <2>2, <2>3
<1>9. CASE ReadCrc
  <2>1. PICK x \in Reads(zm_read_escaped) : Taken("crc", x) /\ OnCrc(x[1], x[3]) BY <1>9 DEF ReadCrc
  <2>2. r.pc = "crc" /\ snd' = snd /\ Heard(x[1], x[2]) BY <2>1, EscapedTaken
  <2>3. Outcome(x[1]) BY <2>1, <2>2, OutsideBlock
  <2> QED BY <2>2, <2>3
<1> QED BY <1>1, <1>2, <1>3, <1>4, <1>5, <1>6, <1>7, <1>8, <1>9 DEF Receiver

(***************************************************************************)
(* A line with damage: what becomes of asks.                               *)
(***************************************************************************)
LEMMA TotalNat == ASSUME TypeInv PROVE Total \in Nat
<1>1. snd.count \in 1 .. Len(Files) BY DEF TypeInv, SenderOK, Sends
<1>2. Len(Files) \in Nat BY Constants
<1>3. 1 \in 1 .. Len(Files) BY <1>1, <1>2
<1> QED BY <1>3, FileSize DEF Total

LEMMA AppendAsk ==
  ASSUME NEW line, IsSeq(line), NEW style, NEW e, NEW line2, line2 = Append(line, e)
  PROVE  /\ ~IsAsk(style, e) /\ NoAsk(style, line) => NoAsk(style, line2)
         /\ \A pos : ~IsAsk(style, e) /\ OneAsk(style, line, pos) => OneAsk(style, line2, pos)
         /\ \A pos : IsAsk(style, e) /\ e[2] = pos /\ NoAsk(style, line) => OneAsk(style, line2, pos)
<1>1. /\ IsSeq(line2) /\ Len(line2) = Len(line) + 1 /\ Len(line) \in Nat
      /\ \A i \in 1 .. Len(line) : line2[i] = line[i]
      /\ line2[Len(line) + 1] = e
  BY AppendFacts, SeqFacts
<1>2. PICK m, n : m = Len(line) /\ n = m + 1 OBVIOUS
<1>3. DOMAIN line = 1 .. m /\ DOMAIN line2 = 1 .. n /\ m \in Nat BY <1>1, <1>2, SeqFacts
<1>4. \A i \in 1 .. n : i = n \/ i \in 1 .. m BY <1>2, <1>3
<1>5. \A i \in 1 .. m : i \in 1 .. n /\ i # n BY <1>2, <1>3
<1>6. n \in 1 .. n BY <1>2, <1>3
<1>7. line2[n] = e /\ \A i \in 1 .. m : line2[i] = line[i] BY <1>1, <1>2
<1>8. ~IsAsk(style, e) /\ NoAsk(style, line) => NoAsk(style, line2)
  BY ONLY <1>3, <1>4, <1>7 DEF NoAsk
<1>9. \A pos : ~IsAsk(style, e) /\ OneAsk(style, line, pos) => OneAsk(style, line2, pos)
  <2> SUFFICES ASSUME NEW pos, ~IsAsk(style, e), OneAsk(style, line, pos) PROVE OneAsk(style, line2, pos)
    OBVIOUS
  <2>1. PICK a \in 1 .. m : /\ IsAsk(style, line[a]) /\ line[a][2] = pos
                            /\ \A i \in 1 .. m : i # a => ~IsAsk(style, line[i])
    BY <1>3 DEF OneAsk
  <2>2. a \in 1 .. n /\ line2[a] = line[a] BY <1>5, <1>7
  <2>3. \A i \in 1 .. n : i # a => ~IsAsk(style, line2[i]) BY <1>4, <1>7, <2>1
  <2> QED BY <1>3, <2>1, <2>2, <2>3 DEF OneAsk
<1>10. \A pos : IsAsk(style, e) /\ e[2] = pos /\ NoAsk(style, line) => OneAsk(style, line2, pos)
  <2> SUFFICES ASSUME NEW pos, IsAsk(style, e), e[2] = pos, NoAsk(style, line) PROVE OneAsk(style, line2, pos)
    OBVIOUS
  <2>1. \A i \in 1 .. n : i # n => ~IsAsk(style, line2[i]) BY <1>3, <1>4, <1>7 DEF NoAsk
  <2> QED BY <1>3, <1>6, <1>7, <2>1 DEF OneAsk
<1> QED BY <1>8, <1>9, <1>10

LEMMA TailAsk ==
  ASSUME NEW line, IsSeq(line), line # <<>>, NEW style, NEW rest, rest = Tail(line), NEW e, e = Head(line)
  PROVE  /\ IsSeq(rest)
         /\ NoAsk(style, line) => ~IsAsk(style, e) /\ NoAsk(style, rest)
         /\ \A pos : OneAsk(style, line, pos) =>
              IF IsAsk(style, e) THEN e[2] = pos /\ NoAsk(style, rest) ELSE OneAsk(style, rest, pos)
<1>1. PICK S : line \in Seq(S) BY DEF IsSeq
<1>2. PICK m, n : m = Len(line) /\ n = Len(rest) OBVIOUS
<1>3. m \in Nat /\ n = m - 1 /\ IsSeq(rest) /\ m # 0 BY <1>2, SeqFacts
<1>4. n \in Nat /\ DOMAIN line = 1 .. m /\ DOMAIN rest = 1 .. n BY <1>2, <1>3, SeqFacts
<1>5. e = line[1] /\ 1 \in 1 .. m BY <1>1, <1>3
<1>6. \A i \in 1 .. n : rest[i] = line[i + 1] /\ i + 1 \in 1 .. m /\ i + 1 # 1
  <2> SUFFICES ASSUME NEW i \in 1 .. n PROVE rest[i] = line[i + 1] /\ i + 1 \in 1 .. m /\ i + 1 # 1
    OBVIOUS
  <2>1. Tail(line)[i] = line[i + 1] BY <1>1, <1>2, HeadTailProperties
  <2>2. i + 1 \in 1 .. m /\ i + 1 # 1 BY ONLY <1>3, <1>4, i \in 1 .. n
  <2> QED BY <2>1, <2>2
<1>7. \A a \in 1 .. m : a # 1 => a - 1 \in 1 .. n /\ (a - 1) + 1 = a BY <1>3
<1>8. NoAsk(style, line) => ~IsAsk(style, e) /\ NoAsk(style, rest) BY <1>4, <1>5, <1>6 DEF NoAsk
<1>9. ASSUME NEW pos, OneAsk(style, line, pos)
      PROVE  IF IsAsk(style, e) THEN e[2] = pos /\ NoAsk(style, rest) ELSE OneAsk(style, rest, pos)
  <2>1. PICK a \in 1 .. m : /\ IsAsk(style, line[a]) /\ line[a][2] = pos
                            /\ \A i \in 1 .. m : i # a => ~IsAsk(style, line[i])
    BY <1>4, <1>9 DEF OneAsk
  <2>2. CASE a = 1
    <3>1. NoAsk(style, rest) BY <1>4, <1>6, <2>1, <2>2 DEF NoAsk
    <3> QED BY <1>5, <2>1, <2>2, <3>1
  <2>3. CASE a # 1
    <3>1. ~IsAsk(style, e) BY <1>5, <2>1, <2>3
    <3>2. PICK b \in 1 .. n : b + 1 = a BY <1>7, <2>3
    <3>3. rest[b] = line[a] BY <1>6, <3>2
    <3>4. \A i \in 1 .. n : i # b => rest[i] = line[i + 1] /\ i + 1 \in 1 .. m /\ i + 1 # a
      BY <1>4, <1>6, <3>2
    <3>5. \A i \in 1 .. n : i # b => ~IsAsk(style, rest[i]) BY <2>1, <3>4
    <3>6. OneAsk(style, rest, pos) BY <1>4, <2>1, <3>3, <3>5 DEF OneAsk
    <3> QED BY <3>1, <3>6
  <2> QED BY <2>2, <2>3
<1> QED BY <1>3, <1>8, <1>9

\* Answers that are no asks.
LEMMA SaysNoAsk ==
  ASSUME IsSeq(up), Says({"ZRINIT", "ZNAK", "ZFIN"}), NEW style
  PROVE  /\ IsSeq(up')
         /\ NoAsk(style, up) => NoAsk(style, up')
         /\ \A pos : OneAsk(style, up, pos) => OneAsk(style, up', pos)
<1>1. CASE up' = up BY <1>1
<1>2. CASE up' # up
  <2>1. PICK type, pos : type \in {"ZRINIT", "ZNAK", "ZFIN"} /\ up' = Append(up, <<type, pos>>)
    BY <1>2 DEF Says
  <2>2. PICK e : e = <<type, pos>> OBVIOUS
  <2>3. ~IsAsk(style, e)
    <3>1. e[1] = type BY <2>2
    <3> QED BY <2>1, <3>1 DEF IsAsk
  <2>4. up' = Append(up, e) BY <2>1, <2>2
  <2> QED BY <2>3, <2>4, AppendAsk, AppendFacts
<1> QED BY <1>1, <1>2

\* An answer that is one.
LEMMA AskAnswered ==
  ASSUME IsSeq(up), NEW style, NoAsk(style, up), NEW type, NEW pos, NEW used, Answer(type, pos, used)
  PROVE  /\ IsSeq(up')
         /\ NoAsk(style, up') \/ OneAsk(style, up', pos)
         /\ type = "ZACK" /\ style # "wait" => NoAsk(style, up')
<1>1. CASE up' = up BY <1>1
<1>2. CASE up' # up
  <2>1. up' = Append(up, <<type, pos>>) BY <1>2, AnswerSays
  <2>2. PICK e : e = <<type, pos>> OBVIOUS
  <2>3. e[2] = pos /\ (type = "ZACK" /\ style # "wait" => ~IsAsk(style, e)) BY <2>2 DEF IsAsk
  <2>4. up' = Append(up, e) BY <2>1, <2>2
  <2>5. IsSeq(up') BY <2>4, AppendFacts
  <2>6. IsAsk(style, e) => OneAsk(style, up', pos)
    <3>1. \A p : IsAsk(style, e) /\ e[2] = p /\ NoAsk(style, up) => OneAsk(style, up', p) BY <2>4, AppendAsk
    <3> QED BY <2>3, <3>1
  <2>7. ~IsAsk(style, e) => NoAsk(style, up') BY <2>4, AppendAsk
  <2> QED BY <2>3, <2>5, <2>6, <2>7
<1> QED BY <1>1, <1>2

(***************************************************************************)
(* A line with damage: where the phases go while no file is read.          *)
(***************************************************************************)
LEMMA Typing ==
  ASSUME TypeInv
  PROVE  /\ Total \in Nat /\ r.size \in Nat /\ Len(files) \in Nat /\ IsSeq(files)
         /\ files = <<>> <=> Len(files) = 0
BY TotalNat, SizeTyped, SeqFacts DEF TypeInv, FilesOK

\* A line that moves on keeps the grant, or loses it.
LEMMA GrantMoves ==
  ASSUME TrueLine(down), NEW n, Moved(down, down', n), Total \in Nat, NEW q \in 1 .. Total,
         NEW format, NEW style, Granted(format, style, q, down)
  PROVE  KnownLine(down') \/ Granted(format, style, q, down')
<1>1. PICK k \in 1 .. Len(down) : GrantAt(format, down, k) /\ Carried(down, k, Stream(format, style, q))
  BY DEF Granted
<1>2. PICK S : S = Stream(format, style, q) OBVIOUS
<1>3. IsSeq(S) BY <1>2, StreamKnown DEF KnownLine
<1>4. n \in 0 .. Len(down) /\ Len(down) \in Nat BY SeqFacts DEF Moved, TrueLine
<1>5. CASE n < k
  <2>1. k - n \in 1 .. Len(down') /\ GrantAt(format, down', k - n) /\ Carried(down', k - n, S)
    BY <1>1, <1>2, <1>3, <1>5, MovedGranted
  <2> QED BY <1>2, <2>1 DEF Granted
<1>6. CASE n >= k BY <1>1, <1>2, <1>3, <1>6, MovedGranted
<1> QED BY <1>4, <1>5, <1>6

\* The phases that remain when nothing of the file is read or stored.
Phases == Nothing \/ Asked \/ Coming

LEMMA PhasesMove ==
  ASSUME TypeInv, Phases, IsSeq(up), TrueLine(down), NEW n, Moved(down, down', n), snd' = snd,
         r'.size = r.size, ~InFile', ~Held', Says({"ZRINIT", "ZNAK", "ZFIN"})
  PROVE  Phases' /\ (Nothing => Nothing')
<1>1. IsSeq(down) BY DEF TrueLine
<1>2. KnownLine(down) => KnownLine(down') BY <1>1, MovedTrue
<1>3. Nothing => Nothing' BY <1>2, SaysNoAsk DEF Nothing
<1>4. Asked => Asked' BY <1>2, SaysNoAsk DEF Asked
<1>5. ASSUME Coming PROVE Nothing' \/ Coming'
  <2>1. NoAsk(snd.style, up') BY <1>5, SaysNoAsk DEF Coming
  <2>2. PICK q : q = r.size + 1 OBVIOUS
  <2>3. q \in 1 .. Total /\ Granted(snd.format, snd.style, q, down) BY <1>5, <2>2 DEF Coming
  <2>4. KnownLine(down') \/ Granted(snd.format, snd.style, q, down') BY <2>3, Typing, GrantMoves
  <2>5. CASE KnownLine(down') BY <2>1, <2>5 DEF Nothing
  <2>6. CASE Granted(snd.format, snd.style, q, down')
    <3>1. (r.size + 1 \in 1 .. Total)' BY <2>2, <2>3 DEF Total
    <3>2. Granted(snd.format, snd.style, r.size + 1, down)' BY <2>2, <2>6
    <3> QED BY <2>1, <3>1, <3>2 DEF Coming
  <2> QED BY <2>4, <2>5, <2>6
<1> QED BY <1>3, <1>4, <1>5 DEF Phases

\* The token that completes a ZDATA is the grant, and what it announces comes next.
GrantTaken(c) ==
  /\ Coming /\ c[1] = LastTag(snd.format) /\ KnownLine(down')
  /\ Ahead(snd.format, snd.style, r.size + 1, down')

LEMMA Granting ==
  ASSUME TypeInv, Phases, TrueLine(down), NEW c, NEW n, Heard(c, n), Completes(c)
  PROVE  GrantTaken(c)
<1>0. IsSeq(down) BY DEF TrueLine
<1>1. IsCrc(c) /\ c[1] # "crc32a" BY DEF Completes, IsCrc
<1>2. n = 1 /\ 1 <= Len(down) /\ c = down[1] /\ Moved(down, down', 1) BY <1>1 DEF Heard
<1>3. 1 \in DOMAIN down /\ Len(down) \in Nat /\ 1 \in 1 .. Len(down) BY <1>0, <1>2, SeqFacts
<1>4. Genuine(c) BY <1>2, <1>3 DEF TrueLine
<1>5. PICK header : c[2] = <<header>> /\ header[2] \notin Others BY DEF Completes
<1>6. header[2] \in Types /\ header[1] = "header" BY <1>1, <1>4, <1>5, GenuineFacts
<1>7. header[2] = "ZDATA" BY <1>5, <1>6 DEF Types, Others
<1>8. Grants(c) BY <1>1, <1>5, <1>6, <1>7 DEF Grants, IsCrc
<1>9. ~KnownLine(down) BY <1>2, <1>8, KnownHead DEF Known
<1>10. Coming BY <1>9 DEF Phases, Nothing, Asked
<1>11. PICK q : q = r.size + 1 OBVIOUS
<1>12. PICK T : T = Stream(snd.format, snd.style, q) OBVIOUS
<1>13. Total \in Nat /\ q \in 1 .. Total /\ Granted(snd.format, snd.style, q, down)
  BY <1>10, <1>11, Typing DEF Coming
<1>14. IsSeq(T) BY <1>12, <1>13, StreamKnown DEF KnownLine
<1>15. PICK k \in 1 .. Len(down) : GrantAt(snd.format, down, k) /\ Carried(down, k, T)
  BY <1>12, <1>13 DEF Granted
<1>16. k = 1 BY <1>2, <1>3, <1>8, <1>15 DEF GrantAt
<1>17. c[1] = LastTag(snd.format) BY <1>2, <1>15, <1>16 DEF GrantAt
<1>18. KnownLine(down')
  <2>1. 1 >= k BY <1>16
  <2> QED BY <1>2, <1>14, <1>15, <2>1, MovedGranted
<1>19. Carried(down', 0, T)
  <2>1. Carried(down', 1 - 1, T)
    <3>1. Carried(down, 1, T) BY <1>15, <1>16
    <3> QED BY <1>0, <1>2, <1>14, <3>1, MovedCarried
  <2>2. 1 - 1 = 0 OBVIOUS
  <2> QED BY <2>1, <2>2
<1>20. IsSeq(down') BY <1>18 DEF KnownLine
<1>21. Ahead(snd.format, snd.style, q, down') BY <1>12, <1>13, <1>19, <1>20, CarriedAhead
<1> QED BY <1>10, <1>11, <1>17, <1>18, <1>21 DEF GrantTaken

LEMMA EnterTaking ==
  ASSUME TypeInv, Phases, TrueLine(down), NEW c, NEW n, Heard(c, n), Completes(c), Enters, snd' = snd
  PROVE  Taking'
<1>1. GrantTaken(c) BY Granting
<1>2. r.width = Width(snd.format)
  <2>1. r.width \in {16, 32} BY DEF TypeInv, ReceiverOK
  <2>2. c[1] = (IF r.width = 16 THEN "crc16" ELSE "crc32b") BY DEF Completes
  <2> QED BY <1>1, <2>1, <2>2 DEF GrantTaken, LastTag, Width
<1>3. /\ r'.pc = "data" /\ r'.got = <<>> /\ r'.crc = <<>> /\ r'.size = r.size
      /\ r'.width = Width(snd'.format) /\ InFile'
  BY <1>2 DEF Enters, InFile
<1>4. Ahead(snd'.format, snd'.style, r'.size + 1, down') BY <1>1, <1>3 DEF GrantTaken
<1>5. Reading(r.size + 1)' BY <1>3, <1>4 DEF Ahead, Reading
<1>6. (r.size + 1 \in 1 .. Total)' BY <1>1, <1>3 DEF GrantTaken, Coming, Total
<1>7. NoAsk(snd'.style, up') BY <1>1 DEF GrantTaken, Coming, Enters
<1>8. KnownLine(down') BY <1>1 DEF GrantTaken
<1> QED BY <1>3, <1>5, <1>6, <1>7, <1>8 DEF Taking

LEMMA HoldsHolding ==
  ASSUME TypeInv, Phases, TrueLine(down), HexWidth', NEW c, NEW n, Heard(c, n), Completes(c), Holds, snd' = snd
  PROVE  Holding' \/ Nothing'
<1>1. GrantTaken(c) BY Granting
<1>2. r.width = 16 BY DEF Holds, HexWidth
<1>3. snd.format # "bin32"
  <2>1. c[1] = "crc16" BY <1>2 DEF Completes
  <2> QED BY <1>1, <2>1 DEF GrantTaken, LastTag
<1>4. r'.size = r.size /\ r'.pc \in {"cr", "lf"} /\ ~InFile' BY DEF Holds, InFile
<1>5. Ahead(snd.format, snd.style, r.size + 1, down)' BY <1>1, <1>4 DEF GrantTaken
<1>6. (r.size + 1 \in 1 .. Total)' BY <1>1, <1>4 DEF GrantTaken, Coming, Total
<1>7. NoAsk(snd'.style, up') BY <1>1 DEF GrantTaken, Coming, Holds
<1>8. KnownLine(down') BY <1>1 DEF GrantTaken
<1> QED BY <1>3, <1>4, <1>5, <1>6, <1>7, <1>8 DEF Holding, Nothing

LEMMA FirstKept ==
  ASSUME TypeInv, TypeInv', Len(files') = Len(files), files # <<>> => files'[1].data = files[1].data,
         files # <<>> => First
  PROVE  files' # <<>> => First'
<1>1. files' # <<>> <=> files # <<>>
  <2>1. IsSeq(files) /\ IsSeq(files') BY DEF TypeInv, FilesOK
  <2> QED BY <2>1, SeqFacts
<1> QED BY <1>1 DEF First, Total, CharAt

LEMMA LineKept ==
  ASSUME HexWidth', TrueLine(down'), snd' = snd, snd.pc = "data" => snd.file = 1, IsSeq(up'),
         Len(files') = 0 => Nothing',
         Len(files') = 1 => Nothing' \/ Asked' \/ Coming' \/ Holding' \/ Taking'
  PROVE  Line'
BY DEF Line

LEMMA OutsideLine ==
  ASSUME TypeInv, TypeInv', Line, files # <<>> => First, Len(files) <= 1, Receiver, ~InFile, ~Held
  PROVE  /\ files' # <<>> => First'
         /\ Len(files') <= 1 => Line'
<1>1. IsSeq(up) /\ TrueLine(down) /\ HexWidth /\ (snd.pc = "data" => snd.file = 1) BY DEF Line
<1>2. HexWidth' BY <1>1, WidthKept
<1>3. IsSeq(down) BY <1>1 DEF TrueLine
<1>4. Phases /\ (Len(files) = 0 => Nothing)
  <2>0. Len(files) \in Nat BY Typing
  <2>1. Len(files) = 0 \/ Len(files) = 1 BY ONLY <2>0, Len(files) <= 1
  <2> QED BY <2>1 DEF Line, Phases, Holding, Taking
<1>5. snd' = snd /\ (Skips \/ \E c, n : Heard(c, n) /\ Outcome(c)) BY <1>1, <1>3, OutsideStep
<1>6. \A n : Moved(down, down', n) => TrueLine(down') BY <1>1, <1>3, MovedTrue
<1>7. ASSUME NEW n, Moved(down, down', n), Quits
      PROVE  (files' # <<>> => First') /\ (Len(files') <= 1 => Line')
  <2>1. Phases' /\ (Nothing => Nothing') BY <1>1, <1>4, <1>5, <1>7, PhasesMove DEF Quits, Stays
  <2>2. Len(files') = Len(files) BY <1>7 DEF Quits, Stays
  <2>3. files' # <<>> => First' BY <1>7, FirstKept DEF Quits, Stays
  <2>4. IsSeq(up') BY <1>1, <1>7, SaysNoAsk DEF Quits
  <2>5. TrueLine(down') BY <1>6, <1>7
  <2>6. Len(files') = 0 => Nothing' BY <1>4, <2>1, <2>2
  <2>7. Len(files') = 1 => Nothing' \/ Asked' \/ Coming' BY <2>1 DEF Phases
  <2>8. Line' BY <1>1, <1>2, <1>5, <2>4, <2>5, <2>6, <2>7, LineKept
  <2> QED BY <2>3, <2>8
<1>8. ASSUME Skips PROVE Quits /\ Moved(down, down', 1)
  <2>1. Stays BY <1>8 DEF Skips, Stays, InFile, Held
  <2> QED BY <1>8, <2>1 DEF Skips, Quits, Says
<1>9. ASSUME NEW c, NEW n, Heard(c, n), Creates
      PROVE  (files' # <<>> => First') /\ (Len(files') <= 1 => Line')
  <2>1. /\ Len(files') = Len(files) + 1 /\ r'.size = r.size /\ ~InFile' /\ ~Held'
        /\ up' = up \/ up' = Append(up, <<"ZRPOS", r.size>>)
        /\ files # <<>> => files'[1].data = files[1].data
        /\ files = <<>> => files'[1].data = <<>>
    BY <1>9 DEF Creates
  <2>2. First'
    <3>1. CASE files = <<>>
      <4>1. DOMAIN files'[1].data = {} BY <2>1, <3>1
      <4> QED BY <4>1 DEF First
    <3>2. CASE files # <<>> BY <2>1, <3>2 DEF First, Total, CharAt
    <3> QED BY <3>1, <3>2
  <2>3. ASSUME Len(files') <= 1 PROVE Line'
    <3>1. Len(files) = 0 /\ Len(files') = 1 BY <2>1, <2>3, Typing
    <3>2. Nothing BY <1>4, <3>1
    <3>3. Moved(down, down', n) BY <1>9 DEF Heard
    <3>4. KnownLine(down') BY <1>3, <3>2, <3>3, MovedTrue DEF Nothing
    <3>5. NoAsk(snd.style, up) BY <3>2 DEF Nothing
    <3>6. IsSeq(up') /\ (NoAsk(snd.style, up') \/ OneAsk(snd.style, up', r.size))
      <4>1. CASE up' = up BY <1>1, <3>5, <4>1
      <4>2. CASE up' = Append(up, <<"ZRPOS", r.size>>)
        <5>1. PICK e, pos : pos = r.size /\ e = <<"ZRPOS", pos>> OBVIOUS
        <5>2. up' = Append(up, e) /\ IsAsk(snd.style, e) /\ e[2] = pos BY <4>2, <5>1 DEF IsAsk
        <5>3. IsSeq(up') BY <1>1, <5>2, AppendFacts
        <5>4. \A p : IsAsk(snd.style, e) /\ e[2] = p /\ NoAsk(snd.style, up) => OneAsk(snd.style, up', p)
          BY <1>1, <5>2, AppendAsk
        <5> QED BY <3>5, <5>1, <5>2, <5>3, <5>4
      <4> QED BY <2>1, <4>1, <4>2
    <3>7. Nothing' \/ Asked' BY <1>5, <2>1, <3>4, <3>6 DEF Nothing, Asked
    <3>8. TrueLine(down') BY <1>6, <3>3
    <3>9. Len(files') # 0 BY <3>1
    <3> QED BY <1>1, <1>2, <1>5, <3>6, <3>7, <3>8, <3>9, LineKept
  <2> QED BY <2>2, <2>3
<1>10. ASSUME NEW c, NEW n, Heard(c, n), Completes(c), Enters \/ Holds
       PROVE  (files' # <<>> => First') /\ (Len(files') <= 1 => Line')
  <2>1. files' = files /\ up' = up BY <1>10 DEF Enters, Holds
  <2>2. Taking' \/ Holding' \/ Nothing'
    BY <1>1, <1>2, <1>4, <1>5, <1>10, EnterTaking, HoldsHolding
  <2>3. Len(files) # 0
    <3>1. GrantTaken(c) BY <1>1, <1>4, <1>10, Granting
    <3>2. r.size + 1 \in 1 .. Total /\ ~KnownLine(down)
      <4>1. Coming BY <3>1 DEF GrantTaken
      <4>2. PICK q : Granted(snd.format, snd.style, q, down) BY <4>1 DEF Coming
      <4>3. PICK k \in 1 .. Len(down) : Grants(down[k]) BY <4>2 DEF Granted, GrantAt
      <4>4. k \in DOMAIN down BY <1>3, SeqFacts
      <4> QED BY <4>1, <4>3, <4>4 DEF Coming, KnownLine, Known
    <3> QED BY <1>4, <3>2 DEF Nothing
  <2>4. TrueLine(down') BY <1>6, <1>10 DEF Heard
  <2>5. files' # <<>> => First' BY <2>1 DEF First, Total, CharAt
  <2>6. Line' BY <1>1, <1>2, <1>5, <2>1, <2>2, <2>3, <2>4, LineKept
  <2> QED BY <2>5, <2>6
<1> QED BY <1>5, <1>7, <1>8, <1>9, <1>10 DEF Outcome, Heard

(***************************************************************************)
(* A line with damage: the end of a ZDATA in hexadecimal.                  *)
(***************************************************************************)
LEMMA AheadSkip ==
  ASSUME NEW s, IsSeq(s), NEW s2, Moved(s, s2, 1), 1 <= Len(s), s[1] \in {LF, CR} \cup Passed,
         NEW format, NEW style, Total \in Nat, NEW q \in 1 .. Total, Ahead(format, style, q, s)
  PROVE  Ahead(format, style, q, s2)
<1>1. ~IsCrc(s[1]) BY Tokens, ErrorsNoCrc DEF Passed
<1>2. Len(s) \in Nat BY SeqFacts
<1>3. ASSUME Own(format, style, q, s) PROVE Own(format, style, q, s2)
  <2>1. PICK k \in 1 .. Len(s) : OwnAt(format, style, q, s, k) BY <1>3 DEF Own
  <2>2. IsCrc(s[k]) BY <2>1 DEF OwnAt, FirstHalf, IsCrc
  <2>3. k # 1 BY <1>1, <2>2
  <2>4. 1 < k BY <2>3
  <2> QED BY <2>1, <2>4, MovedOwn DEF Own
<1>4. ASSUME Half(format, s) PROVE Half(format, s2)
  <2>1. PICK k \in 1 .. Len(s) : HalfAt(format, s, k) BY <1>4 DEF Half
  <2>2. IsCrc(s[k]) BY <2>1 DEF HalfAt, IsCrc
  <2>3. k # 1 BY <1>1, <2>2
  <2>4. 1 < k BY <2>3
  <2> QED BY <2>1, <2>4, MovedHalf DEF Half
<1>5. ~Lost(format, style, q, s)
  <2>1. 0 + 1 = 1 OBVIOUS
  <2>2. Lost(format, style, q, s) => s[1] = ZDLE \/ s[1] = CharAt(q) BY <2>1 DEF Lost, Leads
  <2>3. ZDLE \notin {LF, CR} \cup Passed /\ CharAt(q) \notin {LF, CR} \cup Passed
    BY DEF ZDLE, LF, CR, XON, AGAIN, Passed, CharAt
  <2> QED BY <2>2, <2>3
<1> QED BY <1>3, <1>4, <1>5 DEF Ahead

\* What of the file is under way is abandoned.
LEMMA QuitsNothing ==
  ASSUME IsSeq(up), NoAsk(snd.style, up), KnownLine(down), NEW n, Moved(down, down', n), snd' = snd, Quits
  PROVE  Nothing'
<1>1. IsSeq(down) BY DEF KnownLine
<1>2. KnownLine(down') BY <1>1, MovedTrue
<1>3. NoAsk(snd.style, up') BY SaysNoAsk DEF Quits
<1> QED BY <1>2, <1>3 DEF Quits, Stays, Nothing

\* A read gives a CR or a LF only from one.
LEMMA CrLfRead ==
  ASSUME NEW c \in {CR, LF}, NEW n, EscapedIs(c, n)
  PROVE  n = 1 /\ 1 <= Len(down) /\ down[1] = c
<1>1. c # CANCELLED /\ c # AGAIN BY DEF CR, LF, CANCELLED, AGAIN
<1>2. \A t : Unescaped(t) # c BY UnescapedNoCrc
<1> QED BY <1>1, <1>2 DEF EscapedIs

LEMMA HoldingStep ==
  ASSUME TypeInv, IsSeq(up), HexWidth, Holding, Receiver
  PROVE  /\ snd' = snd /\ \E n : Moved(down, down', n)
         /\ Quits \/ (files' = files /\ up' = up)
         /\ Nothing' \/ Holding' \/ Taking'
<1>1. /\ r.pc \in {"cr", "lf"} /\ r.width = 16 /\ Width(snd.format) = 16
      /\ KnownLine(down) /\ IsSeq(down) /\ NoAsk(snd.style, up)
  BY DEF Holding, Held, HexWidth, Width, KnownLine
<1>2. PICK q : q = r.size + 1 OBVIOUS
<1>3. q \in 1 .. Total /\ Total \in Nat /\ Ahead(snd.format, snd.style, q, down) BY <1>2, Typing DEF Holding
<1>4. ReadCrLf \/ SkipXon
  BY <1>1 DEF Receiver, AwaitRz, AwaitZdle, ReadKind, ReadHex, ReadBin, ReadData, ReadCrc, Taken
<1>5. ASSUME Moved(down, down', 1), 1 <= Len(down), down[1] \in {LF, CR} \cup Passed, snd' = snd
      PROVE  KnownLine(down') /\ Ahead(snd.format, snd.style, q, down')
  BY <1>1, <1>3, <1>5, AheadSkip, MovedTrue
<1>6. ASSUME Moved(down, down', 1), 1 <= Len(down), down[1] \in {LF, CR} \cup Passed, snd' = snd,
             files' = files, up' = up, r'.size = r.size, r'.pc \in {"cr", "lf"}, r'.got = r.got
      PROVE  Holding'
  <2>1. KnownLine(down') /\ Ahead(snd.format, snd.style, r.size + 1, down)' BY <1>2, <1>5, <1>6
  <2>2. (r.size + 1 \in 1 .. Total)' BY <1>2, <1>3, <1>6 DEF Total
  <2>3. Held' BY <1>6 DEF Holding, Held
  <2> QED BY <1>6, <2>1, <2>2, <2>3 DEF Holding
<1>7. CASE SkipXon
  <2>1. Skips BY <1>1, <1>7, SkipsXon
  <2>2. Holding' BY <1>6, <2>1, <1>1 DEF Skips
  <2> QED BY <2>1, <2>2 DEF Skips
<1>8. CASE ReadCrLf
  <2>1. PICK x \in Reads(zm_read_escaped) : (Taken("cr", x) \/ Taken("lf", x)) /\ OnCrLf(x[1], x[3])
    BY <1>8 DEF ReadCrLf
  <2>2. PICK c, n, used : c = x[1] /\ n = x[2] /\ used = x[3] OBVIOUS
  <2>3. snd' = snd /\ EscapedIs(c, n) /\ Heard(c, n) BY <1>1, <2>1, <2>2, EscapedTaken
  <2>4. Moved(down, down', n) BY <2>3 DEF Heard
  <2>5. OnCrLf(c, used) BY <2>1, <2>2
  <2>6. Quits => Nothing' BY <1>1, <2>3, <2>4, QuitsNothing
  <2>7. CASE c = LF
    <3>1. n = 1 /\ 1 <= Len(down) /\ down[1] = LF BY <2>3, <2>7, CrLfRead
    <3>2. KnownLine(down') /\ Ahead(snd.format, snd.style, q, down') BY <1>5, <2>3, <2>4, <3>1
    <3>3. c # CR BY <2>7 DEF LF, CR
    <3>4. Dispatch(Head(r.got), used) BY <2>5, <2>7, <3>3 DEF OnCrLf
    <3>5. Quits \/ Enters BY <3>4, DispatchTo
    <3>6. ASSUME Enters PROVE Taking'
      <4>1. /\ r'.pc = "data" /\ r'.got = <<>> /\ r'.crc = <<>> /\ r'.size = r.size
            /\ r'.width = Width(snd'.format) /\ InFile'
        BY <1>1, <2>3, <3>6 DEF Enters, InFile
      <4>2. Ahead(snd'.format, snd'.style, r'.size + 1, down') BY <1>2, <2>3, <3>2, <4>1
      <4>3. Reading(r.size + 1)' BY <4>1, <4>2 DEF Ahead, Reading
      <4>4. (r.size + 1 \in 1 .. Total)' BY <1>2, <1>3, <4>1 DEF Total
      <4>5. NoAsk(snd'.style, up') BY <1>1, <2>3, <3>6 DEF Enters
      <4> QED BY <3>2, <4>1, <4>3, <4>4, <4>5 DEF Taking
    <3> QED BY <2>3, <2>4, <2>6, <3>5, <3>6 DEF Enters
  <2>8. CASE c # LF /\ c = CR /\ r.pc = "cr"
    <3>1. r' = [r EXCEPT !.pc = "lf"] /\ files' = files /\ Silent(used) BY <2>5, <2>8 DEF OnCrLf
    <3>2. r'.pc = "lf" /\ r'.got = r.got /\ r'.size = r.size /\ up' = up
      BY <3>1, AnswerSays DEF TypeInv, ReceiverOK
    <3>3. n = 1 /\ 1 <= Len(down) /\ down[1] = CR BY <2>3, <2>8, CrLfRead
    <3>4. Holding' BY <1>6, <2>3, <2>4, <3>1, <3>2, <3>3
    <3> QED BY <2>3, <2>4, <3>1, <3>2, <3>4
  <2>9. CASE c # LF /\ ~(c = CR /\ r.pc = "cr")
    <3>1. Quits BY <2>5, <2>9, Quit DEF OnCrLf
    <3> QED BY <2>3, <2>4, <2>6, <3>1
  <2> QED BY <2>7, <2>8, <2>9
<1> QED BY <1>4, <1>7, <1>8

(***************************************************************************)
(* A line with damage: reading the file.                                   *)
(***************************************************************************)
\* A read that is no error takes no CRC, unless it gives it.
LEMMA CrcIsRead ==
  ASSUME NEW c, NEW n, EscapedIs(c, n), ~IsError(c), c # AGAIN, NEW k \in 1 .. Len(down), IsCrc(down[k]), k <= n
  PROVE  k = 1 /\ n = 1 /\ c = down[1]
<1>1. ~IsCrc(ZDLE) /\ ~IsCrc(XON) BY Tokens
<1>2. c # CANCELLED /\ c # BAD_ESCAPE BY DEF IsError
<1>3. n # 0
  <2>1. ~(k <= 0) OBVIOUS
  <2> QED BY <2>1
<1>4. CASE n = 1 /\ down[1] # ZDLE /\ c = IF down[1] = XON THEN AGAIN ELSE down[1]
  <2>1. k = 1 BY <1>4
  <2> QED BY <1>1, <1>4, <2>1
<1>5. CASE n \in 2 .. Len(down) /\ (\A i \in 1 .. n - 1 : down[i] = ZDLE) /\ c = Unescaped(down[n])
  <2>1. k = n
    <3>1. k < n => k \in 1 .. n - 1 BY <1>5
    <3>2. ~(k < n) BY <1>1, <1>5, <3>1
    <3> QED BY <1>5, <3>2
  <2>2. Unescaped(down[n]) = BAD_ESCAPE BY <2>1 DEF Unescaped, IsCrc
  <2> QED BY <1>2, <1>5, <2>2
<1> QED BY <1>2, <1>3, <1>4, <1>5 DEF EscapedIs

\* A read where a ZDLE and another token come first.
LEMMA ReadsPair ==
  ASSUME NEW c, NEW n, EscapedIs(c, n), ~IsError(c), 2 <= Len(down), Len(down) \in Nat,
         down[1] = ZDLE, down[2] # ZDLE
  PROVE  n = 2 /\ c = Unescaped(down[2])
<1>1. c # CANCELLED BY DEF IsError
<1>2. CASE n \in 2 .. Len(down) /\ (\A i \in 1 .. n - 1 : down[i] = ZDLE) /\ c = Unescaped(down[n])
  <2>1. n = 2
    <3>1. n # 2 => 2 \in 1 .. n - 1 BY <1>2
    <3> QED BY <1>2, <3>1
  <2> QED BY <1>2, <2>1
<1> QED BY <1>1, <1>2 DEF EscapedIs

\* A read where a token of its own comes first.
LEMMA ReadsOne ==
  ASSUME NEW c, NEW n, EscapedIs(c, n), ~IsError(c), 1 <= Len(down), down[1] # ZDLE, down[1] \notin Passed
  PROVE  n = 1 /\ c = down[1]
<1>1. c # CANCELLED /\ down[1] # XON BY DEF IsError, Passed
<1>2. n \in 2 .. Len(down) => 1 \in 1 .. n - 1 OBVIOUS
<1> QED BY <1>1, <1>2 DEF EscapedIs

LEMMA QuietSkip ==
  ASSUME NEW s, IsSeq(s), NEW s2, Moved(s, s2, 1), 1 <= Len(s), s[1] \in Passed, Quiet(s, 0)
  PROVE  Quiet(s2, 0)
<1>1. PICK m : m = Len(s) OBVIOUS
<1>2. m \in Nat /\ 1 <= m BY <1>1, SeqFacts
<1>3. \A i \in 1 .. m - 1 : s2[i] = s[i + 1] BY <1>1 DEF Moved
<1>4. \A i \in m .. Len(s2) : Plain(s2[i])
  <2>1. m - 1 + 1 = m BY <1>2
  <2> QED BY <1>1, <2>1 DEF Moved
<1>5. Len(s2) \in Nat BY SeqFacts DEF Moved
<1> SUFFICES ASSUME NEW i \in 0 + 1 .. Len(s2), OfFile(s2[i])
             PROVE  \E j \in 0 + 1 .. i - 1 : s2[j] \notin Passed
  BY DEF Quiet
<1>6. i \in 1 .. m - 1
  <2>1. i \in Nat /\ 1 <= i /\ i <= Len(s2) OBVIOUS
  <2>2. ~(i \in m .. Len(s2)) BY <1>4 DEF Plain
  <2> QED BY <1>2, <1>5, <2>1, <2>2
<1>7. PICK j \in 0 + 1 .. (i + 1) - 1 : s[j] \notin Passed
  <2>1. i + 1 \in 0 + 1 .. m BY <1>2, <1>6
  <2>2. OfFile(s[i + 1]) BY <1>3, <1>6
  <2> QED BY <1>1, <2>1, <2>2 DEF Quiet
<1>8. j # 1 BY <1>7
<1>9. PICK a : a = j - 1 OBVIOUS
<1>10. a \in 1 .. i - 1 /\ a + 1 = j /\ a \in 1 .. m - 1 BY <1>2, <1>6, <1>8, <1>9
<1>11. s2[a] = s[j] BY <1>3, <1>10
<1>12. a \in 0 + 1 .. i - 1 BY <1>10
<1> QED BY <1>7, <1>11, <1>12

\* What comes first is no CRC of the file.
LEMMA QuietHead ==
  ASSUME NEW s, 1 <= Len(s), Len(s) \in Nat, Quiet(s, 0)
  PROVE  ~OfFile(s[1])
<1>1. 1 \in 0 + 1 .. Len(s) OBVIOUS
<1>2. ~ \E j \in 0 + 1 .. 1 - 1 : s[j] \notin Passed OBVIOUS
<1> QED BY <1>1, <1>2 DEF Quiet

\* The CRC that is awaited stays on the line while the receiver reads tokens that are none.
LEMMA AwaitedStays ==
  ASSUME KnownLine(down), Total \in Nat, NEW q \in 1 .. Total, NEW c, NEW n, EscapedIs(c, n), Moved(down, down', n),
         ~IsError(c), c # AGAIN, ~IsCrc(c), NEW format, NEW style
  PROVE  /\ Own(format, style, q, down) => Own(format, style, q, down')
         /\ Half(format, down) => Half(format, down')
<1>0. IsSeq(down) /\ Len(down) \in Nat BY SeqFacts DEF KnownLine
<1>1. n \in 0 .. Len(down) BY DEF Moved
<1>2. ASSUME NEW k \in 1 .. Len(down), IsCrc(down[k]) PROVE n < k
  <2>1. ~(k <= n) BY <1>2, CrcIsRead
  <2> QED BY <1>1, <2>1
<1>3. ASSUME Own(format, style, q, down) PROVE Own(format, style, q, down')
  <2>1. PICK k \in 1 .. Len(down) : OwnAt(format, style, q, down, k) BY <1>3 DEF Own
  <2>2. IsCrc(down[k]) BY <2>1 DEF OwnAt, FirstHalf, IsCrc
  <2>3. n < k BY <1>2, <2>2
  <2>4. k - n \in 1 .. Len(down') /\ OwnAt(format, style, q, down', k - n) BY <1>0, <2>1, <2>3, MovedOwn
  <2> QED BY <2>4 DEF Own
<1>4. ASSUME Half(format, down) PROVE Half(format, down')
  <2>1. PICK k \in 1 .. Len(down) : HalfAt(format, down, k) BY <1>4 DEF Half
  <2>2. IsCrc(down[k]) BY <2>1 DEF HalfAt, IsCrc
  <2>3. n < k BY <1>2, <2>2
  <2>4. k - n \in 1 .. Len(down') /\ HalfAt(format, down', k - n) BY <1>0, <2>1, <2>3, MovedHalf
  <2> QED BY <2>4 DEF Half
<1> QED BY <1>3, <1>4

LEMMA CharFacts ==
  ASSUME NEW q
  PROVE  /\ CharAt(q)[1] = "data" /\ ~IsCrc(CharAt(q)) /\ CharAt(q) \notin Passed \cup {ZDLE}
         /\ CharAt(q)[2] = Files[1][q]
BY Tokens DEF CharAt, Passed, XON, AGAIN, ZDLE

\* A read in the data of a block.
LEMMA TakesData ==
  ASSUME TypeInv, KnownLine(down), Total \in Nat, NEW q \in 1 .. Total, Reading(q), r.pc = "data",
         NEW c, NEW n, EscapedIs(c, n), Moved(down, down', n), ~IsError(c), c # AGAIN, snd' = snd,
         r'.width = r.width, r'.crc = r.crc, r'.got = Append(r.got, c),
         r'.pc = IF c[1] = "fin" THEN "crc" ELSE "data"
  PROVE  Reading(q)'
<1>0. IsSeq(down) /\ Len(down) \in Nat /\ IsSeq(r.got) BY SeqFacts DEF KnownLine, TypeInv, ReceiverOK
<1>1. r'.width = Width(snd'.format) /\ r'.crc = <<>> BY DEF Reading
<1>2. ASSUME Hopeless' PROVE Reading(q)' BY <1>1, <1>2 DEF Reading
<1>3. /\ IsSeq(r'.got) /\ Len(r'.got) = Len(r.got) + 1 /\ Len(r.got) \in Nat
      /\ r'.got[Len(r.got) + 1] = c /\ \A i \in 1 .. Len(r.got) : r'.got[i] = r.got[i]
  BY <1>0, AppendFacts, SeqFacts
<1>4. DOMAIN r.got = 1 .. Len(r.got) /\ DOMAIN r'.got = 1 .. Len(r.got) + 1 BY <1>0, <1>3, SeqFacts
<1>5. CASE IsCrc(c)
  <2>1. Len(r.got) + 1 \in DOMAIN r'.got BY <1>3, <1>4
  <2>2. Hopeless' BY <1>3, <1>5, <2>1 DEF Hopeless
  <2> QED BY <1>2, <2>2
<1>6. CASE Hopeless
  <2>1. PICK i \in DOMAIN r.got : IsCrc(r.got[i])
    <3>1. r.crc = <<>> BY DEF Reading
    <3> QED BY <1>6, <3>1 DEF Hopeless
  <2>2. i \in DOMAIN r'.got /\ r'.got[i] = r.got[i] BY <1>3, <1>4
  <2>3. Hopeless' BY <2>1, <2>2 DEF Hopeless
  <2> QED BY <1>2, <2>3
<1>7. CASE ~IsCrc(c) /\ Own(snd.format, snd.style, q, down)
  <2>1. Own(snd.format, snd.style, q, down)' BY <1>7, AwaitedStays
  <2> QED BY <1>1, <2>1 DEF Reading
<1>8. CASE ~IsCrc(c) /\ Half(snd.format, down)
  <2>1. Half(snd.format, down)' BY <1>8, AwaitedStays
  <2> QED BY <1>1, <2>1 DEF Reading
<1>9. CASE r.got = <<>> /\ Lost(snd.format, snd.style, q, down)
  <2>1. PICK char, end, l : char = CharAt(q) /\ end = EndIn(snd.style, q) /\ l = LeadLen(char) OBVIOUS
  <2>2. snd.format # "bin32" /\ l <= Len(down) /\ Leads(down, 0, char, end) /\ Quiet(down, l)
    BY <1>9, <2>1 DEF Lost
  <2>3. l \in {3, 4} BY <2>1 DEF LeadLen
  <2>4. /\ IF l = 4 THEN down[1] = ZDLE /\ down[2] = <<"escaped", char[2]>> ELSE down[1] = char
        /\ down[l - 1] = ZDLE /\ down[l] = <<"end", end>>
    <3>1. 0 + 1 = 1 /\ 0 + 2 = 2 /\ 0 + l - 1 = l - 1 /\ 0 + l = l BY <2>3
    <3> QED BY <2>1, <2>2, <3>1 DEF Leads
  <2>5. n = l - 2 /\ c = char
    <3>1. CASE l = 4
      <4>1. down[2] # ZDLE /\ 2 <= Len(down) /\ down[1] = ZDLE BY <1>0, <2>2, <2>4, <3>1 DEF ZDLE
      <4>2. n = 2 /\ c = Unescaped(down[2]) BY <1>0, <4>1, ReadsPair
      <4>3. c = <<"data", char[2]>> BY <2>4, <3>1, <4>2 DEF Unescaped
      <4>4. char[2] = Files[1][q] BY <2>1, CharFacts
      <4>5. c = char BY <2>1, <4>3, <4>4 DEF CharAt
      <4> QED BY <3>1, <4>2, <4>5
    <3>2. CASE l = 3
      <4>1. down[1] = char /\ 1 <= Len(down) /\ down[1] # ZDLE /\ down[1] \notin Passed
        BY <1>0, <2>1, <2>2, <2>4, <3>2, CharFacts
      <4>2. n = 1 /\ c = down[1] BY <4>1, ReadsOne
      <4> QED BY <3>2, <4>1, <4>2
    <3> QED BY <2>3, <3>1, <3>2
  <2>6. l - n = 2 /\ n <= l /\ l \in Nat BY <2>3, <2>5
  <2>7. Quiet(down', 2)
    <3>1. Quiet(down', l - n) BY <1>0, <2>2, <2>6, MovedQuiet
    <3> QED BY <2>6, <3>1
  <2>8. down'[1] = ZDLE /\ down'[2] = <<"end", end>> /\ 2 <= Len(down')
    <3>1. Len(down) - n >= 2 /\ n \in Nat /\ 1 + n = l - 1 /\ 2 + n = l BY <1>0, <2>2, <2>3, <2>5
    <3>2. 1 \in 1 .. Len(down) - n /\ 2 \in 1 .. Len(down) - n BY <1>0, <3>1
    <3>3. down'[1] = down[1 + n] /\ down'[2] = down[2 + n] BY <3>2 DEF Moved
    <3>4. Len(down') >= Len(down) - n /\ Len(down') \in Nat BY SeqFacts DEF Moved
    <3>5. 2 <= Len(down') BY <1>0, <3>1, <3>4
    <3> QED BY <2>4, <3>1, <3>3, <3>5
  <2>9. r'.got = <<char>> BY <1>9, <2>5, AppendOne
  <2>10. r'.pc = "data" BY <2>1, <2>5, CharFacts
  <2>11. MetChar(q)' BY <2>1, <2>2, <2>7, <2>8, <2>9, <2>10 DEF MetChar, CharAt
  <2> QED BY <1>1, <2>11 DEF Reading
<1>10. CASE MetChar(q)
  <2>1. PICK end : end = EndIn(snd.style, q) OBVIOUS
  <2>2. /\ snd.format # "bin32" /\ r.got = <<CharAt(q)>> /\ 2 <= Len(down) /\ down[1] = ZDLE
        /\ down[2] = <<"end", end>> /\ Quiet(down, 2)
    BY <1>10, <2>1 DEF MetChar
  <2>3. down[2] # ZDLE BY <2>2 DEF ZDLE
  <2>4. n = 2 /\ c = Unescaped(down[2]) BY <1>0, <2>2, <2>3, ReadsPair
  <2>5. c = <<"fin", end>> BY <2>2, <2>4 DEF Unescaped
  <2>6. r'.pc = "crc" BY <2>5
  <2>7. r'.got = <<CharAt(q), c>> BY <2>2, AppendTwo
  <2>8. r'.got = Sub(snd'.style, q) BY <2>1, <2>5, <2>7 DEF Sub, CharAt
  <2>9. Quiet(down', 0)
    <3>1. Quiet(down', 2 - n) BY <1>0, <2>2, <2>4, MovedQuiet
    <3>2. 2 - n = 0 BY <2>4
    <3> QED BY <3>1, <3>2
  <2>10. MetEnd(q)' BY <1>1, <2>2, <2>6, <2>8, <2>9 DEF MetEnd, Sub, CharAt
  <2> QED BY <1>1, <2>10 DEF Reading
<1> QED BY <1>5, <1>6, <1>7, <1>8, <1>9, <1>10 DEF Reading, MetEnd, MetHalf

\* The first half of a CRC of 32 bits is read.
LEMMA TakesHalf ==
  ASSUME TypeInv, KnownLine(down), Total \in Nat, NEW q \in 1 .. Total, Reading(q), r.pc = "crc", r.crc = <<>>,
         snd.format = "bin32", NEW c, NEW n, Heard(c, n), snd' = snd,
         r'.width = r.width, r'.pc = r.pc, r'.got = r.got, r'.crc = <<c>>
  PROVE  Reading(q)'
<1>0. IsSeq(down) /\ Len(down) \in Nat BY SeqFacts DEF KnownLine
<1>1. r'.width = Width(snd'.format) /\ r'.pc = "crc" BY DEF Reading
<1>2. ASSUME Hopeless' PROVE Reading(q)' BY <1>1, <1>2 DEF Reading
<1>3. PICK want : want = FirstHalf(snd.format, r.got) OBVIOUS
<1>4. want = <<"crc32a", r.got>> BY <1>3 DEF FirstHalf
<1>5. CASE c # want
  <2>1. r'.crc # <<>> /\ r'.crc[1] = c OBVIOUS
  <2>2. FirstHalf(snd'.format, r'.got) = want BY <1>3
  <2>3. Hopeless' BY <1>5, <2>1, <2>2 DEF Hopeless
  <2> QED BY <1>2, <2>3
<1>6. CASE c = want
  <2>1. c[1] = "crc32a" /\ c[2] = r.got BY <1>4, <1>6
  <2>2. IsCrc(c) BY <2>1 DEF IsCrc
  <2>3. n = 1 /\ 1 <= Len(down) /\ c = down[1] /\ Moved(down, down', 1) BY <2>2 DEF Heard
  <2>4. CASE Hopeless
    <3>1. PICK i \in DOMAIN r.got : IsCrc(r.got[i]) BY <2>4 DEF Hopeless
    <3>2. Hopeless' BY <3>1 DEF Hopeless
    <3> QED BY <1>2, <3>2
  <2>5. CASE Own(snd.format, snd.style, q, down)
    <3>1. PICK k \in 1 .. Len(down) : OwnAt(snd.format, snd.style, q, down, k) BY <2>5 DEF Own
    <3>2. k = 1
      <4>1. 1 < k => 1 \in 1 .. k - 1 OBVIOUS
      <4>2. ~(1 < k) BY <2>2, <2>3, <3>1, <4>1 DEF OwnAt
      <4> QED BY <4>2
    <3>3. PICK sub : sub = Sub(snd.style, q) OBVIOUS
    <3>4. down[1] = <<"crc32a", sub>> BY <3>1, <3>2, <3>3 DEF OwnAt, FirstHalf
    <3>5. r.got = sub /\ c = <<"crc32a", sub>> BY <2>1, <2>3, <3>4
    <3>6. \/ Quiet(down, 1)
          \/ 1 < Len(down) /\ down[2] = <<"crc32b", sub>> /\ Carried(down, 2, After(snd.format, snd.style, q))
      <4>1. k + 1 = 2 BY <3>2
      <4> QED BY <3>1, <3>2, <3>3, <4>1 DEF OwnAt
    <3>7. Quiet(down, 1) => Quiet(down', 0)
      <4>1. Quiet(down, 1) => Quiet(down', 1 - 1) BY <1>0, <2>3, MovedQuiet
      <4>2. 1 - 1 = 0 OBVIOUS
      <4> QED BY <4>1, <4>2
    <3>8. ASSUME 1 < Len(down), down[2] = <<"crc32b", sub>>, Carried(down, 2, After(snd.format, snd.style, q))
          PROVE  /\ 1 <= Len(down') /\ down'[1] = <<"crc32b", sub>>
                 /\ Carried(down', 1, After(snd.format, snd.style, q))
      <4>1. PICK A : A = After(snd.format, snd.style, q) OBVIOUS
      <4>2. IsSeq(A) BY <4>1, AfterFacts
      <4>3. 2 <= Len(down) /\ 1 \in 1 .. Len(down) - 1 BY <1>0, <3>8
      <4>4. Carried(down', 2 - 1, A) BY <1>0, <2>3, <3>8, <4>1, <4>2, <4>3, MovedCarried
      <4>5. 2 - 1 = 1 /\ 1 + 1 = 2 OBVIOUS
      <4>6. down'[1] = down[2] BY <2>3, <4>3, <4>5 DEF Moved
      <4>7. Len(down') >= Len(down) - 1 /\ Len(down') \in Nat BY <2>3, SeqFacts DEF Moved
      <4>8. 1 <= Len(down') BY <1>0, <4>3, <4>7
      <4> QED BY <3>8, <4>1, <4>4, <4>5, <4>6, <4>8
    <3>9. Sub(snd.style, q)' = sub /\ After(snd.format, snd.style, q)' = After(snd.format, snd.style, q)
      BY <3>3 DEF Sub, CharAt
    <3>10. MetHalf(q)' BY <1>1, <3>3, <3>5, <3>6, <3>7, <3>8, <3>9 DEF MetHalf
    <3> QED BY <1>1, <3>10 DEF Reading
  <2>6. ~Half(snd.format, down)
    <3>1. ASSUME Half(snd.format, down) PROVE FALSE
      <4>1. PICK k \in 1 .. Len(down) : HalfAt(snd.format, down, k) BY <3>1 DEF Half
      <4>2. 1 < k => 1 \in 1 .. k - 1 OBVIOUS
      <4>3. ~(1 < k) BY <2>2, <2>3, <4>1, <4>2 DEF HalfAt
      <4>4. k = 1 BY <4>3
      <4> QED BY <2>1, <2>3, <4>1, <4>4 DEF HalfAt
    <3> QED BY <3>1
  <2>7. ~MetChar(q) /\ ~MetEnd(q) /\ ~MetHalf(q) BY DEF MetChar, MetEnd, MetHalf
  <2> QED BY <2>4, <2>5, <2>6, <2>7 DEF Reading
<1> QED BY <1>5, <1>6

\* A block that is taken is the one of byte q.
LEMMA TakesBlock ==
  ASSUME TypeInv, KnownLine(down), Total \in Nat, NEW q \in 1 .. Total, Reading(q), r.pc = "crc",
         NEW c, NEW n, Heard(c, n), Append(r.crc, c) = CrcOf(r.width, r.got)
  PROVE  /\ r.got = Sub(snd.style, q) /\ Moved(down, down', 1)
         /\ Carried(down', 0, After(snd.format, snd.style, q))
<1>0. IsSeq(down) /\ Len(down) \in Nat /\ IsSeq(r.got) /\ IsSeq(r.crc)
  BY SeqFacts DEF KnownLine, TypeInv, ReceiverOK
<1>1. r.width = Width(snd.format) BY DEF Reading
<1>2. PICK all, m : all = Append(r.crc, c) /\ m = Len(r.crc) OBVIOUS
<1>3. /\ Len(all) = m + 1 /\ m \in Nat /\ all[m + 1] = c
      /\ \A i \in 1 .. m : all[i] = r.crc[i]
      /\ r.crc = <<>> <=> m = 0
  <2>1. Len(Append(r.crc, c)) = Len(r.crc) + 1 /\ Append(r.crc, c)[Len(r.crc) + 1] = c
    BY <1>0, AppendFacts
  <2>2. \A i \in 1 .. Len(r.crc) : Append(r.crc, c)[i] = r.crc[i] BY <1>0, AppendFacts
  <2>3. Len(r.crc) \in Nat /\ (r.crc = <<>> <=> Len(r.crc) = 0) BY <1>0, SeqFacts
  <2> QED BY <1>2, <2>1, <2>2, <2>3
<1>4. PICK sub : sub = Sub(snd.style, q) OBVIOUS
<1>5. /\ snd.format # "bin32" => r.crc = <<>> /\ c = <<"crc16", r.got>>
      /\ snd.format = "bin32" => r.crc # <<>> /\ r.crc[1] = <<"crc32a", r.got>> /\ c = <<"crc32b", r.got>>
  <2>1. CASE snd.format # "bin32"
    <3>1. r.width = 16 BY <1>1, <2>1 DEF Width
    <3>2. PICK a : a = <<"crc16", r.got>> OBVIOUS
    <3>3. all = <<a>> BY <1>2, <3>1, <3>2 DEF CrcOf
    <3>4. Len(all) = 1 /\ all[1] = a BY <3>3
    <3>5. m = 0
      <4>1. m + 1 = 1 /\ m \in Nat BY <1>3, <3>4
      <4> QED BY ONLY <4>1
    <3>6. c = a
      <4>1. m + 1 = 1 BY <3>5
      <4> QED BY <1>3, <3>4, <4>1
    <3>7. r.crc = <<>> BY <1>3, <3>5
    <3> QED BY <2>1, <3>2, <3>6, <3>7
  <2>2. CASE snd.format = "bin32"
    <3>1. r.width = 32 BY <1>1, <2>2 DEF Width
    <3>2. PICK a, b : a = <<"crc32a", r.got>> /\ b = <<"crc32b", r.got>> OBVIOUS
    <3>3. all = <<a, b>>
      <4>1. r.width # 16 BY <3>1
      <4> QED BY <1>2, <3>2, <4>1 DEF CrcOf
    <3>4. Len(all) = 2 /\ all[1] = a /\ all[2] = b BY <3>3
    <3>5. m = 1
      <4>1. m + 1 = 2 /\ m \in Nat BY <1>3, <3>4
      <4> QED BY ONLY <4>1
    <3>6. c = b
      <4>1. m + 1 = 2 BY <3>5
      <4> QED BY <1>3, <3>4, <4>1
    <3>7. r.crc # <<>> BY <1>3, <3>5
    <3>8. r.crc[1] = a
      <4>1. 1 \in 1 .. m BY <3>5
      <4> QED BY <1>3, <3>4, <4>1
    <3> QED BY <2>2, <3>2, <3>6, <3>7, <3>8
  <2> QED BY <2>1, <2>2
<1>6. c[2] = r.got /\ IsCrc(c) /\ c[1] = (IF snd.format = "bin32" THEN "crc32b" ELSE "crc16") BY <1>5 DEF IsCrc
<1>7. n = 1 /\ 1 <= Len(down) /\ c = down[1] /\ Moved(down, down', 1) BY <1>6 DEF Heard
<1>8. 1 \in DOMAIN down BY <1>0, <1>7, SeqFacts
<1>9. Genuine(c) BY <1>7, <1>8 DEF KnownLine, Known
<1>10. ~Hopeless
  <2>1. \A i \in DOMAIN r.got : ~IsCrc(r.got[i]) BY <1>6, <1>9, GenuineFacts
  <2>2. r.crc = <<>> \/ r.crc[1] = FirstHalf(snd.format, r.got) BY <1>5 DEF FirstHalf
  <2> QED BY <2>1, <2>2 DEF Hopeless
<1>11. ASSUME r.got = sub PROVE OfFile(down[1])
  <2>1. c[2] = sub BY <1>6, <1>11
  <2>2. sub[1] = CharAt(q) BY <1>4 DEF Sub
  <2>3. sub[1][1] = "data" BY <2>2, CharFacts
  <2> QED BY <1>6, <1>7, <2>1, <2>3 DEF OfFile
<1>12. Quiet(down, 0) => r.got # sub BY <1>0, <1>7, <1>11, QuietHead
<1>13. PICK A : A = After(snd.format, snd.style, q) OBVIOUS
<1>14. IsSeq(A) BY <1>13, AfterFacts
<1>15. ASSUME Carried(down, 1, A) PROVE Carried(down', 0, A)
  <2>1. Carried(down', 1 - 1, A) BY <1>0, <1>7, <1>14, <1>15, MovedCarried
  <2>2. 1 - 1 = 0 OBVIOUS
  <2> QED BY <2>1, <2>2
<1>16. CASE r.crc = <<>> /\ Own(snd.format, snd.style, q, down)
  <2>1. PICK k \in 1 .. Len(down) : OwnAt(snd.format, snd.style, q, down, k) BY <1>16 DEF Own
  <2>2. k = 1
    <3>1. 1 < k => 1 \in 1 .. k - 1 OBVIOUS
    <3>2. ~(1 < k) BY <1>6, <1>7, <2>1, <3>1 DEF OwnAt
    <3> QED BY <3>2
  <2>3. snd.format # "bin32" BY <1>5, <1>16
  <2>4. down[1] = <<"crc16", sub>> BY <1>4, <2>1, <2>2, <2>3 DEF OwnAt, FirstHalf
  <2>5. r.got = sub BY <1>5, <1>7, <2>3, <2>4
  <2>6. Carried(down, 1, A) BY <1>13, <2>1, <2>2, <2>3 DEF OwnAt
  <2> QED BY <1>4, <1>7, <1>13, <1>15, <2>5, <2>6
<1>17. ~(r.crc = <<>> /\ Half(snd.format, down))
  <2>1. Half(snd.format, down) => snd.format = "bin32" BY DEF Half, HalfAt
  <2> QED BY <1>5, <2>1
<1>18. CASE MetHalf(q)
  <2>1. r.got = sub BY <1>4, <1>18 DEF MetHalf
  <2>2. Carried(down, 1, A) BY <1>4, <1>12, <1>13, <1>18, <2>1 DEF MetHalf
  <2> QED BY <1>4, <1>7, <1>13, <1>15, <2>1, <2>2
<1>19. ~MetChar(q) /\ ~MetEnd(q) BY <1>4, <1>12 DEF MetChar, MetEnd
<1> QED BY <1>10, <1>16, <1>17, <1>18, <1>19 DEF Reading

(***************************************************************************)
(* A line with damage: what reading the file comes to.                     *)
(***************************************************************************)
\* The byte that is stored is the next one of the file.
LEMMA StoreGrows ==
  ASSUME TypeInv, First, Len(files) = 1, NEW q, q = r.size + 1, q <= Total, NEW style, r.got = Sub(style, q),
         NEW end, NEW used, Store(end, used)
  PROVE  /\ First' /\ Len(files') = 1
         /\ r'.size = q /\ r'.got = <<>> /\ r'.crc = <<>> /\ r'.width = r.width /\ r'.block = r.block
         /\ r'.pc = (IF end \in {"E", "W"} THEN "zdle" ELSE "data")
         /\ IF end \in {"Q", "W"} THEN Answer("ZACK", q, used) ELSE up' = up
<1>1. PICK char, fin : char = CharAt(q) /\ fin = <<"fin", EndIn(style, q)>> OBVIOUS
<1>2. r.got = <<char, fin>> BY <1>1 DEF Sub
<1>3. Len(r.got) = 2 /\ r.got[1] = char BY <1>2
<1>4. Counted(r.got) = 1 /\ Len(r.got) - 1 = 1 BY <1>3 DEF Counted
<1>5. PICK more : more = [i \in 1 .. 1 |-> r.got[i]] OBVIOUS
<1>6. IsSeq(more) /\ Len(more) = 1 /\ more[1] = char
  <2>1. PICK got : got = r.got OBVIOUS
  <2>2. more = [i \in 1 .. 1 |-> got[i]] BY <1>5, <2>1
  <2>3. more[1] = char BY <1>3, <2>1, <2>2
  <2>4. \A s : IsSeq([i \in 1 .. 1 |-> s[i]]) /\ Len([i \in 1 .. 1 |-> s[i]]) = 1 BY TabulateFacts
  <2>5. IsSeq(more) /\ Len(more) = 1 BY <2>2, <2>4, Zenon
  <2> QED BY <2>3, <2>5
<1>7. /\ files' = [files EXCEPT ![1].data = @ \o more]
      /\ r' = [r EXCEPT !.size = @ + 1, !.got = <<>>, !.crc = <<>>,
                        !.pc = IF end \in {"E", "W"} THEN "zdle" ELSE "data"]
      /\ IF end \in {"Q", "W"} THEN Answer("ZACK", r.size + 1, used) ELSE Silent(used)
  BY <1>4, <1>5 DEF Store
<1>8. /\ r'.size = q /\ r'.got = <<>> /\ r'.crc = <<>> /\ r'.width = r.width /\ r'.block = r.block
      /\ r'.pc = (IF end \in {"E", "W"} THEN "zdle" ELSE "data")
  BY <1>7 DEF TypeInv, ReceiverOK
<1>9. IF end \in {"Q", "W"} THEN Answer("ZACK", q, used) ELSE up' = up BY <1>7 DEF Silent
<1>10. IsSeq(files) /\ 1 \in DOMAIN files
  <2>1. IsSeq(files) BY DEF TypeInv, FilesOK
  <2> QED BY <2>1, SeqFacts
<1>11. PICK file : file = files[1] OBVIOUS
<1>12. DOMAIN file = {"name", "start", "data", "closed"} /\ IsSeq(file.data) /\ file.start = EndOf(1 - 1)
  BY <1>10, <1>11 DEF TypeInv, FilesOK
<1>13. PICK new : new = [file EXCEPT !.data = @ \o more] OBVIOUS
<1>14. files' = [files EXCEPT ![1] = new] BY <1>7, <1>10, <1>11, <1>13
<1>15. Len(files') = 1 /\ files'[1] = new BY <1>10, <1>14, ExceptFacts
<1>16. new.data = file.data \o more BY <1>12, <1>13
<1>17. PICK data, k : data = file.data /\ k = Len(data) OBVIOUS
<1>18. IsSeq(data) /\ k \in Nat /\ DOMAIN data = 1 .. k BY <1>12, <1>17, SeqFacts
<1>19. /\ IsSeq(data \o more) /\ Len(data \o more) = k + 1
       /\ \A i \in 1 .. k : (data \o more)[i] = data[i]
       /\ \A i \in 1 .. 1 : (data \o more)[k + i] = more[i]
  <2>1. /\ IsSeq(data \o more) /\ Len(data \o more) = Len(data) + Len(more)
        /\ \A i \in 1 .. Len(data) : (data \o more)[i] = data[i]
        /\ \A i \in 1 .. Len(more) : (data \o more)[Len(data) + i] = more[i]
    <3>1. IsSeq(data) /\ IsSeq(more) BY <1>6, <1>18
    <3> QED BY ONLY <3>1, ConcatFacts
  <2> QED BY <1>6, <1>17, <2>1
<1>20. k + 1 = q
  <2>1. EndOf(1 - 1) = 0 BY DEF EndOf
  <2>2. r.size = file.start + k BY <1>11, <1>17 DEF TypeInv, ReceiverOK, EndOf
  <2>3. r.size = k BY <1>12, <1>18, <2>1, <2>2
  <2> QED BY <2>3
<1>21. (data \o more)[q] = char
  <2>1. 1 \in 1 .. 1 OBVIOUS
  <2>2. (data \o more)[k + 1] = more[1] BY <1>19, <2>1
  <2> QED BY <1>6, <1>20, <2>2
<1>22. \A i \in 1 .. k : i <= Total /\ data[i] = CharAt(i) BY <1>11, <1>17, <1>18 DEF First
<1>23. DOMAIN (data \o more) = 1 .. q BY <1>19, <1>20, SeqFacts
<1>24. \A i \in 1 .. q : i <= Total /\ (data \o more)[i] = CharAt(i)
  <2> SUFFICES ASSUME NEW i \in 1 .. q PROVE i <= Total /\ (data \o more)[i] = CharAt(i)
    OBVIOUS
  <2>1. i \in 1 .. k \/ i = q BY <1>18, <1>20
  <2>2. CASE i \in 1 .. k BY <1>19, <1>22, <2>2
  <2>3. CASE i = q BY <1>1, <1>21, <2>3
  <2> QED BY <2>1, <2>2, <2>3
<1>25. files'[1].data = data \o more BY <1>15, <1>16, <1>17
<1>26. First' BY <1>23, <1>24, <1>25 DEF First, Total, CharAt
<1> QED BY <1>8, <1>9, <1>15, <1>26

\* Where the first file stands after a step that reads of it.
Goes ==
  /\ snd' = snd /\ IsSeq(up') /\ TrueLine(down') /\ Len(files') = 1 /\ First'
  /\ Nothing' \/ Asked' \/ Holding' \/ Taking'

LEMMA StillFirst ==
  ASSUME First, files'[1].data = files[1].data
  PROVE  First'
BY DEF First, Total, CharAt

\* What of the file is under way is abandoned, and maybe asked for again.
LEMMA GivesUp ==
  ASSUME TypeInv, First, Len(files) = 1, IsSeq(up), NoAsk(snd.style, up), KnownLine(down), snd' = snd,
         NEW n, Moved(down, down', n), NEW used
  PROVE  /\ Quits => Goes
         /\ \A type, pos : Stays /\ Answer(type, pos, used) /\ pos = r.size => Goes
         /\ \A e : r.block = "file" /\ NoBlock(e, used) => Goes
<1>1. IsSeq(down) BY DEF KnownLine
<1>2. KnownLine(down') /\ TrueLine(down') BY <1>1, MovedTrue, KnownIsTrue
<1>3. files # <<>> BY Typing
<1>4. ASSUME Stays PROVE Len(files') = 1 /\ First' BY <1>3, <1>4, StillFirst DEF Stays
<1>5. ASSUME Quits PROVE Goes
  <2>1. Nothing' BY <1>5, QuitsNothing
  <2>2. IsSeq(up') BY <1>5, SaysNoAsk DEF Quits
  <2>3. Len(files') = 1 /\ First' BY <1>4, <1>5 DEF Quits
  <2> QED BY <1>2, <2>1, <2>2, <2>3 DEF Goes
<1>6. ASSUME NEW type, NEW pos, Stays, Answer(type, pos, used), pos = r.size PROVE Goes
  <2>1. IsSeq(up') /\ (NoAsk(snd.style, up') \/ OneAsk(snd.style, up', pos)) BY <1>6, AskAnswered
  <2>2. r'.size = pos /\ ~InFile' /\ ~Held' BY <1>6 DEF Stays
  <2>3. Nothing' \/ Asked' BY <1>2, <2>1, <2>2 DEF Nothing, Asked
  <2>4. Len(files') = 1 /\ First' BY <1>4, <1>6
  <2> QED BY <1>2, <2>1, <2>3, <2>4 DEF Goes
<1>7. ASSUME NEW e, r.block = "file", NoBlock(e, used) PROVE Goes
  <2>1. Bail(used) \/ (Go("zdle") /\ Answer("ZRPOS", r.size, used)) BY <1>7 DEF NoBlock
  <2>2. CASE Bail(used) BY <1>5, <2>2, Quit
  <2>3. CASE Go("zdle") /\ Answer("ZRPOS", r.size, used)
    <3>1. Stays BY <2>3, GoStays
    <3>2. PICK pos : pos = r.size OBVIOUS
    <3> QED BY <1>6, <2>3, <3>1, <3>2
  <2> QED BY <2>1, <2>2, <2>3
<1> QED BY <1>5, <1>6, <1>7

\* A block is stored: the file goes on, or an answer is awaited.
LEMMA BlockGoes ==
  ASSUME TypeInv, First, Len(files) = 1, IsSeq(up), NoAsk(snd.style, up), KnownLine(down), snd' = snd,
         Moved(down, down', 1), NEW q, q = r.size + 1, q \in 1 .. Total, Total \in Nat,
         r.width = Width(snd.format), r.block = "file", r.got = Sub(snd.style, q),
         Carried(down', 0, After(snd.format, snd.style, q)), NEW used, Block(used)
  PROVE  Goes
<1>1. IsSeq(down) BY DEF KnownLine
<1>2. KnownLine(down') /\ TrueLine(down') /\ IsSeq(down') BY <1>1, MovedTrue, KnownIsTrue DEF KnownLine
<1>3. PICK end : end = EndIn(snd.style, q) OBVIOUS
<1>4. Last(r.got)[2] = end
  <2>1. PICK char : char = CharAt(q) OBVIOUS
  <2>2. r.got = <<char, <<"fin", end>>>> BY <1>3, <2>1 DEF Sub
  <2>3. Len(r.got) = 2 /\ r.got[2][2] = end BY <2>2
  <2> QED BY <2>3 DEF Last
<1>5. Bail(used) \/ Store(end, used) BY <1>4 DEF Block
<1>6. CASE Bail(used) BY <1>6, Quit, GivesUp
<1>7. CASE Store(end, used)
  <2>1. /\ First' /\ Len(files') = 1
        /\ r'.size = q /\ r'.got = <<>> /\ r'.crc = <<>> /\ r'.width = r.width /\ r'.block = r.block
        /\ r'.pc = (IF end \in {"E", "W"} THEN "zdle" ELSE "data")
        /\ IF end \in {"Q", "W"} THEN Answer("ZACK", q, used) ELSE up' = up
    BY <1>7, StoreGrows
  <2>2. IsSeq(up') /\ (NoAsk(snd.style, up') \/ OneAsk(snd.style, up', q))
        /\ (snd.style # "wait" => NoAsk(snd.style, up'))
    <3>1. CASE end \in {"Q", "W"} BY <2>1, <3>1, AskAnswered
    <3>2. CASE end \notin {"Q", "W"} BY <2>1, <3>2
    <3> QED BY <3>1, <3>2
  <2>3. CASE end \in {"E", "W"}
    <3>1. ~InFile' /\ ~Held' BY <2>1, <2>3 DEF InFile, Held
    <3>2. Nothing' \/ Asked' BY <1>2, <2>1, <2>2, <3>1 DEF Nothing, Asked
    <3> QED BY <1>2, <2>1, <2>2, <3>2 DEF Goes
  <2>4. CASE end \notin {"E", "W"}
    <3>1. snd.style # "wait" BY <1>3, <2>4 DEF EndIn
    <3>2. q # Total
      <4>1. q = Total => Total - q + 1 = 1 OBVIOUS
      <4>2. end = EndAt(snd.style, Total - q + 1) BY <1>3, <3>1 DEF EndIn
      <4> QED BY <2>4, <4>1, <4>2 DEF EndAt
    <3>3. PICK q2 : q2 = q + 1 OBVIOUS
    <3>4. q2 \in 1 .. Total BY <3>2, <3>3
    <3>5. Carried(down', 0, Stream(snd.format, snd.style, q2)) BY <3>1, <3>2, <3>3, AfterIsStream
    <3>6. Ahead(snd.format, snd.style, q2, down') BY <1>2, <3>4, <3>5, CarriedAhead
    <3>7. r'.pc = "data" /\ InFile' /\ r'.size + 1 = q2 /\ r'.width = Width(snd'.format)
      BY <2>1, <2>4, <3>3 DEF InFile
    <3>8. Reading(r.size + 1)' BY <2>1, <3>6, <3>7 DEF Ahead, Reading
    <3>9. (r.size + 1 \in 1 .. Total)' BY <3>4, <3>7 DEF Total
    <3>10. Taking' BY <1>2, <2>2, <3>1, <3>7, <3>8, <3>9 DEF Taking
    <3> QED BY <1>2, <2>1, <2>2, <3>10 DEF Goes
  <2> QED BY <2>3, <2>4
<1> QED BY <1>5, <1>6, <1>7

\* A token that is passed over changes nothing.
LEMMA SkipsTaking ==
  ASSUME TypeInv, First, Len(files) = 1, IsSeq(up), Taking, Skips
  PROVE  Goes
<1>1. KnownLine(down) /\ IsSeq(down) /\ NoAsk(snd.style, up) BY DEF Taking, KnownLine
<1>2. PICK q : q = r.size + 1 OBVIOUS
<1>3. q \in 1 .. Total /\ Total \in Nat /\ Reading(q) BY <1>2, Typing DEF Taking
<1>4. /\ r' = r /\ files' = files /\ up' = up /\ snd' = snd
      /\ 1 <= Len(down) /\ down[1] \in Passed /\ Moved(down, down', 1)
  BY DEF Skips
<1>5. KnownLine(down') /\ TrueLine(down') BY <1>1, <1>4, MovedTrue, KnownIsTrue
<1>6. ~IsCrc(down[1]) /\ down[1] # ZDLE BY <1>4, Tokens, ErrorsNoCrc DEF Passed, ZDLE, XON, AGAIN
<1>7. Reading(q)'
  <2>1. CASE r.crc = <<>> /\ (Own(snd.format, snd.style, q, down) \/ Half(snd.format, down))
    <3>3. Own(snd.format, snd.style, q, down') \/ Half(snd.format, down')
      <4>1. ASSUME NEW k \in 1 .. Len(down), IsCrc(down[k]) PROVE 1 < k
        <5>1. k # 1 BY <1>6, <4>1
        <5> QED BY <5>1
      <4>2. CASE Own(snd.format, snd.style, q, down)
        <5>1. PICK k \in 1 .. Len(down) : OwnAt(snd.format, snd.style, q, down, k) BY <4>2 DEF Own
        <5>2. IsCrc(down[k]) BY <5>1 DEF OwnAt, FirstHalf, IsCrc
        <5>3. 1 < k BY <4>1, <5>2
        <5>4. k - 1 \in 1 .. Len(down') /\ OwnAt(snd.format, snd.style, q, down', k - 1)
          BY <1>1, <1>3, <1>4, <5>1, <5>3, MovedOwn
        <5> QED BY <5>4 DEF Own
      <4>3. CASE Half(snd.format, down)
        <5>1. PICK k \in 1 .. Len(down) : HalfAt(snd.format, down, k) BY <4>3 DEF Half
        <5>2. IsCrc(down[k]) BY <5>1 DEF HalfAt, IsCrc
        <5>3. 1 < k BY <4>1, <5>2
        <5>4. k - 1 \in 1 .. Len(down') /\ HalfAt(snd.format, down', k - 1)
          BY <1>1, <1>4, <5>1, <5>3, MovedHalf
        <5> QED BY <5>4 DEF Half
      <4> QED BY <2>1, <4>2, <4>3
    <3>4. Own(snd.format, snd.style, q, down)' \/ Half(snd.format, down)' BY <1>4, <3>3
    <3>5. r'.width = Width(snd'.format) /\ r'.crc = <<>> BY <1>3, <1>4, <2>1 DEF Reading
    <3> QED BY <3>4, <3>5 DEF Reading
  <2>2. CASE Hopeless
    <3>1. Hopeless' BY <1>4, <2>2 DEF Hopeless
    <3>2. r'.width = Width(snd'.format) /\ (r'.pc = "data" => r'.crc = <<>>) BY <1>3, <1>4 DEF Reading
    <3> QED BY <3>1, <3>2 DEF Reading
  <2>3. ~Lost(snd.format, snd.style, q, down) /\ ~MetChar(q)
    <3>1. 0 + 1 = 1 OBVIOUS
    <3>2. Lost(snd.format, snd.style, q, down) => down[1] = ZDLE \/ down[1] = CharAt(q)
      BY <3>1 DEF Lost, Leads
    <3> QED BY <1>4, <1>6, <3>2, CharFacts DEF MetChar
  <2>4. Quiet(down, 0) => Quiet(down', 0) BY <1>1, <1>4, QuietSkip
  <2>5. CASE MetEnd(q)
    <3>1. MetEnd(q)' BY <1>4, <2>4, <2>5 DEF MetEnd, Sub, CharAt
    <3>2. r'.width = Width(snd'.format) /\ r'.pc # "data" BY <1>3, <1>4, <2>5 DEF Reading, MetEnd
    <3> QED BY <3>1, <3>2 DEF Reading
  <2>6. CASE MetHalf(q)
    <3>1. PICK sub : sub = Sub(snd.style, q) OBVIOUS
    <3>2. down[1] # <<"crc32b", sub>> BY <1>6 DEF IsCrc
    <3>3. Quiet(down, 0) BY <2>6, <3>1, <3>2 DEF MetHalf
    <3>4. Sub(snd.style, q)' = Sub(snd.style, q) BY <1>4 DEF Sub, CharAt
    <3>5. MetHalf(q)' BY <1>4, <2>4, <2>6, <3>3, <3>4 DEF MetHalf
    <3>6. r'.width = Width(snd'.format) /\ r'.pc # "data" BY <1>3, <1>4, <2>6 DEF Reading, MetHalf
    <3> QED BY <3>5, <3>6 DEF Reading
  <2> QED BY <1>3, <2>1, <2>2, <2>3, <2>5, <2>6 DEF Reading
<1>8. Reading(r.size + 1)' BY <1>2, <1>4, <1>7
<1>9. InFile' /\ NoAsk(snd'.style, up') /\ (r.size + 1 \in 1 .. Total)'
  BY <1>1, <1>2, <1>3, <1>4 DEF Taking, InFile, Total
<1>10. Taking' BY <1>5, <1>8, <1>9 DEF Taking
<1>11. First' BY <1>4, StillFirst
<1> QED BY <1>4, <1>5, <1>10, <1>11 DEF Goes

\* A read in the data of the file.
LEMMA DataGoes ==
  ASSUME TypeInv, First, Len(files) = 1, IsSeq(up), Taking, ReadData
  PROVE  Goes
<1>1. KnownLine(down) /\ IsSeq(down) /\ NoAsk(snd.style, up) /\ r.block = "file"
  BY DEF Taking, KnownLine, InFile
<1>2. PICK q : q = r.size + 1 OBVIOUS
<1>3. q \in 1 .. Total /\ Total \in Nat /\ Reading(q) BY <1>2, Typing DEF Taking
<1>4. PICK x \in Reads(zm_read_escaped) : Taken("data", x) /\ OnData(x[1], x[3]) BY DEF ReadData
<1>5. PICK c, n, used : c = x[1] /\ n = x[2] /\ used = x[3] OBVIOUS
<1>6. r.pc = "data" /\ snd' = snd /\ c # AGAIN /\ EscapedIs(c, n) /\ Heard(c, n)
  BY <1>1, <1>4, <1>5, EscapedTaken
<1>7. Moved(down, down', n) /\ OnData(c, used) BY <1>4, <1>5, <1>6 DEF Heard
<1>8. KnownLine(down') /\ TrueLine(down') BY <1>1, <1>7, MovedTrue, KnownIsTrue
<1>9. ASSUME NEW e, NoBlock(e, used) PROVE Goes BY <1>1, <1>6, <1>7, <1>9, GivesUp
<1>10. CASE IsError(c)
  <2>1. NoBlock(c, used) BY <1>7, <1>10 DEF OnData
  <2> QED BY <1>9, <2>1
<1>11. CASE ~IsError(c)
  <2>1. PICK t : t = Append(r.got, c) OBVIOUS
  <2>2. \/ c[1] = "fin" /\ r' = [r EXCEPT !.pc = "crc", !.got = t] /\ files' = files /\ Silent(used)
        \/ NoBlock(<<"outofspace">>, used)
        \/ c[1] # "fin" /\ Keep(t, used)
    BY <1>7, <1>11, <2>1 DEF OnData
  <2>3. ASSUME files' = files, up' = up, r'.pc = IF c[1] = "fin" THEN "crc" ELSE "data", r'.got = t,
               r'.crc = r.crc, r'.width = r.width, r'.block = r.block, r'.size = r.size
        PROVE  Goes
    <3>1. Reading(q)' BY <1>1, <1>3, <1>6, <1>7, <1>11, <2>1, <2>3, TakesData
    <3>2. Reading(r.size + 1)' BY <1>2, <2>3, <3>1
    <3>3. InFile' BY <1>1, <2>3 DEF InFile
    <3>4. (r.size + 1 \in 1 .. Total)' BY <1>2, <1>3, <2>3 DEF Total
    <3>5. Taking' BY <1>1, <1>6, <1>8, <2>3, <3>2, <3>3, <3>4 DEF Taking
    <3>6. First' BY <2>3, StillFirst
    <3> QED BY <1>6, <1>8, <2>3, <3>5, <3>6 DEF Goes
  <2>4. CASE c[1] = "fin" /\ r' = [r EXCEPT !.pc = "crc", !.got = t] /\ files' = files /\ Silent(used)
    <3>1. /\ r'.pc = "crc" /\ r'.got = t /\ r'.crc = r.crc /\ r'.width = r.width /\ r'.block = r.block
          /\ r'.size = r.size /\ up' = up
      BY <2>4, AnswerSays DEF TypeInv, ReceiverOK
    <3> QED BY <2>3, <2>4, <3>1
  <2>5. CASE NoBlock(<<"outofspace">>, used) BY <1>9, <2>5
  <2>6. CASE c[1] # "fin" /\ Keep(t, used)
    <3>1. /\ files' = files /\ up' = up /\ r'.pc = "data" /\ r'.got = t /\ r'.crc = r.crc
          /\ r'.width = r.width /\ r'.block = r.block /\ r'.size = r.size
      BY <1>6, <2>6, KeepOf
    <3> QED BY <2>3, <2>6, <3>1
  <2> QED BY <2>2, <2>4, <2>5, <2>6
<1> QED BY <1>10, <1>11

\* A read in the CRC of a block of the file.
LEMMA CrcGoes ==
  ASSUME TypeInv, First, Len(files) = 1, IsSeq(up), Taking, ReadCrc
  PROVE  Goes
<1>1. KnownLine(down) /\ IsSeq(down) /\ NoAsk(snd.style, up) /\ r.block = "file"
  BY DEF Taking, KnownLine, InFile
<1>2. PICK q : q = r.size + 1 OBVIOUS
<1>3. q \in 1 .. Total /\ Total \in Nat /\ Reading(q) BY <1>2, Typing DEF Taking
<1>4. PICK x \in Reads(zm_read_escaped) : Taken("crc", x) /\ OnCrc(x[1], x[3]) BY DEF ReadCrc
<1>5. PICK c, n, used : c = x[1] /\ n = x[2] /\ used = x[3] OBVIOUS
<1>6. r.pc = "crc" /\ snd' = snd /\ Heard(c, n) BY <1>1, <1>4, <1>5, EscapedTaken
<1>7. Moved(down, down', n) /\ OnCrc(c, used) BY <1>4, <1>5, <1>6 DEF Heard
<1>8. KnownLine(down') /\ TrueLine(down') BY <1>1, <1>7, MovedTrue, KnownIsTrue
<1>9. ASSUME NEW e, NoBlock(e, used) PROVE Goes BY <1>1, <1>6, <1>7, <1>9, GivesUp
<1>10. r.width = Width(snd.format) /\ IsSeq(r.crc) BY <1>3 DEF Reading, TypeInv, ReceiverOK
<1>11. CASE IsError(c) /\ r.crc = <<>>
  <2>1. NoBlock(c, used) BY <1>7, <1>11 DEF OnCrc
  <2> QED BY <1>9, <2>1
<1>12. CASE ~(IsError(c) /\ r.crc = <<>>)
  <2>1. PICK t : t = Append(r.crc, c) OBVIOUS
  <2>2. \/ Len(t) < r.width \div 16 /\ r' = [r EXCEPT !.crc = t] /\ files' = files /\ Silent(used)
        \/ GoodCrc(t) /\ Block(used)
        \/ NoBlock(<<"badcrc">>, used)
    BY <1>7, <1>12, <2>1 DEF OnCrc
  <2>3. CASE Len(t) < r.width \div 16 /\ r' = [r EXCEPT !.crc = t] /\ files' = files /\ Silent(used)
    <3>1. /\ r'.pc = r.pc /\ r'.got = r.got /\ r'.crc = t /\ r'.width = r.width /\ r'.block = r.block
          /\ r'.size = r.size /\ up' = up
      BY <2>3, AnswerSays DEF TypeInv, ReceiverOK
    <3>2. r.crc = <<>> /\ snd.format = "bin32"
      <4>1. Len(t) = Len(r.crc) + 1 /\ Len(r.crc) \in Nat BY <1>10, <2>1, AppendFacts, SeqFacts
      <4>2. r.width \div 16 = IF snd.format = "bin32" THEN 2 ELSE 1
        <5>1. 32 \div 16 = 2 /\ 16 \div 16 = 1 OBVIOUS
        <5> QED BY <1>10, <5>1 DEF Width
      <4>3. Len(r.crc) + 1 < IF snd.format = "bin32" THEN 2 ELSE 1 BY <2>3, <4>1, <4>2
      <4>4. Len(r.crc) = 0 /\ snd.format = "bin32" BY <4>1, <4>3
      <4> QED BY <1>10, <4>4, SeqFacts
    <3>3. r'.crc = <<c>> BY <2>1, <3>1, <3>2, AppendOne
    <3>4. Reading(q)' BY <1>1, <1>3, <1>6, <3>1, <3>2, <3>3, TakesHalf
    <3>5. Reading(r.size + 1)' BY <1>2, <3>1, <3>4
    <3>6. InFile' BY <1>1, <1>6, <3>1 DEF InFile
    <3>7. (r.size + 1 \in 1 .. Total)' BY <1>2, <1>3, <3>1 DEF Total
    <3>8. Taking' BY <1>1, <1>6, <1>8, <3>1, <3>5, <3>6, <3>7 DEF Taking
    <3>9. First' BY <2>3, StillFirst
    <3> QED BY <1>6, <1>8, <2>3, <3>1, <3>8, <3>9 DEF Goes
  <2>4. CASE GoodCrc(t) /\ Block(used)
    <3>1. Append(r.crc, c) = CrcOf(r.width, r.got) BY <2>1, <2>4 DEF GoodCrc
    <3>2. /\ r.got = Sub(snd.style, q) /\ Moved(down, down', 1)
          /\ Carried(down', 0, After(snd.format, snd.style, q))
      BY <1>1, <1>3, <1>6, <3>1, TakesBlock
    <3> QED BY <1>1, <1>2, <1>3, <1>6, <1>10, <2>4, <3>2, BlockGoes
  <2>5. CASE NoBlock(<<"badcrc">>, used) BY <1>9, <2>5
  <2> QED BY <2>2, <2>3, <2>4, <2>5
<1> QED BY <1>11, <1>12

(***************************************************************************)
(* A line with damage: once a second file is created, the first is left     *)
(* alone.                                                                  *)
(***************************************************************************)
FilesChange ==
  \/ files' = files
  \/ Cleanup
  \/ \E name, used : Create(name, used)
  \/ \E end, used : Store(end, used)

LEMMA HandlersChange ==
  ASSUME NEW used
  PROVE  /\ \A pc : Go(pc) => FilesChange
         /\ \A got : Keep(got, used) => FilesChange
         /\ Bail(used) => FilesChange
         /\ Reject(used) => FilesChange
         /\ \A c : NoHeader(c, used) => FilesChange
         /\ \A e : NoBlock(e, used) => FilesChange
         /\ \A h : Dispatch(h, used) => FilesChange
         /\ Block(used) => FilesChange
<1>1. \A pc : Go(pc) => FilesChange BY DEF Go, FilesChange
<1>2. \A got : Keep(got, used) => FilesChange BY DEF Keep, FilesChange
<1>3. Bail(used) => FilesChange BY DEF Bail, FilesChange
<1>4. Reject(used) => FilesChange BY <1>1 DEF Reject
<1>5. \A c : NoHeader(c, used) => FilesChange BY <1>3, <1>4 DEF NoHeader
<1>6. \A e : NoBlock(e, used) => FilesChange BY <1>1, <1>3 DEF NoBlock
<1>7. \A h : Dispatch(h, used) => FilesChange
  <2> SUFFICES ASSUME NEW h, Dispatch(h, used) PROVE FilesChange OBVIOUS
  <2>1. Go("zdle") \/ Cleanup \/ files' = files BY DEF Dispatch
  <2> QED BY <1>1, <2>1 DEF FilesChange
<1>8. Block(used) => FilesChange BY <1>3 DEF Block, FilesChange
<1> QED BY <1>1, <1>2, <1>3, <1>4, <1>5, <1>6, <1>7, <1>8

LEMMA ReceiverChange ==
  ASSUME Receiver
  PROVE  FilesChange
<1>1. ASSUME files' = files PROVE FilesChange BY <1>1 DEF FilesChange
<1>2. CASE SkipXon BY <1>1, <1>2 DEF SkipXon
<1>3. CASE AwaitRz
  <2>1. PICK c, used : OnRz(c, used) BY <1>3 DEF AwaitRz
  <2> QED BY <2>1, HandlersChange DEF OnRz
<1>4. CASE AwaitZdle
  <2>1. PICK c, used : OnZdle(c, used) BY <1>4 DEF AwaitZdle
  <2> QED BY <2>1, HandlersChange DEF OnZdle
<1>5. CASE ReadKind
  <2>1. PICK c, used : OnKind(c, used) BY <1>5 DEF ReadKind
  <2>2. Go("zdle") \/ files' = files \/ Reject(used) BY <2>1 DEF OnKind
  <2> QED BY <1>1, <2>2, HandlersChange
<1>6. CASE ReadHex
  <2>1. PICK c, used : OnHex(c, used) BY <1>6 DEF ReadHex
  <2> QED BY <1>1, <2>1, HandlersChange DEF OnHex
<1>7. CASE ReadCrLf
  <2>1. PICK c, used : OnCrLf(c, used) BY <1>7 DEF ReadCrLf
  <2>2. Dispatch(Head(r.got), used) \/ files' = files \/ NoHeader(c, used) BY <2>1 DEF OnCrLf
  <2> QED BY <1>1, <2>2, HandlersChange
<1>8. CASE ReadBin
  <2>1. PICK c, used : OnBin(c, used) BY <1>8 DEF ReadBin
  <2>2. \/ NoHeader(c, used)
        \/ \E got : Keep(got, used)
        \/ \E h : Dispatch(h, used)
        \/ Reject(used)
    BY <2>1 DEF OnBin
  <2> QED BY <2>2, HandlersChange
<1>9. CASE ReadData
  <2>1. PICK c, used : OnData(c, used) BY <1>9 DEF ReadData
  <2>2. (\E e : NoBlock(e, used)) \/ files' = files \/ \E got : Keep(got, used) BY <2>1 DEF OnData
  <2> QED BY <1>1, <2>2, HandlersChange
<1>10. CASE ReadCrc
  <2>1. PICK c, used : OnCrc(c, used) BY <1>10 DEF ReadCrc
  <2>2. (\E e : NoBlock(e, used)) \/ files' = files \/ Block(used) BY <2>1 DEF OnCrc
  <2> QED BY <1>1, <2>2, HandlersChange
<1> QED BY <1>2, <1>3, <1>4, <1>5, <1>6, <1>7, <1>8, <1>9, <1>10 DEF Receiver

LEMMA Frozen ==
  ASSUME TypeInv, Receiver, ~(Len(files) <= 1)
  PROVE  ~(Len(files') <= 1) /\ files'[1].data = files[1].data
<1>1. PICK k : k = Len(files) OBVIOUS
<1>2. IsSeq(files) /\ k \in Nat /\ ~(k <= 1) /\ files # <<>> /\ DOMAIN files = 1 .. k
  BY <1>1, Typing, SeqFacts
<1>3. k \in DOMAIN files /\ 1 \in DOMAIN files /\ k # 1 /\ ~(k + 1 <= 1) BY <1>2
<1>4. CASE files' = files BY <1>4
<1>5. CASE Cleanup BY <1>2, <1>5, CleanupStays DEF Stays
<1>6. ASSUME NEW name, NEW used, Create(name, used), files' # files
      PROVE  ~(Len(files') <= 1) /\ files'[1].data = files[1].data
  <2>1. PICK new : files' = Append(files, new) BY <1>6 DEF Create, NotOpened
  <2>2. Len(files') = k + 1 /\ files'[1] = files[1]
    <3>1. 1 \in 1 .. Len(files) BY <1>1, <1>2, <1>3
    <3> QED BY <1>1, <1>2, <2>1, <3>1, AppendFacts
  <2> QED BY <1>3, <2>2
<1>7. ASSUME NEW end, NEW used, Store(end, used)
      PROVE  ~(Len(files') <= 1) /\ files'[1].data = files[1].data
  <2>1. PICK new : files' = [files EXCEPT ![k] = new]
    <3>1. PICK more : files' = [files EXCEPT ![k].data = @ \o more] BY <1>1, <1>7 DEF Store
    <3> QED BY <3>1
  <2>2. Len(files') = k BY <1>1, <1>2, <1>3, <2>1, ExceptFacts
  <2>3. files'[1] = files[1] BY <1>3, <2>1
  <2> QED BY <1>2, <2>2, <2>3
<1>8. FilesChange BY ReceiverChange
<1> QED BY <1>4, <1>5, <1>6, <1>7, <1>8 DEF FilesChange

\* A step of the receiver.
LEMMA ReceiverLine ==
  ASSUME TypeInv, TypeInv', FirstInv, Receiver, snd' = snd
  PROVE  FirstInv'
<1>1. CASE snd.strayed BY <1>1 DEF FirstInv
<1>2. CASE ~snd.strayed /\ ~(Len(files) <= 1)
  <2>1. ~(Len(files') <= 1) /\ files'[1].data = files[1].data BY <1>2, Frozen
  <2>2. files # <<>> BY <1>2, Typing
  <2>3. First BY <1>2, <2>2 DEF FirstInv
  <2>4. First' BY <2>1, <2>3, StillFirst
  <2> QED BY <2>1, <2>4 DEF FirstInv
<1>3. CASE ~snd.strayed /\ Len(files) <= 1
  <2>1. Line /\ (files # <<>> => First) BY <1>3 DEF FirstInv
  <2>2. CASE ~InFile /\ ~Held
    <3>1. (files' # <<>> => First') /\ (Len(files') <= 1 => Line') BY <1>3, <2>1, <2>2, OutsideLine
    <3> QED BY <3>1 DEF FirstInv
  <2>3. CASE InFile \/ Held
    <3>0. Len(files) \in Nat BY Typing
    <3>1. Len(files) = 1
      <4>1. Len(files) # 0 BY <2>1, <2>3 DEF Line, Nothing
      <4>2. PICK n : n = Len(files) OBVIOUS
      <4>3. n \in Nat /\ n # 0 /\ n <= 1 BY <1>3, <3>0, <4>1, <4>2
      <4>4. n = 1 BY ONLY <4>3
      <4> QED BY <4>2, <4>4
    <3>2. files # <<>> BY <3>1, Typing
    <3>3. First BY <2>1, <3>2
    <3>4. Holding \/ Taking BY <2>1, <2>3, <3>1 DEF Line, Nothing, Asked, Coming
    <3>5. IsSeq(up) /\ HexWidth /\ (snd.pc = "data" => snd.file = 1) /\ TrueLine(down) /\ IsSeq(down)
      BY <2>1 DEF Line, TrueLine
    <3>6. HexWidth' BY <3>5, WidthKept
    <3>7. Goes
      <4>1. CASE Holding
        <5>1. /\ \E n : Moved(down, down', n)
              /\ Quits \/ (files' = files /\ up' = up)
              /\ Nothing' \/ Holding' \/ Taking'
          BY <3>5, <4>1, HoldingStep
        <5>2. TrueLine(down') BY <3>5, <5>1, MovedTrue
        <5>3. IsSeq(up') BY <3>5, <5>1, SaysNoAsk DEF Quits
        <5>4. Len(files') = 1 /\ files'[1].data = files[1].data BY <3>1, <3>2, <5>1 DEF Quits, Stays
        <5>5. First' BY <3>3, <5>4, StillFirst
        <5> QED BY <5>1, <5>2, <5>3, <5>4, <5>5 DEF Goes
      <4>2. CASE Taking
        <5>1. SkipXon \/ ReadData \/ ReadCrc
          <6>1. r.pc \in {"data", "crc"} BY <4>2 DEF Taking, InFile
          <6> QED BY <6>1 DEF Receiver, AwaitRz, AwaitZdle, ReadKind, ReadHex, ReadCrLf, ReadBin, Taken
        <5>2. SkipXon => Skips BY <3>5, SkipsXon
        <5> QED BY <3>1, <3>3, <3>5, <4>2, <5>1, <5>2, SkipsTaking, DataGoes, CrcGoes
      <4> QED BY <3>4, <4>1, <4>2
    <3>8. Len(files') # 0 BY <3>7 DEF Goes
    <3>9. Line' BY <3>5, <3>6, <3>7, <3>8, LineKept DEF Goes
    <3> QED BY <3>7, <3>9 DEF FirstInv, Goes
  <2> QED BY <2>2, <2>3
<1> QED BY <1>1, <1>2, <1>3

(***************************************************************************)
(* A line with damage: steps of the sender.                                *)
(***************************************************************************)
LEMMA ReadingStays ==
  ASSUME IsSeq(down), Moved(down, down', 0), Total \in Nat, NEW q \in 1 .. Total, Reading(q),
         r' = r, snd'.format = snd.format, snd'.style = snd.style
  PROVE  Reading(q)'
<1>0. Len(down) \in Nat /\ Len(down') \in Nat /\ Len(down') >= Len(down) - 0 BY SeqFacts DEF Moved
<1>1. r'.width = Width(snd'.format) /\ (r'.pc = "data" => r'.crc = <<>>) BY DEF Reading
<1>2. /\ Own(snd.format, snd.style, q, down) => Own(snd.format, snd.style, q, down')
      /\ Half(snd.format, down) => Half(snd.format, down')
      /\ Lost(snd.format, snd.style, q, down) => Lost(snd.format, snd.style, q, down')
  BY MovedAhead
<1>3. \A o \in 0 .. Len(down) : Quiet(down, o) => Quiet(down', o)
  <2> SUFFICES ASSUME NEW o \in 0 .. Len(down), Quiet(down, o) PROVE Quiet(down', o)
    OBVIOUS
  <2>1. o \in Nat /\ 0 <= o /\ o <= Len(down) /\ o - 0 = o BY <1>0
  <2>2. Quiet(down', o - 0) BY <2>1, MovedQuiet
  <2> QED BY <2>1, <2>2
<1>4. \A i \in 1 .. Len(down) : down'[i] = down[i] /\ i <= Len(down')
  <2> SUFFICES ASSUME NEW i \in 1 .. Len(down) PROVE down'[i] = down[i] /\ i <= Len(down')
    OBVIOUS
  <2>1. Len(down) - 0 = Len(down) /\ i + 0 = i BY <1>0
  <2>2. down'[i] = down[i + 0] BY <2>1 DEF Moved
  <2> QED BY <1>0, <2>1, <2>2
<1>5. Sub(snd.style, q)' = Sub(snd.style, q) /\ CharAt(q)' = CharAt(q) /\ EndIn(snd.style, q)' = EndIn(snd.style, q)
      /\ After(snd.format, snd.style, q)' = After(snd.format, snd.style, q)
  BY DEF Sub, CharAt, EndIn, Total, After
<1>6. CASE r.crc = <<>> /\ Own(snd.format, snd.style, q, down) BY <1>1, <1>2, <1>6 DEF Reading
<1>7. CASE r.crc = <<>> /\ Half(snd.format, down) BY <1>1, <1>2, <1>7 DEF Reading
<1>8. CASE r.pc = "data" /\ r.got = <<>> /\ Lost(snd.format, snd.style, q, down)
  BY <1>1, <1>2, <1>8 DEF Reading
<1>9. CASE MetChar(q)
  <2>1. 1 \in 1 .. Len(down) /\ 2 \in 1 .. Len(down) /\ 2 \in 0 .. Len(down) BY <1>0, <1>9 DEF MetChar
  <2>2. Quiet(down', 2) BY <1>3, <1>9, <2>1 DEF MetChar
  <2>3. down'[1] = down[1] /\ down'[2] = down[2] /\ 2 <= Len(down') BY <1>4, <2>1
  <2>4. MetChar(q)' BY <1>5, <1>9, <2>2, <2>3 DEF MetChar
  <2> QED BY <1>1, <2>4 DEF Reading
<1>10. CASE MetEnd(q)
  <2>1. 0 \in 0 .. Len(down) BY <1>0
  <2>2. Quiet(down', 0) BY <1>3, <1>10, <2>1 DEF MetEnd
  <2>3. MetEnd(q)' BY <1>5, <1>10, <2>2 DEF MetEnd
  <2> QED BY <1>1, <2>3 DEF Reading
<1>11. CASE MetHalf(q)
  <2>1. PICK sub, A : sub = Sub(snd.style, q) /\ A = After(snd.format, snd.style, q) OBVIOUS
  <2>2. Quiet(down, 0) => Quiet(down', 0)
    <3>1. 0 \in 0 .. Len(down) BY <1>0
    <3> QED BY <1>3, <3>1
  <2>3. ASSUME 1 <= Len(down), down[1] = <<"crc32b", sub>>, Carried(down, 1, A)
        PROVE  1 <= Len(down') /\ down'[1] = <<"crc32b", sub>> /\ Carried(down', 1, A)
    <3>1. 1 \in 1 .. Len(down) BY <1>0, <2>3
    <3>2. IsSeq(A) BY <2>1, AfterFacts
    <3>3. Carried(down', 1 - 0, A) BY <2>3, <3>1, <3>2, MovedCarried
    <3>4. 1 - 0 = 1 OBVIOUS
    <3> QED BY <1>4, <2>3, <3>1, <3>3, <3>4
  <2>4. MetHalf(q)' BY <1>5, <1>11, <2>1, <2>2, <2>3 DEF MetHalf
  <2> QED BY <1>1, <2>4 DEF Reading
<1>12. CASE Hopeless
  <2>1. Hopeless' BY <1>12 DEF Hopeless
  <2> QED BY <1>1, <2>1 DEF Reading
<1> QED BY <1>6, <1>7, <1>8, <1>9, <1>10, <1>11, <1>12 DEF Reading

\* More on the line to the receiver, an answer less on the one to the sender.
LEMMA SenderKeeps ==
  ASSUME TypeInv, Line, Len(files) <= 1, r' = r, files' = files, Moved(down, down', 0),
         snd'.format = snd.format, snd'.style = snd.style, snd'.pc = "data" => snd'.file = 1,
         up' = up \/ (up # <<>> /\ up' = Tail(up))
  PROVE  Line'
<1>1. IsSeq(up) /\ TrueLine(down) /\ HexWidth /\ IsSeq(down) BY DEF Line, TrueLine
<1>2. TrueLine(down') /\ (KnownLine(down) => KnownLine(down')) BY <1>1, MovedTrue
<1>3. HexWidth' BY <1>1 DEF HexWidth
<1>4. (InFile' <=> InFile) /\ (Held' <=> Held) BY DEF InFile, Held
<1>5. /\ IsSeq(up') /\ (NoAsk(snd.style, up) => NoAsk(snd.style, up'))
      /\ OneAsk(snd.style, up, r.size) => NoAsk(snd.style, up') \/ OneAsk(snd.style, up', r.size)
  <2>1. CASE up' = up BY <1>1, <2>1
  <2>2. CASE up # <<>> /\ up' = Tail(up)
    <3>1. PICK rest, e, pos : rest = Tail(up) /\ e = Head(up) /\ pos = r.size OBVIOUS
    <3>2. /\ IsSeq(rest)
          /\ NoAsk(snd.style, up) => NoAsk(snd.style, rest)
          /\ OneAsk(snd.style, up, pos) => NoAsk(snd.style, rest) \/ OneAsk(snd.style, rest, pos)
      BY <1>1, <2>2, <3>1, TailAsk
    <3> QED BY <2>2, <3>1, <3>2
  <2> QED BY <2>1, <2>2
<1>6. Nothing => Nothing' BY <1>2, <1>4, <1>5 DEF Nothing
<1>7. Asked => Nothing' \/ Asked' BY <1>2, <1>4, <1>5 DEF Nothing, Asked
<1>8. PICK q : q = r.size + 1 OBVIOUS
<1>9. Total \in Nat BY Typing
<1>10. q \in 1 .. Total => (r.size + 1 \in 1 .. Total)' BY <1>8 DEF Total
<1>11. ASSUME Coming PROVE Nothing' \/ Coming'
  <2>1. q \in 1 .. Total /\ Granted(snd.format, snd.style, q, down) /\ NoAsk(snd.style, up)
    BY <1>8, <1>11 DEF Coming
  <2>2. KnownLine(down') \/ Granted(snd.format, snd.style, q, down') BY <1>1, <1>9, <2>1, GrantMoves
  <2>3. KnownLine(down') \/ Granted(snd.format, snd.style, r.size + 1, down)' BY <1>8, <2>2
  <2>4. NoAsk(snd'.style, up') /\ ~InFile' /\ ~Held' BY <1>4, <1>5, <1>11, <2>1 DEF Coming
  <2> QED BY <1>10, <2>1, <2>3, <2>4 DEF Coming, Nothing
<1>12. ASSUME Holding PROVE Holding'
  <2>1. q \in 1 .. Total /\ Ahead(snd.format, snd.style, q, down) /\ NoAsk(snd.style, up)
    BY <1>8, <1>12 DEF Holding
  <2>2. Ahead(snd.format, snd.style, q, down') BY <1>1, <1>9, <2>1, MovedAhead DEF Ahead
  <2>3. Ahead(snd.format, snd.style, r.size + 1, down)' BY <1>8, <2>2
  <2>4. NoAsk(snd'.style, up') BY <1>5, <2>1
  <2> QED BY <1>2, <1>4, <1>10, <1>12, <2>1, <2>3, <2>4 DEF Holding
<1>13. ASSUME Taking PROVE Taking'
  <2>1. q \in 1 .. Total /\ Reading(q) /\ NoAsk(snd.style, up) BY <1>8, <1>13 DEF Taking
  <2>2. Reading(q)' BY <1>1, <1>9, <2>1, ReadingStays
  <2>3. Reading(r.size + 1)' BY <1>8, <2>2
  <2>4. NoAsk(snd'.style, up') BY <1>5, <2>1
  <2> QED BY <1>2, <1>4, <1>10, <1>13, <2>1, <2>3, <2>4 DEF Taking
<1>14. Len(files') = 0 => Nothing' BY <1>6 DEF Line
<1>15. Len(files') = 1 => Nothing' \/ Asked' \/ Coming' \/ Holding' \/ Taking'
  BY <1>6, <1>7, <1>11, <1>12, <1>13 DEF Line
<1> QED BY <1>2, <1>3, <1>5, <1>14, <1>15 DEF Line

\* The sender sends from the position it was asked for.
Resumes ==
  /\ up # <<>> /\ up' = Tail(up) /\ IsAsk(snd.style, Head(up))
  /\ snd.pc \in {"file", "data"} /\ (snd.pc = "file" => Len(files) = snd.file)
  /\ SendFrom(Head(up)[2])

\* It sends no data, or nothing.
Otherwise ==
  /\ Moved(down, down', 0) /\ (up' = up \/ (up # <<>> /\ up' = Tail(up)))
  /\ snd'.pc = "data" => snd.pc = "data" /\ snd'.file = snd.file

LEMMA NotMoved == ASSUME IsSeq(down), down' = down PROVE Moved(down, down', 0)
<1>1. PICK k : k = Len(down) OBVIOUS
<1>2. k \in Nat BY <1>1, SeqFacts
<1>3. k - 0 = k /\ 0 \in 0 .. k /\ k - 0 + 1 = k + 1 BY <1>2
<1>4. \A i \in 1 .. k : i + 0 = i BY <1>2
<1>5. k >= k - 0 /\ ~ \E i \in k + 1 .. k : TRUE BY <1>2
<1> QED BY <1>1, <1>3, <1>4, <1>5 DEF Moved

LEMMA PlainTransmit ==
  ASSUME IsSeq(down), NEW state, NEW last, NEW prefix, IsSeq(last), IsSeq(prefix), NEW all, all = prefix \o last,
         PlainLine(all), Transmit(state, last, prefix)
  PROVE  snd' = [state EXCEPT !.last = last] /\ Moved(down, down', 0)
<1>1. snd' = [state EXCEPT !.last = last] /\ \E d, g : Arrives(down, down', prefix \o last, d, g)
  BY TransmitLine
<1>2. PICK d, g : Arrives(down, down', all, d, g) BY <1>1
<1>3. Moved(down, down', 0) BY <1>2, ArrivesPlain
<1> QED BY <1>1, <1>3

LEMMA NoPrefix == ASSUME NEW last, IsSeq(last) PROVE IsSeq(<<>>) /\ <<>> \o last = last
<1>1. PICK S : last \in Seq(S) BY DEF IsSeq
<1> QED BY <1>1, EmptyIsSeq

LEMMA StartSays ==
  ASSUME TypeInv, IsSeq(down), Start
  PROVE  Otherwise /\ snd'.strayed = snd.strayed /\ snd'.format = snd.format /\ snd'.style = snd.style
<1>1. PICK last : last = HexHeader("ZRQINIT", 0) OBVIOUS
<1>2. PICK state : state = [snd EXCEPT !.pc = "init"] OBVIOUS
<1>3. PICK prefix : prefix = <<Rz, CR>> OBVIOUS
<1>4. Transmit(state, last, prefix) /\ up' = up BY <1>1, <1>2, <1>3 DEF Start
<1>5. PlainLine(last) BY <1>1, HexPlain DEF Types
<1>6. IsSeq(last) BY <1>5 DEF PlainLine
<1>7. prefix \o last = Cons(Rz, Cons(CR, last)) BY <1>3, <1>6, InFront2
<1>8. Plain(Rz) /\ Plain(CR) BY Tokens, NoCrc
<1>9. PlainLine(Cons(CR, last)) BY <1>5, <1>8, ConsPlain
<1>10. PlainLine(prefix \o last) BY <1>7, <1>8, <1>9, ConsPlain
<1>11. IsSeq(prefix) BY <1>3, TuplesAreSeqs
<1>12. snd' = [state EXCEPT !.last = last] /\ Moved(down, down', 0) BY <1>4, <1>6, <1>10, <1>11, PlainTransmit
<1>13. /\ snd'.pc = "init" /\ snd'.strayed = snd.strayed /\ snd'.format = snd.format /\ snd'.style = snd.style
  BY <1>2, <1>12 DEF TypeInv, SenderOK, Sends
<1> QED BY <1>4, <1>12, <1>13 DEF Otherwise

LEMMA NextFileSays ==
  ASSUME TypeInv, IsSeq(down), NextFile
  PROVE  /\ Moved(down, down', 0) /\ snd'.pc # "data"
         /\ snd'.strayed = snd.strayed /\ snd'.format = snd.format /\ snd'.style = snd.style
<1>1. CASE snd.file < snd.count
  <2>1. PICK n : n = snd.file + 1 OBVIOUS
  <2>2. PICK last : last = BinHeader(snd.format, "ZFILE", 0) \o Subpacket(snd.format, <<"name", n>>, "W") OBVIOUS
  <2>3. PICK state : state = [snd EXCEPT !.pc = "file", !.file = n] OBVIOUS
  <2>4. Transmit(state, last, <<>>) BY <1>1, <2>1, <2>2, <2>3 DEF NextFile, SendFile
  <2>5. PlainLine(last) BY <2>2, OfferPlain
  <2>6. IsSeq(last) /\ IsSeq(<<>>) /\ <<>> \o last = last BY <2>5, NoPrefix DEF PlainLine
  <2>7. snd' = [state EXCEPT !.last = last] /\ Moved(down, down', 0) BY <2>4, <2>5, <2>6, PlainTransmit
  <2> QED BY <2>3, <2>7 DEF TypeInv, SenderOK, Sends
<1>2. CASE ~(snd.file < snd.count)
  <2>2. PICK last : last = HexHeader("ZFIN", 0) OBVIOUS
  <2>3. PICK state : state = [snd EXCEPT !.pc = "fin"] OBVIOUS
  <2>4. Transmit(state, last, <<>>) BY <1>2, <2>2, <2>3 DEF NextFile
  <2>5. PlainLine(last) BY <2>2, HexPlain DEF Types
  <2>6. IsSeq(last) /\ IsSeq(<<>>) /\ <<>> \o last = last BY <2>5, NoPrefix DEF PlainLine
  <2>7. snd' = [state EXCEPT !.last = last] /\ Moved(down, down', 0) BY <2>4, <2>5, <2>6, PlainTransmit
  <2> QED BY <2>3, <2>7 DEF TypeInv, SenderOK, Sends
<1> QED BY <1>1, <1>2

LEMMA TimeoutSays ==
  ASSUME TypeInv, IsSeq(down), Timeout
  PROVE  snd'.strayed \/ (Otherwise /\ snd'.strayed = snd.strayed /\ snd'.format = snd.format /\ snd'.style = snd.style)
<1>1. CASE snd.tries < MaxTries
  <2>1. Transmit([snd EXCEPT !.tries = @ + 1, !.strayed = TRUE], snd.last, <<>>) BY <1>1 DEF Timeout
  <2>2. snd' = [[snd EXCEPT !.tries = @ + 1, !.strayed = TRUE] EXCEPT !.last = snd.last] BY <2>1 DEF Transmit
  <2>3. snd'.strayed = TRUE BY <2>2 DEF TypeInv, SenderOK, Sends
  <2> QED BY <2>3
<1>2. CASE ~(snd.tries < MaxTries)
  <2>1. snd' = [snd EXCEPT !.pc = "aborted"] /\ down' = down \o [i \in 1 .. 8 |-> ZDLE] /\ up' = up
    BY <1>2 DEF Timeout
  <2>2. PICK eight : eight = [i \in 1 .. 8 |-> ZDLE] OBVIOUS
  <2>3. eight \in Seq({ZDLE}) BY <2>2
  <2>4. IsSeq(eight) BY <2>3 DEF IsSeq
  <2>5. \A i \in DOMAIN eight : eight[i] = ZDLE BY <2>2
  <2>6. PlainLine(eight) BY <2>4, <2>5, Tokens, NoCrc DEF PlainLine
  <2>7. PICK g, d : g = 0 /\ d = Len(eight) + 1 OBVIOUS
  <2>8. Spoiled(eight, eight, d, g) BY <2>4, <2>7, Undamaged
  <2>9. down' = down \o eight BY <2>1, <2>2
  <2>10. Arrives(down, down', eight, d, g) BY <2>4, <2>8, <2>9, SpoiledArrives
  <2>11. Moved(down, down', 0) BY <2>6, <2>10, ArrivesPlain
  <2>12. snd'.pc = "aborted" /\ snd'.strayed = snd.strayed /\ snd'.format = snd.format /\ snd'.style = snd.style
    BY <2>1 DEF TypeInv, SenderOK, Sends
  <2> QED BY <2>1, <2>11, <2>12 DEF Otherwise
<1> QED BY <1>1, <1>2

LEMMA AnsweredSays ==
  ASSUME TypeInv, IsSeq(down), Answered, ~snd'.strayed
  PROVE  /\ Otherwise \/ Resumes
         /\ ~snd.strayed /\ snd'.format = snd.format /\ snd'.style = snd.style
<1> DEFINE done == [snd EXCEPT !.pc = "done"]  again == [snd EXCEPT !.strayed = TRUE]
           Repeats == Transmit(again, snd.last, <<>>)
<1>1. up # <<>> /\ up' = Tail(up) BY DEF Answered
<1>2. PICK head : head = Head(up) OBVIOUS
<1>3. PICK type, pos :
        /\ type = head[1] /\ pos = head[2]
        /\ CASE type = "ZRINIT" /\ snd.pc \in {"init", "data"} -> NextFile
             [] type = "ZRPOS" /\ snd.pc \in {"file", "data"} -> SendFrom(pos)
             [] type = "ZACK" /\ snd.pc = "data" /\ snd.style = "wait" -> SendFrom(pos)
             [] type = "ZFIN" /\ snd.pc = "fin" -> snd' = done /\ UNCHANGED <<down, faults>>
             [] OTHER -> \/ UNCHANGED <<snd, down, faults>>
                         \/ type = "ZNAK" /\ snd.pc \in {"init", "file", "data", "fin"} /\ Repeats
  BY <1>2 DEF Answered
<1>4. Repeats => snd'.strayed
  <2>1. ASSUME Repeats PROVE snd'.strayed
    <3>1. snd' = [again EXCEPT !.last = snd.last] BY <2>1 DEF Transmit
    <3>2. snd'.strayed = TRUE BY <3>1 DEF TypeInv, SenderOK, Sends
    <3> QED BY <3>2
  <2> QED BY <2>1
<1>5. snd' = done => snd'.pc = "done" /\ snd'.strayed = snd.strayed /\ snd'.format = snd.format /\ snd'.style = snd.style
  BY DEF TypeInv, SenderOK, Sends
<1> HIDE DEF done, again, Repeats
<1>6. CASE type = "ZRINIT" /\ snd.pc \in {"init", "data"}
  <2>1. NextFile BY <1>3, <1>6
  <2> QED BY <1>1, <2>1, NextFileSays DEF Otherwise
<1>7. CASE SendFrom(pos) /\ IsAsk(snd.style, head) /\ snd.pc \in {"file", "data"}
  <2>1. PICK stray : stray = (snd.strayed \/ (snd.pc = "file" /\ Len(files) # snd.file)) OBVIOUS
  <2>2. PICK last : snd' = [[snd EXCEPT !.pc = "data", !.strayed = stray] EXCEPT !.last = last]
    BY <1>7, <2>1 DEF SendFrom, Transmit
  <2>3. snd'.strayed = stray /\ snd'.format = snd.format /\ snd'.style = snd.style
    BY <2>2 DEF TypeInv, SenderOK, Sends
  <2>4. ~stray BY <2>3
  <2>5. ~snd.strayed /\ (snd.pc = "file" => Len(files) = snd.file) BY <2>1, <2>4
  <2>6. SendFrom(Head(up)[2]) BY <1>2, <1>3, <1>7
  <2> QED BY <1>1, <1>2, <1>7, <2>3, <2>5, <2>6 DEF Resumes
<1>8. CASE type = "ZRPOS" /\ snd.pc \in {"file", "data"}
  <2>1. SendFrom(pos) BY <1>3, <1>8
  <2> QED BY <1>3, <1>7, <1>8, <2>1 DEF IsAsk
<1>9. CASE type = "ZACK" /\ snd.pc = "data" /\ snd.style = "wait"
  <2>1. SendFrom(pos) BY <1>3, <1>9
  <2> QED BY <1>3, <1>7, <1>9, <2>1 DEF IsAsk
<1>10. CASE type = "ZFIN" /\ snd.pc = "fin"
  <2>1. snd' = done /\ down' = down BY <1>3, <1>10
  <2> QED BY <1>1, <1>5, <2>1, NotMoved DEF Otherwise
<1>11. CASE ~ \/ type = "ZRINIT" /\ snd.pc \in {"init", "data"}
              \/ type = "ZRPOS" /\ snd.pc \in {"file", "data"}
              \/ type = "ZACK" /\ snd.pc = "data" /\ snd.style = "wait"
              \/ type = "ZFIN" /\ snd.pc = "fin"
  <2>1. snd' = snd /\ down' = down BY <1>3, <1>4, <1>11
  <2> QED BY <1>1, <2>1, NotMoved DEF Otherwise
<1> QED BY <1>6, <1>8, <1>9, <1>10, <1>11

LEMMA SenderSays ==
  ASSUME TypeInv, IsSeq(down), Sender, ~snd'.strayed
  PROVE  /\ Otherwise \/ Resumes
         /\ ~snd.strayed /\ snd'.format = snd.format /\ snd'.style = snd.style
BY StartSays, AnsweredSays, TimeoutSays DEF Sender

\* The first file is resumed where it was asked for, and only then.
LEMMA ResumesLine ==
  ASSUME TypeInv, Line, Len(files) <= 1, r' = r, files' = files, Resumes,
         snd'.format = snd.format, snd'.style = snd.style
  PROVE  Line'
<1>1. IsSeq(up) /\ HexWidth /\ IsSeq(down) /\ TrueLine(down) BY DEF Line, TrueLine
<1>2. PICK head, rest : head = Head(up) /\ rest = Tail(up) OBVIOUS
<1>3. up # <<>> /\ up' = rest /\ IsAsk(snd.style, head) /\ SendFrom(head[2]) BY <1>2 DEF Resumes
<1>4. ~NoAsk(snd.style, up) BY <1>1, <1>2, <1>3, TailAsk
<1>5. PICK n : n = Len(files) OBVIOUS
<1>6. n = 1
  <2>1. n # 0 BY <1>4, <1>5 DEF Line, Nothing
  <2>2. n \in Nat /\ n <= 1 BY <1>5, Typing
  <2> QED BY ONLY <2>1, <2>2
<1>7. Asked BY <1>4, <1>5, <1>6 DEF Line, Nothing, Coming, Holding, Taking
<1>8. PICK pos : pos = r.size OBVIOUS
<1>9. head[2] = pos /\ NoAsk(snd.style, rest) /\ IsSeq(rest)
  <2>1. OneAsk(snd.style, up, pos) BY <1>7, <1>8 DEF Asked
  <2> QED BY <1>1, <1>2, <1>3, <2>1, TailAsk
<1>10. snd.file = 1 BY <1>5, <1>6 DEF Resumes, Line
<1>11. pos \in Nat /\ Total \in Nat BY <1>8, Typing
<1>12. PICK last : last = DataFrom(snd.format, snd.style, 1, pos) OBVIOUS
<1>13. PICK state : state = [snd EXCEPT !.pc = "data", !.strayed = @ \/ (snd.pc = "file" /\ Len(files) # snd.file)]
  OBVIOUS
<1>14. Transmit(state, last, <<>>) BY <1>3, <1>9, <1>10, <1>12, <1>13 DEF SendFrom
<1>15. snd'.file = 1
  <2>1. snd' = [state EXCEPT !.last = last] BY <1>14 DEF Transmit
  <2> QED BY <1>10, <1>13, <2>1 DEF TypeInv, SenderOK, Sends
<1>16. KnownLine(down) /\ ~InFile' /\ ~Held' BY <1>7 DEF Asked, InFile, Held
<1>17. PICK q : q = pos + 1 OBVIOUS
<1>18. TrueLine(down') /\ (KnownLine(down') \/ (q \in 1 .. Total /\ Granted(snd.format, snd.style, q, down')))
  <2>1. CASE pos < Total
    <3>1. q \in 1 .. Total BY <1>11, <1>17, <2>1
    <3>2. PICK S, h : S = Stream(snd.format, snd.style, q) /\ h = Header("ZDATA", pos) OBVIOUS
    <3>3. last = BinAll(snd.format, h, S) BY <1>11, <1>12, <1>17, <2>1, <3>2, DataSent
    <3>4. IsSeq(last)
      <4>1. IsSeq(S) BY <1>11, <3>1, <3>2, StreamKnown DEF KnownLine
      <4>2. PICK m : m = 4 + Halves(snd.format) OBVIOUS
      <4>3. BinIs(last, S, snd.format, h, m) BY <3>3, <4>1, <4>2, BinAt
      <4> QED BY <4>3 DEF BinIs
    <3>5. IsSeq(<<>>) /\ <<>> \o last = last BY <3>4, NoPrefix
    <3>6. \E d, g : Arrives(down, down', <<>> \o last, d, g) BY <1>1, <1>14, <3>4, <3>5, TransmitLine
    <3>7. PICK d, g : Arrives(down, down', last, d, g) BY <3>5, <3>6
    <3>8. Arrives(down, down', BinAll(snd.format, Header("ZDATA", pos), Stream(snd.format, snd.style, q)), d, g)
      BY <3>2, <3>3, <3>7
    <3>9. TrueLine(down') /\ (KnownLine(down') \/ Granted(snd.format, snd.style, q, down'))
      BY <1>11, <1>16, <3>1, <3>8, GrantArrives
    <3> QED BY <3>1, <3>9
  <2>2. CASE ~(pos < Total)
    <3>1. last = HexHeader("ZEOF", pos) BY <1>11, <1>12, <2>2, EndSent
    <3>2. PlainLine(last) BY <3>1, HexPlain DEF Types
    <3>3. IsSeq(last) /\ IsSeq(<<>>) /\ <<>> \o last = last BY <3>2, NoPrefix DEF PlainLine
    <3>4. Moved(down, down', 0) BY <1>1, <1>14, <3>2, <3>3, PlainTransmit
    <3> QED BY <1>1, <1>16, <3>4, MovedTrue
  <2> QED BY <2>1, <2>2
<1>19. NoAsk(snd'.style, up') /\ IsSeq(up') BY <1>3, <1>9
<1>20. Nothing' \/ Coming'
  <2>1. CASE KnownLine(down') BY <1>16, <1>19, <2>1 DEF Nothing
  <2>2. CASE q \in 1 .. Total /\ Granted(snd.format, snd.style, q, down')
    <3>1. (r.size + 1 \in 1 .. Total)' /\ Granted(snd.format, snd.style, r.size + 1, down)'
      BY <1>8, <1>17, <2>2 DEF Total
    <3> QED BY <1>16, <1>19, <3>1 DEF Coming
  <2> QED BY <1>18, <2>1, <2>2
<1>21. HexWidth' /\ Len(files') = 1 /\ Len(files') # 0 BY <1>1, <1>5, <1>6 DEF HexWidth
<1> QED BY <1>15, <1>18, <1>19, <1>20, <1>21 DEF Line

\* That the sender strayed is not forgotten.
LEMMA StrayedStays ==
  ASSUME TypeInv, Sender
  PROVE  snd.strayed => snd'.strayed
<1>1. DOMAIN snd = {"pc", "file", "count", "style", "format", "last", "tries", "strayed"}
  BY DEF TypeInv, SenderOK, Sends
<1>2. ASSUME NEW state, NEW last, NEW prefix, Transmit(state, last, prefix), DOMAIN state = DOMAIN snd
      PROVE  snd'.strayed = state.strayed
  BY <1>1, <1>2 DEF Transmit
<1>3. ASSUME NextFile PROVE snd'.strayed = snd.strayed
  <2>1. CASE snd.file < snd.count BY <1>1, <1>3, <2>1 DEF NextFile, SendFile, Transmit
  <2>2. CASE ~(snd.file < snd.count) BY <1>1, <1>3, <2>2 DEF NextFile, Transmit
  <2> QED BY <2>1, <2>2
<1>4. ASSUME NEW pos, SendFrom(pos), snd.strayed PROVE snd'.strayed
  <2>1. PICK stray : stray = (snd.strayed \/ (snd.pc = "file" /\ Len(files) # snd.file)) OBVIOUS
  <2>2. PICK last : snd' = [[snd EXCEPT !.pc = "data", !.strayed = stray] EXCEPT !.last = last]
    BY <1>4, <2>1 DEF SendFrom, Transmit
  <2>3. snd'.strayed = stray BY <1>1, <2>2
  <2>4. stray BY <1>4, <2>1
  <2> QED BY <2>3, <2>4
<1>5. CASE Start BY <1>1, <1>5 DEF Start, Transmit
<1>6. CASE Answered
  <2> DEFINE done == [snd EXCEPT !.pc = "done"]  again == [snd EXCEPT !.strayed = TRUE]
  <2>1. snd' = done => snd'.strayed = snd.strayed BY <1>1
  <2>2. Transmit(again, snd.last, <<>>) => snd'.strayed = TRUE BY <1>1 DEF Transmit
  <2>3. \/ NextFile \/ \E pos : SendFrom(pos)
        \/ snd' = done \/ snd' = snd \/ Transmit(again, snd.last, <<>>)
    <3> HIDE DEF done, again
    <3>1. PICK type \in {Head(up)[1]}, pos \in {Head(up)[2]} :
            CASE type = "ZRINIT" /\ snd.pc \in {"init", "data"} -> NextFile
              [] type = "ZRPOS" /\ snd.pc \in {"file", "data"} -> SendFrom(pos)
              [] type = "ZACK" /\ snd.pc = "data" /\ snd.style = "wait" -> SendFrom(pos)
              [] type = "ZFIN" /\ snd.pc = "fin" -> snd' = done /\ UNCHANGED <<down, faults>>
              [] OTHER -> \/ UNCHANGED <<snd, down, faults>>
                          \/ /\ type = "ZNAK" /\ snd.pc \in {"init", "file", "data", "fin"}
                             /\ Transmit(again, snd.last, <<>>)
      BY <1>6 DEF Answered, done, again
    <3>2. CASE type = "ZRINIT" /\ snd.pc \in {"init", "data"} BY <3>1, <3>2
    <3>3. CASE type = "ZRPOS" /\ snd.pc \in {"file", "data"} BY <3>1, <3>3
    <3>4. CASE type = "ZACK" /\ snd.pc = "data" /\ snd.style = "wait" BY <3>1, <3>4
    <3>5. CASE type = "ZFIN" /\ snd.pc = "fin" BY <3>1, <3>5
    <3>6. CASE ~ \/ type = "ZRINIT" /\ snd.pc \in {"init", "data"}
                 \/ type = "ZRPOS" /\ snd.pc \in {"file", "data"}
                 \/ type = "ZACK" /\ snd.pc = "data" /\ snd.style = "wait"
                 \/ type = "ZFIN" /\ snd.pc = "fin"
      BY <3>1, <3>6
    <3> QED BY <3>2, <3>3, <3>4, <3>5, <3>6
  <2> HIDE DEF done, again
  <2> QED BY <1>3, <1>4, <2>1, <2>2, <2>3
<1>7. CASE Timeout
  <2>1. \/ Transmit([snd EXCEPT !.tries = @ + 1, !.strayed = TRUE], snd.last, <<>>)
        \/ snd' = [snd EXCEPT !.pc = "aborted"]
    BY <1>7 DEF Timeout
  <2>2. snd' = [snd EXCEPT !.pc = "aborted"] => snd'.strayed = snd.strayed BY <1>1
  <2>3. Transmit([snd EXCEPT !.tries = @ + 1, !.strayed = TRUE], snd.last, <<>>) => snd'.strayed = TRUE
    BY <1>1 DEF Transmit
  <2> QED BY <2>1, <2>2, <2>3
<1> QED BY <1>5, <1>6, <1>7 DEF Sender

\* A step of the sender.
LEMMA SenderLine ==
  ASSUME TypeInv, FirstInv, Sender
  PROVE  FirstInv'
<1>1. r' = r /\ files' = files BY SenderTyped DEF TypeInv
<1>2. CASE snd'.strayed BY <1>2 DEF FirstInv
<1>3. CASE ~snd'.strayed
  <2>1. ~snd.strayed => ~snd'.strayed /\ (files # <<>> => First)' BY <1>1, <1>3 DEF FirstInv, First, Total, CharAt
  <2>2. CASE ~(Len(files) <= 1)
    <3>1. ~(Len(files') <= 1) BY <1>1, <2>2
    <3>2. ~snd.strayed BY <1>3, StrayedStays
    <3> QED BY <2>1, <3>1, <3>2 DEF FirstInv
  <2>3. CASE Len(files) <= 1
    <3>0. ~snd.strayed BY <1>3, StrayedStays
    <3>1. Line BY <2>3, <3>0 DEF FirstInv
    <3>2. IsSeq(down) BY <3>1 DEF Line, TrueLine
    <3>3. (Otherwise \/ Resumes) /\ snd'.format = snd.format /\ snd'.style = snd.style
      BY <1>3, <3>2, SenderSays
    <3>4. CASE Otherwise
      <4>1. snd'.pc = "data" => snd'.file = 1 BY <3>1, <3>4 DEF Otherwise, Line
      <4>2. Line' BY <1>1, <2>3, <3>1, <3>3, <3>4, <4>1, SenderKeeps DEF Otherwise
      <4> QED BY <2>1, <3>0, <4>2 DEF FirstInv
    <3>5. CASE Resumes
      <4>1. Line' BY <1>1, <2>3, <3>1, <3>3, <3>5, ResumesLine
      <4> QED BY <2>1, <3>0, <4>1 DEF FirstInv
    <3> QED BY <3>3, <3>4, <3>5
  <2> QED BY <2>2, <2>3
<1> QED BY <1>2, <1>3

LEMMA FirstInit == Init => TypeInv /\ FirstInv
<1> SUFFICES ASSUME Init PROVE FirstInv BY TypeInit
<1>1. /\ files = <<>> /\ up = <<>> /\ down = <<>> /\ r.pc = "rz" /\ snd.pc = "off"
  BY DEF Init
<1>2. Len(files) = 0 BY <1>1
<1>3. IsSeq(up) /\ TrueLine(down) /\ KnownLine(down)
  BY <1>1, EmptyIsSeq, EmptyLine, KnownIsTrue
<1>4. NoAsk(snd.style, up)
  <2>1. DOMAIN up = {} BY <1>1
  <2> QED BY <2>1 DEF NoAsk
<1>5. ~InFile /\ ~Held /\ HexWidth BY <1>1 DEF InFile, Held, HexWidth
<1>6. Nothing BY <1>3, <1>4, <1>5 DEF Nothing
<1>7. Line BY <1>1, <1>2, <1>3, <1>5, <1>6 DEF Line
<1> QED BY <1>1, <1>7 DEF FirstInv

LEMMA FirstStep == TypeInv /\ FirstInv /\ [Next]_vars => FirstInv'
<1> SUFFICES ASSUME TypeInv, FirstInv, [Next]_vars PROVE FirstInv' OBVIOUS
<1>1. TypeInv' BY TypeStep
<1>2. CASE Sender BY <1>2, SenderLine
<1>3. CASE Receiver
  <2>1. snd' = snd
    BY <1>3 DEF Receiver, AwaitRz, AwaitZdle, ReadKind, ReadHex, ReadCrLf, ReadBin, ReadData, ReadCrc, Taken, SkipXon
  <2> QED BY <1>1, <1>3, <2>1, ReceiverLine
<1>4. CASE LoseSubpacket
  <2>1. snd'.strayed BY <1>4 DEF LoseSubpacket, TypeInv, SenderOK, Sends
  <2> QED BY <2>1 DEF FirstInv
<1>5. CASE UNCHANGED vars
  <2>1. r' = r /\ files' = files /\ snd' = snd /\ down' = down /\ up' = up BY <1>5 DEF vars
  <2>2. (files # <<>> => First)' <=> (files # <<>> => First) BY <2>1 DEF First, Total, CharAt
  <2>3. CASE snd.strayed \/ ~(Len(files) <= 1) BY <2>1, <2>2, <2>3 DEF FirstInv
  <2>4. CASE ~snd.strayed /\ Len(files) <= 1
    <3>1. Line BY <2>4 DEF FirstInv
    <3>2. IsSeq(down) BY <3>1 DEF Line, TrueLine
    <3>3. Moved(down, down', 0) BY <2>1, <3>2, NotMoved
    <3>4. snd'.pc = "data" => snd'.file = 1 BY <2>1, <3>1 DEF Line
    <3>5. Line' BY <2>1, <2>4, <3>1, <3>3, <3>4, SenderKeeps
    <3> QED BY <2>1, <2>2, <2>4, <3>5 DEF FirstInv
  <2> QED BY <2>3, <2>4
<1> QED BY <1>2, <1>3, <1>4, <1>5 DEF Next

LEMMA FirstMeans == FirstInv => PrefixUnlessStrayed
<1> SUFFICES ASSUME FirstInv, files # <<>>, ~snd.strayed, NEW i \in DOMAIN files[1].data
             PROVE  i <= Len(Files[1]) /\ files[1].data[i] = <<"data", Files[1][i]>>
  BY DEF PrefixUnlessStrayed
<1>1. First BY DEF FirstInv
<1> QED BY <1>1 DEF First, Total, CharAt

\* Whatever is cancelled or asked for again on the way and whichever answers are lost,
\* what the receiver has stored of the first file is the beginning of that file, where
\* at most one token of each transmission is lost or changed, unless the sender
\* repeated a transmission, took a position of the file before for one of this file, or
\* a whole subpacket was lost, which the receiver does not notice.
THEOREM FirstFileIntact == Spec => []PrefixUnlessStrayed
<1>1. Init => TypeInv /\ FirstInv BY FirstInit
<1>2. TypeInv /\ FirstInv /\ [Next]_vars => (TypeInv /\ FirstInv)' BY TypeStep, FirstStep
<1>3. FirstInv => PrefixUnlessStrayed BY FirstMeans
<1> QED BY <1>1, <1>2, <1>3, PTL DEF Spec

================================================================================
