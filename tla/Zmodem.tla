--------------------------------- MODULE Zmodem ---------------------------------
(***************************************************************************)
(* The ZMODEM receiver (src/mbzm): the parser of zserial.c, one read of a   *)
(* byte or of an escaped byte per step, and the loop of zm.c.  Bytes are    *)
(* tokens: the bytes of a header or of a CRC that only matter together are  *)
(* one token, and a CRC matches only what it was computed from.  The sender *)
(* is the ZMODEM of the other computer; it is external.                     *)
(***************************************************************************)
EXTENDS Integers, SequencesExt

CONSTANTS
  Chars,      \* the values of a byte of a file
  Files,      \* the files offered: sequences of bytes, sent one byte to a subpacket
  Styles,     \* how the sender ends subpackets: "stream", "query" or "wait"
  Formats,    \* the formats of binary headers: "bin16", "bin32"
  Escaped,    \* bytes that are sent behind a ZDLE
  BufLen,     \* bytes of a subpacket that fit: DATA_BUF_LEN
  FATFS_MAX_OPEN_FILES,  \* handles of the FAT library
  MaxTries,   \* bound: how often the sender repeats itself after a timeout
  Noise,      \* bound: what a changed token becomes
  MaxFaults   \* bound: tokens lost or changed, subpackets lost, answers lost, files
              \* not created, presses of ESC

ASSUME ZmodemAssumption ==
  /\ Files \in Seq(Seq(Chars)) /\ Escaped \subseteq Chars
  /\ Styles \subseteq {"stream", "query", "wait"} /\ Formats \subseteq {"bin16", "bin32"}
  /\ BufLen \in Nat \ {0, 1} /\ {FATFS_MAX_OPEN_FILES, MaxTries, MaxFaults} \subseteq Nat

\* What a changed token becomes is never a CRC: damage is noticed.
ASSUME NoiseAssumption == \A n \in Noise : n[1] \notin {"crc16", "crc32a", "crc32b"}

VARIABLES
  r,       \* the receiver: where it reads, what it has read, received_data_size
  files,   \* the files it has created: name, data, closed; start is received_data_size then
  snd,     \* the sender: pc, the file it sends, its last transmission; strayed is a history:
           \* what it sends is not what the receiver waits for, since it repeated a
           \* transmission or sent a file from a position of the one before, or since a
           \* whole subpacket was lost
  down,    \* tokens on the line to the receiver
  up,      \* headers on the line to the sender
  faults

vars == <<r, files, snd, down, up, faults>>

ZPAD == <<"pad">>
ZDLE == <<"zdle">>
XON  == <<"xon">>
CR   == <<"cr">>
LF   == <<"lf">>
Rz   == <<"rz">>

\* The CRC of some tokens: 16 bits, or 32 bits in two halves.
CrcOf(width, tokens) ==
  IF width = 16 THEN <<<<"crc16", tokens>>>> ELSE <<<<"crc32a", tokens>>, <<"crc32b", tokens>>>>

(***************************************************************************)
(* What the sender sends.                                                  *)
(***************************************************************************)
Header(type, pos) == <<"header", type, pos>>

HexHeader(type, pos) ==
  <<ZPAD, ZPAD, ZDLE, <<"kind", "hex">>, Header(type, pos)>>
    \o CrcOf(16, <<Header(type, pos)>>) \o <<CR, LF, XON>>

Width(format) == IF format = "bin32" THEN 32 ELSE 16

BinHeader(format, type, pos) ==
  <<ZPAD, ZDLE, <<"kind", format>>, Header(type, pos)>> \o CrcOf(Width(format), <<Header(type, pos)>>)

\* A character is <<"data", byte>>, or <<"name", n>> for the name of file n.
Sent(char) ==
  IF char[1] = "data" /\ char[2] \in Escaped THEN <<ZDLE, <<"escaped", char[2]>>>> ELSE <<char>>

Subpacket(format, char, end) ==
  Sent(char) \o <<ZDLE, <<"end", end>>>> \o CrcOf(Width(format), <<char, <<"fin", end>>>>)

\* The last bytes of a file, as many as the argument says, and ZEOF.
Remaining(format, style, file) ==
  LET Size   == Len(Files[file])
      End(n) == IF n = 1 THEN "E" ELSE IF style = "query" THEN "Q" ELSE "G"
      last[n \in 0 .. Size] ==
        IF n = 0 THEN HexHeader("ZEOF", Size)
        ELSE Subpacket(format, <<"data", Files[file][Size - n + 1]>>, End(n)) \o last[n - 1]
  IN  last

\* ZDATA from a position on: all that is left and ZEOF, or one subpacket at a time.
DataFrom(format, style, file, pos) ==
  LET Size == Len(Files[file])
  IN  IF pos >= Size THEN HexHeader("ZEOF", pos)
      ELSE BinHeader(format, "ZDATA", pos) \o
           IF style = "wait" THEN Subpacket(format, <<"data", Files[file][pos + 1]>>, "W")
           ELSE Remaining(format, style, file)[Size - pos]

\* Bound: at most one token of a transmission is lost or changed.  What else it may
\* lose is whole subpackets and headers, see LoseSubpacket.
Damaged(tokens) ==
  UNION {{RemoveAt(tokens, i)} \cup {ReplaceAt(tokens, i, n) : n \in Noise \ {tokens[i]}} : i \in DOMAIN tokens}

Fault == faults < MaxFaults /\ faults' = faults + 1

Transmit(state, last, prefix) ==
  /\ snd' = [state EXCEPT !.last = last]
  /\ \/ down' = down \o prefix \o last /\ UNCHANGED faults
     \/ Fault /\ \E tokens \in {prefix \o last} : \E damaged \in Damaged(tokens) : down' = down \o damaged

SendFile(n) ==
  Transmit([snd EXCEPT !.pc = "file", !.file = n],
           BinHeader(snd.format, "ZFILE", 0) \o Subpacket(snd.format, <<"name", n>>, "W"), <<>>)

\* A position that was asked for the file before is taken for one of this file.
SendFrom(pos) ==
  Transmit([snd EXCEPT !.pc = "data", !.strayed = @ \/ (snd.pc = "file" /\ Len(files) # snd.file)], DataFrom(snd.format, snd.style, snd.file, pos), <<>>)

NextFile ==
  IF snd.file < snd.count THEN SendFile(snd.file + 1)
  ELSE Transmit([snd EXCEPT !.pc = "fin"], HexHeader("ZFIN", 0), <<>>)

\* sz announces itself once by name.
Start ==
  /\ snd.pc = "off"
  /\ Transmit([snd EXCEPT !.pc = "init"], HexHeader("ZRQINIT", 0), <<Rz, CR>>)
  /\ UNCHANGED <<r, files, up>>

\* A ZNAK may make the sender repeat its last transmission.
Answered ==
  /\ up # <<>> /\ up' = Tail(up)
  /\ \E type \in {Head(up)[1]}, pos \in {Head(up)[2]} :
       CASE type = "ZRINIT" /\ snd.pc \in {"init", "data"} -> NextFile
         [] type = "ZRPOS" /\ snd.pc \in {"file", "data"} -> SendFrom(pos)
         [] type = "ZACK" /\ snd.pc = "data" /\ snd.style = "wait" -> SendFrom(pos)
         [] type = "ZFIN" /\ snd.pc = "fin" -> snd' = [snd EXCEPT !.pc = "done"] /\ UNCHANGED <<down, faults>>
         [] OTHER -> \/ UNCHANGED <<snd, down, faults>>
                     \/ /\ type = "ZNAK" /\ snd.pc \in {"init", "file", "data", "fin"}
                        /\ Transmit([snd EXCEPT !.strayed = TRUE], snd.last, <<>>)
  /\ UNCHANGED <<r, files>>

(***************************************************************************)
(* Reading: results are tokens and errors, each with the tokens it takes.  *)
(***************************************************************************)
CANCELLED  == <<"cancelled">>
BAD_ESCAPE == <<"badescape">>
AGAIN      == <<"again">>

IsError(c) == c \in {CANCELLED, BAD_ESCAPE}

zm_recv == IF down = <<>> THEN {} ELSE {<<Head(down), 1>>}

\* ZDLEs in front, as many as zm_read_escaped looks at.
Cans == Cardinality({k \in 1 .. 5 : k <= Len(down) /\ \A i \in 1 .. k : down[i] = ZDLE})

\* What a token means behind a ZDLE.  The kind of a header is a letter, which is
\* an escaped character like any other.
Unescaped(token) ==
  CASE token[1] = "end"     -> <<"fin", token[2]>>
    [] token[1] = "escaped" -> <<"data", token[2]>>
    [] token[1] = "kind"    -> <<"junk">>
    [] OTHER                -> BAD_ESCAPE

zm_read_escaped ==
  IF down = <<>> \/ (Cans = Len(down) /\ Cans < 5) THEN {}
  ELSE IF Cans = 5 THEN {<<CANCELLED, 5>>}
  ELSE IF Cans > 0 THEN {<<Unescaped(down[Cans + 1]), Cans + 1>>}
  ELSE {<<IF Head(down) = XON THEN AGAIN ELSE Head(down), 1>>}

(***************************************************************************)
(* The receiver.  Used counts the press of ESC that ended a read.          *)
(***************************************************************************)
Silent(used) == UNCHANGED up /\ faults' = faults + used

Answer(type, pos, used) ==
  \/ up' = Append(up, <<type, pos>>) /\ faults' = faults + used
  \/ faults + used < MaxFaults /\ UNCHANGED up /\ faults' = faults + used + 1

Go(pc) == r' = [r EXCEPT !.pc = pc, !.got = <<>>, !.crc = <<>>] /\ UNCHANGED files

\* Mutant: the file is left open.
CleanupLeaves == r' = [r EXCEPT !.pc = "ended"] /\ UNCHANGED files

\* The label cleanup of main: the file that is open is closed.
Cleanup ==
  /\ r' = [r EXCEPT !.pc = "ended"]
  /\ files' = IF r.out THEN [files EXCEPT ![Len(files)].closed = TRUE] ELSE files

Bail(used)   == Cleanup /\ Silent(used)
Reject(used) == Go("zdle") /\ Answer("ZNAK", r.size, used)

\* zm_await_header gave an error: only a cancellation ends the program.
NoHeader(c, used) == IF c = CANCELLED THEN Bail(used) ELSE Reject(used)

\* A data block gave an error.  For the name of a file nothing is answered.
NoBlock(c, used) ==
  IF c = CANCELLED \/ (r.block = "file" /\ ~r.out) THEN Bail(used)
  ELSE Go("zdle") /\ IF r.block = "file" THEN Answer("ZRPOS", r.size, used) ELSE Silent(used)

\* fl_fopen answers NULL, which becomes out: nothing is closed at cleanup.
NotOpened == r' = [r EXCEPT !.pc = "ended", !.out = FALSE] /\ UNCHANGED <<files, up>>

\* The name is still open, or no handle is left: ZEOF closes none.
Refused(name) ==
  \/ \E i \in DOMAIN files : files[i].name = name
  \/ Len(files) >= FATFS_MAX_OPEN_FILES

\* A volume or directory that is full or not mounted is a fault of its own.
Create(name, used) ==
  \/ Refused(name) /\ NotOpened /\ faults' = faults + used
  \/ faults + used < MaxFaults /\ NotOpened /\ faults' = faults + used + 1
  \/ /\ ~Refused(name)
     /\ files' = Append(files, [name |-> name, start |-> r.size, data |-> <<>>, closed |-> FALSE])
     /\ r' = [r EXCEPT !.pc = "zdle", !.out = TRUE, !.got = <<>>, !.crc = <<>>]
     /\ Answer("ZRPOS", r.size, used)

\* Mutant: the byte that ends a subpacket is counted as well.
CountedAll(got) == Len(got)

\* What a subpacket adds to received_data_size: it ends in its frame end.
Counted(got) == Len(got) - 1

Store(end, used) ==
  /\ files' = [files EXCEPT ![Len(files)].data = @ \o [i \in 1 .. Len(r.got) - 1 |-> r.got[i]]]
  /\ r' = [r EXCEPT !.size = @ + Counted(r.got), !.got = <<>>, !.crc = <<>>,
                    !.pc = IF end \in {"E", "W"} THEN "zdle" ELSE "data"]
  /\ IF end \in {"Q", "W"} THEN Answer("ZACK", r.size + Counted(r.got), used) ELSE Silent(used)

Block(used) ==
  IF r.block = "name" THEN Create(Head(r.got), used)
  ELSE IF ~r.out THEN Bail(used)
  ELSE Store(Last(r.got)[2], used)

Dispatch(header, used) ==
  CASE header[2] \in {"ZRQINIT", "ZEOF"} -> Go("zdle") /\ Answer("ZRINIT", 0, used)
    [] header[2] = "ZFIN" -> Cleanup /\ Answer("ZFIN", 0, used)
    [] OTHER -> /\ r' = [r EXCEPT !.pc = "data", !.block = IF header[2] = "ZFILE" THEN "name" ELSE "file",
                                  !.got = <<>>, !.crc = <<>>]
                /\ UNCHANGED files /\ Silent(used)

Keep(got, used) == r' = [r EXCEPT !.got = got] /\ UNCHANGED files /\ Silent(used)

\* zm_await: the transfer starts with "rz" and CR.
OnRz(c, used) ==
  IF IsError(c) THEN Bail(used) ELSE Go(IF c = Rz THEN "zdle" ELSE "rz") /\ Silent(used)

\* zm_await_zdle: an error counts as a closed line and is answered.
OnZdle(c, used) ==
  IF IsError(c) THEN Reject(used) ELSE Go(IF c = ZDLE THEN "kind" ELSE "zdle") /\ Silent(used)

\* The kind of a header; an error, a cancellation too, is passed over.
OnKind(c, used) ==
  CASE IsError(c)    -> Go("zdle") /\ Silent(used)
    [] c[1] = "kind" -> /\ r' = [r EXCEPT !.pc = IF c[2] = "hex" THEN "hex" ELSE "bin", !.width = Width(c[2])]
                        /\ UNCHANGED files /\ Silent(used)
    [] OTHER         -> Reject(used)

\* The tokens that are two hex digits to a byte.
HexDigits == {"header", "crc16"}

\* A header and its CRC.
GoodHeader(width, tokens) == Tail(tokens) = CrcOf(width, <<Head(tokens)>>)

OnHex(c, used) ==
  IF c[1] \notin HexDigits THEN NoHeader(c, used)
  ELSE IF r.got = <<>> THEN Keep(<<c>>, used)
  ELSE IF GoodHeader(16, Append(r.got, c)) THEN r' = [r EXCEPT !.pc = "cr"] /\ UNCHANGED files /\ Silent(used)
  ELSE Reject(used)

\* zm_read_crlf: LF, or CR and LF.
OnCrLf(c, used) ==
  CASE c = LF               -> Dispatch(Head(r.got), used)
    [] c = CR /\ r.pc = "cr" -> r' = [r EXCEPT !.pc = "lf"] /\ UNCHANGED files /\ Silent(used)
    [] OTHER                -> NoHeader(c, used)

OnBin(c, used) ==
  IF IsError(c) THEN NoHeader(c, used)
  ELSE \E got \in {Append(r.got, c)} :
         IF Len(got) <= r.width \div 16 THEN Keep(got, used)
         ELSE IF GoodHeader(r.width, got) THEN Dispatch(Head(got), used)
         ELSE Reject(used)

\* recv_data_block: the frame end belongs to the data the CRC covers.
OnData(c, used) ==
  IF IsError(c) THEN NoBlock(c, used)
  ELSE \E got \in {Append(r.got, c)} :
         IF c[1] = "fin" THEN r' = [r EXCEPT !.pc = "crc", !.got = got] /\ UNCHANGED files /\ Silent(used)
         ELSE IF Len(got) = BufLen THEN NoBlock(<<"outofspace">>, used)
         ELSE Keep(got, used)

\* Mutants: a CRC of the other width is accepted; any CRC is.
GoodCrcAny(crc) == TRUE
GoodCrcWide(crc) == crc = CrcOf(32, r.got)

GoodCrc(crc) == crc = CrcOf(r.width, r.got)

\* The CRC of a data block: an error in its second half is not looked at.
OnCrc(c, used) ==
  IF IsError(c) /\ r.crc = <<>> THEN NoBlock(c, used)
  ELSE \E crc \in {Append(r.crc, c)} :
         IF Len(crc) < r.width \div 16 THEN r' = [r EXCEPT !.crc = crc] /\ UNCHANGED files /\ Silent(used)
         ELSE IF GoodCrc(crc) THEN Block(used)
         ELSE NoBlock(<<"badcrc">>, used)

\* How a read may end: with a token, or by ESC at the keyboard.
Reads(Results) ==
  {<<x[1], x[2], 0>> : x \in Results} \cup (IF faults < MaxFaults THEN {<<CANCELLED, 0, 1>>} ELSE {})

\* The read of the state pc ends so.
Taken(pc, x) ==
  /\ r.pc = pc
  /\ x[1] # AGAIN
  /\ down' = SubSeq(down, x[2] + 1, Len(down))
  /\ UNCHANGED snd

AwaitRz   == \E x \in Reads(zm_read_escaped) : Taken("rz", x) /\ OnRz(x[1], x[3])
AwaitZdle == \E x \in Reads(zm_recv) : Taken("zdle", x) /\ OnZdle(x[1], x[3])
ReadKind  == \E x \in Reads(zm_read_escaped) : Taken("kind", x) /\ OnKind(x[1], x[3])
ReadHex   == \E x \in Reads(zm_recv) : Taken("hex", x) /\ OnHex(x[1], x[3])
ReadCrLf  == \E x \in Reads(zm_read_escaped) : (Taken("cr", x) \/ Taken("lf", x)) /\ OnCrLf(x[1], x[3])
ReadBin   == \E x \in Reads(zm_read_escaped) : Taken("bin", x) /\ OnBin(x[1], x[3])
ReadData  == \E x \in Reads(zm_read_escaped) : Taken("data", x) /\ OnData(x[1], x[3])
ReadCrc   == \E x \in Reads(zm_read_escaped) : Taken("crc", x) /\ OnCrc(x[1], x[3])

\* zm_read_escaped reads on after an XON.
SkipXon ==
  /\ r.pc \notin {"zdle", "hex", "ended"}
  /\ \E x \in zm_read_escaped : x[1] = AGAIN
  /\ down' = Tail(down)
  /\ UNCHANGED <<r, files, snd, up, faults>>

Receiver ==
  \/ AwaitRz \/ AwaitZdle \/ ReadKind \/ ReadHex \/ ReadCrLf \/ ReadBin \/ ReadData \/ ReadCrc
  \/ SkipXon

(***************************************************************************)
(* The sender gives up waiting when the receiver waits too.  zm_recv has no *)
(* timeout of its own.                                                     *)
(***************************************************************************)
Waiting == up = <<>> /\ (r.pc = "ended" \/ (IF r.pc \in {"zdle", "hex"} THEN zm_recv ELSE zm_read_escaped) = {})

Timeout ==
  /\ snd.pc \in {"init", "file", "data", "fin"}
  /\ Waiting
  /\ IF snd.tries < MaxTries THEN Transmit([snd EXCEPT !.tries = @ + 1, !.strayed = TRUE], snd.last, <<>>)
     ELSE /\ snd' = [snd EXCEPT !.pc = "aborted"]
          /\ down' = down \o [i \in 1 .. 8 |-> ZDLE]
          /\ UNCHANGED faults
  /\ UNCHANGED <<r, files, up>>

Sender == Start \/ Answered \/ Timeout

(***************************************************************************)
(* The line loses what is between the ends of two CRCs, or what is in front *)
(* of the end of one: whole subpackets and headers, of which no CRC tells.  *)
(***************************************************************************)
BlockEnds == {0} \cup {i \in DOMAIN down : down[i][1] \in {"crc16", "crc32b"}}

LoseSubpacket ==
  /\ Fault
  /\ \E i, j \in BlockEnds : i < j /\ down' = SubSeq(down, 1, i) \o SubSeq(down, j + 1, Len(down))
  /\ snd' = [snd EXCEPT !.strayed = TRUE]
  /\ UNCHANGED <<r, files, up>>

Init ==
  /\ r = [pc |-> "rz", width |-> 16, block |-> "name", got |-> <<>>, crc |-> <<>>, size |-> 0, out |-> FALSE]
  /\ files = <<>>
  /\ snd \in [pc : {"off"}, file : {0}, count : 1 .. Len(Files), style : Styles, format : Formats,
              last : {<<>>}, tries : {0}, strayed : {FALSE}]
  /\ down = <<>> /\ up = <<>>
  /\ faults = 0

Next == Sender \/ Receiver \/ LoseSubpacket

\* Both programs run.  Nobody has to press ESC.
Spec == Init /\ [][Next]_vars /\ WF_vars(Sender) /\ WF_vars(Receiver /\ down' # down)

(***************************************************************************)
(* Properties.                                                             *)
(***************************************************************************)
Bytes(n)  == [i \in DOMAIN files[n].data |-> files[n].data[i][2]]
EndOf(n)  == IF n = 0 THEN 0 ELSE files[n].start + Len(files[n].data)

\* Every field has its type, and received_data_size is what the files hold.
TypeOK ==
  /\ r.pc \in {"rz", "zdle", "kind", "hex", "cr", "lf", "bin", "data", "crc", "ended"}
  /\ r.width \in {16, 32} /\ r.block \in {"name", "file"} /\ r.out \in BOOLEAN
  /\ Len(r.got) <= BufLen /\ Len(r.crc) <= 2
  /\ \A n \in DOMAIN files : files[n].start = EndOf(n - 1)
  /\ r.size = EndOf(Len(files))
  /\ snd.pc \in {"off", "init", "file", "data", "fin", "done", "aborted"}
  /\ snd.file \in 0 .. snd.count /\ snd.tries \in 0 .. MaxTries
  /\ faults \in 0 .. MaxFaults

\* What the receiver stores of the first file is the beginning of the file, where any
\* number of transmissions, answers and reads go wrong, but at most one token of each
\* transmission is lost or changed, unless the sender strayed.  The position of a ZDATA
\* is not looked at: a repeated frame is stored twice, what follows a whole subpacket
\* that was lost is stored in its place, and the second file goes into the first when
\* its ZFILE is damaged while a ZRPOS of the first is still on the line.
PrefixUnlessStrayed ==
  files # <<>> /\ ~snd.strayed =>
    \A i \in DOMAIN files[1].data : i <= Len(Files[1]) /\ files[1].data[i] = <<"data", Files[1][i]>>

\* A session without faults that the sender sees the end of stores the first file
\* whole.  The count is not reset at ZEOF, so each further file lacks as many bytes as
\* were received before it, and only the last file is closed.
SessionStores ==
  faults = 0 /\ snd.pc = "done" =>
    /\ Len(files) = snd.count
    /\ \A n \in DOMAIN files :
         /\ Bytes(n) = SubSeq(Files[n], files[n].start + 1, Len(Files[n]))
         /\ files[n].closed <=> n = snd.count

\* A session without faults of no more files than the library has handles ends on
\* both sides: no read waits for a token that is not sent.
SessionEnds ==
  snd.count <= FATFS_MAX_OPEN_FILES => <>(faults > 0 \/ (r.pc = "ended" /\ snd.pc = "done"))

================================================================================
