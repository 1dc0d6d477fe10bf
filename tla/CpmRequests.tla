----------------------------- MODULE CpmRequests -----------------------------
(***************************************************************************)
(* The disk requests the CP/M-68K BDOS makes of the BIOS: trap #3          *)
(* functions 13 (read), 14 (write) and 21 (flush) of src/bios/bios.s.  The *)
(* disk, track and sector chosen by the selection functions have already   *)
(* been turned into a D+LBA and an index into the 512 byte HDD sector      *)
(* (selectedLBADrive, getSectorIndex); addresses are numbered from 0.      *)
(***************************************************************************)
EXTENDS Integers

CONSTANTS
  LastDLBA,  \* the requests name D+LBAs 0..LastDLBA
  CPM_SECS,  \* 128 byte CP/M sectors in an HDD sector: 4 in the code
  Data,      \* what a CP/M sector can hold
  Blank      \* what the sectors of the .ds.b buffer area hold in the image

ASSUME RequestAssumption ==
  /\ LastDLBA \in Nat
  /\ CPM_SECS \in Nat \ {0}
  /\ Blank \in Data

DLBA == 0 .. LastDLBA
Cpm  == 0 .. CPM_SECS - 1

\* The contents of an HDD sector.
HddSector == [Cpm -> Data]

(***************************************************************************)
(* The write types of buffer.i.                                            *)
(***************************************************************************)
WR_NORMAL    == 0
WR_DIRECTORY == 1
WR_NEW_BLOCK == 2
WriteType    == {WR_NORMAL, WR_DIRECTORY, WR_NEW_BLOCK}

ReadCall  == [op : {"read"}, dlba : DLBA, cpm : Cpm]
WriteCall == [op : {"write"}, dlba : DLBA, cpm : Cpm, type : WriteType, data : Data]
FlushCall == [op : {"flush"}]
Call      == ReadCall \cup WriteCall \cup FlushCall
NoCall    == [op |-> "none"]
==============================================================================
