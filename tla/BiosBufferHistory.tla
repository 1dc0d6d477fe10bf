--------------------------- MODULE BiosBufferHistory ---------------------------
(***************************************************************************)
(* BiosBuffer with a history variable: what a program may expect each      *)
(* sector to hold.  It states a claim of the source that buffers of more   *)
(* than one sector do not meet.                                            *)
(***************************************************************************)
EXTENDS BiosBuffer

VARIABLE expected  \* the last value written to each CP/M sector

HistoryInit ==
  /\ Init
  /\ expected = [s \in DLBA |-> disk[s]]

\* A step of the BIOS that touches no sector on behalf of a caller.
Internal ==
  \/ CallRead \/ CallWrite \/ CallFlush
  \/ FindHit \/ FindClean \/ FindDirty
  \/ Fill \/ FillFails
  \/ FlushSkip \/ FlushWrite \/ FlushWriteFails \/ FlushEnd
  \/ FlushAllDirty \/ FlushAllClean \/ FlushAllEnd

HistoryNext ==
  \/ /\ Internal \/ CopyOut
     /\ UNCHANGED expected
  \/ /\ CopyIn
     /\ expected' = [expected EXCEPT ![call.dlba][call.cpm] = call.data]
  \/ /\ Reboot
     /\ expected' = [s \in DLBA |-> disk[s]]

HistorySpec == HistoryInit /\ [][HistoryNext]_<<vars, expected>>

\* bios.s, function 13: "Read one sector from requested disk, track, sector
\* to dma address".  A read delivers what was last written to that sector.
ReadReturnsLastWritten ==
  [][CopyOut => result' = expected[call.dlba][call.cpm]]_<<vars, expected>>
================================================================================
