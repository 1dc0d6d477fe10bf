--------------------------- MODULE VirtualDisksHistory ---------------------------
(***************************************************************************)
(* VirtualDisks with a history variable, which drives were used after      *)
(* which, against which the choice of the slot to give up is judged.       *)
(***************************************************************************)
EXTENDS VirtualDisks

VARIABLE
  usedSince  \* for each drive, those used since it was, or since the reset

HistoryInit == Init /\ usedSince = [d \in Drive |-> {}]

HistoryNext ==
  \/ /\ CallRead \/ CallWrite \/ OpenStep \/ TransferStep
     /\ UNCHANGED usedSince
  \/ /\ Touched
     /\ usedSince' = [d \in Drive |-> IF d = call.drive THEN {} ELSE usedSince[d] \cup {call.drive}]
  \/ /\ Reset
     /\ usedSince' = [d \in Drive |-> {}]

HistorySpec == HistoryInit /\ [][HistoryNext]_<<vars, usedSince>>

\* disks.s: "find the least recently used slot and close the file".  Every drive
\* that keeps its slot was used since the drive that loses one.
VictimIsLeastRecent ==
  [][ \A s \in Slot :
        slotId[s] # NoDrive /\ slotId'[s] \notin {slotId[s], NoDrive}
          => \A t \in Slot \ {s} : slotId[t] \in usedSince[slotId[s]] ]_<<vars, usedSince>>
================================================================================
