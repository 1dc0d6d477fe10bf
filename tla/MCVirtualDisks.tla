---------------------------- MODULE MCVirtualDisks ----------------------------
(***************************************************************************)
(* Instances of VirtualDisks for TLC: every sector starts with a value of  *)
(* its own, and the requests write one more.                               *)
(***************************************************************************)
EXTENDS VirtualDisksHistory

\* Sector 1 of drive 2 holds 21; 99 is what the requests write, and what
\* memory holds.
MCStored  == {[d \in Drive |-> [l \in Lba |-> 10 * d + l]]}
MCData    == {99} \cup {10 * d + l : d \in Drive, l \in Lba}

\* Image A has one or two sectors, image B one or is missing, the others two.
MCLengths ==
  {f \in [Drive -> {NoImage, 1, 2}] :
     \A d \in Drive : f[d] \in CASE d = 0 -> {1, 2}
                               [] d = 1 -> {NoImage, 1}
                               [] OTHER -> {2}}
===============================================================================
