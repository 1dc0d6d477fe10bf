--------------------------- MODULE MCMonitorVolumes ----------------------------
(***************************************************************************)
(* An instance of MonitorVolumes for TLC with sector numbers of four bits. *)
(***************************************************************************)
EXTENDS MonitorVolumes, TLC

Part(type, start, count) == [type |-> type, start |-> start, count |-> count]
Free == Part("unused", 0, 0)
Parts(a, b, c) == [i \in Entries |-> IF i = 0 THEN a ELSE IF i = 1 THEN b
                                     ELSE IF i = 2 THEN c ELSE Free]

\* good: two partitions and a free entry; late: the first entry is free;
\* overlap: the second entry starts on the last sector of the first; wrapped:
\* the end of the first entry turns over to 0, before the start of the second;
\* cromix: no table.
MCContent ==
  "good"    :> [sectors |-> 7, signed |-> TRUE, fats |-> {1}, cstd |-> FALSE,
                entry |-> Parts(Part("fat", 1, 3), Part("cpm", 4, 3), Free)] @@
  "late"    :> [sectors |-> 7, signed |-> TRUE, fats |-> {2}, cstd |-> FALSE,
                entry |-> Parts(Free, Part("fat", 2, 2), Part("cromix", 4, 2))] @@
  "overlap" :> [sectors |-> 7, signed |-> TRUE, fats |-> {2}, cstd |-> FALSE,
                entry |-> Parts(Part("fat", 2, 3), Part("fat", 4, 3), Free)] @@
  "wrapped" :> [sectors |-> 7, signed |-> TRUE, fats |-> {2}, cstd |-> FALSE,
                entry |-> Parts(Part("fat", 2, 15), Part("cpm", 4, 3), Free)] @@
  "cromix"  :> [sectors |-> 7, signed |-> FALSE, fats |-> {}, cstd |-> TRUE,
                entry |-> Parts(Free, Free, Free)]

MCCards == DOMAIN MCContent
MCInserted == (DISK_A :> "good") @@ (DISK_B :> "cromix")
================================================================================
