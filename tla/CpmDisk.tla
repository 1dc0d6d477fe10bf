------------------------------- MODULE CpmDisk -------------------------------
(***************************************************************************)
(* What a program running on CP/M-68K is promised by BIOS functions 13, 14 *)
(* and 21: one disk, whose sectors read back what was last written; a      *)
(* write reaches the medium at some later moment, a directory write and a  *)
(* flush before they return; a reboot forgets what the medium did not get. *)
(***************************************************************************)
EXTENDS CpmRequests

VARIABLES
  store,    \* the disk the program sees
  platter,  \* what the medium holds
  call,     \* the request being served, or NoCall
  phase,    \* "idle", "called", or "stored": a directory write not yet durable
  result    \* the CP/M sector the last read delivered

diskVars == <<store, platter, call, phase, result>>

Disk == [DLBA -> HddSector]

DiskInit ==
  /\ platter \in Disk
  /\ store = platter
  /\ call = NoCall
  /\ phase = "idle"
  /\ result = Blank

Request(c) ==
  /\ phase = "idle"
  /\ call' = c
  /\ phase' = "called"
  /\ UNCHANGED <<store, platter, result>>

Return ==
  /\ call' = NoCall
  /\ phase' = "idle"

Read ==
  /\ phase = "called"
  /\ call.op = "read"
  /\ result' = store[call.dlba][call.cpm]
  /\ Return
  /\ UNCHANGED <<store, platter>>

Write ==
  /\ phase = "called"
  /\ call.op = "write"
  /\ store' = [store EXCEPT ![call.dlba][call.cpm] = call.data]
  /\ IF call.type = WR_DIRECTORY
       THEN /\ phase' = "stored"
            /\ call' = call
       ELSE Return
  /\ UNCHANGED <<platter, result>>

DirectoryWriteReturns ==
  /\ phase = "stored"
  /\ platter[call.dlba] = store[call.dlba]
  /\ Return
  /\ UNCHANGED <<store, platter, result>>

FlushReturns ==
  /\ phase = "called"
  /\ call.op = "flush"
  /\ platter = store
  /\ Return
  /\ UNCHANGED <<store, platter, result>>

\* A sector reaches the medium; only ever while a request is served.
WriteBack(s) ==
  /\ phase # "idle"
  /\ platter' = [platter EXCEPT ![s] = store[s]]
  /\ UNCHANGED <<store, call, phase, result>>

Crash ==
  /\ store' = platter
  /\ Return
  /\ UNCHANGED <<platter, result>>

DiskNext ==
  \/ \E c \in Call : Request(c)
  \/ Read
  \/ Write
  \/ DirectoryWriteReturns
  \/ FlushReturns
  \/ \E s \in DLBA : WriteBack(s)
  \/ Crash

DiskSpec == DiskInit /\ [][DiskNext]_diskVars
==============================================================================
