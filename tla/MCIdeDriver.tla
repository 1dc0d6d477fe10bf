----------------------------- MODULE MCIdeDriver -----------------------------
(***************************************************************************)
(* IdeDriver on small drives: two polls stand for the 0x1000 of a wait, a  *)
(* drive can be busy for longer than three waits.                          *)
(***************************************************************************)
EXTENDS IdeDriver
==============================================================================
