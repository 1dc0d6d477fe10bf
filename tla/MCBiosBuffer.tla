----------------------------- MODULE MCBiosBuffer -----------------------------
(***************************************************************************)
(* Instances of BiosBuffer for TLC.                                        *)
(***************************************************************************)
EXTENDS BiosBuffer
===============================================================================
