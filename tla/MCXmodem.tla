------------------------------- MODULE MCXmodem --------------------------------
(***************************************************************************)
(* An instance of Xmodem for TLC: four sectors of two bytes, the last one  *)
(* filled up.  The first passes its checksum when a byte of it is missing, *)
(* the second holds SOH and EOT, and the number of the fourth is EOT.      *)
(***************************************************************************)
EXTENDS Xmodem

MCFile == <<255, 0, 1, 4, 7, 7, 9>>
================================================================================
