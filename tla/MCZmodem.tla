------------------------------- MODULE MCZmodem --------------------------------
(***************************************************************************)
(* An instance of Zmodem for TLC: three files, two handles, a byte that     *)
(* travels behind a ZDLE, and a noise that reads as a character or a ZDLE.  *)
(***************************************************************************)
EXTENDS Zmodem

MCFiles == <<<<"a", "b">>, <<"a", "a", "b">>, <<"a">>>>
MCNoise == {<<"junk">>, ZDLE}
================================================================================
