------------------------------- MODULE XmodemCheck ------------------------------
(***************************************************************************)
(* The check bytes of XMODEM (src/cpmfs/cmodem/cmodem2.c): the sum of the  *)
(* bytes of a sector, and the CRC of calc_crc.  The 16 bits of crc_value   *)
(* are the set of the places of its ones, bit 0 the lowest, so that an     *)
(* exclusive or is a symmetric difference.                                 *)
(***************************************************************************)
EXTENDS Integers, Sequences

Bytes == 0 .. 255
Weight == <<1, 2, 4, 8, 16, 32, 64, 128>>

\* The bits of a byte, and the byte whose ones are at given places.
Bit == [byte \in Bytes |-> [k \in 0 .. 7 |-> (byte \div Weight[k + 1]) % 2]]
ByteOf(ones) == CHOOSE byte \in Bytes : \A k \in 0 .. 7 : Bit[byte][k] = 1 <=> k \in ones

\* One turn of the loop of calc_crc: a bit is shifted in; with a carry the
\* result is changed in the places of 1021H.
Turn ==
  [crc \in SUBSET (0 .. 15) |-> [bit \in 0 .. 1 |->
     {k \in 0 .. 15 :
        (IF k = 0 THEN bit = 1 ELSE k - 1 \in crc) <=> ~(15 \in crc /\ k \in {0, 5, 12})}]]

\* The eight turns, highest bit first.
calc_crc(crc, byte) ==
  LET bit        == Bit[byte]
      half(c, k) == Turn[Turn[Turn[Turn[c][bit[k]]][bit[k - 1]]][bit[k - 2]]][bit[k - 3]]
  IN  half(half(crc, 7), 3)

\* checksum and crc_value after each of some bytes.
Running(bytes) ==
  LET run[i \in 0 .. Len(bytes)] ==
        IF i = 0 THEN [checksum |-> 0, crc_value |-> {}]
        ELSE LET before == run[i - 1]
             IN  [checksum  |-> (before.checksum + bytes[i]) % 256,
                  crc_value |-> calc_crc(before.crc_value, bytes[i])]
  IN  run

Checksum(bytes) == Running(bytes)[Len(bytes)].checksum
Crc(bytes)      == Running(bytes)[Len(bytes)].crc_value

\* What sendfile sends after the bytes of a sector.
CheckBytes(crc_flag, bytes) ==
  LET crc_value == Crc(bytes \o <<0, 0>>)
  IN  IF crc_flag
      THEN <<ByteOf({k \in 0 .. 7 : k + 8 \in crc_value}), ByteOf(crc_value \intersect 0 .. 7)>>
      ELSE <<Checksum(bytes)>>
================================================================================
