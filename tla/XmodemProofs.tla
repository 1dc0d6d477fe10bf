------------------------------ MODULE XmodemProofs -----------------------------
(***************************************************************************)
(* Proofs about Xmodem for files, sector sizes, bounds and noise of every  *)
(* size.  The inductive invariant says how the two programs take turns on  *)
(* the line, how much of a sector can be on it, what the sender may have   *)
(* counted of what the receiver kept, and what a whole sector on the line  *)
(* can look like.                                                          *)
(***************************************************************************)
EXTENDS Xmodem, WellFoundedInduction, SequenceTheorems, TLAPS

(***************************************************************************)
(* Part 1.  What the check bytes detect, for sectors of every length: the  *)
(* check of a sector as it was sent passes, and that of a sector in which  *)
(* one byte was changed, data or check, never does.                        *)
(***************************************************************************)

(***************************************************************************)
(* Induction over the natural numbers, for a set.                          *)
(***************************************************************************)
LEMMA Least ==
  ASSUME NEW T, T \subseteq Nat, T # {}
  PROVE  \E x \in T : \A y \in T : x <= y
<1> DEFINE R == OpToRel(<, Nat)
<1>1. IsWellFoundedOn(R, Nat)
  BY NatLessThanWellFounded
<1>2. PICK x \in T : \A y \in T : ~(<<y, x>> \in R)
  BY <1>1, WFMin
<1>3. \A y \in T : (<<y, x>> \in R) <=> y < x
  BY DEF OpToRel
<1> HIDE DEF R
<1>4. \A y \in T : ~(y < x)
  BY <1>2, <1>3, Zenon
<1>5. \A y \in T : x <= y
  BY <1>4
<1> QED BY <1>5

LEMMA SetInduction ==
  ASSUME NEW S, S \subseteq Nat, 0 \in S, \A n \in S : n + 1 \in S
  PROVE  S = Nat
<1>1. ASSUME S # Nat PROVE FALSE
  <2>1. PICK x \in Nat \ S : \A y \in Nat \ S : x <= y
    BY <1>1, Least
  <2>2. x # 0 /\ x - 1 \in Nat
    BY <2>1
  <2>3. x - 1 \in S
    BY <2>1, <2>2
  <2> QED BY <2>1, <2>2, <2>3
<1> QED BY <1>1

(***************************************************************************)
(* One byte.                                                               *)
(***************************************************************************)
Word == SUBSET (0 .. 15)

\* Exclusive or, and a shift by one place.
Xor(x, y) == (x \ y) \union (y \ x)
Shift(x)  == {k \in 0 .. 15 : k # 0 /\ k - 1 \in x}

LEMMA TurnBits ==
  ASSUME NEW x \in Word, NEW b \in 0 .. 1
  PROVE  /\ Turn[x][b] \in Word
         /\ 0 \in Turn[x][b] <=> (b = 1 <=> ~(15 \in x))
         /\ \A k \in 1 .. 15 : k \in Turn[x][b] <=> ((k - 1 \in x) <=> ~(15 \in x /\ k \in {5, 12}))
<1>1. Turn[x][b] = {k \in 0 .. 15 : (IF k = 0 THEN b = 1 ELSE k - 1 \in x) <=> ~(15 \in x /\ k \in {0, 5, 12})}
  BY DEF Turn, Word
<1> QED BY <1>1 DEF Word

\* A turn loses nothing of the word before it.
LEMMA TurnInjective ==
  ASSUME NEW x \in Word, NEW y \in Word, NEW b \in 0 .. 1, Turn[x][b] = Turn[y][b]
  PROVE  x = y
<1>1. (15 \in x) <=> (15 \in y)
  BY TurnBits
<1>2. \A k \in 1 .. 15 : (k - 1 \in x) <=> (k - 1 \in y)
  BY <1>1, TurnBits
<1>3. \A k \in 0 .. 14 : (k \in x) <=> (k \in y)
  <2> TAKE k \in 0 .. 14
  <2>1. k + 1 \in 1 .. 15 /\ (k + 1) - 1 = k OBVIOUS
  <2> QED BY <1>2, <2>1
<1>4. x \subseteq 0 .. 15 /\ y \subseteq 0 .. 15
  BY DEF Word
<1>5. \A k \in 0 .. 15 : (k \in x) <=> (k \in y)
  <2> TAKE k \in 0 .. 15
  <2>1. k = 15 \/ k \in 0 .. 14 OBVIOUS
  <2> QED BY <1>1, <1>3, <2>1
<1> QED BY <1>4, <1>5

\* Bits below the highest pass through a turn as they are.
LEMMA TurnXor ==
  ASSUME NEW x \in Word, NEW d \in Word, 15 \notin d, NEW b \in 0 .. 1
  PROVE  /\ Xor(x, d) \in Word
         /\ Turn[Xor(x, d)][b] = Xor(Turn[x][0], Shift(d) \union IF b = 1 THEN {0} ELSE {})
<1> DEFINE y == Xor(x, d)
           e == Shift(d) \union IF b = 1 THEN {0} ELSE {}
<1>1. y \in Word /\ \A k \in 0 .. 15 : k \in y <=> ((k \in x) <=> ~(k \in d))
  BY DEF Xor, Word
<1>2. (15 \in y) <=> (15 \in x)
  BY <1>1
<1>3. 0 \in e <=> b = 1
  BY DEF Shift
<1>4. \A k \in 1 .. 15 : k \in e <=> k - 1 \in d
  BY DEF Shift
<1>5. e \subseteq 0 .. 15
  BY DEF Shift
<1> HIDE DEF e, y
<1>6. \A k \in 0 .. 15 : k \in Turn[y][b] <=> ((k \in Turn[x][0]) <=> ~(k \in e))
  <2>1. 0 \in Turn[y][b] <=> ((0 \in Turn[x][0]) <=> ~(0 \in e))
    BY <1>1, <1>2, <1>3, TurnBits
  <2>2. ASSUME NEW k \in 1 .. 15
        PROVE  k \in Turn[y][b] <=> ((k \in Turn[x][0]) <=> ~(k \in e))
    <3>1. k - 1 \in y <=> ((k - 1 \in x) <=> ~(k - 1 \in d)) BY <1>1
    <3>2. k \in Turn[y][b] <=> ((k - 1 \in y) <=> ~(15 \in y /\ k \in {5, 12})) BY <1>1, TurnBits
    <3>3. k \in Turn[x][0] <=> ((k - 1 \in x) <=> ~(15 \in x /\ k \in {5, 12})) BY TurnBits
    <3>4. k \in e <=> k - 1 \in d BY <1>4
    <3> QED BY <3>1, <3>2, <3>3, <3>4, <1>2
  <2>3. \A k \in 0 .. 15 : k = 0 \/ k \in 1 .. 15 OBVIOUS
  <2> QED BY <2>1, <2>2, <2>3
<1>7. Turn[y][b] \in Word /\ Turn[x][0] \in Word
  BY <1>1, TurnBits
<1>8. Turn[y][b] = Xor(Turn[x][0], e)
  BY <1>5, <1>6, <1>7 DEF Xor, Word
<1> QED BY <1>1, <1>8 DEF e, y

LEMMA BitTyped ==
  ASSUME NEW byte \in Bytes
  PROVE  /\ Bit[byte] \in [0 .. 7 -> 0 .. 1]
         /\ Bit[0] = [k \in 0 .. 7 |-> 0]
<1>1. \A k \in 0 .. 7 : Weight[k + 1] \in Nat \ {0}
  BY DEF Weight
<1>2. \A k \in 0 .. 7 : byte \div Weight[k + 1] \in Nat /\ 0 \div Weight[k + 1] = 0
  BY <1>1 DEF Bytes
<1>3. \A k \in 0 .. 7 : (byte \div Weight[k + 1]) % 2 \in 0 .. 1
  BY <1>2
<1>4. Bit[byte] = [k \in 0 .. 7 |-> (byte \div Weight[k + 1]) % 2]
  BY DEF Bit
<1>5. Bit[0] = [k \in 0 .. 7 |-> (0 \div Weight[k + 1]) % 2]
  BY DEF Bit, Bytes
<1> QED BY <1>2, <1>3, <1>4, <1>5

\* The words between the turns of a byte whose bits are b.
Turns(w, b) ==
  /\ w \in [0 .. 8 -> Word]
  /\ \A i \in 0 .. 7 : w[i + 1] = Turn[w[i]][b[7 - i]]

LEMMA EightTurns ==
  ASSUME NEW x \in Word, NEW byte \in Bytes
  PROVE  \E w : Turns(w, Bit[byte]) /\ w[0] = x /\ w[8] = calc_crc(x, byte)
<1> DEFINE b == Bit[byte]
<1>0. /\ b[7] \in 0 .. 1 /\ b[6] \in 0 .. 1 /\ b[5] \in 0 .. 1 /\ b[4] \in 0 .. 1
      /\ b[3] \in 0 .. 1 /\ b[2] \in 0 .. 1 /\ b[1] \in 0 .. 1 /\ b[0] \in 0 .. 1
  BY BitTyped
<1> DEFINE x1 == Turn[x][b[7]]   x2 == Turn[x1][b[6]]  x3 == Turn[x2][b[5]]
           x4 == Turn[x3][b[4]]  x5 == Turn[x4][b[3]]  x6 == Turn[x5][b[2]]
           x7 == Turn[x6][b[1]]  y == Turn[x7][b[0]]
<1>1. calc_crc(x, byte) = y
  BY DEF calc_crc
<1> HIDE DEF b, x1, x2, x3, x4, x5, x6, x7, y
<1>2. x1 \in Word BY <1>0, TurnBits DEF x1
<1>3. x2 \in Word BY <1>0, <1>2, TurnBits DEF x2
<1>4. x3 \in Word BY <1>0, <1>3, TurnBits DEF x3
<1>5. x4 \in Word BY <1>0, <1>4, TurnBits DEF x4
<1>6. x5 \in Word BY <1>0, <1>5, TurnBits DEF x5
<1>7. x6 \in Word BY <1>0, <1>6, TurnBits DEF x6
<1>8. x7 \in Word BY <1>0, <1>7, TurnBits DEF x7
<1>9. y \in Word BY <1>0, <1>8, TurnBits DEF y
<1>10. /\ x1 = Turn[x][b[7]] /\ x2 = Turn[x1][b[6]] /\ x3 = Turn[x2][b[5]] /\ x4 = Turn[x3][b[4]]
       /\ x5 = Turn[x4][b[3]] /\ x6 = Turn[x5][b[2]] /\ x7 = Turn[x6][b[1]] /\ y = Turn[x7][b[0]]
  BY DEF x1, x2, x3, x4, x5, x6, x7, y
<1> DEFINE w == [i \in 0 .. 8 |-> IF i = 0 THEN x ELSE IF i = 1 THEN x1 ELSE IF i = 2 THEN x2
                                   ELSE IF i = 3 THEN x3 ELSE IF i = 4 THEN x4 ELSE IF i = 5 THEN x5
                                   ELSE IF i = 6 THEN x6 ELSE IF i = 7 THEN x7 ELSE y]
<1>11. w \in [0 .. 8 -> Word]
  BY <1>2, <1>3, <1>4, <1>5, <1>6, <1>7, <1>8, <1>9
<1>12. /\ w[0] = x  /\ w[1] = x1 /\ w[2] = x2 /\ w[3] = x3 /\ w[4] = x4 /\ w[5] = x5
       /\ w[6] = x6 /\ w[7] = x7 /\ w[8] = y
  OBVIOUS
<1> HIDE DEF w
<1>13. ASSUME NEW i \in 0 .. 7 PROVE w[i + 1] = Turn[w[i]][b[7 - i]]
  <2>1. i \in {0, 1, 2, 3, 4, 5, 6, 7} OBVIOUS
  <2>2. CASE i = 0
    <3>1. i + 1 = 1 /\ 7 - i = 7 BY <2>2
    <3> QED BY <3>1, <2>2, <1>10, <1>12
  <2>3. CASE i = 1
    <3>1. i + 1 = 2 /\ 7 - i = 6 BY <2>3
    <3> QED BY <3>1, <2>3, <1>10, <1>12
  <2>4. CASE i = 2
    <3>1. i + 1 = 3 /\ 7 - i = 5 BY <2>4
    <3> QED BY <3>1, <2>4, <1>10, <1>12
  <2>5. CASE i = 3
    <3>1. i + 1 = 4 /\ 7 - i = 4 BY <2>5
    <3> QED BY <3>1, <2>5, <1>10, <1>12
  <2>6. CASE i = 4
    <3>1. i + 1 = 5 /\ 7 - i = 3 BY <2>6
    <3> QED BY <3>1, <2>6, <1>10, <1>12
  <2>7. CASE i = 5
    <3>1. i + 1 = 6 /\ 7 - i = 2 BY <2>7
    <3> QED BY <3>1, <2>7, <1>10, <1>12
  <2>8. CASE i = 6
    <3>1. i + 1 = 7 /\ 7 - i = 1 BY <2>8
    <3> QED BY <3>1, <2>8, <1>10, <1>12
  <2>9. CASE i = 7
    <3>1. i + 1 = 8 /\ 7 - i = 0 BY <2>9
    <3> QED BY <3>1, <2>9, <1>10, <1>12
  <2> QED BY <2>1, <2>2, <2>3, <2>4, <2>5, <2>6, <2>7, <2>8, <2>9
<1>14. Turns(w, b) BY <1>11, <1>13 DEF Turns
<1> QED BY <1>1, <1>12, <1>14 DEF b

LEMMA CrcTyped ==
  ASSUME NEW x \in Word, NEW byte \in Bytes
  PROVE  calc_crc(x, byte) \in Word
<1>1. PICK w : Turns(w, Bit[byte]) /\ w[0] = x /\ w[8] = calc_crc(x, byte)
  BY EightTurns
<1> QED BY <1>1 DEF Turns

\* The CRC never forgets a difference: the same byte leaves different words
\* different.
LEMMA CrcInjective ==
  ASSUME NEW x \in Word, NEW y \in Word, NEW byte \in Bytes, calc_crc(x, byte) = calc_crc(y, byte)
  PROVE  x = y
<1> DEFINE b == Bit[byte]
           z == calc_crc(x, byte)
<1>1. b \in [0 .. 7 -> 0 .. 1]
  BY BitTyped
<1>2. PICK v : Turns(v, b) /\ v[0] = x /\ v[8] = z
  BY EightTurns
<1>3. PICK w : Turns(w, b) /\ w[0] = y /\ w[8] = z
  BY EightTurns
<1> HIDE DEF b, z
<1>4. ASSUME NEW i \in 0 .. 7, v[i + 1] = w[i + 1] PROVE v[i] = w[i]
  <2>1. v[i] \in Word /\ w[i] \in Word BY <1>2, <1>3 DEF Turns
  <2>2. Turn[v[i]][b[7 - i]] = Turn[w[i]][b[7 - i]] BY <1>2, <1>3, <1>4 DEF Turns
  <2>3. b[7 - i] \in 0 .. 1 BY <1>1
  <2> QED BY <2>1, <2>2, <2>3, TurnInjective
<1>5. v[7] = w[7] BY <1>2, <1>3, <1>4
<1>6. v[6] = w[6] BY <1>4, <1>5
<1>7. v[5] = w[5] BY <1>4, <1>6
<1>8. v[4] = w[4] BY <1>4, <1>7
<1>9. v[3] = w[3] BY <1>4, <1>8
<1>10. v[2] = w[2] BY <1>4, <1>9
<1>11. v[1] = w[1] BY <1>4, <1>10
<1>12. v[0] = w[0] BY <1>4, <1>11
<1> QED BY <1>2, <1>3, <1>12

\* A byte passes into the low half of the word as it is, and what was in the
\* low half into the high half.
LEMMA CrcXor ==
  ASSUME NEW x \in Word, NEW d \in SUBSET (0 .. 7), NEW byte \in Bytes
  PROVE  /\ Xor(x, d) \in Word
         /\ calc_crc(Xor(x, d), byte) =
              Xor(calc_crc(x, 0), {k \in 0 .. 15 : IF k < 8 THEN Bit[byte][k] = 1 ELSE k - 8 \in d})
<1> DEFINE b == Bit[byte]
           e(i) == {k \in 0 .. 15 : IF k < i THEN b[8 - i + k] = 1 ELSE k - i \in d}
<1>0. b \in [0 .. 7 -> 0 .. 1]
  BY BitTyped
<1> HIDE DEF b
<1>2. ASSUME NEW i \in 0 .. 7
      PROVE  /\ e(i) \in Word /\ 15 \notin e(i)
             /\ Shift(e(i)) \union (IF b[7 - i] = 1 THEN {0} ELSE {}) = e(i + 1)
  <2>1. e(i) \in Word /\ 15 \notin e(i) BY DEF Word
  <2>2. \A k \in 1 .. 15 : k \in Shift(e(i)) <=> k - 1 \in e(i) BY DEF Shift
  <2>3. 0 \notin Shift(e(i)) /\ Shift(e(i)) \subseteq 0 .. 15 BY DEF Shift
  <2>4. \A k \in 1 .. 15 : k \in e(i + 1) <=> k - 1 \in e(i)
    <3> TAKE k \in 1 .. 15
    <3>1. k < i + 1 <=> k - 1 < i OBVIOUS
    <3>2. 8 - (i + 1) + k = 8 - i + (k - 1) /\ k - (i + 1) = (k - 1) - i OBVIOUS
    <3> QED BY <3>1, <3>2
  <2>5. 0 \in e(i + 1) <=> b[7 - i] = 1
    <3>1. 8 - (i + 1) + 0 = 7 - i OBVIOUS
    <3> QED BY <3>1
  <2>6. e(i + 1) \subseteq 0 .. 15 OBVIOUS
  <2> HIDE DEF e
  <2> QED BY <2>1, <2>2, <2>3, <2>4, <2>5, <2>6
<1>3. e(0) = d
  <2>1. \A k : k \in e(0) <=> k \in d
    <3> TAKE k
    <3>1. k \in e(0) => k \in d OBVIOUS
    <3>2. k \in d => k \in e(0) OBVIOUS
    <3> QED BY <3>1, <3>2
  <2> HIDE DEF e
  <2> QED BY <2>1
<1>4. e(8) = {k \in 0 .. 15 : IF k < 8 THEN b[k] = 1 ELSE k - 8 \in d}
  <2>1. \A k \in 0 .. 15 : 8 - 8 + k = k OBVIOUS
  <2> QED BY <2>1
<1> HIDE DEF e
<1>5. PICK v : Turns(v, Bit[0]) /\ v[0] = x /\ v[8] = calc_crc(x, 0)
  BY EightTurns DEF Bytes
<1>6. Xor(x, d) \in Word
  BY DEF Xor, Word
<1>7. PICK w : Turns(w, b) /\ w[0] = Xor(x, d) /\ w[8] = calc_crc(Xor(x, d), byte)
  BY <1>6, EightTurns DEF b
<1>8. ASSUME NEW i \in 0 .. 7, w[i] = Xor(v[i], e(i)) PROVE w[i + 1] = Xor(v[i + 1], e(i + 1))
  <2>1. Bit[0][7 - i] = 0
    <3>1. 7 - i \in 0 .. 7 /\ 0 \in Bytes BY DEF Bytes
    <3>2. Bit[0] = [k \in 0 .. 7 |-> 0] BY <3>1, BitTyped
    <3> QED BY <3>1, <3>2
  <2>2. v[i] \in Word /\ v[i + 1] = Turn[v[i]][0] BY <1>5, <2>1 DEF Turns
  <2>3. w[i + 1] = Turn[Xor(v[i], e(i))][b[7 - i]] BY <1>7, <1>8 DEF Turns
  <2>4. b[7 - i] \in 0 .. 1 BY <1>0
  <2> DEFINE u == v[i]  f == e(i)  c == b[7 - i]
  <2>5. u \in Word /\ f \in Word /\ 15 \notin f /\ c \in 0 .. 1 BY <1>2, <2>2, <2>4
  <2>6. Shift(f) \union (IF c = 1 THEN {0} ELSE {}) = e(i + 1) BY <1>2
  <2>7. w[i + 1] = Turn[Xor(u, f)][c] /\ v[i + 1] = Turn[u][0] BY <2>2, <2>3
  <2> HIDE DEF u, f, c
  <2>8. Turn[Xor(u, f)][c] = Xor(Turn[u][0], Shift(f) \union (IF c = 1 THEN {0} ELSE {}))
    BY <2>5, TurnXor
  <2> QED BY <2>6, <2>7, <2>8
<1>9. w[0] = Xor(v[0], e(0)) BY <1>3, <1>5, <1>7
<1>10. w[1] = Xor(v[1], e(1)) BY <1>8, <1>9
<1>11. w[2] = Xor(v[2], e(2)) BY <1>8, <1>10
<1>12. w[3] = Xor(v[3], e(3)) BY <1>8, <1>11
<1>13. w[4] = Xor(v[4], e(4)) BY <1>8, <1>12
<1>14. w[5] = Xor(v[5], e(5)) BY <1>8, <1>13
<1>15. w[6] = Xor(v[6], e(6)) BY <1>8, <1>14
<1>16. w[7] = Xor(v[7], e(7)) BY <1>8, <1>15
<1>17. w[8] = Xor(v[8], e(8)) BY <1>8, <1>16
<1> QED BY <1>4, <1>5, <1>6, <1>7, <1>17 DEF b

(***************************************************************************)
(* Some bytes, one after the other.                                        *)
(***************************************************************************)
Checks == [checksum : Bytes, crc_value : Word]
NoBytes == [checksum |-> 0, crc_value |-> {}]
After(before, byte) ==
  [checksum |-> (before.checksum + byte) % 256, crc_value |-> calc_crc(before.crc_value, byte)]

IsRun(run, bytes, n) ==
  run = [i \in 0 .. n |-> IF i = 0 THEN NoBytes ELSE After(run[i - 1], bytes[i])]

LEMMA RunExists ==
  ASSUME NEW bytes
  PROVE  \A n \in Nat : \E run : IsRun(run, bytes, n)
<1> DEFINE S == {n \in Nat : \E run : IsRun(run, bytes, n)}
<1>1. 0 \in S
  <2> DEFINE run == [i \in 0 .. 0 |-> NoBytes]
  <2>1. IsRun(run, bytes, 0)
    <3>1. \A i \in 0 .. 0 : i = 0 OBVIOUS
    <3>2. run = [i \in 0 .. 0 |-> IF i = 0 THEN NoBytes ELSE After(run[i - 1], bytes[i])] BY <3>1
    <3> QED BY <3>2 DEF IsRun
  <2> HIDE DEF run
  <2> QED BY <2>1
<1>2. ASSUME NEW n \in S PROVE n + 1 \in S
  <2>1. PICK run : IsRun(run, bytes, n) BY <1>2
  <2> DEFINE more == [i \in 0 .. n + 1 |-> IF i = n + 1 THEN After(run[n], bytes[n + 1]) ELSE run[i]]
  <2>2. n \in Nat OBVIOUS
  <2>3. \A i \in 0 .. n : run[i] = IF i = 0 THEN NoBytes ELSE After(run[i - 1], bytes[i])
    BY <2>1, <2>2 DEF IsRun
  <2>4. \A i \in 0 .. n : more[i] = run[i] BY <2>2
  <2>5. more[n + 1] = After(run[n], bytes[n + 1]) BY <2>2
  <2>6. ASSUME NEW i \in 0 .. n + 1
        PROVE  more[i] = IF i = 0 THEN NoBytes ELSE After(more[i - 1], bytes[i])
    <3> HIDE DEF more
    <3>1. CASE i = n + 1
      <4>1. i # 0 /\ i - 1 = n /\ n \in 0 .. n BY <2>2, <3>1
      <4> QED BY <2>4, <2>5, <3>1, <4>1
    <3>2. CASE i = 0 BY <2>2, <2>3, <2>4, <3>2
    <3>3. CASE i \in 1 .. n
      <4>1. i \in 0 .. n /\ i - 1 \in 0 .. n /\ i # 0 BY <2>2, <3>3
      <4> QED BY <2>3, <2>4, <4>1
    <3> QED BY <2>2, <3>1, <3>2, <3>3
  <2>7. IsRun(more, bytes, n + 1)
    <3>1. more = [i \in 0 .. n + 1 |-> more[i]] OBVIOUS
    <3> HIDE DEF more
    <3> QED BY <2>6, <3>1 DEF IsRun
  <2> HIDE DEF more
  <2> QED BY <2>2, <2>7
<1>3. S \subseteq Nat OBVIOUS
<1>4. \A n \in S : n + 1 \in S BY <1>2
<1> HIDE DEF S
<1>5. S = Nat BY <1>1, <1>3, <1>4, SetInduction
<1> QED BY <1>5 DEF S

LEMMA RunningIsRun ==
  ASSUME NEW bytes \in Seq(Bytes)
  PROVE  IsRun(Running(bytes), bytes, Len(bytes))
<1>1. Running(bytes) = CHOOSE run : IsRun(run, bytes, Len(bytes))
  BY Zenon DEF Running, IsRun, After, NoBytes
<1>2. \E run : IsRun(run, bytes, Len(bytes))
  BY RunExists
<1> HIDE DEF IsRun
<1> QED BY <1>1, <1>2, Zenon

LEMMA RunningSteps ==
  ASSUME NEW bytes \in Seq(Bytes)
  PROVE  /\ Running(bytes)[0] = NoBytes
         /\ \A i \in 1 .. Len(bytes) : Running(bytes)[i] = After(Running(bytes)[i - 1], bytes[i])
<1> DEFINE run == Running(bytes)  n == Len(bytes)
<1>1. n \in Nat
  OBVIOUS
<1>2. run = [i \in 0 .. n |-> IF i = 0 THEN NoBytes ELSE After(run[i - 1], bytes[i])]
  BY RunningIsRun DEF IsRun
<1> HIDE DEF run, n
<1>3. run[0] = NoBytes
  BY <1>1, <1>2
<1>4. \A i \in 1 .. n : run[i] = After(run[i - 1], bytes[i])
  BY <1>1, <1>2
<1> QED BY <1>3, <1>4 DEF run, n

LEMMA AfterTyped ==
  ASSUME NEW before \in Checks, NEW byte \in Bytes
  PROVE  /\ After(before, byte) \in Checks
         /\ After(before, byte).checksum = (before.checksum + byte) % 256
         /\ After(before, byte).crc_value = calc_crc(before.crc_value, byte)
<1>1. before.checksum \in 0 .. 255 /\ before.crc_value \in Word BY DEF Checks, Bytes
<1>2. calc_crc(before.crc_value, byte) \in Word BY <1>1, CrcTyped
<1>3. (before.checksum + byte) % 256 \in 0 .. 255
  <2>1. \A n \in Nat : n % 256 \in 0 .. 255 OBVIOUS
  <2>2. before.checksum + byte \in Nat BY <1>1 DEF Bytes
  <2> QED BY <2>1, <2>2
<1> QED BY <1>2, <1>3 DEF After, Checks, Bytes

LEMMA RunningTyped ==
  ASSUME NEW bytes \in Seq(Bytes)
  PROVE  \A i \in 0 .. Len(bytes) : Running(bytes)[i] \in Checks
<1> DEFINE S == {i \in Nat : i <= Len(bytes) => Running(bytes)[i] \in Checks}
<1>1. 0 \in S
  BY RunningSteps DEF NoBytes, Checks, Bytes, Word
<1>2. ASSUME NEW i \in S PROVE i + 1 \in S
  <2>1. SUFFICES ASSUME i + 1 <= Len(bytes) PROVE Running(bytes)[i + 1] \in Checks
    OBVIOUS
  <2>2. i \in Nat /\ Running(bytes)[i] \in Checks
    BY <2>1
  <2>3. i + 1 \in 1 .. Len(bytes) /\ (i + 1) - 1 = i
    BY <2>1, <2>2
  <2>4. Running(bytes)[i + 1] = After(Running(bytes)[i], bytes[i + 1])
    BY <2>3, RunningSteps
  <2>5. bytes[i + 1] \in Bytes
    BY <2>3
  <2> QED BY <2>2, <2>4, <2>5, AfterTyped
<1>3. S \subseteq Nat OBVIOUS
<1>4. \A i \in S : i + 1 \in S BY <1>2
<1> HIDE DEF S
<1>5. S = Nat BY <1>1, <1>3, <1>4, SetInduction
<1> QED BY <1>5 DEF S

LEMMA ChecksTyped ==
  ASSUME NEW bytes \in Seq(Bytes)
  PROVE  Checksum(bytes) \in Bytes /\ Crc(bytes) \in Word
<1>1. Running(bytes)[Len(bytes)] \in Checks
  BY RunningTyped
<1> QED BY <1>1 DEF Checksum, Crc, Checks

\* Two runs agree as long as their bytes do.
LEMMA SameStart ==
  ASSUME NEW a \in Seq(Bytes), NEW b \in Seq(Bytes), NEW n \in Nat,
         n <= Len(a), n <= Len(b), \A j \in 1 .. n : a[j] = b[j]
  PROVE  \A i \in 0 .. n : Running(a)[i] = Running(b)[i]
<1> DEFINE S == {i \in Nat : i <= n => Running(a)[i] = Running(b)[i]}
<1>1. 0 \in S
  BY RunningSteps
<1>2. ASSUME NEW i \in S PROVE i + 1 \in S
  <2>1. SUFFICES ASSUME i + 1 <= n PROVE Running(a)[i + 1] = Running(b)[i + 1]
    OBVIOUS
  <2>2. i \in Nat /\ Running(a)[i] = Running(b)[i]
    BY <2>1
  <2>3. i + 1 \in 1 .. Len(a) /\ i + 1 \in 1 .. Len(b) /\ (i + 1) - 1 = i /\ i + 1 \in 1 .. n
    BY <2>1, <2>2
  <2>4. Running(a)[i + 1] = After(Running(a)[i], a[i + 1]) /\ Running(b)[i + 1] = After(Running(b)[i], b[i + 1])
    BY <2>3, RunningSteps
  <2> QED BY <2>2, <2>3, <2>4
<1>3. S \subseteq Nat OBVIOUS
<1>4. \A i \in S : i + 1 \in S BY <1>2
<1> HIDE DEF S
<1>5. S = Nat BY <1>1, <1>3, <1>4, SetInduction
<1> QED BY <1>5 DEF S

(***************************************************************************)
(* What the checks detect.                                                 *)
(***************************************************************************)
LEMMA BitValues ==
  ASSUME NEW x \in Bytes
  PROVE  /\ Bit[x][0] = x % 2 /\ Bit[x][1] = (x \div 2) % 2
         /\ Bit[x][2] = (x \div 4) % 2 /\ Bit[x][3] = (x \div 8) % 2
         /\ Bit[x][4] = (x \div 16) % 2 /\ Bit[x][5] = (x \div 32) % 2
         /\ Bit[x][6] = (x \div 64) % 2 /\ Bit[x][7] = (x \div 128) % 2
<1>1. \A k \in 0 .. 7 : Bit[x][k] = (x \div Weight[k + 1]) % 2
  BY DEF Bit
<1>2. /\ Weight[0 + 1] = 1 /\ Weight[1 + 1] = 2 /\ Weight[2 + 1] = 4 /\ Weight[3 + 1] = 8
      /\ Weight[4 + 1] = 16 /\ Weight[5 + 1] = 32 /\ Weight[6 + 1] = 64 /\ Weight[7 + 1] = 128
  BY DEF Weight
<1>3. x \div 1 = x
  BY DEF Bytes
<1> QED BY <1>1, <1>2, <1>3

LEMMA BitsDiffer ==
  ASSUME NEW a \in Bytes, NEW b \in Bytes, \A k \in 0 .. 7 : Bit[a][k] = 1 <=> Bit[b][k] = 1
  PROVE  a = b
<1>1. \A k \in 0 .. 7 : Bit[a][k] = Bit[b][k]
  <2>1. \A k \in 0 .. 7 : Bit[a][k] \in 0 .. 1 /\ Bit[b][k] \in 0 .. 1 BY BitTyped
  <2> QED BY <2>1
<1>2. \A x \in Bytes : x = Bit[x][0] + 2 * Bit[x][1] + 4 * Bit[x][2] + 8 * Bit[x][3]
                           + 16 * Bit[x][4] + 32 * Bit[x][5] + 64 * Bit[x][6] + 128 * Bit[x][7]
  <2> TAKE x \in Bytes
  <2>1. x = (x % 2) + 2 * ((x \div 2) % 2) + 4 * ((x \div 4) % 2) + 8 * ((x \div 8) % 2)
              + 16 * ((x \div 16) % 2) + 32 * ((x \div 32) % 2)
              + 64 * ((x \div 64) % 2) + 128 * ((x \div 128) % 2)
    BY SMTT(60) DEF Bytes
  <2> QED BY <2>1, BitValues
<1> QED BY <1>1, <1>2

LEMMA ByteOfOnes ==
  ASSUME NEW ones \in SUBSET (0 .. 7)
  PROVE  ByteOf(ones) \in Bytes /\ \A k \in 0 .. 7 : Bit[ByteOf(ones)][k] = 1 <=> k \in ones
<1> DEFINE one(k) == IF k \in ones THEN 1 ELSE 0
           byte   == one(0) + 2 * one(1) + 4 * one(2) + 8 * one(3)
                       + 16 * one(4) + 32 * one(5) + 64 * one(6) + 128 * one(7)
<1>1. \A k : one(k) \in 0 .. 1 /\ (one(k) = 1 <=> k \in ones)
  OBVIOUS
<1> HIDE DEF one
<1>2. byte \in 0 .. 255
  BY <1>1
<1>3. /\ byte % 2 = one(0) /\ (byte \div 2) % 2 = one(1) /\ (byte \div 4) % 2 = one(2)
      /\ (byte \div 8) % 2 = one(3) /\ (byte \div 16) % 2 = one(4) /\ (byte \div 32) % 2 = one(5)
      /\ (byte \div 64) % 2 = one(6) /\ (byte \div 128) % 2 = one(7)
  BY <1>1
<1> HIDE DEF byte
<1>4. /\ Bit[byte][0] = byte % 2 /\ Bit[byte][1] = (byte \div 2) % 2
      /\ Bit[byte][2] = (byte \div 4) % 2 /\ Bit[byte][3] = (byte \div 8) % 2
      /\ Bit[byte][4] = (byte \div 16) % 2 /\ Bit[byte][5] = (byte \div 32) % 2
      /\ Bit[byte][6] = (byte \div 64) % 2 /\ Bit[byte][7] = (byte \div 128) % 2
  BY <1>2, BitValues DEF Bytes
<1>5. \A k \in 0 .. 7 : Bit[byte][k] = one(k)
  <2> TAKE k \in 0 .. 7
  <2>1. k \in {0, 1, 2, 3, 4, 5, 6, 7} OBVIOUS
  <2> QED BY <1>3, <1>4, <2>1
<1>6. byte \in Bytes /\ \A k \in 0 .. 7 : Bit[byte][k] = 1 <=> k \in ones
  BY <1>1, <1>2, <1>5 DEF Bytes
<1> QED BY <1>6 DEF ByteOf

\* A changed byte changes the word whatever it was; so does a changed word.
LEMMA CrcOfByte ==
  ASSUME NEW x \in Word, NEW a \in Bytes, NEW b \in Bytes, calc_crc(x, a) = calc_crc(x, b)
  PROVE  a = b
<1>1. Xor(x, {}) = x BY DEF Xor
<1> DEFINE in(c) == {k \in 0 .. 15 : IF k < 8 THEN Bit[c][k] = 1 ELSE k - 8 \in {}}
           z == calc_crc(x, 0)
<1>2. calc_crc(x, a) = Xor(z, in(a)) /\ calc_crc(x, b) = Xor(z, in(b))
  BY <1>1, CrcXor
<1>3. \A k \in 0 .. 7 : (k \in in(a) <=> Bit[a][k] = 1) /\ (k \in in(b) <=> Bit[b][k] = 1)
  OBVIOUS
<1> HIDE DEF in, z
<1>4. \A k : k \in in(a) <=> k \in in(b)
  BY <1>2 DEF Xor
<1> QED BY <1>3, <1>4, BitsDiffer

LEMMA SumOfByte ==
  ASSUME NEW x \in Bytes, NEW y \in Bytes, NEW a \in Bytes, NEW b \in Bytes,
         (x + a) % 256 = (y + b) % 256
  PROVE  (x = y => a = b) /\ (a = b => x = y)
<1> DEFINE m == x + a  n == y + b
<1>1. m \in 0 .. 510 /\ n \in 0 .. 510 BY DEF Bytes
<1>2. m % 256 = n % 256 OBVIOUS
<1>3. m - n \in {-256, 0, 256}
  <2>1. \A q \in 0 .. 510 : q % 256 = IF q < 256 THEN q ELSE q - 256 OBVIOUS
  <2> HIDE DEF m, n
  <2>2. m % 256 = IF m < 256 THEN m ELSE m - 256 BY <1>1, <2>1
  <2>3. n % 256 = IF n < 256 THEN n ELSE n - 256 BY <1>1, <2>1
  <2> QED BY <1>1, <1>2, <2>2, <2>3
<1> QED BY <1>3 DEF Bytes

\* One byte that is different makes both checks different.
LEMMA OneByteChanged ==
  ASSUME NEW a \in Seq(Bytes), NEW b \in Seq(Bytes), Len(a) = Len(b), NEW p \in 1 .. Len(a),
         a[p] # b[p], \A j \in 1 .. Len(a) : j # p => a[j] = b[j]
  PROVE  Checksum(a) # Checksum(b) /\ Crc(a) # Crc(b)
<1> DEFINE ra == Running(a)  rb == Running(b)
           differ(i) == ra[i].checksum # rb[i].checksum /\ ra[i].crc_value # rb[i].crc_value
<1>1. \A i \in 0 .. Len(a) : /\ ra[i] \in Checks /\ rb[i] \in Checks
                             /\ ra[i].checksum \in Bytes /\ rb[i].checksum \in Bytes
                             /\ ra[i].crc_value \in Word /\ rb[i].crc_value \in Word
  <2>1. \A i \in 0 .. Len(a) : ra[i] \in Checks /\ rb[i] \in Checks BY RunningTyped
  <2> QED BY <2>1 DEF Checks
<1>2. \A i \in 1 .. Len(a) : a[i] \in Bytes /\ b[i] \in Bytes
  OBVIOUS
<1>3. \A i \in 1 .. Len(a) :
        /\ ra[i].checksum = (ra[i - 1].checksum + a[i]) % 256
        /\ rb[i].checksum = (rb[i - 1].checksum + b[i]) % 256
        /\ ra[i].crc_value = calc_crc(ra[i - 1].crc_value, a[i])
        /\ rb[i].crc_value = calc_crc(rb[i - 1].crc_value, b[i])
  <2> TAKE i \in 1 .. Len(a)
  <2>1. ra[i - 1] \in Checks /\ rb[i - 1] \in Checks
    <3>1. i - 1 \in 0 .. Len(a) OBVIOUS
    <3> QED BY <1>1, <3>1
  <2>2. ra[i] = After(ra[i - 1], a[i]) /\ rb[i] = After(rb[i - 1], b[i]) BY RunningSteps
  <2>3. a[i] \in Bytes /\ b[i] \in Bytes BY <1>2
  <2> DEFINE u == ra[i - 1]  v == rb[i - 1]  x == a[i]  y == b[i]
  <2> HIDE DEF ra, rb, u, v, x, y
  <2>4. u \in Checks /\ v \in Checks /\ x \in Bytes /\ y \in Bytes BY <2>1, <2>3 DEF u, v, x, y
  <2>5. ra[i] = After(u, x) /\ rb[i] = After(v, y) BY <2>2 DEF u, v, x, y
  <2>6. /\ ra[i].checksum = (u.checksum + x) % 256 /\ rb[i].checksum = (v.checksum + y) % 256
        /\ ra[i].crc_value = calc_crc(u.crc_value, x) /\ rb[i].crc_value = calc_crc(v.crc_value, y)
    BY <2>4, <2>5, AfterTyped
  <2> QED BY <2>6 DEF u, v, x, y
<1>4. ra[p - 1] = rb[p - 1]
  <2>1. p - 1 \in Nat /\ p - 1 <= Len(a) /\ p - 1 <= Len(b) OBVIOUS
  <2>2. \A j \in 1 .. p - 1 : a[j] = b[j] OBVIOUS
  <2>3. p - 1 \in 0 .. p - 1 OBVIOUS
  <2> QED BY <2>1, <2>2, <2>3, SameStart
<1>5. differ(p)
  <2>1. p - 1 \in 0 .. Len(a) /\ p \in 1 .. Len(a) OBVIOUS
  <2> DEFINE before == ra[p - 1]
  <2>2. before.checksum \in Bytes /\ before.crc_value \in Word BY <1>1, <2>1
  <2>3. a[p] \in Bytes /\ b[p] \in Bytes BY <1>2
  <2>4. ra[p].checksum = (before.checksum + a[p]) % 256 /\ rb[p].checksum = (before.checksum + b[p]) % 256
    BY <1>3, <1>4
  <2>5. ra[p].crc_value = calc_crc(before.crc_value, a[p]) /\ rb[p].crc_value = calc_crc(before.crc_value, b[p])
    BY <1>3, <1>4
  <2> HIDE DEF ra, rb, before
  <2>6. ra[p].checksum # rb[p].checksum BY <2>2, <2>3, <2>4, SumOfByte
  <2>7. ra[p].crc_value # rb[p].crc_value BY <2>2, <2>3, <2>5, CrcOfByte
  <2> QED BY <2>6, <2>7
<1> DEFINE S == {n \in Nat : p + n <= Len(a) => differ(p + n)}
<1>6. 0 \in S
  BY <1>5
<1> HIDE DEF ra, rb
<1>7. ASSUME NEW n \in S PROVE n + 1 \in S
  <2>1. SUFFICES ASSUME p + (n + 1) <= Len(a) PROVE differ(p + (n + 1))
    OBVIOUS
  <2> DEFINE i == p + (n + 1)
  <2>2. n \in Nat /\ differ(p + n) BY <2>1
  <2>3. i \in 1 .. Len(a) /\ i - 1 = p + n /\ i - 1 \in 0 .. Len(a) /\ i # p BY <2>1, <2>2
  <2> HIDE DEF i
  <2>4. differ(i - 1) BY <2>2, <2>3
  <2>5. a[i] = b[i] /\ a[i] \in Bytes BY <1>2, <2>3
  <2>6. differ(i)
    BY <1>1, <1>3, <2>3, <2>4, <2>5, SumOfByte, CrcInjective, SMTT(60)
  <2> QED BY <2>6 DEF i
<1>8. S \subseteq Nat OBVIOUS
<1>9. \A n \in S : n + 1 \in S BY <1>7
<1> HIDE DEF S
<1>10. S = Nat BY <1>6, <1>8, <1>9, SetInduction
<1>11. Len(a) - p \in S BY <1>10
<1>12. p + (Len(a) - p) = Len(a) OBVIOUS
<1> HIDE DEF differ
<1>13. p + (Len(a) - p) <= Len(a) => differ(p + (Len(a) - p)) BY <1>11 DEF S
<1>14. differ(Len(a)) BY <1>12, <1>13
<1> QED BY <1>14 DEF differ, ra, rb, Checksum, Crc

LEMMA TwoMoreBytes ==
  ASSUME NEW data \in Seq(Bytes), NEW u \in Bytes, NEW v \in Bytes
  PROVE  Crc(data \o <<u, v>>) = calc_crc(calc_crc(Crc(data), u), v)
<1> DEFINE n == Len(data)  a == data \o <<u, v>>
<1>1. n \in Nat /\ a \in Seq(Bytes) /\ Len(a) = n + 2
  OBVIOUS
<1>2. a[n + 1] = u /\ a[n + 2] = v /\ \A j \in 1 .. n : a[j] = data[j]
  OBVIOUS
<1> HIDE DEF n, a
<1>3. Running(a)[n] = Running(data)[n]
  <2>1. n <= Len(a) /\ n <= Len(data) /\ n \in 0 .. n BY <1>1 DEF n
  <2> QED BY <1>1, <1>2, <2>1, SameStart
<1>4. Running(a)[n + 1] = After(Running(a)[n], u)
  <2>1. n + 1 \in 1 .. Len(a) /\ (n + 1) - 1 = n BY <1>1
  <2> QED BY <1>1, <1>2, <2>1, RunningSteps
<1>5. Running(a)[n + 2] = After(Running(a)[n + 1], v)
  <2>1. n + 2 \in 1 .. Len(a) /\ (n + 2) - 1 = n + 1 BY <1>1
  <2> QED BY <1>1, <1>2, <2>1, RunningSteps
<1>6. Running(a)[n] \in Checks /\ Running(a)[n + 1] \in Checks
  <2>1. n \in 0 .. Len(a) /\ n + 1 \in 0 .. Len(a) BY <1>1
  <2> QED BY <1>1, <2>1, RunningTyped
<1>7. Running(a)[n + 1].crc_value = calc_crc(Running(a)[n].crc_value, u)
  BY <1>4, <1>6, AfterTyped
<1>8. Running(a)[n + 2].crc_value = calc_crc(Running(a)[n + 1].crc_value, v)
  BY <1>5, <1>6, AfterTyped
<1>9. Crc(a) = Running(a)[n + 2].crc_value /\ Crc(data) = Running(data)[n].crc_value
  BY <1>1 DEF Crc, n
<1> QED BY <1>3, <1>7, <1>8, <1>9 DEF a

LEMMA CheckBytesTyped ==
  ASSUME NEW data \in Seq(Bytes), NEW crc_flag
  PROVE  /\ CheckBytes(crc_flag, data) \in Seq(Bytes)
         /\ Len(CheckBytes(crc_flag, data)) = IF crc_flag THEN 2 ELSE 1
<1> DEFINE word == Crc(data \o <<0, 0>>)
           high == {k \in 0 .. 7 : k + 8 \in word}
           low  == word \intersect 0 .. 7
<1>1. ByteOf(high) \in Bytes /\ ByteOf(low) \in Bytes
  <2>1. high \in SUBSET (0 .. 7) /\ low \in SUBSET (0 .. 7) OBVIOUS
  <2> HIDE DEF high, low
  <2> QED BY <2>1, ByteOfOnes
<1>2. Checksum(data) \in Bytes
  BY ChecksTyped
<1>3. CheckBytes(crc_flag, data) = IF crc_flag THEN <<ByteOf(high), ByteOf(low)>> ELSE <<Checksum(data)>>
  BY DEF CheckBytes
<1> HIDE DEF high, low
<1> QED BY <1>1, <1>2, <1>3

\* What sendfile sends after a sector makes the CRC 0 (cmodem2.c:263-269, 129): the
\* two zero bytes it appends make room for the check bytes, which then take the
\* place of the zeros and cancel the word.
LEMMA CrcOfWhole ==
  ASSUME NEW data \in Seq(Bytes)
  PROVE  Crc(data \o CheckBytes(TRUE, data)) = {}
<1> DEFINE x    == Crc(data)
           z    == calc_crc(x, 0)
           word == calc_crc(z, 0)
           high == {k \in 0 .. 7 : k + 8 \in word}
           low  == word \intersect 0 .. 7
           h    == ByteOf(high)
           l    == ByteOf(low)
           e    == {k \in 0 .. 15 : IF k < 8 THEN Bit[h][k] = 1 ELSE k - 8 \in {}}
           f    == {k \in 0 .. 15 : IF k < 8 THEN Bit[l][k] = 1 ELSE k - 8 \in high}
<1>1. 0 \in Bytes /\ x \in Word
  BY ChecksTyped DEF Bytes
<1>2. z \in Word /\ word \in Word
  <2>1. z \in Word BY <1>1, CrcTyped
  <2> QED BY <1>1, <2>1, CrcTyped
<1>3. Crc(data \o <<0, 0>>) = word
  BY <1>1, TwoMoreBytes
<1>4. high \in SUBSET (0 .. 7) /\ low \in SUBSET (0 .. 7)
  OBVIOUS
<1>5. CheckBytes(TRUE, data) = <<h, l>>
  BY <1>3 DEF CheckBytes
<1> HIDE DEF x, z, word
<1>6. h \in Bytes /\ \A k \in 0 .. 7 : Bit[h][k] = 1 <=> k \in high
  <2> HIDE DEF high
  <2> QED BY <1>4, ByteOfOnes
<1>7. l \in Bytes /\ \A k \in 0 .. 7 : Bit[l][k] = 1 <=> k \in low
  <2> HIDE DEF low
  <2> QED BY <1>4, ByteOfOnes
<1>8. e = high
  <2> HIDE DEF h
  <2>1. \A k : k \in high => k \in 0 .. 7 OBVIOUS
  <2> HIDE DEF high
  <2> QED BY <1>6, <2>1
<1>9. f = word
  <2>1. \A k \in 0 .. 7 : k \in f <=> k \in word
    <3>1. \A k \in 0 .. 7 : k \in f <=> Bit[l][k] = 1 OBVIOUS
    <3>2. \A k \in 0 .. 7 : k \in low <=> k \in word OBVIOUS
    <3> HIDE DEF f, low, l
    <3> QED BY <1>7, <3>1, <3>2
  <2>2. \A k \in 8 .. 15 : k \in f <=> k \in word
    <3> TAKE k \in 8 .. 15
    <3>1. k - 8 \in 0 .. 7 /\ (k - 8) + 8 = k OBVIOUS
    <3>2. k \in f <=> k - 8 \in high BY <1>4
    <3>3. k - 8 \in high <=> (k - 8) + 8 \in word BY <3>1
    <3> QED BY <3>1, <3>2, <3>3
  <2>3. f \subseteq 0 .. 15 OBVIOUS
  <2>4. word \subseteq 0 .. 15 BY <1>2 DEF Word
  <2> HIDE DEF f
  <2>5. 0 .. 15 = 0 .. 7 \union 8 .. 15 OBVIOUS
  <2>6. \A k : k \in f <=> k \in word BY <2>1, <2>2, <2>3, <2>4, <2>5
  <2> QED BY <2>6
<1>10. calc_crc(x, h) = Xor(z, high)
  <2>1. Xor(x, {}) = x /\ {} \in SUBSET (0 .. 7) BY DEF Xor
  <2>2. calc_crc(Xor(x, {}), h) = Xor(calc_crc(x, 0), e) BY <1>1, <1>6, <2>1, CrcXor
  <2> HIDE DEF e, high, h
  <2> QED BY <1>8, <2>1, <2>2 DEF z
<1>11. calc_crc(Xor(z, high), l) = Xor(word, f)
  <2> HIDE DEF high, l
  <2> QED BY <1>2, <1>4, <1>7, CrcXor DEF word
<1>12. Crc(data \o <<h, l>>) = calc_crc(calc_crc(x, h), l)
  BY <1>6, <1>7, TwoMoreBytes DEF x
<1>13. Xor(word, word) = {}
  BY DEF Xor
<1> HIDE DEF high, low, h, l, e, f
<1> QED BY <1>5, <1>9, <1>10, <1>11, <1>12, <1>13

\* What is sent of a sector after its number (cmodem2.c:255-271).
Coded(crc_flag, data) == data \o CheckBytes(crc_flag, data)

\* What the receiver requires of it (cmodem2.c:129-139).
Passes(crc_flag, record) ==
  IF crc_flag THEN Crc(record) = {} ELSE Checksum(SubSeq(record, 1, Len(record) - 1)) = record[Len(record)]

\* The receiver takes a record as it was sent and refuses one in which a single
\* byte, of the data or of the check bytes, is different: the CRC of the one is 0
\* and never that of the other, and a sum of bytes modulo 256 does not forget a
\* byte (cmodem2.c:116-139 against 255-271).
THEOREM ChangedByteDetected ==
  ASSUME NEW crc_flag, NEW data \in Seq(Bytes),
         NEW sent, sent = Coded(crc_flag, data),
         NEW record \in Seq(Bytes), Len(record) = Len(sent), NEW p \in DOMAIN sent, record[p] # sent[p],
         \A j \in DOMAIN sent : j # p => record[j] = sent[j]
  PROVE  Passes(crc_flag, sent) /\ ~ Passes(crc_flag, record)
<1> DEFINE check == CheckBytes(crc_flag, data)
<1>1. check \in Seq(Bytes) /\ Len(check) = IF crc_flag THEN 2 ELSE 1
  BY CheckBytesTyped
<1>2. sent \in Seq(Bytes) /\ Len(sent) = Len(data) + Len(check) /\ DOMAIN sent = 1 .. Len(sent)
  <2> HIDE DEF check
  <2>1. sent = data \o check BY DEF check, Coded
  <2>2. sent \in Seq(Bytes) BY <1>1, <2>1
  <2>3. Len(sent) = Len(data) + Len(check)
    <3>1. \A q \in Seq(Bytes) : Len(data \o q) = Len(data) + Len(q) OBVIOUS
    <3>2. check \in Seq(Bytes) BY <1>1
    <3> QED BY <2>1, <3>1, <3>2
  <2> QED BY <2>2, <2>3
<1>3. ASSUME crc_flag PROVE Crc(sent) = {}
  BY <1>3, CrcOfWhole DEF Coded
<1>4. ASSUME ~ crc_flag
      PROVE  SubSeq(sent, 1, Len(sent) - 1) = data /\ sent[Len(sent)] = Checksum(data) /\ Len(sent) = Len(data) + 1
  <2>1. check = <<Checksum(data)>> BY <1>4 DEF CheckBytes
  <2>2. sent = Append(data, Checksum(data)) BY <2>1 DEF Coded
  <2>3. Checksum(data) \in Bytes BY ChecksTyped
  <2> QED BY <2>2, <2>3
<1>5. Passes(crc_flag, sent)
  BY <1>3, <1>4 DEF Passes
<1>6. ~ Passes(crc_flag, record)
  <2>1. CASE crc_flag
    <3>1. Crc(record) # Crc(sent) BY <1>2, OneByteChanged
    <3> QED BY <1>3, <2>1, <3>1 DEF Passes
  <2>2. CASE ~ crc_flag
    <3> DEFINE n == Len(sent)  rest == SubSeq(record, 1, n - 1)
    <3>1. n \in Nat /\ n = Len(data) + 1 /\ Len(data) \in Nat BY <1>2, <1>4, <2>2
    <3>2. rest \in Seq(Bytes) /\ Len(rest) = Len(data) /\ \A j \in 1 .. Len(data) : rest[j] = record[j]
      BY <3>1
    <3>3. \A j \in 1 .. Len(data) : sent[j] = data[j]
      <4>1. \A j \in 1 .. Len(data) : SubSeq(sent, 1, n - 1)[j] = sent[j] BY <1>2, <3>1
      <4> QED BY <1>4, <2>2, <4>1
    <3> HIDE DEF n, rest
    <3>4. CASE p = n
      <4>1. ASSUME NEW j \in 1 .. Len(data) PROVE rest[j] = data[j]
        <5>1. n = Len(sent) BY DEF n
        <5>2. j \in DOMAIN sent /\ j # p BY <1>2, <3>1, <3>4, <5>1
        <5>3. record[j] = sent[j] BY <5>2
        <5> QED BY <3>2, <3>3, <5>3
      <4>2. rest = data
        <5>1. \A j \in 1 .. Len(data) : rest[j] = data[j] BY <4>1
        <5>2. \A j \in 1 .. Len(rest) : rest[j] = data[j] BY <3>2, <5>1
        <5> QED BY <3>2, <5>2, SeqEqual
      <4>3. record[n] # Checksum(data) BY <1>4, <2>2, <3>4 DEF n
      <4> QED BY <2>2, <4>2, <4>3 DEF Passes, rest, n
    <3>5. CASE p # n
      <4>1. p \in 1 .. Len(data) BY <1>2, <3>1, <3>5 DEF n
      <4>2. rest[p] # data[p] BY <3>2, <3>3, <4>1
      <4>3. \A j \in 1 .. Len(data) : j # p => rest[j] = data[j]
        <5>1. \A j \in 1 .. Len(data) : j \in DOMAIN sent BY <1>2, <3>1 DEF n
        <5> QED BY <3>2, <3>3, <5>1
      <4>4. Checksum(rest) # Checksum(data)
        <5>1. p \in 1 .. Len(rest) BY <3>2, <4>1
        <5> QED BY <3>2, <4>2, <4>3, <5>1, OneByteChanged
      <4>5. record[n] = Checksum(data)
        <5>1. n \in DOMAIN sent BY <1>2, <3>1 DEF n
        <5> QED BY <1>4, <2>2, <3>5, <5>1 DEF n
      <4> QED BY <2>2, <4>4, <4>5 DEF Passes, rest, n
    <3> QED BY <3>4, <3>5
  <2> QED BY <2>1, <2>2
<1> QED BY <1>5, <1>6

(***************************************************************************)
(* Part 2.  The transfer.                                                  *)
(***************************************************************************)

(***************************************************************************)
(* The inductive invariant.                                                *)
(***************************************************************************)
\* A request for checksums that is read as one for CRCs leaves the two ends in
\* different modes: every sector is then one byte longer than the receiver takes.
\* This is excluded: noise does not make a CRC request, or all are.
ModesAgree == CRC \notin Noise \/ FALSE \notin CrcFlags

Ended == r.pc \in {"over", "aborted"}
One(condition) == IF condition THEN 1 ELSE 0

\* The sender's tries and sector number by its place in sendfile.
Tries ==
  /\ s.pc = "off" => s.attempts = 0
  /\ s.pc = "request" => s.attempts < REQUESTMAX
  /\ s.pc \in {"sector", "eot"} => s.attempts <= RETRYMAX
  /\ s.pc = "sector" => s.sectnum <= Sectors
  /\ s.pc \in {"eot", "done"} => s.sectnum = Sectors + 1

\* The programs take turns: while the receiver reads a sector there is no answer
\* on the line, and while an answer is, no byte of a sector.
TakeTurns ==
  /\ r.pc # "aborted"
  /\ r.pc = "off" => up = <<>> /\ s.pc \in {"off", "request", "aborted"}
  /\ s.pc \in {"off", "request"} => r.pc \in {"off", "first"} /\ down = <<>>
  /\ r.pc = "first" => (down = <<>> /\ Len(up) <= 1) \/ up = <<>>
  /\ r.pc \in {"number", "complement", "data"} \cup Purging => up = <<>>
  /\ r.pc = "over" => r.buffer = <<>>

\* The sender sends CRCs only to a receiver that asks for them.
Modes ==
  /\ s.crc_flag => r.crc_flag
  /\ \A i \in DOMAIN up : up[i] = CRC => r.crc_flag

\* The bytes of a sector as the receiver counts them.
FrameLen == 3 + SECSIZ + CheckLen(r.crc_flag)

\* No more is on the line than what is left of the sector being received.
Lengths ==
  /\ r.pc = "off" => down = <<>>
  /\ r.pc = "first" => Len(down) <= FrameLen
  /\ r.pc = "number" => Len(down) + 1 <= FrameLen
  /\ r.pc = "complement" => Len(down) + 2 <= FrameLen
  /\ r.pc = "data" => Len(down) + 3 + Len(r.record) <= FrameLen \/ down = <<>>

\* What the sender has counted and the answers still on the line are sectors the
\* receiver kept and its answer to EOT.
Counted ==
  s.pc \in {"sector", "eot", "done"} =>
    (s.sectnum - 1) + One(s.pc = "done") + Len(up) <= Len(Received) + One(r.pc = "over")

\* After the last sector only EOT, or a byte in its place, is on the line: the
\* receiver does not get to the data of another sector, and answers only EOT.
Closing ==
  s.pc \in {"eot", "done"} =>
    /\ r.pc # "data"
    /\ r.pc = "first" => Len(down) <= 1
    /\ r.pc = "number" => down = <<>>
    /\ r.pc = "complement" => down = <<>> /\ r.sectcurr = 255
    /\ up # <<>> \/ s.pc = "done" => r.pc = "over"

\* Bytes that differ from others in one place at most.
Near(bytes, sent) ==
  /\ Len(bytes) = Len(sent)
  /\ \E p \in DOMAIN sent : \A j \in DOMAIN sent : j # p => bytes[j] = sent[j]

\* Bytes taken or on the line, after some others, are those of sector n but for
\* the one at place p.
Kept(n, p, bytes, before) ==
  \A j \in DOMAIN bytes : before + j # p => bytes[j] = Frame[r.crc_flag][n][before + j]

\* A sector of which no byte is missing is one that was sent, but for one byte: its
\* bytes are in the receiver's variables and on the line.
Whole ==
  /\ r.pc = "first" /\ Len(down) = FrameLen =>
       \E n \in 1 .. Sectors, p \in 1 .. FrameLen : Kept(n, p, down, 0)
  /\ r.pc = "number" /\ Len(down) + 1 = FrameLen =>
       \E n \in 1 .. Sectors, p \in 1 .. FrameLen : Kept(n, p, down, 1)
  /\ r.pc = "complement" /\ Len(down) + 2 = FrameLen =>
       \E n \in 1 .. Sectors, p \in 1 .. FrameLen : (p # 2 => r.sectcurr = n) /\ Kept(n, p, down, 2)
  /\ r.pc = "data" /\ ~ r.missing /\ Len(down) + 3 + Len(r.record) = FrameLen =>
       \E p \in 1 .. FrameLen : /\ r.sectcurr \in 1 .. Sectors
                      /\ Kept(r.sectcurr, p, r.record, 3)
                      /\ Kept(r.sectcurr, p, down, 3 + Len(r.record))

\* The receiver's sector number, until it wraps.
Numbers ==
  /\ Len(Received) < 256 => r.sectnum = Len(Received)
  /\ r.pc = "data" => r.sectcurr = (r.sectnum + 1) % 256

\* Lines on which nothing was lost or changed.
Clean == {<<>>, <<EOT>>} \cup {Frame[crc_flag][n] : crc_flag \in BOOLEAN, n \in 1 .. Sectors}

\* Every sector that is kept beyond those of the file took a fault: it comes under a
\* number that is not one of the file's, which a byte of it was changed into.
Spare == Len(Received) < Sectors + faults

Bounded ==
  /\ Len(Received) <= Sectors + faults
  /\ r.pc = "first" => Spare \/ down \in Clean
  /\ r.pc = "number" => Spare \/ (down # <<>> /\ Head(down) \in 1 .. Sectors)
  /\ r.pc \in {"complement", "data"} => Spare \/ r.sectcurr \in 1 .. Sectors

IInv ==
  /\ TypeOK /\ Tries /\ TakeTurns /\ Modes /\ Lengths /\ Counted /\ Closing

\* The receiver's part: what it keeps is what was sent.
KeptInv ==
  /\ Whole /\ Numbers /\ (Len(Received) < 256 => StoredOrGuessed)

(***************************************************************************)
(* Constants, sectors and lines.                                           *)
(***************************************************************************)
LEMMA Constants ==
  /\ SECSIZ \in Nat \ {0} /\ NSECTS \in Nat \ {0} /\ RETRYMAX \in Nat \ {0}
  /\ ERRORMAX \in Nat \ {0} /\ REQUESTMAX \in Nat \ {0} /\ MaxFaults \in Nat
  /\ Noise \subseteq Bytes /\ CrcFlags \subseteq BOOLEAN /\ File \in Seq(Bytes)
  /\ Sectors \in Nat /\ Sectors < 255
<1>1. \A a \in Nat, b \in Nat \ {0} : a \div b \in Nat
  OBVIOUS
<1>2. /\ SECSIZ \in Nat \ {0} /\ NSECTS \in Nat \ {0} /\ RETRYMAX \in Nat \ {0}
      /\ ERRORMAX \in Nat \ {0} /\ REQUESTMAX \in Nat \ {0} /\ MaxFaults \in Nat
      /\ Noise \subseteq Bytes /\ CrcFlags \subseteq BOOLEAN /\ File \in Seq(Bytes)
      /\ (Len(File) + SECSIZ - 1) \div SECSIZ < 255
  BY XmodemAssumption
<1>3. Len(File) + SECSIZ - 1 \in Nat
  BY <1>2
<1>4. Sectors \in Nat
  BY <1>1, <1>2, <1>3 DEF Sectors
<1> QED BY <1>2, <1>4 DEF Sectors

LEMMA SectorTyped ==
  ASSUME NEW n \in 1 .. Sectors
  PROVE  Sector[n] \in Block /\ Sector[n] \in Seq(Bytes) /\ Len(Sector[n]) = SECSIZ
<1>1. n \in Nat \ {0} /\ SECSIZ \in Nat \ {0} /\ File \in Seq(Bytes)
  BY Constants
<1>2. (n - 1) * SECSIZ \in Nat
  <2>1. \A a \in Nat, b \in Nat : a * b \in Nat OBVIOUS
  <2> QED BY <1>1, <2>1
<1> DEFINE k == (n - 1) * SECSIZ
<1>3. Sector[n] = [j \in 1 .. SECSIZ |-> IF k + j <= Len(File) THEN File[k + j] ELSE CTRL_Z]
  BY DEF Sector
<1> HIDE DEF k
<1>4. k \in Nat BY <1>2 DEF k
<1>5. \A j \in 1 .. SECSIZ : (IF k + j <= Len(File) THEN File[k + j] ELSE CTRL_Z) \in Bytes
  <2> TAKE j \in 1 .. SECSIZ
  <2>1. CTRL_Z \in Bytes BY DEF CTRL_Z, Bytes
  <2>2. ASSUME k + j <= Len(File) PROVE File[k + j] \in Bytes
    <3>1. k + j \in 1 .. Len(File) BY <1>1, <1>4, <2>2
    <3> QED BY <1>1, <3>1, ElementOfSeq
  <2> QED BY <2>1, <2>2
<1>6. Sector[n] \in [1 .. SECSIZ -> Bytes]
  BY <1>3, <1>5
<1>7. \A b \in [1 .. SECSIZ -> Bytes] : b \in Seq(Bytes) /\ Len(b) = SECSIZ
  BY <1>1
<1> QED BY <1>6, <1>7 DEF Block

LEMMA RecordTyped ==
  ASSUME NEW crc_flag \in BOOLEAN, NEW n \in 1 .. Sectors
  PROVE  /\ Record(crc_flag, n) \in Seq(Bytes)
         /\ Len(Record(crc_flag, n)) = SECSIZ + CheckLen(crc_flag)
         /\ \A j \in 1 .. SECSIZ : Record(crc_flag, n)[j] = Sector[n][j]
<1> DEFINE a == Sector[n]  b == CheckBytes(crc_flag, a)
<1>1. a \in Seq(Bytes) /\ Len(a) = SECSIZ /\ SECSIZ \in Nat
  BY SectorTyped, Constants
<1>2. b \in Seq(Bytes) /\ Len(b) = CheckLen(crc_flag)
  BY <1>1, CheckBytesTyped DEF CheckLen
<1> HIDE DEF a, b
<1>3. a \o b \in Seq(Bytes) /\ Len(a \o b) = Len(a) + Len(b) /\ \A j \in 1 .. Len(a) : (a \o b)[j] = a[j]
  BY <1>1, <1>2
<1> QED BY <1>1, <1>2, <1>3 DEF Record, a, b

LEMMA FrameTyped ==
  ASSUME NEW crc_flag \in BOOLEAN, NEW n \in 1 .. Sectors
  PROVE  /\ Frame[crc_flag][n] \in Seq(Bytes)
         /\ Len(Frame[crc_flag][n]) = 3 + SECSIZ + CheckLen(crc_flag)
         /\ Frame[crc_flag][n][1] = SOH /\ Frame[crc_flag][n][2] = n /\ Frame[crc_flag][n][3] = 255 - n
         /\ \A j \in 1 .. SECSIZ + CheckLen(crc_flag) : Frame[crc_flag][n][3 + j] = Record(crc_flag, n)[j]
<1> DEFINE a == Record(crc_flag, n)  h == <<SOH, n, 255 - n>>  k == SECSIZ + CheckLen(crc_flag)
<1>1. Frame[crc_flag][n] = h \o a
  BY DEF Frame
<1>2. a \in Seq(Bytes) /\ Len(a) = k /\ k \in Nat
  BY RecordTyped, Constants DEF CheckLen
<1>3. h \in Seq(Bytes) /\ Len(h) = 3 /\ h[1] = SOH /\ h[2] = n /\ h[3] = 255 - n
  BY Constants DEF SOH, Bytes
<1> HIDE DEF a, h, k
<1>4. /\ h \o a \in Seq(Bytes) /\ Len(h \o a) = 3 + Len(a)
      /\ \A j \in 1 .. 3 : (h \o a)[j] = h[j]
      /\ \A j \in 1 .. Len(a) : (h \o a)[3 + j] = a[j]
  <2>1. h \in Seq(Bytes) /\ a \in Seq(Bytes) BY <1>2, <1>3
  <2>2. h \o a \in Seq(Bytes) /\ Len(h \o a) = Len(h) + Len(a) BY <2>1
  <2>3. \A j \in 1 .. Len(h) : (h \o a)[j] = h[j] BY <2>1
  <2>4. \A j \in 1 .. Len(a) : (h \o a)[Len(h) + j] = a[j] BY <2>1
  <2> QED BY <1>3, <2>2, <2>3, <2>4
<1>5. Len(Frame[crc_flag][n]) = 3 + SECSIZ + CheckLen(crc_flag)
  BY <1>1, <1>2, <1>4, Constants DEF k, CheckLen
<1> QED BY <1>1, <1>2, <1>3, <1>4, <1>5 DEF a, k

LEMMA RestTyped ==
  ASSUME NEW line \in Seq(Bytes)
  PROVE  /\ Rest(line) \in Seq(Bytes)
         /\ line = <<>> => Rest(line) = <<>> /\ Len(Rest(line)) = 0
         /\ line # <<>> => /\ Len(Rest(line)) = Len(line) - 1
                           /\ Head(line) = line[1] /\ line[1] \in Bytes
                           /\ Len(line) = 1 => Rest(line) = <<>>
         /\ \A i \in DOMAIN Rest(line) : i + 1 \in DOMAIN line /\ Rest(line)[i] = line[i + 1]
<1>1. CASE line = <<>> BY <1>1 DEF Rest
<1>2. CASE line # <<>>
  <2>1. Rest(line) = Tail(line) BY <1>2 DEF Rest
  <2>2. Tail(line) \in Seq(Bytes) /\ Len(Tail(line)) = Len(line) - 1 BY <1>2
  <2>3. \A i \in 1 .. Len(line) - 1 : Tail(line)[i] = line[i + 1] BY <1>2
  <2>4. Head(line) = line[1] /\ line[1] \in Bytes BY <1>2
  <2>5. Len(line) = 1 => Tail(line) = <<>>
    <3> DEFINE q == Tail(line)
    <3>1. q # <<>> => Len(q) \in Nat \ {0} BY <2>2, EmptySeq, Zenon
    <3>2. Len(line) = 1 => Len(q) = 0 BY <2>2
    <3> QED BY <3>1, <3>2
  <2> QED BY <1>2, <2>1, <2>2, <2>3, <2>4, <2>5
<1> QED BY <1>1, <1>2

\* A lost byte leaves the line shorter, a changed one as long as it was.
LEMMA DamagedTyped ==
  ASSUME NEW bytes \in Seq(Bytes), NEW damaged \in Damaged(bytes)
  PROVE  /\ damaged \in Seq(Bytes) /\ Len(damaged) <= Len(bytes)
         /\ Len(damaged) = Len(bytes) => Near(damaged, bytes)
         /\ Len(bytes) = 1 => damaged = <<>> \/ (Len(damaged) = 1 /\ damaged[1] \in Noise)
<1>1. PICK i \in DOMAIN bytes :
        damaged = RemoveAt(bytes, i) \/ \E b \in Noise \ {bytes[i]} : damaged = ReplaceAt(bytes, i, b)
  BY DEF Damaged
<1>2. i \in 1 .. Len(bytes) /\ Len(bytes) \in Nat
  OBVIOUS
<1>3. CASE damaged = RemoveAt(bytes, i)
  <2> DEFINE a == SubSeq(bytes, 1, i - 1)  b == SubSeq(bytes, i + 1, Len(bytes))
  <2>1. a \in Seq(Bytes) /\ Len(a) = i - 1 BY <1>2
  <2>2. b \in Seq(Bytes) /\ Len(b) = Len(bytes) - i BY <1>2
  <2>3. damaged = a \o b BY <1>3 DEF RemoveAt
  <2> HIDE DEF a, b
  <2>4. damaged \in Seq(Bytes) /\ Len(damaged) = Len(bytes) - 1 BY <1>2, <2>1, <2>2, <2>3
  <2> QED BY <1>2, <2>4
<1>4. ASSUME NEW b \in Noise, damaged = ReplaceAt(bytes, i, b)
      PROVE  /\ damaged \in Seq(Bytes) /\ Len(damaged) = Len(bytes) /\ Near(damaged, bytes)
             /\ Len(bytes) = 1 => damaged[1] \in Noise
  <2>1. damaged = [bytes EXCEPT ![i] = b] BY <1>4 DEF ReplaceAt
  <2>2. b \in Bytes BY Constants
  <2>3. damaged \in Seq(Bytes) /\ Len(damaged) = Len(bytes) BY <1>2, <2>1, <2>2
  <2>4. \A j \in DOMAIN bytes : j # i => damaged[j] = bytes[j] BY <2>1
  <2>5. damaged[i] = b BY <1>2, <2>1
  <2> QED BY <1>2, <2>3, <2>4, <2>5 DEF Near
<1> QED BY <1>1, <1>2, <1>3, <1>4

LEMMA ArrivalsTyped ==
  ASSUME NEW bytes \in Seq(Bytes), bytes # <<>>, faults \in 0 .. MaxFaults, NEW a \in Arrivals(bytes)
  PROVE  /\ a[1] \in Seq(Bytes) /\ Len(a[1]) <= Len(bytes)
         /\ Len(a[1]) = Len(bytes) => Near(a[1], bytes)
         /\ Len(bytes) = 1 => a[1] = <<>> \/ (Len(a[1]) = 1 /\ a[1][1] \in Noise \cup {bytes[1]})
         /\ a[2] \in 0 .. 1 /\ faults + a[2] \in 0 .. MaxFaults
         /\ a[2] = 0 => a[1] = bytes
<1>1. MaxFaults \in Nat
  BY Constants
<1>2. CASE a = <<bytes, 0>>
  <2>1. Near(bytes, bytes)
    <3>1. 1 \in DOMAIN bytes OBVIOUS
    <3> QED BY <3>1 DEF Near
  <2> QED BY <1>1, <1>2, <2>1
<1>3. ASSUME NEW damaged \in Damaged(bytes), a = <<damaged, 1>>, faults # MaxFaults
      PROVE  /\ a[1] = damaged /\ a[2] = 1 /\ faults + 1 \in 0 .. MaxFaults
  BY <1>1, <1>3
<1>4. a = <<bytes, 0>> \/ (faults # MaxFaults /\ \E damaged \in Damaged(bytes) : a = <<damaged, 1>>)
  BY DEF Arrivals
<1> QED BY <1>2, <1>3, <1>4, DamagedTyped

LEMMA SentDown ==
  ASSUME TypeOK, NEW bytes \in Seq(Bytes), bytes # <<>>, SendDown(bytes)
  PROVE  /\ down' \in Seq(Bytes) /\ faults' \in faults .. MaxFaults
         /\ down = <<>> => /\ Len(down') <= Len(bytes)
                           /\ Len(down') = Len(bytes) => Near(down', bytes)
                           /\ faults' = faults => down' = bytes
<1>1. PICK a \in Arrivals(bytes) : down' = down \o a[1] /\ faults' = faults + a[2]
  BY DEF SendDown
<1>2. faults \in 0 .. MaxFaults /\ down \in Seq(Bytes) /\ MaxFaults \in Nat
  BY Constants DEF TypeOK
<1> DEFINE got == a[1]  more == a[2]
<1>3. /\ got \in Seq(Bytes) /\ Len(got) <= Len(bytes)
      /\ Len(got) = Len(bytes) => Near(got, bytes)
      /\ more \in 0 .. 1 /\ faults + more \in 0 .. MaxFaults /\ (more = 0 => got = bytes)
  BY <1>2, ArrivalsTyped
<1> HIDE DEF got, more
<1>4. down' = down \o got /\ faults' = faults + more
  BY <1>1 DEF got, more
<1>5. down' \in Seq(Bytes)
  BY <1>2, <1>3, <1>4
<1>6. faults' \in faults .. MaxFaults /\ (faults' = faults => more = 0)
  BY <1>2, <1>3, <1>4
<1>7. down = <<>> => down' = got
  <2>1. \A q \in Seq(Bytes) : <<>> \o q = q OBVIOUS
  <2> QED BY <1>3, <1>4, <2>1
<1> QED BY <1>3, <1>5, <1>6, <1>7

LEMMA SentUp ==
  ASSUME TypeOK, NEW byte \in Bytes, SendUp(byte)
  PROVE  /\ up' \in Seq(Bytes) /\ faults' \in faults .. MaxFaults
         /\ Len(up') <= Len(up) + 1
         /\ \A i \in DOMAIN up' : (i \in DOMAIN up /\ up'[i] = up[i]) \/ up'[i] \in Noise \cup {byte}
<1> DEFINE bytes == <<byte>>
<1>1. PICK a \in Arrivals(bytes) : up' = up \o a[1] /\ faults' = faults + a[2]
  BY DEF SendUp
<1>2. faults \in 0 .. MaxFaults /\ up \in Seq(Bytes) /\ MaxFaults \in Nat
  BY Constants DEF TypeOK
<1>3. bytes \in Seq(Bytes) /\ bytes # <<>> /\ Len(bytes) = 1 /\ bytes[1] = byte
  OBVIOUS
<1> HIDE DEF bytes
<1> DEFINE got == a[1]  more == a[2]
<1>4. /\ got \in Seq(Bytes) /\ Len(got) <= 1
      /\ got = <<>> \/ (Len(got) = 1 /\ got[1] \in Noise \cup {byte})
      /\ more \in 0 .. 1 /\ faults + more \in 0 .. MaxFaults
  BY <1>2, <1>3, ArrivalsTyped
<1> HIDE DEF got, more
<1>5. up' = up \o got /\ faults' = faults + more
  BY <1>1 DEF got, more
<1>6. up' \in Seq(Bytes) /\ Len(up') = Len(up) + Len(got)
  BY <1>2, <1>4, <1>5
<1>7. faults' \in faults .. MaxFaults
  BY <1>2, <1>4, <1>5
<1>8. \A i \in 1 .. Len(up) : up'[i] = up[i]
  BY <1>2, <1>4, <1>5
<1>9. ASSUME Len(got) = 1 PROVE up'[Len(up) + 1] = got[1]
  <2>1. \A j \in 1 .. Len(got) : up'[Len(up) + j] = got[j] BY <1>2, <1>4, <1>5
  <2> QED BY <1>9, <2>1
<1>10. ASSUME NEW i \in DOMAIN up', ~(i \in DOMAIN up /\ up'[i] = up[i]) PROVE up'[i] \in Noise \cup {byte}
  <2>1. i \in 1 .. Len(up) + Len(got) BY <1>6
  <2>2. i \notin 1 .. Len(up) BY <1>2, <1>8, <1>10
  <2>3. Len(got) = 1 /\ i = Len(up) + 1 BY <1>2, <1>4, <2>1, <2>2
  <2>4. got # <<>> BY <2>3
  <2>5. up'[i] = got[1] BY <1>9, <2>3
  <2> QED BY <1>4, <2>4, <2>5
<1> QED BY <1>4, <1>6, <1>7, <1>10, <1>2

(***************************************************************************)
(* Receiving bytes.                                                        *)
(***************************************************************************)

\* What a timeout reads as is a byte, and never one of the control bytes.
LEMMA TimedOutValue == TimedOut = 255
<1>1. \A n \in Int : n + 1 = 0 => n % 256 = 255 OBVIOUS
<1>2. TIMEOUT \in Int /\ TIMEOUT + 1 = 0 BY DEF TIMEOUT
<1> QED BY <1>1, <1>2 DEF TimedOut

LEMMA IncomingTyped ==
  ASSUME TypeOK
  PROVE  /\ Incoming \in Bytes /\ Incoming # TIMEOUT
         /\ down = <<>> => Incoming = 255
         /\ down # <<>> => Incoming = down[1]
<1>1. down \in Seq(Bytes)
  BY DEF TypeOK
<1>2. CASE down = <<>>
  BY <1>2, TimedOutValue DEF Incoming, Bytes, TIMEOUT
<1>3. CASE down # <<>>
  <2>1. Head(down) = down[1] /\ down[1] \in Bytes BY <1>1, <1>3, RestTyped
  <2>2. Incoming = Head(down) BY <1>3 DEF Incoming
  <2>3. \A byte \in Bytes : byte # TIMEOUT BY DEF Bytes, TIMEOUT
  <2> QED BY <1>3, <2>1, <2>2, <2>3
<1> QED BY <1>2, <1>3

\* Where the sender may be when it gets an answer or times out, and what is on the
\* lines then.
LEMMA SenderTurn ==
  ASSUME TypeOK, TakeTurns, Answers # {}
  PROVE  /\ r.pc \in {"off", "first", "over"} \cup Purging
         /\ r.pc \in {"off", "first"} => down = <<>> /\ Rest(up) = <<>>
         /\ r.pc \in {"off"} \cup Purging => up = <<>>
         /\ Answers \subseteq Bytes
         /\ \A answer \in Answers : answer # 255 => up # <<>> /\ answer = up[1]
<1>1. up \in Seq(Bytes) /\ Len(up) \in Nat
  BY DEF TypeOK
<1>2. CASE up = <<>>
  <2>1. ReceiverIdle /\ Answers = {255} BY <1>2, TimedOutValue DEF Answers
  <2>2. Rest(up) = <<>> BY <1>2 DEF Rest
  <2> QED BY <1>2, <2>1, <2>2 DEF ReceiverIdle, TakeTurns, Purging, Bytes
<1>3. CASE up # <<>>
  <2>1. Answers = {up[1]} /\ up[1] \in Bytes BY <1>1, <1>3, RestTyped DEF Answers
  <2>2. r.pc \notin {"off", "number", "complement", "data", "aborted"} \cup Purging BY <1>3 DEF TakeTurns
  <2>3. r.pc \in {"first", "over"} BY <2>2 DEF TypeOK, ReceiveState, Purging
  <2>4. r.pc = "first" => down = <<>> /\ Len(up) <= 1 BY <1>3 DEF TakeTurns
  <2>5. Len(up) <= 1 => Rest(up) = <<>>
    <3>1. Len(up) # 0 BY <1>1, <1>3
    <3> QED BY <1>1, <1>3, <3>1, RestTyped
  <2> QED BY <1>3, <2>1, <2>2, <2>3, <2>4, <2>5
<1> QED BY <1>2, <1>3

(***************************************************************************)
(* sendfile keeps the invariant.                                           *)
(***************************************************************************)
LEMMA FrameLenTyped ==
  ASSUME r \in ReceiveState
  PROVE  FrameLen \in Nat /\ FrameLen >= 5 /\ r.crc_flag \in BOOLEAN
<1>1. r.crc_flag \in CrcFlags
  BY DEF ReceiveState
<1> QED BY <1>1, Constants DEF FrameLen, CheckLen

LEMMA ReceivedTyped ==
  ASSUME r \in ReceiveState
  PROVE  /\ Len(Received) = Len(r.stored) + Len(r.buffer)
         /\ Len(r.stored) \in Nat /\ Len(r.buffer) \in Nat /\ Len(Received) \in Nat
<1> DEFINE a == r.stored  b == r.buffer
<1>1. a \in Seq(Block) /\ b \in Seq(Block)
  BY DEF ReceiveState
<1> HIDE DEF a, b
<1>2. Len(a \o b) = Len(a) + Len(b) /\ Len(a) \in Nat /\ Len(b) \in Nat /\ Len(a) + Len(b) \in Nat
  BY <1>1
<1> QED BY <1>2 DEF Received, a, b

\* What a step of the sender leaves true of the lines and of the receiver: it gets
\* its turn only when the receiver waits for a sector, has ended or purges the line.
LEMMA SenderKeeps ==
  ASSUME IInv, Answers # {}, s.pc \in {"request", "sector", "eot"},
         s' \in SendState, Tries', Counted', r' = r, guessed' = guessed, up' = Rest(up),
         \/ down' = down /\ faults' = faults /\ s'.pc \in {"request", "aborted", "done"}
         \/ /\ s'.pc \in {"sector", "eot"}
            /\ \E bytes \in Seq(Bytes) :
                 /\ bytes # <<>> /\ Len(bytes) <= FrameLen /\ (s'.pc = "eot" => Len(bytes) = 1)
                 /\ SendDown(bytes),
         s'.pc = "request" => s.pc = "request",
         r.pc = "off" => s'.pc \in {"request", "aborted"},
         s'.pc = "done" => r.pc = "over",
         s'.crc_flag => r.crc_flag
  PROVE  IInv'
<1>1. TypeOK /\ TakeTurns /\ Modes /\ Lengths
  BY DEF IInv
<1>2. /\ r.pc \in {"off", "first", "over"} \cup Purging
      /\ r.pc \in {"off", "first"} => down = <<>> /\ Rest(up) = <<>>
      /\ r.pc \in {"off"} \cup Purging => up = <<>>
  BY <1>1, SenderTurn
<1>3. /\ up' \in Seq(Bytes) /\ (up = <<>> => up' = <<>>)
      /\ \A i \in DOMAIN up' : i + 1 \in DOMAIN up /\ up'[i] = up[i + 1]
  BY <1>1, RestTyped DEF TypeOK
<1>4. r \in ReceiveState /\ FrameLen \in Nat /\ FrameLen >= 5
  BY <1>1, FrameLenTyped DEF TypeOK
<1>5. /\ down' \in Seq(Bytes) /\ faults' \in 0 .. MaxFaults
      /\ s'.pc \in {"request", "aborted", "done"} => down' = down
      /\ down = <<>> => Len(down') <= FrameLen /\ (s'.pc = "eot" => Len(down') <= 1)
  <2>1. CASE down' = down /\ faults' = faults /\ s'.pc \in {"request", "aborted", "done"}
    BY <1>1, <1>4, <2>1 DEF TypeOK
  <2>2. ASSUME NEW bytes \in Seq(Bytes), s'.pc \in {"sector", "eot"}, bytes # <<>>, Len(bytes) <= FrameLen,
               s'.pc = "eot" => Len(bytes) = 1, SendDown(bytes)
        PROVE  /\ down' \in Seq(Bytes) /\ faults' \in 0 .. MaxFaults
               /\ s'.pc \in {"request", "aborted", "done"} => down' = down
               /\ down = <<>> => Len(down') <= FrameLen /\ (s'.pc = "eot" => Len(down') <= 1)
    <3>1. down' \in Seq(Bytes) /\ faults' \in faults .. MaxFaults /\ (down = <<>> => Len(down') <= Len(bytes))
      BY <1>1, <2>2, SentDown
    <3>2. faults' \in 0 .. MaxFaults BY <1>1, <3>1, Constants DEF TypeOK
    <3>3. Len(down') \in Nat /\ Len(bytes) \in Nat BY <3>1
    <3>4. down = <<>> => Len(down') <= FrameLen BY <1>4, <2>2, <3>1, <3>3
    <3>5. down = <<>> /\ s'.pc = "eot" => Len(down') <= 1 BY <2>2, <3>1, <3>3
    <3>6. s'.pc \notin {"request", "aborted", "done"} BY <2>2
    <3> QED BY <3>1, <3>2, <3>4, <3>5, <3>6
  <2> QED BY <2>1, <2>2
<1>6. TypeOK'
  BY <1>1, <1>3, <1>5 DEF TypeOK, ReceiveState, SendState
<1>7. TakeTurns'
  BY <1>1, <1>2, <1>3, <1>5 DEF TakeTurns, Purging
<1>8. Modes'
  BY <1>1, <1>3 DEF Modes
<1>9. Lengths'
  <2>1. r'.pc \notin {"number", "complement", "data"} BY <1>2 DEF Purging
  <2>2. r'.pc = "off" => down' = <<>> BY <1>2, <1>5
  <2>3. r'.pc = "first" => Len(down') <= FrameLen BY <1>2, <1>5
  <2>4. FrameLen' = FrameLen BY DEF FrameLen
  <2> QED BY <2>1, <2>2, <2>3, <2>4 DEF Lengths
<1>10. Closing'
  <2>1. r'.pc \notin {"number", "complement", "data"} BY <1>2 DEF Purging
  <2>2. ASSUME s'.pc \in {"eot", "done"}, r'.pc = "first" PROVE Len(down') <= 1
    <3>1. down = <<>> BY <1>2, <2>2
    <3>2. CASE s'.pc = "eot" BY <1>5, <3>1, <3>2
    <3>3. CASE s'.pc = "done" BY <2>2, <3>3
    <3> QED BY <2>2, <3>2, <3>3
  <2>3. up' # <<>> => r'.pc = "over"
    BY <1>2, <1>3
  <2> QED BY <2>1, <2>2, <2>3 DEF Closing
<1> QED BY <1>6, <1>7, <1>8, <1>9, <1>10 DEF IInv

LEMMA StartSendingKeeps ==
  ASSUME IInv, StartSending
  PROVE  IInv'
<1>1. /\ s \in SendState /\ s.pc = "off" /\ s' = [s EXCEPT !.pc = "request"] /\ up' = <<>>
      /\ r' = r /\ down' = down /\ faults' = faults /\ guessed' = guessed
  BY DEF IInv, TypeOK, StartSending
<1>2. s' \in SendState /\ s'.pc = "request" /\ s'.attempts = s.attempts /\ s'.crc_flag = s.crc_flag
  BY <1>1 DEF SendState
<1>3. r.pc \in {"off", "first"} /\ down = <<>>
  BY <1>1 DEF IInv, TakeTurns
<1>4. TypeOK'
  BY <1>1, <1>2 DEF IInv, TypeOK, ReceiveState
<1>5. Tries'
  BY <1>1, <1>2, Constants DEF IInv, Tries
<1>6. TakeTurns'
  BY <1>1, <1>2, <1>3 DEF IInv, TakeTurns, Purging
<1>7. Modes'
  BY <1>1, <1>2 DEF IInv, Modes
<1>8. Lengths'
  BY <1>1 DEF IInv, Lengths, FrameLen
<1>9. Counted' /\ Closing'
  BY <1>2 DEF Counted, Closing
<1> QED BY <1>4, <1>5, <1>6, <1>7, <1>8, <1>9 DEF IInv

\* What Proceed sends, and where it leaves the sender.
LEMMA ProceedSends ==
  ASSUME TypeOK, NEW crc_flag \in BOOLEAN, NEW n \in 1 .. Sectors + 1, Proceed(crc_flag, n),
         crc_flag => r.crc_flag
  PROVE  /\ s' \in SendState /\ s'.pc \in {"sector", "eot"} /\ Tries'
         /\ s'.crc_flag = crc_flag /\ s'.sectnum = n
         /\ \E bytes \in Seq(Bytes) :
              /\ bytes # <<>> /\ Len(bytes) <= FrameLen /\ (s'.pc = "eot" => Len(bytes) = 1)
              /\ SendDown(bytes)
<1>1. s' = [pc |-> IF n <= Sectors THEN "sector" ELSE "eot", crc_flag |-> crc_flag, sectnum |-> n, attempts |-> 1]
  BY DEF Proceed
<1>2. s' \in SendState /\ s'.crc_flag = crc_flag /\ s'.sectnum = n /\ s'.attempts = 1
      /\ s'.pc = IF n <= Sectors THEN "sector" ELSE "eot"
  BY <1>1, Constants DEF SendState
<1>3. Tries'
  BY <1>2, Constants DEF Tries
<1>4. FrameLen \in Nat /\ FrameLen >= 5
  BY FrameLenTyped DEF TypeOK
<1>5. CASE n <= Sectors
  <2> DEFINE bytes == Frame[crc_flag][n]
  <2>1. n \in 1 .. Sectors BY <1>5
  <2>2. bytes \in Seq(Bytes) /\ Len(bytes) = 3 + SECSIZ + CheckLen(crc_flag) BY <2>1, FrameTyped
  <2>3. SendDown(bytes) BY <1>5 DEF Proceed
  <2>4. 3 + SECSIZ + CheckLen(crc_flag) <= FrameLen BY Constants DEF FrameLen, CheckLen
  <2>5. bytes # <<>>
    <3> HIDE DEF bytes
    <3>1. Len(bytes) # 0 BY <2>2, Constants DEF CheckLen
    <3> QED BY <3>1
  <2> HIDE DEF bytes
  <2> QED BY <1>2, <1>3, <1>5, <2>2, <2>3, <2>4, <2>5
<1>6. CASE ~(n <= Sectors)
  <2> DEFINE bytes == <<EOT>>
  <2>1. bytes \in Seq(Bytes) /\ Len(bytes) = 1 /\ bytes # <<>> BY DEF EOT, Bytes
  <2>2. SendDown(bytes) BY <1>6 DEF Proceed
  <2> HIDE DEF bytes
  <2>3. Len(bytes) <= FrameLen BY <1>4, <2>1
  <2> QED BY <1>2, <1>3, <1>6, <2>1, <2>2, <2>3
<1> QED BY <1>5, <1>6

LEMMA RequestKeeps ==
  ASSUME IInv, Request
  PROVE  IInv'
<1>1. /\ s \in SendState /\ s.pc = "request" /\ up' = Rest(up) /\ r' = r /\ guessed' = guessed
      /\ TypeOK /\ TakeTurns /\ Modes /\ Tries
  BY DEF IInv, TypeOK, Request
<1>2. PICK rqst \in Answers :
        IF rqst \in {NAK, CRC} THEN Proceed(rqst = CRC, 1)
        ELSE /\ s' = [s EXCEPT !.attempts = @ + 1, !.pc = IF s.attempts + 1 = REQUESTMAX THEN "aborted" ELSE @]
             /\ UNCHANGED <<down, faults>>
  BY DEF Request
<1>3. Answers # {} OBVIOUS
<1>4. CASE rqst \in {NAK, CRC}
  <2>1. up # <<>> /\ rqst = up[1]
    <3>1. rqst # 255 BY <1>4 DEF NAK, CRC
    <3> QED BY <1>1, <1>3, <3>1, SenderTurn
  <2>2. r.pc = "first" /\ Rest(up) = <<>>
    <3>1. r.pc \in {"off", "first"} BY <1>1 DEF TakeTurns
    <3>2. r.pc # "off" BY <1>1, <2>1 DEF TakeTurns
    <3>3. r.pc = "first" BY <3>1, <3>2
    <3>4. r.pc \in {"off", "first"} => down = <<>> /\ Rest(up) = <<>> BY <1>1, <1>3, SenderTurn
    <3> QED BY <3>3, <3>4
  <2>3. (rqst = CRC) => r.crc_flag
    <3>1. 1 \in DOMAIN up BY <1>1, <2>1 DEF TypeOK
    <3> QED BY <1>1, <2>1, <3>1 DEF Modes
  <2> DEFINE flag == rqst = CRC
  <2>4. flag \in BOOLEAN /\ 1 \in 1 .. Sectors + 1 /\ Proceed(flag, 1) BY <1>2, <1>4, Constants
  <2>5. flag => r.crc_flag BY <2>3
  <2> HIDE DEF flag
  <2>6. /\ s' \in SendState /\ s'.pc \in {"sector", "eot"} /\ Tries'
        /\ s'.crc_flag = flag /\ s'.sectnum = 1
        /\ \E bytes \in Seq(Bytes) :
             /\ bytes # <<>> /\ Len(bytes) <= FrameLen /\ (s'.pc = "eot" => Len(bytes) = 1)
             /\ SendDown(bytes)
    BY <1>1, <2>4, <2>5, ProceedSends
  <2>7. Counted'
    <3>1. Received' = Received BY <1>1 DEF Received
    <3>2. Len(Received) \in Nat BY <1>1, ReceivedTyped DEF TypeOK
    <3>3. up' = <<>> BY <1>1, <2>2
    <3> QED BY <1>1, <2>2, <2>6, <3>1, <3>2, <3>3 DEF Counted, One
  <2>8. s'.pc # "request" /\ s'.pc # "done" /\ r.pc # "off" BY <2>2, <2>6
  <2>9. s'.crc_flag => r.crc_flag BY <2>5, <2>6
  <2>10. s.pc \in {"request", "sector", "eot"} BY <1>1
  <2> QED BY <1>1, <1>3, <2>6, <2>7, <2>8, <2>9, <2>10, SenderKeeps
<1>5. CASE rqst \notin {NAK, CRC}
  <2>1. /\ s' = [s EXCEPT !.attempts = @ + 1, !.pc = IF s.attempts + 1 = REQUESTMAX THEN "aborted" ELSE @]
        /\ down' = down /\ faults' = faults
    BY <1>2, <1>5
  <2>2. s.attempts \in Nat /\ s.attempts < REQUESTMAX BY <1>1, Constants DEF SendState, Tries
  <2>3. s' \in SendState /\ s'.pc \in {"request", "aborted"} /\ s'.crc_flag = s.crc_flag
        /\ (s'.pc = "request" => s'.attempts < REQUESTMAX)
    <3> DEFINE pc == IF s.attempts + 1 = REQUESTMAX THEN "aborted" ELSE s.pc
    <3>1. s' = [s EXCEPT !.attempts = s.attempts + 1, !.pc = pc] BY <2>1
    <3>2. pc \in {"request", "aborted"} /\ (pc = "request" => s.attempts + 1 # REQUESTMAX) BY <1>1
    <3> HIDE DEF pc
    <3>3. s.attempts + 1 \in 0 .. RETRYMAX + REQUESTMAX /\ s.attempts + 1 <= REQUESTMAX BY <2>2, Constants
    <3>4. /\ s'.pc = pc /\ s'.attempts = s.attempts + 1 /\ s'.crc_flag = s.crc_flag /\ s' \in SendState
      BY <1>1, <3>1, <3>2, <3>3 DEF SendState
    <3> QED BY <2>2, <3>2, <3>3, <3>4, Constants
  <2>4. Tries' BY <2>3 DEF Tries
  <2>5. Counted' BY <2>3 DEF Counted
  <2>6. s'.crc_flag => r.crc_flag BY <1>1, <2>3 DEF Modes
  <2>7. s'.pc # "done" BY <2>3
  <2> QED BY <1>1, <1>3, <2>1, <2>3, <2>4, <2>5, <2>6, <2>7, SenderKeeps
<1> QED BY <1>4, <1>5

\* A sector or EOT that was answered: the answer is the receiver's or a byte in its
\* place, and counts as one sector, or as the answer to EOT.
LEMMA AnswerCounts ==
  ASSUME IInv, Answers # {}, s.pc \in {"sector", "eot"}, r' = r, up' = Rest(up)
  PROVE  /\ Received' = Received
         /\ (s.sectnum - 1) + Len(up') <= Len(Received) + One(r.pc = "over")
         /\ up # <<>> => s.sectnum + Len(up') <= Len(Received) + One(r.pc = "over")
         /\ s.sectnum \in 1 .. Sectors + 1
<1>1. s \in SendState /\ r \in ReceiveState /\ up \in Seq(Bytes)
  BY DEF IInv, TypeOK
<1>2. s.sectnum \in 1 .. Sectors + 1 /\ s.sectnum \in Nat
  BY <1>1, Constants DEF SendState
<1>3. Received' = Received BY DEF Received
<1>4. Len(Received) \in Nat BY <1>1, ReceivedTyped
<1>5. One(r.pc = "over") \in Nat BY DEF One
<1>6. (s.sectnum - 1) + Len(up) <= Len(Received) + One(r.pc = "over")
  <2>1. s.pc # "done" OBVIOUS
  <2>2. One(s.pc = "done") = 0 BY <2>1 DEF One
  <2>3. (s.sectnum - 1) + One(s.pc = "done") + Len(up) <= Len(Received) + One(r.pc = "over")
    BY DEF IInv, Counted
  <2> HIDE DEF One
  <2> QED BY <1>1, <1>2, <2>2, <2>3
<1>7. up = <<>> => up' = <<>>
  BY <1>1, RestTyped
<1>8. up # <<>> => Len(up') = Len(up) - 1
  BY <1>1, RestTyped
<1> DEFINE k == Len(Received) + One(r.pc = "over")
<1>9. k \in Nat BY <1>4, <1>5
<1> HIDE DEF k
<1>10. (s.sectnum - 1) + Len(up) <= k BY <1>6 DEF k
<1>11. Len(up) \in Nat BY <1>1
<1>12. (s.sectnum - 1) + Len(up') <= k /\ (up # <<>> => s.sectnum + Len(up') <= k)
  BY <1>2, <1>7, <1>8, <1>9, <1>10, <1>11
<1> QED BY <1>2, <1>3, <1>12 DEF k

LEMMA StopKeeps ==
  ASSUME IInv, Answers # {}, s.pc \in {"sector", "eot"}, r' = r, guessed' = guessed, up' = Rest(up),
         NEW pc \in {"aborted", "done"}, Stop(pc),
         pc = "done" => r.pc = "over" /\ s.pc = "eot" /\ up # <<>>
  PROVE  IInv'
<1>1. s \in SendState /\ s' = [s EXCEPT !.pc = pc] /\ down' = down /\ faults' = faults /\ Tries /\ Modes
      /\ TakeTurns
  BY DEF Stop, IInv, TypeOK
<1>2. s' \in SendState /\ s'.pc = pc /\ s'.sectnum = s.sectnum /\ s'.crc_flag = s.crc_flag
  BY <1>1 DEF SendState
<1>3. Tries'
  BY <1>1, <1>2 DEF Tries
<1>4. Counted'
  <2>1. CASE pc = "aborted" BY <1>2, <2>1 DEF Counted
  <2>2. CASE pc = "done"
    <3>1. /\ Received' = Received /\ s.sectnum + Len(up') <= Len(Received) + One(r.pc = "over")
          /\ s.sectnum \in 1 .. Sectors + 1
      BY <2>2, AnswerCounts
    <3>2. One(s'.pc = "done") = 1 BY <1>2, <2>2 DEF One
    <3>3. up' \in Seq(Bytes) BY RestTyped DEF IInv, TypeOK
    <3> HIDE DEF One
    <3>4. (s.sectnum - 1) + 1 + Len(up') = s.sectnum + Len(up') BY <3>1, <3>3, Constants
    <3> QED BY <1>2, <3>1, <3>2, <3>4 DEF Counted
  <2> QED BY <2>1, <2>2
<1>5. s'.crc_flag => r.crc_flag
  BY <1>1, <1>2 DEF Modes
<1>6. r.pc # "off" \/ pc = "aborted"
  BY <1>1 DEF TakeTurns
<1>7. s.pc \in {"request", "sector", "eot"} /\ s'.pc \in {"request", "aborted", "done"} /\ s'.pc # "request"
  BY <1>2
<1>8. r.pc = "off" => s'.pc \in {"request", "aborted"}
  BY <1>2, <1>6
<1>9. s'.pc = "done" => r.pc = "over"
  BY <1>2
<1> QED BY <1>1, <1>2, <1>3, <1>4, <1>5, <1>7, <1>8, <1>9, SenderKeeps

LEMMA AgainKeeps ==
  ASSUME IInv, Answers # {}, s.pc \in {"sector", "eot"}, s.attempts # RETRYMAX,
         r' = r, guessed' = guessed, up' = Rest(up), s' = Again,
         SendDown(IF s.pc = "sector" THEN Frame[s.crc_flag][s.sectnum] ELSE <<EOT>>)
  PROVE  IInv'
<1>1. s \in SendState /\ r \in ReceiveState /\ Tries /\ Modes /\ TakeTurns /\ TypeOK
  BY DEF IInv, TypeOK
<1>2. s.attempts \in Nat /\ s.attempts < RETRYMAX
  BY <1>1, Constants DEF SendState, Tries
<1>3. /\ s' \in SendState /\ s'.pc = s.pc /\ s'.sectnum = s.sectnum /\ s'.crc_flag = s.crc_flag
      /\ s'.attempts = s.attempts + 1
  <2>1. s.attempts + 1 \in 0 .. RETRYMAX + REQUESTMAX BY <1>2, Constants
  <2> QED BY <1>1, <2>1 DEF SendState, Again
<1>4. Tries'
  BY <1>1, <1>2, <1>3, Constants DEF Tries
<1>5. Counted'
  <2>1. Received' = Received /\ (s.sectnum - 1) + Len(up') <= Len(Received) + One(r.pc = "over")
        /\ s.sectnum \in 1 .. Sectors + 1
    BY AnswerCounts
  <2>2. One(s'.pc = "done") = 0 BY <1>3 DEF One
  <2>3. up' \in Seq(Bytes) BY RestTyped DEF IInv, TypeOK
  <2> HIDE DEF One
  <2>4. (s.sectnum - 1) + 0 + Len(up') = (s.sectnum - 1) + Len(up') BY <2>1, <2>3, Constants
  <2> QED BY <1>3, <2>1, <2>2, <2>4 DEF Counted
<1>6. s'.crc_flag => r.crc_flag
  BY <1>1, <1>3 DEF Modes
<1>7. r.pc # "off"
  BY <1>1 DEF TakeTurns
<1>8. \E bytes \in Seq(Bytes) :
        /\ bytes # <<>> /\ Len(bytes) <= FrameLen /\ (s'.pc = "eot" => Len(bytes) = 1)
        /\ SendDown(bytes)
  <2>1. CASE s.pc = "sector"
    <3> DEFINE bytes == Frame[s.crc_flag][s.sectnum]
    <3>1. s.sectnum \in 1 .. Sectors /\ s.crc_flag \in BOOLEAN BY <1>1, <2>1, Constants DEF SendState, Tries
    <3>2. bytes \in Seq(Bytes) /\ Len(bytes) = 3 + SECSIZ + CheckLen(s.crc_flag) BY <3>1, FrameTyped
    <3>3. 3 + SECSIZ + CheckLen(s.crc_flag) <= FrameLen BY <1>1, Constants DEF FrameLen, CheckLen, Modes
    <3>4. SendDown(bytes) BY <2>1
    <3> HIDE DEF bytes
    <3>5. Len(bytes) # 0 BY <3>2, Constants DEF CheckLen
    <3>6. bytes # <<>> BY <3>5
    <3> QED BY <1>3, <2>1, <3>2, <3>3, <3>4, <3>6
  <2>2. CASE s.pc = "eot"
    <3> DEFINE bytes == <<EOT>>
    <3>1. bytes \in Seq(Bytes) /\ Len(bytes) = 1 /\ bytes # <<>> BY DEF EOT, Bytes
    <3>2. SendDown(bytes) BY <2>2
    <3>3. FrameLen \in Nat /\ FrameLen >= 5 BY <1>1, FrameLenTyped
    <3> HIDE DEF bytes
    <3>4. Len(bytes) <= FrameLen BY <3>1, <3>3
    <3> QED BY <3>1, <3>2, <3>4
  <2> QED BY <2>1, <2>2
<1>9. s.pc \in {"request", "sector", "eot"} /\ s'.pc \in {"sector", "eot"} /\ s'.pc # "request"
      /\ s'.pc # "done"
  BY <1>3
<1> QED BY <1>3, <1>4, <1>5, <1>6, <1>7, <1>8, <1>9, SenderKeeps

LEMMA SectorSentKeeps ==
  ASSUME IInv, SectorSent
  PROVE  IInv'
<1>1. /\ s \in SendState /\ s.pc = "sector" /\ up' = Rest(up) /\ r' = r /\ guessed' = guessed
      /\ TypeOK /\ TakeTurns /\ Modes /\ Tries
  BY DEF IInv, TypeOK, SectorSent
<1>2. PICK answer \in Answers :
        IF s.attempts = RETRYMAX THEN Stop("aborted")
        ELSE IF Acked(answer) THEN Proceed(s.crc_flag, s.sectnum + 1)
        ELSE s' = Again /\ SendDown(Frame[s.crc_flag][s.sectnum])
  BY DEF SectorSent
<1>3. Answers # {} OBVIOUS
<1>4. CASE s.attempts = RETRYMAX
  BY <1>1, <1>2, <1>3, <1>4, StopKeeps
<1>5. CASE s.attempts # RETRYMAX /\ Acked(answer)
  <2> DEFINE n == s.sectnum + 1
  <2>1. Proceed(s.crc_flag, n) BY <1>2, <1>5
  <2>2. s.sectnum \in 1 .. Sectors /\ n \in 1 .. Sectors + 1 /\ s.crc_flag \in BOOLEAN
    BY <1>1, Constants DEF SendState, Tries
  <2>3. s.crc_flag => r.crc_flag BY <1>1 DEF Modes
  <2>4. up # <<>>
    <3>1. answer # 255 BY <1>5 DEF Acked, ACK
    <3> QED BY <1>1, <1>3, <3>1, SenderTurn
  <2>5. r.pc # "off" BY <1>1 DEF TakeTurns
  <2> HIDE DEF n
  <2>6. /\ s' \in SendState /\ s'.pc \in {"sector", "eot"} /\ Tries'
        /\ s'.crc_flag = s.crc_flag /\ s'.sectnum = n
        /\ \E bytes \in Seq(Bytes) :
             /\ bytes # <<>> /\ Len(bytes) <= FrameLen /\ (s'.pc = "eot" => Len(bytes) = 1)
             /\ SendDown(bytes)
    BY <1>1, <2>1, <2>2, <2>3, ProceedSends
  <2>7. Counted'
    <3>1. /\ Received' = Received /\ s.sectnum + Len(up') <= Len(Received) + One(r.pc = "over")
      BY <1>1, <1>3, <2>4, AnswerCounts
    <3>2. One(s'.pc = "done") = 0 BY <2>6 DEF One
    <3>3. up' \in Seq(Bytes) BY <1>1, RestTyped DEF TypeOK
    <3> HIDE DEF One
    <3>4. (n - 1) + 0 + Len(up') = s.sectnum + Len(up') BY <2>2, <3>3, Constants DEF n
    <3> QED BY <1>1, <2>6, <3>1, <3>2, <3>4 DEF Counted
  <2>8. s'.pc # "request" /\ s'.pc # "done" /\ s.pc \in {"request", "sector", "eot"} BY <1>1, <2>6
  <2> QED BY <1>1, <1>3, <2>3, <2>5, <2>6, <2>7, <2>8, SenderKeeps
<1>6. CASE s.attempts # RETRYMAX /\ ~ Acked(answer)
  BY <1>1, <1>2, <1>3, <1>6, AgainKeeps
<1> QED BY <1>4, <1>5, <1>6

LEMMA EotSentKeeps ==
  ASSUME IInv, EotSent
  PROVE  IInv'
<1>1. /\ s.pc = "eot" /\ up' = Rest(up) /\ r' = r /\ guessed' = guessed /\ TypeOK /\ TakeTurns /\ Closing
  BY DEF IInv, TypeOK, EotSent
<1>2. PICK answer \in Answers :
        IF s.attempts = RETRYMAX THEN Stop("aborted")
        ELSE IF Acked(answer) THEN Stop("done")
        ELSE s' = Again /\ SendDown(<<EOT>>)
  BY DEF EotSent
<1>3. Answers # {} OBVIOUS
<1>4. CASE s.attempts = RETRYMAX
  BY <1>1, <1>2, <1>3, <1>4, StopKeeps
<1>5. CASE s.attempts # RETRYMAX /\ Acked(answer)
  <2>1. Stop("done") BY <1>2, <1>5
  <2>2. up # <<>>
    <3>1. answer # 255 BY <1>5 DEF Acked, ACK
    <3> QED BY <1>1, <1>3, <3>1, SenderTurn
  <2>3. r.pc = "over" BY <1>1, <2>2 DEF Closing
  <2> QED BY <1>1, <1>3, <2>1, <2>2, <2>3, StopKeeps
<1>6. CASE s.attempts # RETRYMAX /\ ~ Acked(answer)
  BY <1>1, <1>2, <1>3, <1>6, AgainKeeps
<1> QED BY <1>4, <1>5, <1>6

(***************************************************************************)
(* rcvfile keeps the invariant.                                            *)
(***************************************************************************)
LEMMA StartReceivingKeeps ==
  ASSUME ModesAgree, IInv, StartReceiving
  PROVE  IInv'
<1>1. /\ TypeOK /\ r.pc = "off" /\ r' = [r EXCEPT !.pc = "first"] /\ down' = <<>>
      /\ SendUp(RequestByte) /\ s' = s /\ guessed' = guessed
      /\ TakeTurns /\ Modes /\ Tries /\ r \in ReceiveState
  BY DEF IInv, TypeOK, StartReceiving
<1>2. up = <<>> /\ s.pc \in {"off", "request", "aborted"}
  BY <1>1 DEF TakeTurns
<1>3. /\ r' \in ReceiveState /\ r'.pc = "first" /\ r'.crc_flag = r.crc_flag /\ r'.record = r.record
      /\ r'.buffer = r.buffer
  BY <1>1 DEF ReceiveState
<1>4. r.crc_flag \in CrcFlags /\ r.crc_flag \in BOOLEAN
  BY <1>1, Constants DEF ReceiveState
<1>5. RequestByte \in Bytes /\ (RequestByte = CRC => r.crc_flag)
  BY <1>4 DEF RequestByte, CRC, NAK, Bytes
<1>6. /\ up' \in Seq(Bytes) /\ faults' \in faults .. MaxFaults /\ Len(up') <= 1
      /\ \A i \in DOMAIN up' : up'[i] \in Noise \cup {RequestByte}
  <2>1. /\ up' \in Seq(Bytes) /\ faults' \in faults .. MaxFaults
        /\ Len(up') <= Len(up) + 1
        /\ \A i \in DOMAIN up' : (i \in DOMAIN up /\ up'[i] = up[i]) \/ up'[i] \in Noise \cup {RequestByte}
    BY <1>1, <1>5, SentUp
  <2>2. Len(up) = 0 /\ DOMAIN up = {} BY <1>2
  <2> QED BY <2>1, <2>2
<1>7. TypeOK'
  <2>1. faults' \in 0 .. MaxFaults BY <1>1, <1>6, Constants DEF TypeOK
  <2> QED BY <1>1, <1>3, <1>6, <2>1 DEF TypeOK
<1>8. Tries'
  BY <1>1 DEF Tries
<1>9. TakeTurns'
  BY <1>1, <1>2, <1>3, <1>6 DEF TakeTurns, Purging
<1>10. Modes'
  <2>1. s'.crc_flag => r'.crc_flag BY <1>1, <1>3 DEF Modes
  <2>2. ASSUME NEW i \in DOMAIN up', up'[i] = CRC PROVE r'.crc_flag
    <3>1. CRC \in Noise \cup {RequestByte} BY <1>6, <2>2
    <3> QED BY <1>3, <1>4, <1>5, <3>1 DEF ModesAgree
  <2> QED BY <2>1, <2>2 DEF Modes
<1>11. Lengths'
  <2>1. FrameLen' = FrameLen /\ FrameLen \in Nat BY <1>1, <1>3, FrameLenTyped DEF FrameLen
  <2> QED BY <1>1, <1>3, <2>1 DEF Lengths
<1>12. Counted' /\ Closing'
  BY <1>1, <1>2 DEF Counted, Closing
<1> QED BY <1>7, <1>8, <1>9, <1>10, <1>11, <1>12 DEF IInv

\* What the receiver leaves true while it only takes a byte of the line.
LEMMA TakingKeeps ==
  ASSUME IInv, s' = s, up' = up, faults' = faults, guessed' = guessed, down' = Rest(down),
         r' \in ReceiveState, r'.crc_flag = r.crc_flag, r'.stored = r.stored, r'.buffer = r.buffer,
         Len(r'.record) < SECSIZ + CheckLen(r'.crc_flag),
         r.pc \in {"first", "number", "complement", "data"} \cup Purging,
         r'.pc \in {"first", "number", "complement", "data"} \cup Purging,
         r'.pc = "first" => r.pc = "first",
         r'.pc # "first" => up = <<>>,
         s.pc \in {"off", "request"} => r'.pc = "first",
         Lengths', Closing'
  PROVE  IInv'
<1>1. TypeOK /\ Tries /\ TakeTurns /\ Modes /\ Counted
  BY DEF IInv
<1>2. down' \in Seq(Bytes) /\ (down = <<>> => down' = <<>>)
  BY <1>1, RestTyped DEF TypeOK
<1>3. TypeOK'
  BY <1>1, <1>2 DEF TypeOK
<1>4. Tries'
  BY <1>1 DEF Tries
<1>5. TakeTurns'
  BY <1>1, <1>2 DEF TakeTurns, Purging
<1>6. Modes'
  BY <1>1 DEF Modes
<1>7. Counted'
  <2>1. Received' = Received BY DEF Received
  <2>2. r.pc # "over" /\ r'.pc # "over" BY DEF Purging
  <2>3. One(r'.pc = "over") = One(r.pc = "over") BY <2>2 DEF One
  <2>4. One(s'.pc = "done") = One(s.pc = "done") OBVIOUS
  <2> QED BY <1>1, <2>1, <2>3, <2>4 DEF Counted
<1> QED BY <1>3, <1>4, <1>5, <1>6, <1>7 DEF IInv

\* The receiver's ACK, or the byte in its place, is the only one on its line.
LEMMA Acknowledged ==
  ASSUME ModesAgree, TypeOK, Modes, up = <<>>, SendUp(ACK), r'.crc_flag = r.crc_flag, s' = s
  PROVE  up' \in Seq(Bytes) /\ Len(up') <= 1 /\ faults' \in 0 .. MaxFaults /\ faults' >= faults /\ Modes'
<1>1. ACK \in Bytes
  BY DEF ACK, Bytes
<1>2. /\ up' \in Seq(Bytes) /\ faults' \in faults .. MaxFaults
      /\ Len(up') <= Len(up) + 1
      /\ \A i \in DOMAIN up' : (i \in DOMAIN up /\ up'[i] = up[i]) \/ up'[i] \in Noise \cup {ACK}
  BY <1>1, SentUp
<1>3. Len(up) = 0 /\ DOMAIN up = {}
  OBVIOUS
<1>4. r.crc_flag \in CrcFlags /\ CrcFlags \subseteq BOOLEAN
  BY Constants DEF TypeOK, ReceiveState
<1>5. ASSUME NEW i \in DOMAIN up', up'[i] = CRC PROVE r'.crc_flag
  <2>1. CRC \in Noise \cup {ACK} BY <1>2, <1>3, <1>5
  <2>2. CRC \in Noise BY <2>1 DEF CRC, ACK
  <2> QED BY <1>4, <2>2 DEF ModesAgree
<1>6. Modes'
  BY <1>5 DEF Modes
<1>7. faults' \in 0 .. MaxFaults /\ faults' >= faults
  BY <1>2, Constants DEF TypeOK
<1> QED BY <1>2, <1>3, <1>6, <1>7

LEMMA FirstKeeps ==
  ASSUME ModesAgree, IInv, First
  PROVE  IInv'
<1>1. /\ TypeOK /\ r.pc = "first" /\ down' = Rest(down) /\ s' = s /\ guessed' = guessed
      /\ TakeTurns /\ Modes /\ Lengths /\ Closing /\ Counted /\ Tries
      /\ r \in ReceiveState /\ down \in Seq(Bytes)
  BY DEF IInv, TypeOK, First, Reading
<1>2. Incoming # TIMEOUT /\ (down = <<>> => Incoming = 255)
  BY <1>1, IncomingTyped
<1>3. \/ Incoming = SOH /\ r' = [r EXCEPT !.pc = "number"] /\ Hold
      \/ Incoming = EOT /\ r' = [Save EXCEPT !.pc = "over"] /\ SendUp(ACK)
      \/ Incoming \notin {SOH, EOT} /\ UNCHANGED r /\ Hold
  BY <1>2 DEF First, SOH, EOT, TIMEOUT
<1>4. /\ down' \in Seq(Bytes) /\ (down = <<>> => down' = <<>>)
      /\ down # <<>> => Len(down') = Len(down) - 1
      /\ Len(down') \in Nat /\ Len(down) \in Nat
  <2>1. down' \in Seq(Bytes) BY <1>1, RestTyped
  <2> QED BY <1>1, <2>1, RestTyped
<1>5. FrameLen \in Nat /\ Len(down) <= FrameLen /\ Len(r.record) < SECSIZ + CheckLen(r.crc_flag)
  BY <1>1, FrameLenTyped DEF Lengths, TypeOK
<1>6. CASE Incoming = SOH /\ r' = [r EXCEPT !.pc = "number"] /\ Hold
  <2>1. down # <<>> /\ up = <<>> /\ s.pc \notin {"off", "request"}
    BY <1>1, <1>2, <1>6 DEF TakeTurns, SOH
  <2>2. /\ r' \in ReceiveState /\ r'.pc = "number" /\ r'.crc_flag = r.crc_flag /\ r'.stored = r.stored
        /\ r'.buffer = r.buffer /\ r'.record = r.record
    BY <1>1, <1>6 DEF ReceiveState
  <2>3. Lengths'
    <3>1. FrameLen' = FrameLen BY <2>2 DEF FrameLen
    <3>2. Len(down') + 1 <= FrameLen BY <1>4, <1>5, <2>1
    <3> QED BY <2>2, <3>1, <3>2 DEF Lengths
  <2>4. Closing'
    <3>1. ASSUME s.pc \in {"eot", "done"} PROVE down' = <<>>
      <4>1. Len(down) <= 1 BY <1>1, <3>1 DEF Closing
      <4>2. Len(down) = 1 BY <1>4, <2>1, <4>1
      <4> QED BY <1>1, <2>1, <4>2, RestTyped
    <3>2. s.pc # "done" BY <1>1 DEF Closing
    <3>3. up' = <<>> BY <1>6, <2>1 DEF Hold
    <3> QED BY <1>1, <2>2, <3>1, <3>2, <3>3 DEF Closing
  <2>5. r'.pc \in {"first", "number", "complement", "data"} \cup Purging BY <2>2
  <2>6. up' = up /\ faults' = faults BY <1>6 DEF Hold
  <2> QED BY <1>1, <1>5, <2>1, <2>2, <2>3, <2>4, <2>5, <2>6, TakingKeeps
<1>7. CASE Incoming = EOT /\ r' = [Save EXCEPT !.pc = "over"] /\ SendUp(ACK)
  <2>1. down # <<>> /\ up = <<>> /\ s.pc \notin {"off", "request"}
    BY <1>1, <1>2, <1>7 DEF TakeTurns, EOT
  <2> DEFINE all == r.stored \o r.buffer
  <2>2. all \in Seq(Block) BY <1>1 DEF ReceiveState
  <2> HIDE DEF all
  <2>3. r' = [[r EXCEPT !.stored = all, !.buffer = <<>>] EXCEPT !.pc = "over"] BY <1>7 DEF Save, all
  <2>4. /\ r' \in ReceiveState /\ r'.pc = "over" /\ r'.crc_flag = r.crc_flag /\ r'.stored = all
        /\ r'.buffer = <<>> /\ r'.record = r.record
    <3>1. <<>> \in Seq(Block) OBVIOUS
    <3>2. r' = [r EXCEPT !.stored = all, !.buffer = <<>>, !.pc = "over"] BY <2>3
    <3>3. r' \in ReceiveState BY <1>1, <2>2, <3>1, <3>2 DEF ReceiveState
    <3>4. /\ r'.pc = "over" /\ r'.crc_flag = r.crc_flag /\ r'.stored = all
          /\ r'.buffer = <<>> /\ r'.record = r.record
      BY <1>1, <3>2 DEF ReceiveState
    <3> QED BY <3>3, <3>4
  <2>5. up' \in Seq(Bytes) /\ Len(up') <= 1 /\ faults' \in 0 .. MaxFaults /\ Modes'
    BY <1>1, <1>7, <2>1, <2>4, Acknowledged
  <2>6. TypeOK' BY <1>1, <1>4, <1>5, <2>4, <2>5, Constants DEF TypeOK
  <2>7. Tries' BY <1>1 DEF Tries
  <2>8. TakeTurns' BY <1>1, <2>1, <2>4 DEF TakeTurns, Purging
  <2>9. Lengths' BY <2>4 DEF Lengths
  <2>10. Counted'
    <3>1. Received' = Received
      <4>1. Received' = all \o <<>> BY <2>4 DEF Received
      <4> QED BY <2>2, <4>1 DEF Received, all
    <3>2. One(r.pc = "over") = 0 /\ One(r'.pc = "over") = 1 BY <1>1, <2>4 DEF One
    <3>3. Len(Received) \in Nat BY <1>1, ReceivedTyped
    <3>4. Len(up) = 0 BY <2>1
    <3>5. ASSUME s.pc \in {"sector", "eot", "done"}
          PROVE  (s.sectnum - 1) + One(s.pc = "done") + Len(up') <= Len(Received) + 1
      <4>1. (s.sectnum - 1) + One(s.pc = "done") + 0 <= Len(Received) + 0
        BY <1>1, <3>2, <3>4, <3>5 DEF Counted
      <4>2. One(s.pc = "done") \in Nat BY DEF One
      <4>3. s.sectnum \in Nat BY <1>1, Constants DEF TypeOK, SendState
      <4>4. Len(up') \in Nat /\ Len(up') <= 1 BY <2>5
      <4> HIDE DEF One
      <4> QED BY <3>3, <4>1, <4>2, <4>3, <4>4
    <3> QED BY <1>1, <3>1, <3>2, <3>5 DEF Counted
  <2>11. Closing' BY <2>4 DEF Closing
  <2> QED BY <2>5, <2>6, <2>7, <2>8, <2>9, <2>10, <2>11 DEF IInv
<1>8. CASE Incoming \notin {SOH, EOT} /\ UNCHANGED r /\ Hold
  <2>1. r' = r /\ up' = up /\ faults' = faults BY <1>8 DEF Hold
  <2>2. Lengths'
    <3>1. FrameLen' = FrameLen BY <2>1 DEF FrameLen
    <3>2. Len(down') <= FrameLen BY <1>4, <1>5
    <3> QED BY <1>1, <2>1, <3>1, <3>2 DEF Lengths
  <2>3. Closing'
    <3>1. Len(down) <= 1 => Len(down') <= 1 BY <1>4
    <3> QED BY <1>1, <2>1, <3>1 DEF Closing
  <2>4. r.pc \in {"first", "number", "complement", "data"} \cup Purging
        /\ r'.pc \in {"first", "number", "complement", "data"} \cup Purging
    BY <1>1, <2>1
  <2>5. r'.pc = "first" BY <1>1, <2>1
  <2> QED BY <1>1, <1>5, <2>1, <2>2, <2>3, <2>4, <2>5, TakingKeeps
<1> QED BY <1>3, <1>6, <1>7, <1>8

LEMMA NumberKeeps ==
  ASSUME IInv, Number
  PROVE  IInv'
<1>1. /\ TypeOK /\ r.pc = "number" /\ down' = Rest(down) /\ s' = s /\ guessed' = guessed
      /\ r' = [r EXCEPT !.pc = "complement", !.sectcurr = Incoming] /\ up' = up /\ faults' = faults
      /\ TakeTurns /\ Lengths /\ Closing
      /\ r \in ReceiveState /\ down \in Seq(Bytes)
  BY DEF IInv, TypeOK, Number, Reading, Hold
<1>2. Incoming \in Bytes /\ (down = <<>> => Incoming = 255)
  BY <1>1, IncomingTyped
<1>3. /\ r' \in ReceiveState /\ r'.pc = "complement" /\ r'.crc_flag = r.crc_flag /\ r'.stored = r.stored
      /\ r'.buffer = r.buffer /\ r'.record = r.record /\ r'.sectcurr = Incoming
  BY <1>1, <1>2 DEF ReceiveState
<1>4. up = <<>> /\ s.pc \notin {"off", "request"}
  BY <1>1 DEF TakeTurns
<1>5. /\ down = <<>> => Len(down') = 0 /\ down' = <<>> /\ Len(down) = 0
      /\ down # <<>> => Len(down') = Len(down) - 1
      /\ Len(down) \in Nat
  BY <1>1, RestTyped
<1>6. Lengths'
  <2>1. FrameLen' = FrameLen /\ FrameLen \in Nat BY <1>1, <1>3, FrameLenTyped DEF FrameLen
  <2>2. FrameLen >= 5 BY <1>1, FrameLenTyped
  <2>3. Len(down) + 1 <= FrameLen BY <1>1 DEF Lengths
  <2>4. Len(down') + 2 <= FrameLen BY <1>5, <2>1, <2>2, <2>3
  <2> QED BY <1>3, <2>1, <2>4 DEF Lengths
<1>7. Closing'
  BY <1>1, <1>2, <1>3, <1>4, <1>5 DEF Closing
<1>8. r'.pc # "first" /\ r'.pc \in {"first", "number", "complement", "data"} \cup Purging
      /\ r.pc \in {"first", "number", "complement", "data"} \cup Purging
      /\ Len(r.record) < SECSIZ + CheckLen(r.crc_flag)
  BY <1>1, <1>3 DEF TypeOK
<1> QED BY <1>1, <1>3, <1>4, <1>6, <1>7, <1>8, TakingKeeps

LEMMA ComplementKeeps ==
  ASSUME IInv, Complement
  PROVE  IInv'
<1>1. /\ TypeOK /\ r.pc = "complement" /\ down' = Rest(down) /\ s' = s /\ guessed' = guessed
      /\ r' = [r EXCEPT !.pc = Numbered(Incoming), !.record = <<>>, !.missing = FALSE]
      /\ up' = up /\ faults' = faults
      /\ TakeTurns /\ Lengths /\ Closing
      /\ r \in ReceiveState /\ down \in Seq(Bytes)
  BY DEF IInv, TypeOK, Complement, Reading, Hold
<1>2. Incoming \in Bytes /\ (down = <<>> => Incoming = 255)
  BY <1>1, IncomingTyped
<1>3. Numbered(Incoming) \in {"data"} \cup Purging
      /\ (Numbered(Incoming) = "data" => r.sectcurr + Incoming = 255)
  BY DEF Numbered, Purging
<1>4. /\ r' \in ReceiveState /\ r'.pc = Numbered(Incoming) /\ r'.crc_flag = r.crc_flag
      /\ r'.stored = r.stored /\ r'.buffer = r.buffer /\ r'.record = <<>>
  <2> DEFINE pc == Numbered(Incoming)
  <2>1. pc \in {"data"} \cup Purging BY <1>3
  <2> HIDE DEF pc
  <2>2. <<>> \in Seq(Bytes) /\ r' = [r EXCEPT !.pc = pc, !.record = <<>>, !.missing = FALSE] BY <1>1 DEF pc
  <2>3. r' \in ReceiveState BY <1>1, <2>1, <2>2 DEF ReceiveState
  <2>4. /\ r'.pc = pc /\ r'.crc_flag = r.crc_flag
        /\ r'.stored = r.stored /\ r'.buffer = r.buffer /\ r'.record = <<>>
    BY <1>1, <2>2 DEF ReceiveState
  <2> QED BY <2>3, <2>4 DEF pc
<1>5. up = <<>> /\ s.pc \notin {"off", "request"}
  BY <1>1 DEF TakeTurns
<1>6. /\ down = <<>> => down' = <<>>
      /\ down # <<>> => Len(down') = Len(down) - 1
      /\ Len(down) \in Nat
  BY <1>1, RestTyped
<1>7. FrameLen \in Nat /\ FrameLen >= 5 /\ FrameLen' = FrameLen /\ r.crc_flag \in BOOLEAN
  BY <1>1, <1>4, FrameLenTyped DEF FrameLen
<1>8. Lengths'
  <2>1. Len(down) + 2 <= FrameLen BY <1>1 DEF Lengths
  <2>2. Len(down') + 3 + 0 <= FrameLen \/ down' = <<>> BY <1>6, <1>7, <2>1
  <2>3. Len(r'.record) = 0 BY <1>4
  <2>4. r'.pc \notin {"off", "first", "number", "complement"} BY <1>3, <1>4 DEF Purging
  <2> QED BY <1>7, <2>2, <2>3, <2>4 DEF Lengths
<1>9. Closing'
  <2>1. ASSUME s.pc \in {"eot", "done"} PROVE r'.pc # "data" /\ s.pc # "done"
    <3>1. down = <<>> /\ r.sectcurr = 255 /\ s.pc # "done" BY <1>1, <2>1 DEF Closing
    <3>2. r.sectcurr + Incoming # 255 BY <1>2, <3>1
    <3> QED BY <1>3, <1>4, <3>1, <3>2
  <2>2. r'.pc \notin {"first", "number", "complement"} BY <1>3, <1>4 DEF Purging
  <2> QED BY <1>1, <1>5, <2>1, <2>2 DEF Closing
<1>10. Len(r'.record) < SECSIZ + CheckLen(r'.crc_flag)
  <2>1. Len(r'.record) = 0 BY <1>4
  <2> QED BY <2>1, Constants DEF CheckLen
<1>11. r'.pc # "first" /\ r'.pc \in {"first", "number", "complement", "data"} \cup Purging
      /\ r.pc \in {"first", "number", "complement", "data"} \cup Purging
  BY <1>1, <1>3, <1>4 DEF Purging
<1> QED BY <1>1, <1>4, <1>5, <1>8, <1>9, <1>10, <1>11, TakingKeeps

\* The line does not go quiet for a receiver that purges it.
LEMMA PurgeKeeps ==
  ASSUME IInv, PurgeDuplicate \/ PurgeError
  PROVE  IInv' /\ r' = r /\ up' = up
<1>1. /\ TypeOK /\ r.pc \in Purging /\ down' = Rest(down) /\ s' = s /\ guessed' = guessed
      /\ r' = r /\ up' = up /\ faults' = faults
      /\ TakeTurns /\ Closing
      /\ r \in ReceiveState
  <2>1. TypeOK BY DEF IInv
  <2>2. Incoming # TIMEOUT BY <2>1, IncomingTyped
  <2> QED BY <2>2 DEF IInv, TypeOK, PurgeDuplicate, PurgeError, Reading, Hold, Purging
<1>2. Lengths' /\ Closing'
  BY <1>1 DEF Lengths, Closing, Purging
<1>3. Len(r.record) < SECSIZ + CheckLen(r.crc_flag)
  BY <1>1 DEF TypeOK
<1>4. up = <<>> /\ s.pc \notin {"off", "request"} /\ r.pc # "first"
  BY <1>1 DEF TakeTurns, Purging
<1> QED BY <1>1, <1>2, <1>3, <1>4, TakingKeeps

\* The bytes of a record: those before the check bytes make a sector.
LEMMA DataTyped ==
  ASSUME NEW record \in Seq(Bytes), NEW n \in Nat \ {0}, Len(record) = SECSIZ + n
  PROVE  /\ SubSeq(record, 1, SECSIZ) \in Block
         /\ SubSeq(record, 1, SECSIZ) \in Seq(Bytes) /\ Len(SubSeq(record, 1, SECSIZ)) = SECSIZ
         /\ \A j \in 1 .. SECSIZ : SubSeq(record, 1, SECSIZ)[j] = record[j]
<1>1. SECSIZ \in Nat \ {0} /\ SECSIZ <= Len(record)
  BY Constants
<1> DEFINE d == SubSeq(record, 1, SECSIZ)
<1>2. d \in Seq(Bytes) /\ Len(d) = SECSIZ /\ \A j \in 1 .. SECSIZ : d[j] = record[j]
  BY <1>1
<1> HIDE DEF d
<1>3. d \in [1 .. SECSIZ -> Bytes]
  BY <1>2, LenProperties
<1> QED BY <1>2, <1>3 DEF Block, d

\* A stored sector comes after those received before, written or not.
LEMMA StoredTyped ==
  ASSUME r \in ReceiveState, Len(r.buffer) < NSECTS, NEW data \in Block, r' = Stored(data)
  PROVE  /\ r' \in ReceiveState /\ r'.pc = "first" /\ r'.crc_flag = r.crc_flag /\ r'.record = r.record
         /\ r'.sectnum = r.sectcurr /\ Len(r'.buffer) < NSECTS
         /\ Len(Received') = Len(Received) + 1
         /\ \A i \in 1 .. Len(Received) : Received'[i] = Received[i]
         /\ Received'[Len(Received) + 1] = data
<1> DEFINE a == r.stored  b == r.buffer  c == Append(b, data)
<1>1. a \in Seq(Block) /\ b \in Seq(Block) /\ r.sectcurr \in Bytes
  BY DEF ReceiveState
<1> HIDE DEF a, b
<1>2. c \in Seq(Block) /\ Len(c) = Len(b) + 1
  BY <1>1
<1>3. (\A i \in 1 .. Len(b) : c[i] = b[i]) /\ c[Len(b) + 1] = data
  BY <1>1
<1> HIDE DEF c
<1>4. a \o c \in Seq(Block) /\ Len(a \o c) = Len(a) + Len(c) /\ Len(a \o b) = Len(a) + Len(b)
  BY <1>1, <1>2
<1>5. \A i \in 1 .. Len(a) : (a \o c)[i] = a[i] /\ (a \o b)[i] = a[i]
  BY <1>1, <1>2
<1>6. (\A i \in 1 .. Len(c) : (a \o c)[Len(a) + i] = c[i]) /\ (\A i \in 1 .. Len(b) : (a \o b)[Len(a) + i] = b[i])
  BY <1>1, <1>2
<1>7. \A i \in 1 .. Len(a \o b) : (a \o c)[i] = (a \o b)[i]
  <2> TAKE i \in 1 .. Len(a \o b)
  <2>1. Len(a) \in Nat /\ Len(b) \in Nat BY <1>1
  <2>2. CASE i <= Len(a) BY <1>5, <2>1, <2>2
  <2>3. CASE ~(i <= Len(a))
    <3> DEFINE j == i - Len(a)
    <3>1. j \in 1 .. Len(b) /\ j \in 1 .. Len(c) /\ Len(a) + j = i BY <1>2, <1>4, <2>1, <2>3
    <3> HIDE DEF j
    <3> QED BY <1>3, <1>6, <3>1
  <2> QED BY <2>2, <2>3
<1>8. Len(a \o c) = Len(a \o b) + 1 /\ (a \o c)[Len(a \o b) + 1] = data
  <2>1. Len(a) \in Nat /\ Len(b) \in Nat BY <1>1
  <2>2. Len(a \o b) + 1 = Len(a) + (Len(b) + 1) /\ Len(b) + 1 \in 1 .. Len(c) BY <1>2, <1>4, <2>1
  <2>3. (a \o c)[Len(a) + (Len(b) + 1)] = data BY <1>3, <1>6, <2>2
  <2> QED BY <1>2, <1>4, <2>2, <2>3
<1> DEFINE more == [r EXCEPT !.pc = "first", !.errors = 0, !.sectnum = r.sectcurr, !.buffer = c]
<1>9. r' = IF Len(more.buffer) = NSECTS THEN [more EXCEPT !.stored = @ \o more.buffer, !.buffer = <<>>] ELSE more
  BY DEF Stored, c, b
<1>10. /\ more.buffer = c /\ more.stored = a /\ more.pc = "first" /\ more.crc_flag = r.crc_flag
       /\ more.record = r.record /\ more.sectnum = r.sectcurr /\ more \in ReceiveState
  <2>1. 0 \in 0 .. ERRORMAX BY Constants
  <2> QED BY <1>1, <1>2, <2>1 DEF ReceiveState, a
<1> HIDE DEF more
<1>11. Received = a \o b
  BY DEF Received, a, b
<1>12. CASE Len(c) = NSECTS
  <2>1. r' = [more EXCEPT !.stored = a \o c, !.buffer = <<>>] BY <1>9, <1>10, <1>12
  <2>2. <<>> \in Seq(Block) /\ Len(<<>>) = 0 OBVIOUS
  <2>3. /\ r' \in ReceiveState /\ r'.pc = "first" /\ r'.crc_flag = r.crc_flag /\ r'.record = r.record
        /\ r'.sectnum = r.sectcurr /\ r'.buffer = <<>> /\ r'.stored = a \o c
    BY <1>4, <1>10, <2>1, <2>2 DEF ReceiveState
  <2>4. Received' = a \o c
    <3>1. Received' = (a \o c) \o <<>> BY <2>3 DEF Received
    <3> QED BY <1>4, <3>1
  <2>5. Len(r'.buffer) < NSECTS BY <2>3, <2>2, Constants
  <2> QED BY <1>7, <1>8, <1>11, <2>3, <2>4, <2>5
<1>13. CASE Len(c) # NSECTS
  <2>1. r' = more BY <1>9, <1>10, <1>13
  <2>2. Received' = a \o c BY <1>10, <2>1 DEF Received
  <2>3. Len(r'.buffer) < NSECTS
    <3>1. Len(b) < NSECTS /\ Len(b) \in Nat BY <1>1 DEF b
    <3> QED BY <1>2, <1>10, <1>13, <2>1, <3>1, Constants
  <2> QED BY <1>7, <1>8, <1>10, <1>11, <2>1, <2>2, <2>3
<1> QED BY <1>12, <1>13

LEMMA DataKeeps ==
  ASSUME ModesAgree, IInv, Data
  PROVE  IInv'
<1> DEFINE record  == Append(r.record, Incoming)
           missing == r.missing \/ down = <<>>
<1>1. /\ TypeOK /\ r.pc = "data" /\ down' = Rest(down) /\ s' = s
      /\ TakeTurns /\ Modes /\ Lengths /\ Closing /\ Counted /\ Tries
      /\ r \in ReceiveState /\ down \in Seq(Bytes) /\ r.record \in Seq(Bytes)
      /\ Len(r.record) < SECSIZ + CheckLen(r.crc_flag)
  BY DEF IInv, TypeOK, Data, Reading, ReceiveState
<1>2. Incoming \in Bytes
  BY <1>1, IncomingTyped
<1>3. record \in Seq(Bytes) /\ Len(record) = Len(r.record) + 1 /\ Len(r.record) \in Nat
  BY <1>1, <1>2
<1>4. missing \in BOOLEAN
  BY <1>1 DEF ReceiveState
<1>5. IF Len(record) < SECSIZ + CheckLen(r.crc_flag)
      THEN /\ r' = [r EXCEPT !.record = record, !.missing = missing]
           /\ Hold /\ UNCHANGED guessed
      ELSE IF GoodRecord(record)
      THEN /\ r' = Stored(SubSeq(record, 1, SECSIZ))
           /\ guessed' = IF missing THEN guessed \cup {r.sectcurr} ELSE guessed
           /\ SendUp(ACK)
      ELSE /\ r' = [r EXCEPT !.pc = "error"]
           /\ Hold /\ UNCHANGED guessed
  BY DEF Data
<1> HIDE DEF record, missing
<1>6. up = <<>> /\ s.pc \notin {"off", "request", "eot", "done"}
  BY <1>1 DEF TakeTurns, Closing
<1>7. /\ down = <<>> => down' = <<>>
      /\ down # <<>> => Len(down') = Len(down) - 1
      /\ Len(down) \in Nat /\ down' \in Seq(Bytes)
  BY <1>1, RestTyped, SMTT(60)
<1>8. FrameLen \in Nat /\ r.crc_flag \in BOOLEAN /\ FrameLen = 3 + SECSIZ + CheckLen(r.crc_flag)
      /\ CheckLen(r.crc_flag) \in Nat \ {0} /\ SECSIZ \in Nat
  BY <1>1, FrameLenTyped, Constants DEF FrameLen, CheckLen
<1>9. Len(down) + 3 + Len(r.record) <= FrameLen \/ down = <<>>
  BY <1>1 DEF Lengths
<1> DEFINE left == Len(down)  before == Len(r.record)  check == CheckLen(r.crc_flag)
<1>lens. /\ left \in Nat /\ before \in Nat /\ check \in Nat \ {0} /\ SECSIZ \in Nat
         /\ Len(record) = before + 1 /\ FrameLen = 3 + SECSIZ + check
         /\ (left + 3 + before <= FrameLen \/ down = <<>>)
         /\ before < SECSIZ + check
  BY <1>1, <1>3, <1>7, <1>8, <1>9
<1>10. CASE Len(record) < SECSIZ + CheckLen(r.crc_flag)
  <2>1. r' = [r EXCEPT !.record = record, !.missing = missing] /\ Hold /\ guessed' = guessed BY <1>5, <1>10
  <2>2. /\ r' \in ReceiveState /\ r'.pc = "data" /\ r'.crc_flag = r.crc_flag /\ r'.stored = r.stored
        /\ r'.buffer = r.buffer /\ r'.record = record
    BY <1>1, <1>3, <1>4, <2>1 DEF ReceiveState
  <2>3. Lengths'
    <3>1. FrameLen' = FrameLen BY <2>2 DEF FrameLen
    <3>2. Len(down') + 3 + Len(record) <= FrameLen \/ down' = <<>>
      <4>1. CASE down = <<>> BY <1>7, <4>1
      <4>2. CASE down # <<>>
        <5>1. Len(down') = left - 1 BY <1>7, <4>2
        <5> HIDE DEF left, before, check
        <5> QED BY <1>lens, <4>2, <5>1
      <4> QED BY <4>1, <4>2
    <3> QED BY <2>2, <3>1, <3>2 DEF Lengths
  <2>4. Closing' BY <1>1, <1>6 DEF Closing
  <2>5. r'.pc # "first" /\ r'.pc \in {"first", "number", "complement", "data"} \cup Purging
      /\ r.pc \in {"first", "number", "complement", "data"} \cup Purging
    BY <1>1, <2>2
  <2>6. Len(r'.record) < SECSIZ + CheckLen(r'.crc_flag) BY <1>10, <2>2
  <2>7. up' = up /\ faults' = faults BY <2>1 DEF Hold
  <2> QED BY <1>1, <1>6, <2>1, <2>2, <2>3, <2>4, <2>5, <2>6, <2>7, TakingKeeps
<1>11. CASE ~(Len(record) < SECSIZ + CheckLen(r.crc_flag)) /\ GoodRecord(record)
  <2>1. /\ r' = Stored(SubSeq(record, 1, SECSIZ))
        /\ guessed' = IF missing THEN guessed \cup {r.sectcurr} ELSE guessed
        /\ SendUp(ACK)
    BY <1>5, <1>11
  <2>2. Len(record) = SECSIZ + CheckLen(r.crc_flag) BY <1>1, <1>3, <1>8, <1>11
  <2>3. SubSeq(record, 1, SECSIZ) \in Block BY <1>3, <1>8, <2>2, DataTyped
  <2>4. /\ r' \in ReceiveState /\ r'.pc = "first" /\ r'.crc_flag = r.crc_flag /\ r'.record = r.record
        /\ Len(r'.buffer) < NSECTS /\ Len(Received') = Len(Received) + 1
    <3>1. Len(r.buffer) < NSECTS BY <1>1 DEF TypeOK
    <3> QED BY <1>1, <2>1, <2>3, <3>1, StoredTyped
  <2>5. down' = <<>>
    <3>1. left <= 1 \/ down = <<>>
      <4>1. Len(record) = SECSIZ + check BY <2>2
      <4> HIDE DEF left, before, check
      <4> QED BY <1>lens, <4>1
    <3>2. down # <<>> => Len(down) = 1
      <4>1. down # <<>> => Len(down) # 0 BY <1>1
      <4> QED BY <1>7, <3>1, <4>1
    <3> QED BY <1>1, <1>7, <3>2, RestTyped
  <2>6. up' \in Seq(Bytes) /\ Len(up') <= 1 /\ faults' \in 0 .. MaxFaults /\ Modes'
    BY <1>1, <1>6, <2>1, <2>4, Acknowledged
  <2>7. guessed' \subseteq Bytes BY <1>1, <2>1 DEF TypeOK, ReceiveState
  <2>8. TypeOK' BY <1>1, <1>7, <2>4, <2>6, <2>7 DEF TypeOK
  <2>9. Tries' BY <1>1 DEF Tries
  <2>10. TakeTurns' BY <1>1, <1>6, <2>4, <2>5, <2>6 DEF TakeTurns, Purging
  <2>11. Lengths'
    <3>1. FrameLen' = FrameLen BY <2>4 DEF FrameLen
    <3>2. Len(down') = 0 BY <2>5
    <3> QED BY <1>8, <2>4, <3>1, <3>2 DEF Lengths
  <2>12. Counted'
    <3>1. ASSUME s.pc = "sector" PROVE (s.sectnum - 1) + 0 + Len(up') <= (Len(Received) + 1) + 0
      <4>1. One(s.pc = "done") = 0 /\ One(r.pc = "over") = 0 /\ Len(up) = 0 BY <1>1, <1>6, <3>1 DEF One
      <4>2. (s.sectnum - 1) + 0 + 0 <= Len(Received) + 0 BY <1>1, <3>1, <4>1 DEF Counted
      <4>3. s.sectnum \in Nat BY <1>1, Constants DEF TypeOK, SendState
      <4>4. Len(Received) \in Nat BY <1>1, ReceivedTyped
      <4>5. Len(up') \in Nat /\ Len(up') <= 1 BY <2>6
      <4> QED BY <4>2, <4>3, <4>4, <4>5
    <3>2. s'.pc = "sector" => One(s'.pc = "done") = 0 BY DEF One
    <3>3. One(r'.pc = "over") = 0 BY <2>4 DEF One
    <3> QED BY <1>1, <1>6, <2>4, <3>1, <3>2, <3>3 DEF Counted
  <2>13. Closing' BY <1>1, <1>6 DEF Closing
  <2> QED BY <2>6, <2>8, <2>9, <2>10, <2>11, <2>12, <2>13 DEF IInv
<1>12. CASE ~(Len(record) < SECSIZ + CheckLen(r.crc_flag)) /\ ~ GoodRecord(record)
  <2>1. r' = [r EXCEPT !.pc = "error"] /\ Hold /\ guessed' = guessed BY <1>5, <1>12
  <2>2. /\ r' \in ReceiveState /\ r'.pc = "error" /\ r'.crc_flag = r.crc_flag /\ r'.stored = r.stored
        /\ r'.buffer = r.buffer /\ r'.record = r.record
    BY <1>1, <2>1 DEF ReceiveState, Purging
  <2>3. Lengths' BY <2>2 DEF Lengths
  <2>4. Closing' BY <1>1, <1>6 DEF Closing
  <2>5. r'.pc # "first" /\ r'.pc \in {"first", "number", "complement", "data"} \cup Purging
      /\ r.pc \in {"first", "number", "complement", "data"} \cup Purging
    BY <1>1, <2>2 DEF Purging
  <2>6. up' = up /\ faults' = faults BY <2>1 DEF Hold
  <2> QED BY <1>1, <1>6, <2>1, <2>2, <2>3, <2>4, <2>5, <2>6, TakingKeeps
<1> QED BY <1>10, <1>11, <1>12

(***************************************************************************)
(* The invariant, and what it says of the two ends.                        *)
(***************************************************************************)
LEMMA InitIInv == Init => IInv
<1> SUFFICES ASSUME Init PROVE IInv OBVIOUS
<1>1. /\ s = [pc |-> "off", crc_flag |-> FALSE, sectnum |-> 1, attempts |-> 0]
      /\ down = <<>> /\ up = <<>> /\ faults = 0 /\ guessed = {}
      /\ r \in ReceiveState /\ r.pc = "off" /\ r.record = <<>> /\ r.buffer = <<>> /\ r.stored = <<>>
  <2>1. 0 \in Bytes /\ 0 \in 0 .. ERRORMAX /\ <<>> \in Seq(Bytes) /\ <<>> \in Seq(Block)
    BY Constants DEF Bytes
  <2> QED BY <2>1 DEF Init, ReceiveState
<1>2. s \in SendState /\ s.pc = "off" /\ s.crc_flag = FALSE /\ s.attempts = 0
  BY <1>1, Constants DEF SendState
<1>3. Len(r.record) = 0 /\ Len(r.buffer) = 0
  BY <1>1
<1>4. TypeOK
  BY <1>1, <1>2, <1>3, Constants DEF TypeOK, CheckLen
<1>5. Tries /\ TakeTurns /\ Modes /\ Lengths /\ Counted /\ Closing
  BY <1>1, <1>2 DEF Tries, TakeTurns, Modes, Lengths, Counted, Closing, Purging
<1> QED BY <1>4, <1>5 DEF IInv

LEMMA StepIInv == ModesAgree /\ IInv /\ [Next]_vars => IInv'
<1> SUFFICES ASSUME ModesAgree, IInv, [Next]_vars PROVE IInv'
  OBVIOUS
<1>1. CASE StartSending BY <1>1, StartSendingKeeps
<1>2. CASE Request BY <1>2, RequestKeeps
<1>3. CASE SectorSent BY <1>3, SectorSentKeeps
<1>4. CASE EotSent BY <1>4, EotSentKeeps
<1>5. CASE StartReceiving BY <1>5, StartReceivingKeeps
<1>6. CASE First BY <1>6, FirstKeeps
<1>7. CASE Number BY <1>7, NumberKeeps
<1>8. CASE Complement BY <1>8, ComplementKeeps
<1>9. CASE Data BY <1>9, DataKeeps
<1>10. CASE PurgeDuplicate \/ PurgeError BY <1>10, PurgeKeeps
<1>11. CASE UNCHANGED vars
  <2>1. s' = s /\ r' = r /\ down' = down /\ up' = up /\ faults' = faults /\ guessed' = guessed
    BY <1>11 DEF vars
  <2>2. TypeOK' /\ Tries' /\ TakeTurns' BY <2>1 DEF IInv, TypeOK, Tries, TakeTurns
  <2>3. Modes' /\ Lengths' /\ Closing' BY <2>1, ZenonT(60) DEF IInv, Modes, Lengths, FrameLen, Closing
  <2>4. Counted' BY <2>1 DEF IInv, Counted, Received, One
  <2> QED BY <2>2, <2>3, <2>4 DEF IInv
<1> QED BY <1>1, <1>2, <1>3, <1>4, <1>5, <1>6, <1>7, <1>8, <1>9, <1>10, <1>11
        DEF Next, Sending, Receiving

\* IInv holds in every state of a transfer: sendfile and rcvfile take turns on the
\* lines and agree on the sector they are at, whatever bytes are lost or changed.
THEOREM Invariant == ASSUME ModesAgree PROVE Spec => []IInv
<1>1. Init => IInv BY InitIInv
<1>2. IInv /\ [Next]_vars => IInv' BY StepIInv
<1> QED BY <1>1, <1>2, PTL DEF Spec

\* When sendfile reports success the receiver has closed its file and it has no
\* fewer sectors than were sent (cmodem2.c:271-297, 99-104 and 133-143): every ACK
\* counted is of a sector kept, since the receiver answers nothing else while the
\* sender waits and reads 255 for a timeout, and only EOT is answered after the last.
THEOREM SuccessMeansStored == ASSUME ModesAgree PROVE Spec => []SenderDoneDelivered
<1>1. IInv => SenderDoneDelivered
  <2> SUFFICES ASSUME IInv, s.pc = "done" PROVE r.pc = "over" /\ Len(r.stored) >= Sectors
    BY DEF SenderDoneDelivered
  <2>1. r.pc = "over" /\ r.buffer = <<>> /\ s.sectnum = Sectors + 1
    BY DEF IInv, Closing, TakeTurns, Tries
  <2>2. (s.sectnum - 1) + One(s.pc = "done") + Len(up) <= Len(Received) + One(r.pc = "over")
    BY DEF IInv, Counted
  <2>3. One(s.pc = "done") = 1 /\ One(r.pc = "over") = 1
    BY <2>1 DEF One
  <2>4. Len(Received) = Len(r.stored) + Len(r.buffer) /\ Len(r.stored) \in Nat /\ Len(r.buffer) = 0
    BY <2>1, ReceivedTyped DEF IInv, TypeOK
  <2>5. Len(up) \in Nat
    BY DEF IInv, TypeOK
  <2> HIDE DEF One
  <2> QED BY <2>1, <2>2, <2>3, <2>4, <2>5, Constants
<1> QED BY <1>1, Invariant, PTL

(***************************************************************************)
(* What the receiver keeps.                                                *)
(***************************************************************************)

\* A step of the sender that has started: the line to the receiver stays as it is,
\* or EOT or a sector is sent.
LEMMA SenderLine ==
  ASSUME IInv, IInv', Request \/ SectorSent \/ EotSent
  PROVE  /\ r' = r /\ guessed' = guessed /\ Answers # {}
         /\ \/ down' = down /\ faults' = faults
            \/ SendDown(<<EOT>>)
            \/ \E n \in 1 .. Sectors : SendDown(Frame[s'.crc_flag][n])
<1>1. r' = r /\ guessed' = guessed /\ Answers # {}
  BY DEF Request, SectorSent, EotSent
<1>2. ASSUME NEW crc_flag \in BOOLEAN, NEW n \in 1 .. Sectors + 1, Proceed(crc_flag, n)
      PROVE  SendDown(<<EOT>>) \/ \E m \in 1 .. Sectors : SendDown(Frame[s'.crc_flag][m])
  <2>1. s'.crc_flag = crc_flag BY <1>2 DEF Proceed
  <2>2. CASE n <= Sectors
    <3>1. n \in 1 .. Sectors /\ SendDown(Frame[crc_flag][n]) BY <1>2, <2>2 DEF Proceed
    <3> QED BY <2>1, <3>1
  <2>3. CASE ~(n <= Sectors) BY <1>2, <2>3 DEF Proceed
  <2> QED BY <2>2, <2>3
<1>3. s \in SendState /\ s.sectnum \in 1 .. Sectors + 1 /\ s.crc_flag \in BOOLEAN
  BY DEF IInv, TypeOK, SendState
<1>4. CASE Request
  <2>1. PICK rqst \in Answers :
          IF rqst \in {NAK, CRC} THEN Proceed(rqst = CRC, 1)
          ELSE /\ s' = [s EXCEPT !.attempts = @ + 1, !.pc = IF s.attempts + 1 = REQUESTMAX THEN "aborted" ELSE @]
               /\ UNCHANGED <<down, faults>>
    BY <1>4 DEF Request
  <2>2. CASE rqst \in {NAK, CRC}
    <3> DEFINE flag == rqst = CRC
    <3>1. flag \in BOOLEAN /\ 1 \in 1 .. Sectors + 1 /\ Proceed(flag, 1) BY <2>1, <2>2, Constants
    <3> HIDE DEF flag
    <3> QED BY <1>1, <1>2, <3>1
  <2>3. CASE rqst \notin {NAK, CRC} BY <1>1, <2>1, <2>3
  <2> QED BY <2>2, <2>3
<1>5. CASE SectorSent
  <2>1. PICK answer \in Answers :
          IF s.attempts = RETRYMAX THEN Stop("aborted")
          ELSE IF Acked(answer) THEN Proceed(s.crc_flag, s.sectnum + 1)
          ELSE s' = Again /\ SendDown(Frame[s.crc_flag][s.sectnum])
    BY <1>5 DEF SectorSent
  <2>2. s.sectnum \in 1 .. Sectors BY <1>3, <1>5, Constants DEF IInv, Tries, SectorSent
  <2>3. CASE s.attempts = RETRYMAX BY <1>1, <2>1, <2>3 DEF Stop
  <2>4. CASE s.attempts # RETRYMAX /\ Acked(answer)
    <3>1. Proceed(s.crc_flag, s.sectnum + 1) /\ s.sectnum + 1 \in 1 .. Sectors + 1 BY <2>1, <2>2, <2>4, Constants
    <3> QED BY <1>1, <1>2, <1>3, <3>1
  <2>5. CASE s.attempts # RETRYMAX /\ ~ Acked(answer)
    <3>1. s' = Again /\ SendDown(Frame[s.crc_flag][s.sectnum]) BY <2>1, <2>5
    <3>2. s'.crc_flag = s.crc_flag BY <1>3, <3>1 DEF Again, SendState
    <3> QED BY <1>1, <2>2, <3>1, <3>2
  <2> QED BY <2>3, <2>4, <2>5
<1>6. CASE EotSent
  BY <1>1, <1>6 DEF EotSent, Stop
<1> QED BY <1>4, <1>5, <1>6

\* Of what the sender puts on an empty line only a sector can be as long as one,
\* in the mode of the receiver.
LEMMA SenderKeepsWhole ==
  ASSUME IInv, IInv', Whole, Request \/ SectorSent \/ EotSent
  PROVE  Whole'
<1>1. TypeOK /\ TakeTurns /\ Modes' /\ r' = r /\ Answers # {}
  BY SenderLine DEF IInv
<1>2. /\ r.pc \in {"off", "first", "over"} \cup Purging
      /\ r.pc \in {"off", "first"} => down = <<>>
  BY <1>1, SenderTurn
<1>3. FrameLen \in Nat /\ FrameLen >= 5 /\ FrameLen' = FrameLen /\ r.crc_flag \in BOOLEAN
  BY <1>1, FrameLenTyped DEF TypeOK, FrameLen
<1>4. SUFFICES ASSUME r.pc = "first", Len(down') = FrameLen
               PROVE  \E n \in 1 .. Sectors, p \in 1 .. FrameLen :
                        \A j \in DOMAIN down' : 0 + j # p => down'[j] = Frame[r.crc_flag][n][0 + j]
  <2>1. r'.pc \notin {"number", "complement", "data"} BY <1>1, <1>2 DEF Purging
  <2>2. ASSUME ~ (r'.pc = "first" /\ Len(down') = FrameLen')
        PROVE  Whole'
    BY ONLY <2>1, <2>2 DEF Whole
  <2>3. ASSUME \E n \in 1 .. Sectors, p \in 1 .. FrameLen : Kept(n, p, down, 0)'
        PROVE  Whole'
    BY ONLY <1>3, <2>1, <2>3 DEF Whole
  <2>4. CASE r.pc = "first" /\ Len(down') = FrameLen
    BY <1>1, <1>4, <2>3, <2>4 DEF Kept
  <2> QED BY <1>1, <1>3, <2>2, <2>4
<1>5. down = <<>>
  BY <1>2, <1>4
<1>6. CASE down' = down
  BY <1>3, <1>4, <1>5, <1>6
<1>7. CASE SendDown(<<EOT>>)
  <2> DEFINE bytes == <<EOT>>
  <2>1. bytes \in Seq(Bytes) /\ bytes # <<>> /\ Len(bytes) = 1 /\ SendDown(bytes) BY <1>7 DEF EOT, Bytes
  <2> HIDE DEF bytes
  <2>2. Len(down') <= Len(bytes) BY <1>1, <1>5, <2>1, SentDown
  <2> QED BY <1>3, <1>4, <2>1, <2>2
<1>8. ASSUME NEW n \in 1 .. Sectors, SendDown(Frame[s'.crc_flag][n])
      PROVE  \E p \in 1 .. FrameLen :
               \A j \in DOMAIN down' : 0 + j # p => down'[j] = Frame[r.crc_flag][n][0 + j]
  <2> DEFINE bytes == Frame[s'.crc_flag][n]
  <2>1. s'.crc_flag \in BOOLEAN BY DEF IInv, TypeOK, SendState
  <2>2. bytes \in Seq(Bytes) /\ Len(bytes) = 3 + SECSIZ + CheckLen(s'.crc_flag) BY <2>1, FrameTyped
  <2>3. SendDown(bytes) BY <1>8
  <2> HIDE DEF bytes
  <2>4. Len(bytes) # 0 BY <2>2, Constants DEF CheckLen
  <2>5. bytes # <<>> BY <2>4
  <2>6. Len(down') <= Len(bytes) /\ (Len(down') = Len(bytes) => Near(down', bytes))
    BY <1>1, <1>5, <2>2, <2>3, <2>5, SentDown
  <2>7. s'.crc_flag = r.crc_flag
    <3>1. s'.crc_flag => r.crc_flag BY <1>1 DEF Modes
    <3>2. ~ s'.crc_flag /\ r.crc_flag => Len(bytes) < FrameLen BY <2>2, Constants DEF FrameLen, CheckLen
    <3>3. ~(~ s'.crc_flag /\ r.crc_flag) BY <1>3, <1>4, <2>2, <2>6, <3>2, Constants DEF CheckLen
    <3>4. r.crc_flag \in BOOLEAN BY <1>3
    <3>5. r.crc_flag => s'.crc_flag BY <3>3
    <3> QED BY <2>1, <3>1, <3>4, <3>5
  <2>8. Len(bytes) = FrameLen BY <2>2, <2>7 DEF FrameLen
  <2>9. Near(down', bytes) BY <1>4, <2>6, <2>8
  <2>10. PICK p \in DOMAIN bytes : \A j \in DOMAIN bytes : j # p => down'[j] = bytes[j] BY <2>9 DEF Near
  <2>11. DOMAIN bytes = 1 .. FrameLen /\ DOMAIN down' = 1 .. FrameLen
    <3>1. down' \in Seq(Bytes) BY DEF IInv, TypeOK
    <3> QED BY <1>4, <2>2, <2>8, <3>1
  <2>12. \A j \in DOMAIN down' : 0 + j # p => down'[j] = bytes[0 + j]
    BY <2>10, <2>11
  <2> QED BY <2>7, <2>10, <2>11, <2>12 DEF bytes
<1> QED BY <1>6, <1>7, <1>8, SenderLine

\* A byte that is read moves from the line into the receiver's variables, where it
\* keeps its place in the sector; one that is skipped leaves the rest too short.
LEMMA FirstKeepsWhole ==
  ASSUME IInv, Whole, First
  PROVE  Whole'
<1>1. /\ TypeOK /\ r.pc = "first" /\ down' = Rest(down) /\ Lengths
      /\ r \in ReceiveState /\ down \in Seq(Bytes)
  BY DEF IInv, TypeOK, First, Reading
<1>2. Incoming # TIMEOUT /\ (down = <<>> => Incoming = 255)
  BY <1>1, IncomingTyped
<1>3. \/ Incoming = SOH /\ r' = [r EXCEPT !.pc = "number"] /\ Hold
      \/ Incoming = EOT /\ r' = [Save EXCEPT !.pc = "over"] /\ SendUp(ACK)
      \/ Incoming \notin {SOH, EOT} /\ UNCHANGED r /\ Hold
  BY <1>2 DEF First, SOH, EOT, TIMEOUT
<1>4. FrameLen \in Nat /\ FrameLen >= 5 /\ Len(down) <= FrameLen
  BY <1>1, FrameLenTyped DEF Lengths
<1>5. CASE Incoming = SOH /\ r' = [r EXCEPT !.pc = "number"] /\ Hold
  <2>1. r'.pc = "number" /\ r'.crc_flag = r.crc_flag BY <1>1, <1>5 DEF ReceiveState
  <2>2. FrameLen' = FrameLen BY <2>1 DEF FrameLen
  <2>3. SUFFICES ASSUME Len(down') + 1 = FrameLen
                 PROVE  \E n \in 1 .. Sectors, p \in 1 .. FrameLen :
                          \A j \in DOMAIN down' : 1 + j # p => down'[j] = Frame[r.crc_flag][n][1 + j]
    BY <2>1, <2>2 DEF Whole, Kept
  <2>4. down # <<>> BY <1>2, <1>5 DEF SOH
  <2>5. Len(down) = FrameLen
    <3>1. Len(down') = Len(down) - 1 /\ Len(down) \in Nat BY <1>1, <2>4, RestTyped
    <3> QED BY <1>4, <2>3, <3>1
  <2>6. PICK n \in 1 .. Sectors, p \in 1 .. FrameLen :
               \A j \in DOMAIN down : 0 + j # p => down[j] = Frame[r.crc_flag][n][0 + j]
    BY <1>1, <2>5 DEF Whole, Kept
  <2>7. \A j \in DOMAIN down' : 1 + j # p => down'[j] = Frame[r.crc_flag][n][1 + j]
    <3> TAKE j \in DOMAIN down'
    <3>1. j + 1 \in DOMAIN down /\ down'[j] = down[j + 1] BY <1>1, RestTyped
    <3>2. j \in Nat /\ j + 1 = 1 + j /\ 0 + (j + 1) = j + 1
      <4>1. down' \in Seq(Bytes) BY <1>1, RestTyped
      <4> QED BY <4>1
    <3> DEFINE f == Frame[r.crc_flag][n]
    <3>3. 0 + (j + 1) # p => down[j + 1] = f[0 + (j + 1)] BY <2>6, <3>1
    <3> HIDE DEF f
    <3> QED BY <3>1, <3>2, <3>3 DEF f
  <2> QED BY <2>7
<1>6. CASE Incoming = EOT /\ r' = [Save EXCEPT !.pc = "over"] /\ SendUp(ACK)
  <2>1. r'.pc = "over" BY <1>1, <1>6 DEF Save, ReceiveState
  <2> QED BY <2>1 DEF Whole
<1>7. CASE Incoming \notin {SOH, EOT} /\ UNCHANGED r /\ Hold
  <2>1. FrameLen' = FrameLen /\ r'.pc = "first" BY <1>1, <1>7 DEF FrameLen
  <2>2. Len(down') # FrameLen
    <3>1. down = <<>> => Len(down') = 0 BY <1>1, RestTyped
    <3>2. down # <<>> => Len(down') = Len(down) - 1 /\ Len(down) \in Nat BY <1>1, RestTyped
    <3> QED BY <1>4, <3>1, <3>2
  <2> QED BY <2>1, <2>2 DEF Whole
<1> QED BY <1>3, <1>5, <1>6, <1>7

LEMMA NumberKeepsWhole ==
  ASSUME IInv, Whole, Number
  PROVE  Whole'
<1>1. /\ TypeOK /\ r.pc = "number" /\ down' = Rest(down)
      /\ r' = [r EXCEPT !.pc = "complement", !.sectcurr = Incoming]
      /\ r \in ReceiveState /\ down \in Seq(Bytes)
  BY DEF IInv, TypeOK, Number, Reading
<1>2. down # <<>> => Incoming = down[1]
  BY <1>1, IncomingTyped
<1>3. FrameLen \in Nat /\ FrameLen >= 5 /\ r.crc_flag \in BOOLEAN
  BY <1>1, FrameLenTyped
<1>4. r'.pc = "complement" /\ r'.crc_flag = r.crc_flag /\ r'.sectcurr = Incoming
  BY <1>1 DEF ReceiveState
<1>5. FrameLen' = FrameLen
  BY <1>4 DEF FrameLen
<1>6. SUFFICES ASSUME Len(down') + 2 = FrameLen
               PROVE  \E n \in 1 .. Sectors, p \in 1 .. FrameLen :
                        /\ p # 2 => Incoming = n
                        /\ \A j \in DOMAIN down' : 2 + j # p => down'[j] = Frame[r.crc_flag][n][2 + j]
  BY <1>4, <1>5 DEF Whole, Kept
<1>7. down # <<>>
  <2>1. down = <<>> => Len(down') = 0 BY <1>1, RestTyped
  <2> QED BY <1>3, <1>6, <2>1
<1>8. Len(down) + 1 = FrameLen /\ Len(down) \in Nat
  <2>1. Len(down') = Len(down) - 1 /\ Len(down) \in Nat BY <1>1, <1>7, RestTyped
  <2> QED BY <1>3, <1>6, <2>1
<1>9. PICK n \in 1 .. Sectors, p \in 1 .. FrameLen :
             \A j \in DOMAIN down : 1 + j # p => down[j] = Frame[r.crc_flag][n][1 + j]
  BY <1>1, <1>8 DEF Whole, Kept
<1> DEFINE f == Frame[r.crc_flag][n]
<1>10. f[2] = n
  BY <1>3, FrameTyped
<1> HIDE DEF f
<1>11. p # 2 => Incoming = n
  <2>1. 1 \in DOMAIN down BY <1>1, <1>7
  <2>2. 1 + 1 # p => down[1] = f[1 + 1] BY <1>9, <2>1 DEF f
  <2> QED BY <1>2, <1>7, <1>10, <2>2
<1>12. \A j \in DOMAIN down' : 2 + j # p => down'[j] = f[2 + j]
  <2> TAKE j \in DOMAIN down'
  <2>1. j + 1 \in DOMAIN down /\ down'[j] = down[j + 1] BY <1>1, RestTyped
  <2>2. j \in Nat /\ 1 + (j + 1) = 2 + j
    <3>1. down' \in Seq(Bytes) BY <1>1, RestTyped
    <3> QED BY <3>1
  <2>3. 1 + (j + 1) # p => down[j + 1] = f[1 + (j + 1)] BY <1>9, <2>1 DEF f
  <2> QED BY <2>1, <2>2, <2>3
<1> QED BY <1>11, <1>12 DEF f

LEMMA ComplementKeepsWhole ==
  ASSUME IInv, Whole, Complement
  PROVE  Whole'
<1>1. /\ TypeOK /\ r.pc = "complement" /\ down' = Rest(down)
      /\ r' = [r EXCEPT !.pc = Numbered(Incoming), !.record = <<>>, !.missing = FALSE]
      /\ r \in ReceiveState /\ down \in Seq(Bytes)
  BY DEF IInv, TypeOK, Complement, Reading
<1>2. Incoming \in Bytes /\ (down # <<>> => Incoming = down[1]) /\ r.sectcurr \in Bytes
  BY <1>1, IncomingTyped DEF ReceiveState
<1>3. FrameLen \in Nat /\ FrameLen >= 5 /\ r.crc_flag \in BOOLEAN
  BY <1>1, FrameLenTyped
<1>4. Numbered(Incoming) \in {"data"} \cup Purging
      /\ (Numbered(Incoming) = "data" => r.sectcurr + Incoming = 255)
  BY DEF Numbered, Purging
<1>5. r'.pc = Numbered(Incoming) /\ r'.crc_flag = r.crc_flag /\ r'.sectcurr = r.sectcurr /\ r'.record = <<>>
  BY <1>1 DEF ReceiveState
<1>6. FrameLen' = FrameLen /\ Len(r'.record) = 0 /\ r'.pc \notin {"first", "number", "complement"}
  BY <1>4, <1>5 DEF FrameLen, Purging
<1>7. SUFFICES ASSUME Numbered(Incoming) = "data", Len(down') + 3 + 0 = FrameLen
               PROVE  \E p \in 1 .. FrameLen :
                        /\ r.sectcurr \in 1 .. Sectors
                        /\ \A j \in DOMAIN down' :
                             3 + 0 + j # p => down'[j] = Frame[r.crc_flag][r.sectcurr][3 + 0 + j]
  BY <1>5, <1>6 DEF Whole, Kept
<1>8. down # <<>>
  <2>1. down = <<>> => Len(down') = 0 BY <1>1, RestTyped
  <2> QED BY <1>3, <1>7, <2>1
<1>9. Len(down) + 2 = FrameLen /\ Len(down) \in Nat
  <2>1. Len(down') = Len(down) - 1 /\ Len(down) \in Nat BY <1>1, <1>8, RestTyped
  <2> QED BY <1>3, <1>7, <2>1
<1>10. PICK n \in 1 .. Sectors, p \in 1 .. FrameLen :
              /\ p # 2 => r.sectcurr = n
              /\ \A j \in DOMAIN down : 2 + j # p => down[j] = Frame[r.crc_flag][n][2 + j]
  BY <1>1, <1>9 DEF Whole, Kept
<1> DEFINE f == Frame[r.crc_flag][n]
<1>11. f[3] = 255 - n
  BY <1>3, FrameTyped
<1> HIDE DEF f
<1>12. r.sectcurr = n
  <2>1. CASE p # 2 BY <1>10, <2>1
  <2>2. CASE p = 2
    <3>1. 1 \in DOMAIN down BY <1>1, <1>8
    <3>2. 2 + 1 # p => down[1] = f[2 + 1] BY <1>10, <3>1 DEF f
    <3>3. Incoming = 255 - n BY <1>2, <1>8, <1>11, <2>2, <3>2
    <3>4. r.sectcurr \in Nat /\ n \in Nat /\ Incoming \in Nat
      <4>1. \A byte \in Bytes : byte \in Nat BY DEF Bytes
      <4> QED BY <1>2, <4>1
    <3>5. r.sectcurr + Incoming = 255 BY <1>4, <1>7
    <3> QED BY <3>3, <3>4, <3>5
  <2> QED BY <2>1, <2>2
<1>13. \A j \in DOMAIN down' : 3 + 0 + j # p => down'[j] = f[3 + 0 + j]
  <2> TAKE j \in DOMAIN down'
  <2>1. j + 1 \in DOMAIN down /\ down'[j] = down[j + 1] BY <1>1, RestTyped
  <2>2. j \in Nat /\ 2 + (j + 1) = 3 + 0 + j
    <3>1. down' \in Seq(Bytes) BY <1>1, RestTyped
    <3> QED BY <3>1
  <2>3. 2 + (j + 1) # p => down[j + 1] = f[2 + (j + 1)] BY <1>10, <2>1 DEF f
  <2> QED BY <2>1, <2>2, <2>3
<1> QED BY <1>12, <1>13 DEF f

LEMMA DataKeepsWhole ==
  ASSUME IInv, IInv', Whole, Data
  PROVE  Whole'
<1> DEFINE record  == Append(r.record, Incoming)
           missing == r.missing \/ down = <<>>
<1>1. /\ TypeOK /\ r.pc = "data" /\ down' = Rest(down) /\ Lengths
      /\ r \in ReceiveState /\ down \in Seq(Bytes) /\ r.record \in Seq(Bytes)
      /\ Len(r.record) < SECSIZ + CheckLen(r.crc_flag)
  BY DEF IInv, TypeOK, Data, Reading, ReceiveState
<1>2. Incoming \in Bytes /\ (down # <<>> => Incoming = down[1])
  BY <1>1, IncomingTyped
<1>3. /\ record \in Seq(Bytes) /\ Len(record) = Len(r.record) + 1 /\ Len(r.record) \in Nat
      /\ \A j \in 1 .. Len(r.record) : record[j] = r.record[j]
      /\ record[Len(r.record) + 1] = Incoming
  BY <1>1, <1>2
<1>4. \/ r' = [r EXCEPT !.record = record, !.missing = missing]
      \/ r' = Stored(SubSeq(record, 1, SECSIZ)) /\ Len(record) >= SECSIZ + CheckLen(r.crc_flag)
      \/ r' = [r EXCEPT !.pc = "error"]
  <2>1. SECSIZ + CheckLen(r.crc_flag) \in Nat BY Constants DEF CheckLen
  <2>2. Len(record) \in Nat BY <1>3
  <2>3. IF Len(record) < SECSIZ + CheckLen(r.crc_flag)
        THEN r' = [r EXCEPT !.record = record, !.missing = missing]
        ELSE IF GoodRecord(record) THEN r' = Stored(SubSeq(record, 1, SECSIZ))
        ELSE r' = [r EXCEPT !.pc = "error"]
    BY DEF Data
  <2> HIDE DEF record, missing
  <2> QED BY <2>1, <2>2, <2>3
<1>5. missing \in BOOLEAN
  BY <1>1 DEF ReceiveState
<1>6. FrameLen \in Nat /\ FrameLen >= 5
  BY <1>1, FrameLenTyped
<1> HIDE DEF record, missing
<1>7. CASE r' = [r EXCEPT !.record = record, !.missing = missing]
  <2>1. /\ r'.pc = "data" /\ r'.crc_flag = r.crc_flag /\ r'.sectcurr = r.sectcurr
        /\ r'.record = record /\ r'.missing = missing
    BY <1>1, <1>7 DEF ReceiveState
  <2>2. FrameLen' = FrameLen BY <2>1 DEF FrameLen
  <2> DEFINE k == Len(r.record)  f == Frame[r.crc_flag][r.sectcurr]
  <2>3. SUFFICES ASSUME ~ missing, Len(down') + 3 + Len(record) = FrameLen
                 PROVE  \E p \in 1 .. FrameLen :
                          /\ r.sectcurr \in 1 .. Sectors
                          /\ \A j \in DOMAIN record : 3 + j # p => record[j] = f[3 + j]
                          /\ \A j \in DOMAIN down' : 3 + Len(record) + j # p => down'[j] = f[3 + Len(record) + j]
    BY <2>1, <2>2 DEF Whole, Kept
  <2>4. down # <<>> /\ ~ r.missing BY <2>3 DEF missing
  <2>5. Len(down') = Len(down) - 1 /\ Len(down) \in Nat BY <1>1, <2>4, RestTyped, SMTT(60)
  <2>6. Len(down) + 3 + k = FrameLen /\ k \in Nat /\ Len(record) = k + 1
    <3> DEFINE left == Len(down)  rest == Len(down')  all == Len(record)
    <3>1. /\ rest + 3 + all = FrameLen /\ rest = left - 1 /\ left \in Nat /\ k \in Nat /\ all = k + 1
          /\ FrameLen \in Nat
      BY <1>3, <1>6, <2>3, <2>5
    <3> HIDE DEF left, rest, all, k
    <3>2. left + 3 + k = FrameLen BY <3>1
    <3> QED BY <3>1, <3>2 DEF left, all
  <2>7. PICK p \in 1 .. FrameLen :
               /\ r.sectcurr \in 1 .. Sectors
               /\ \A j \in DOMAIN r.record : 3 + j # p => r.record[j] = f[3 + j]
               /\ \A j \in DOMAIN down : 3 + k + j # p => down[j] = f[3 + k + j]
    BY <1>1, <2>4, <2>6 DEF Whole, Kept
  <2> HIDE DEF f
  <2>8. ASSUME NEW j \in DOMAIN record, 3 + j # p PROVE record[j] = f[3 + j]
    <3>1. j \in 1 .. k + 1 BY <1>3, <2>6
    <3>2. CASE j \in 1 .. k
      <4>1. j \in DOMAIN r.record /\ record[j] = r.record[j] BY <1>1, <1>3, <3>2
      <4> QED BY <2>7, <2>8, <4>1
    <3>3. CASE j = k + 1
      <4>1. 1 \in DOMAIN down BY <1>1, <2>4
      <4>2. 3 + k + 1 = 3 + j BY <2>6, <3>3
      <4>3. down[1] = f[3 + k + 1] BY <2>7, <2>8, <4>1, <4>2
      <4>4. record[j] = down[1] BY <1>2, <1>3, <2>4, <3>3
      <4> QED BY <4>2, <4>3, <4>4
    <3> QED BY <2>6, <3>1, <3>2, <3>3
  <2>9. ASSUME NEW j \in DOMAIN down', 3 + Len(record) + j # p
        PROVE  down'[j] = f[3 + Len(record) + j]
    <3>1. j + 1 \in DOMAIN down /\ down'[j] = down[j + 1] BY <1>1, RestTyped
    <3>2. j \in Nat
      <4>1. down' \in Seq(Bytes) BY <1>1, RestTyped
      <4> QED BY <4>1
    <3>3. 3 + Len(record) + j = 3 + k + (j + 1) BY <2>6, <3>2
    <3>4. down[j + 1] = f[3 + k + (j + 1)] BY <2>7, <2>9, <3>1, <3>3
    <3> QED BY <3>1, <3>3, <3>4
  <2> QED BY <2>7, <2>8, <2>9
<1>8. CASE r' = Stored(SubSeq(record, 1, SECSIZ)) /\ Len(record) >= SECSIZ + CheckLen(r.crc_flag)
  <2>1. r'.pc = "first"
    <3> DEFINE data == SubSeq(record, 1, SECSIZ)
    <3>1. r' = Stored(data) BY <1>8
    <3> HIDE DEF data
    <3> QED BY <1>1, <3>1 DEF Stored, ReceiveState
  <2>2. down' = <<>>
    <3>1. Len(down) + 3 + Len(r.record) <= FrameLen \/ down = <<>> BY <1>1 DEF Lengths
    <3>2. CASE down = <<>> BY <1>1, <3>2, RestTyped
    <3>3. CASE down # <<>>
      <4> DEFINE left == Len(down)  k == Len(r.record)  n == CheckLen(r.crc_flag)
      <4>1. FrameLen = 3 + SECSIZ + n /\ SECSIZ \in Nat /\ n \in Nat BY Constants DEF FrameLen, CheckLen
      <4>2. left + 3 + k <= FrameLen /\ k + 1 >= SECSIZ + n BY <1>3, <1>8, <3>1, <3>3
      <4>3. left \in Nat /\ left # 0 /\ k \in Nat BY <1>1, <3>3
      <4> HIDE DEF left, k, n
      <4>4. left = 1 BY <4>1, <4>2, <4>3
      <4> QED BY <1>1, <3>3, <4>4, RestTyped DEF left
    <3> QED BY <3>2, <3>3
  <2>3. FrameLen' >= 5
    <3>1. r' \in ReceiveState BY DEF IInv, TypeOK
    <3>2. r'.crc_flag \in BOOLEAN BY <3>1, Constants DEF ReceiveState
    <3> QED BY <3>2, Constants DEF FrameLen, CheckLen
  <2>4. Len(down') = 0 BY <2>2
  <2> QED BY <2>1, <2>3, <2>4 DEF Whole
<1>9. CASE r' = [r EXCEPT !.pc = "error"]
  <2>1. r'.pc = "error" BY <1>1, <1>9 DEF ReceiveState
  <2> QED BY <2>1 DEF Whole
<1> QED BY <1>4, <1>7, <1>8, <1>9

LEMMA SameWhole ==
  ASSUME Whole, r' = r, down' = down
  PROVE  Whole'
<1>1. FrameLen' = FrameLen
  BY DEF FrameLen
<1>2. \A n, p, before : Kept(n, p, down, before)' <=> Kept(n, p, down, before)
  BY DEF Kept
<1>3. \A n, p, before : Kept(n, p, r.record, before)' <=> Kept(n, p, r.record, before)
  BY DEF Kept
<1> QED BY <1>1, <1>2, <1>3 DEF Whole

LEMMA StepWhole ==
  ASSUME IInv, IInv', Whole, [Next]_vars
  PROVE  Whole'
<1>1. CASE StartSending
  <2>1. r' = r /\ down' = down BY <1>1 DEF StartSending
  <2> QED BY <2>1, SameWhole
<1>2. CASE Request \/ SectorSent \/ EotSent BY <1>2, SenderKeepsWhole
<1>3. CASE StartReceiving
  <2>1. r \in ReceiveState BY DEF IInv, TypeOK
  <2>2. r'.pc = "first" /\ down' = <<>> /\ r'.crc_flag = r.crc_flag BY <1>3, <2>1 DEF StartReceiving, ReceiveState
  <2>3. FrameLen' >= 5
    <3>1. FrameLen >= 5 /\ FrameLen' = FrameLen BY <2>1, <2>2, FrameLenTyped DEF FrameLen
    <3> QED BY <3>1
  <2>4. Len(down') = 0 BY <2>2
  <2> QED BY <2>2, <2>3, <2>4 DEF Whole
<1>4. CASE First BY <1>4, FirstKeepsWhole
<1>5. CASE Number BY <1>5, NumberKeepsWhole
<1>6. CASE Complement BY <1>6, ComplementKeepsWhole
<1>7. CASE Data BY <1>7, DataKeepsWhole
<1>8. CASE PurgeDuplicate \/ PurgeError
  <2>1. r' = r BY <1>8, PurgeKeeps
  <2>2. r.pc \in Purging BY <1>8 DEF PurgeDuplicate, PurgeError, Reading, Purging
  <2> QED BY <2>1, <2>2 DEF Whole, Purging
<1>9. CASE UNCHANGED vars
  <2>1. r' = r /\ down' = down BY <1>9 DEF vars
  <2> QED BY <2>1, SameWhole
<1> QED BY <1>1, <1>2, <1>3, <1>4, <1>5, <1>6, <1>7, <1>8, <1>9 DEF Next, Sending, Receiving

\* A record without a missing byte that passes the check is the sector whose number
\* came before it.
LEMMA GoodRecordIsSector ==
  ASSUME IInv, Whole, Data, ~(r.missing \/ down = <<>>),
         GoodRecord(Append(r.record, Incoming)),
         ~(Len(Append(r.record, Incoming)) < SECSIZ + CheckLen(r.crc_flag))
  PROVE  /\ r.sectcurr \in 1 .. Sectors
         /\ SubSeq(Append(r.record, Incoming), 1, SECSIZ) = Sector[r.sectcurr]
<1> DEFINE record == Append(r.record, Incoming)
           k      == Len(r.record)
           check  == CheckLen(r.crc_flag)
<1>1. /\ TypeOK /\ r.pc = "data" /\ Lengths /\ down # <<>> /\ ~ r.missing
      /\ r \in ReceiveState /\ down \in Seq(Bytes) /\ r.record \in Seq(Bytes)
      /\ k < SECSIZ + check
  BY DEF IInv, TypeOK, Data, Reading, ReceiveState
<1>2. Incoming \in Bytes /\ Incoming = down[1]
  BY <1>1, IncomingTyped
<1>3. /\ record \in Seq(Bytes) /\ Len(record) = k + 1 /\ k \in Nat
      /\ \A j \in 1 .. k : record[j] = r.record[j]
      /\ record[k + 1] = Incoming
  BY <1>1, <1>2
<1>4. r.crc_flag \in BOOLEAN /\ FrameLen = 3 + SECSIZ + check /\ check \in Nat \ {0} /\ SECSIZ \in Nat \ {0}
      /\ check = (IF r.crc_flag THEN 2 ELSE 1)
  BY <1>1, FrameLenTyped, Constants DEF FrameLen, CheckLen
<1>5. k + 1 = SECSIZ + check
  <2>1. ~(Len(record) < SECSIZ + check) OBVIOUS
  <2> HIDE DEF record, k, check
  <2> QED BY <1>1, <1>3, <1>4, <2>1
<1>6. Len(down) + 3 + k = FrameLen
  <2> DEFINE left == Len(down)
  <2>1. left + 3 + k <= FrameLen
    <3>1. Len(down) + 3 + Len(r.record) <= FrameLen \/ down = <<>> BY <1>1 DEF Lengths
    <3> QED BY <1>1, <3>1
  <2>a. left \in Nat /\ left # 0 BY <1>1
  <2> HIDE DEF left, k, check
  <2>2. left + 3 + k = FrameLen BY <1>3, <1>4, <1>5, <2>1, <2>a
  <2> QED BY <2>2 DEF left
<1> DEFINE n == r.sectcurr  f == Frame[r.crc_flag][n]
<1>7. PICK p \in 1 .. FrameLen :
             /\ n \in 1 .. Sectors
             /\ \A j \in DOMAIN r.record : 3 + j # p => r.record[j] = f[3 + j]
             /\ \A j \in DOMAIN down : 3 + k + j # p => down[j] = f[3 + k + j]
  BY <1>1, <1>6 DEF Whole, Kept
<1> DEFINE data == Sector[n]  sent == Record(r.crc_flag, n)
<1>8. /\ sent \in Seq(Bytes) /\ Len(sent) = SECSIZ + check
      /\ \A j \in 1 .. SECSIZ : sent[j] = data[j]
      /\ data \in Seq(Bytes) /\ Len(data) = SECSIZ
      /\ \A j \in 1 .. SECSIZ + check : f[3 + j] = sent[j]
      /\ sent = data \o CheckBytes(r.crc_flag, data)
  <2>1. n \in 1 .. Sectors BY <1>7
  <2> HIDE DEF n
  <2>2. data \in Seq(Bytes) /\ Len(data) = SECSIZ BY <2>1, SectorTyped
  <2>3. sent \in Seq(Bytes) /\ Len(sent) = SECSIZ + check BY <1>4, <2>1, RecordTyped
  <2>4. \A j \in 1 .. SECSIZ : sent[j] = data[j] BY <1>4, <2>1, RecordTyped
  <2>5. \A j \in 1 .. SECSIZ + check : f[3 + j] = sent[j] BY <1>4, <2>1, FrameTyped, SMTT(60)
  <2>6. sent = data \o CheckBytes(r.crc_flag, data) BY DEF Record
  <2> QED BY <2>2, <2>3, <2>4, <2>5, <2>6
<1>9. GoodRecord(record)
  OBVIOUS
<1> HIDE DEF record, f, n, sent, data
<1>10. \A j \in 1 .. SECSIZ + check : 3 + j # p => record[j] = sent[j]
  <2> TAKE j \in 1 .. SECSIZ + check
  <2>1. SUFFICES ASSUME 3 + j # p PROVE record[j] = f[3 + j] BY <1>8
  <2>2. CASE j \in 1 .. k
    <3>1. j \in DOMAIN r.record /\ record[j] = r.record[j] BY <1>1, <1>3, <2>2
    <3> QED BY <1>7, <2>1, <3>1
  <2>3. CASE j = k + 1
    <3>1. 1 \in DOMAIN down BY <1>1
    <3>2. 3 + k + 1 = 3 + j BY <1>3, <2>3
    <3>3. down[1] = f[3 + k + 1] BY <1>7, <2>1, <3>1, <3>2
    <3> QED BY <1>2, <1>3, <2>3, <3>2, <3>3
  <2> HIDE DEF k, check
  <2> QED BY <1>3, <1>5, <2>2, <2>3
<1> DEFINE q == p - 3
<1>11. record = sent \/ (q \in DOMAIN sent /\ record[q] # sent[q])
  <2>1. SUFFICES ASSUME ~(q \in DOMAIN sent /\ record[q] # sent[q]) PROVE record = sent OBVIOUS
  <2>2. DOMAIN sent = 1 .. SECSIZ + check BY <1>8
  <2>3. \A j \in 1 .. SECSIZ + check : record[j] = sent[j]
    <3> TAKE j \in 1 .. SECSIZ + check
    <3>1. 3 + j = p => j = q BY <1>4
    <3> QED BY <1>10, <2>1, <2>2, <3>1
  <2>4. Len(record) = Len(sent) BY <1>3, <1>5, <1>8
  <2> HIDE DEF q, check
  <2> QED BY <1>3, <1>8, <2>3, <2>4, SMTT(60)
<1>12. ASSUME q \in DOMAIN sent, record[q] # sent[q] PROVE FALSE
  <2>1. \A j \in DOMAIN sent : j # q => record[j] = sent[j]
    <3> TAKE j \in DOMAIN sent
    <3>1. j \in 1 .. SECSIZ + check BY <1>8
    <3>2. j # q => 3 + j # p BY <1>4, <3>1, <1>6
    <3> QED BY <1>10, <3>1, <3>2
  <2>2. Len(record) = Len(sent) BY <1>3, <1>5, <1>8
  <2> HIDE DEF q
  <2>3. ~ Passes(r.crc_flag, record)
    <3> DEFINE flag == r.crc_flag
    <3>1. flag \in BOOLEAN BY <1>4
    <3> HIDE DEF flag
    <3>2. sent = data \o CheckBytes(flag, data) BY <1>8 DEF flag
    <3>3. ~ Passes(flag, record)
      <4>1. data \in Seq(Bytes) /\ record \in Seq(Bytes) BY <1>3, <1>8
      <4>2. q \in DOMAIN sent /\ record[q] # sent[q] BY <1>12
      <4>3. sent = Coded(flag, data) BY <3>2 DEF Coded
      <4> QED BY <2>1, <2>2, <3>1, <4>1, <4>2, <4>3, ChangedByteDetected, SMTT(60)
    <3> QED BY <3>3 DEF flag
  <2>4. Passes(r.crc_flag, record)
    <3>1. Len(record) = SECSIZ + check BY <1>3, <1>5
    <3>2. CASE r.crc_flag
      <4>1. Crc(record) = {} BY <1>9, <3>2 DEF GoodRecord
      <4> QED BY <3>2, <4>1 DEF Passes
    <3>3. CASE ~ r.crc_flag
      <4>1. Checksum(SubSeq(record, 1, SECSIZ)) = record[SECSIZ + 1] BY <1>9, <3>3 DEF GoodRecord
      <4>2. Len(record) = SECSIZ + 1 BY <1>4, <3>1, <3>3
      <4>3. Len(record) - 1 = SECSIZ BY <1>4, <4>2
      <4>4. Checksum(SubSeq(record, 1, Len(record) - 1)) = record[Len(record)] BY <4>1, <4>2, <4>3
      <4> QED BY <3>3, <4>4 DEF Passes
    <3> QED BY <3>2, <3>3
  <2> QED BY <2>3, <2>4
<1>13. record = sent
  BY <1>11, <1>12
<1>14. SubSeq(sent, 1, SECSIZ) = data
  <2> DEFINE d == SubSeq(sent, 1, SECSIZ)
  <2>1. d \in Seq(Bytes) /\ Len(d) = SECSIZ /\ \A j \in 1 .. SECSIZ : d[j] = sent[j]
    BY <1>4, <1>8, DataTyped
  <2> HIDE DEF d
  <2>2. d = data BY <1>8, <2>1
  <2> QED BY <2>2 DEF d
<1> QED BY <1>7, <1>13, <1>14 DEF record, data, n

\* A step that keeps no sector and expects the same one.
LEMMA NoneKept ==
  ASSUME Numbers, Len(Received) < 256 => StoredOrGuessed,
         Received' = Received, r'.sectnum = r.sectnum, guessed' = guessed,
         r'.pc = "data" => r'.sectcurr = (r.sectnum + 1) % 256
  PROVE  Numbers' /\ (Len(Received) < 256 => StoredOrGuessed)'
<1>1. Numbers'
  BY DEF Numbers
<1>2. ASSUME Len(Received') < 256 PROVE StoredOrGuessed'
  <2>1. StoredOrGuessed BY <1>2
  <2> QED BY <2>1 DEF StoredOrGuessed, Sector, Sectors
<1> QED BY <1>1, <1>2

\* The steps of the receiver on a byte of the data: one more byte of the record, a
\* sector kept or an error.
LEMMA DataOutcomes ==
  ASSUME IInv, Data
  PROVE  \/ /\ Received' = Received /\ r'.sectnum = r.sectnum /\ guessed' = guessed
            /\ r'.sectcurr = r.sectcurr /\ r'.pc \in {"data", "error"}
         \/ /\ r' = Stored(SubSeq(Append(r.record, Incoming), 1, SECSIZ))
            /\ GoodRecord(Append(r.record, Incoming))
            /\ ~(Len(Append(r.record, Incoming)) < SECSIZ + CheckLen(r.crc_flag))
            /\ guessed' = IF r.missing \/ down = <<>> THEN guessed \cup {r.sectcurr} ELSE guessed
<1> DEFINE record == Append(r.record, Incoming)  missing == r.missing \/ down = <<>>
<1>1. r \in ReceiveState /\ r.pc = "data"
  BY DEF IInv, TypeOK, Data, Reading
<1>2. IF Len(record) < SECSIZ + CheckLen(r.crc_flag)
      THEN r' = [r EXCEPT !.record = record, !.missing = missing] /\ guessed' = guessed
      ELSE IF GoodRecord(record)
      THEN /\ r' = Stored(SubSeq(record, 1, SECSIZ))
           /\ guessed' = IF missing THEN guessed \cup {r.sectcurr} ELSE guessed
      ELSE r' = [r EXCEPT !.pc = "error"] /\ guessed' = guessed
  BY DEF Data
<1>3. CASE Len(record) < SECSIZ + CheckLen(r.crc_flag)
  <2>1. r' = [r EXCEPT !.record = record, !.missing = missing] /\ guessed' = guessed BY <1>2, <1>3
  <2> HIDE DEF record, missing
  <2> QED BY <1>1, <2>1 DEF ReceiveState, Received
<1>4. CASE ~(Len(record) < SECSIZ + CheckLen(r.crc_flag)) /\ GoodRecord(record)
  BY <1>2, <1>4
<1>5. CASE ~(Len(record) < SECSIZ + CheckLen(r.crc_flag)) /\ ~ GoodRecord(record)
  <2>1. r' = [r EXCEPT !.pc = "error"] /\ guessed' = guessed BY <1>2, <1>5
  <2> QED BY <1>1, <2>1 DEF ReceiveState, Received
<1> QED BY <1>3, <1>4, <1>5

\* What keeping a sector does.
LEMMA SectorKept ==
  ASSUME IInv, Data, r' = Stored(SubSeq(Append(r.record, Incoming), 1, SECSIZ)),
         ~(Len(Append(r.record, Incoming)) < SECSIZ + CheckLen(r.crc_flag))
  PROVE  /\ r' \in ReceiveState /\ r'.sectnum = r.sectcurr /\ r'.pc = "first"
         /\ Len(Received') = Len(Received) + 1
         /\ \A i \in 1 .. Len(Received) : Received'[i] = Received[i]
         /\ Received'[Len(Received) + 1] = SubSeq(Append(r.record, Incoming), 1, SECSIZ)
<1> DEFINE record == Append(r.record, Incoming)  data == SubSeq(record, 1, SECSIZ)
           check  == CheckLen(r.crc_flag)
<1>1. r \in ReceiveState /\ Len(r.buffer) < NSECTS /\ r.record \in Seq(Bytes) /\ Len(r.record) < SECSIZ + check
  BY DEF IInv, TypeOK, ReceiveState
<1>2. data \in Block
  <2>1. Incoming \in Bytes BY IncomingTyped DEF IInv
  <2>2. record \in Seq(Bytes) /\ Len(record) = Len(r.record) + 1 BY <1>1, <2>1
  <2>3. check \in Nat \ {0} /\ SECSIZ \in Nat BY Constants DEF CheckLen
  <2>4. Len(record) = SECSIZ + check
    <3> DEFINE k == Len(r.record)  n == Len(record)
    <3>1. k \in Nat /\ n = k + 1 /\ k < SECSIZ + check /\ ~(n < SECSIZ + check) BY <1>1, <2>2
    <3> HIDE DEF k, n, check
    <3> QED BY <2>3, <3>1 DEF n
  <2> HIDE DEF record, check
  <2> QED BY <2>2, <2>3, <2>4, DataTyped
<1>3. r' = Stored(data)
  OBVIOUS
<1> HIDE DEF data
<1>4. /\ r' \in ReceiveState /\ r'.sectnum = r.sectcurr /\ r'.pc = "first"
      /\ Len(Received') = Len(Received) + 1
      /\ \A i \in 1 .. Len(Received) : Received'[i] = Received[i]
      /\ Received'[Len(Received) + 1] = data
  BY <1>1, <1>2, <1>3, StoredTyped
<1> QED BY <1>4 DEF data

LEMMA DataKeepsSectors ==
  ASSUME IInv, Whole, Numbers, Len(Received) < 256 => StoredOrGuessed, Data
  PROVE  Numbers' /\ (Len(Received) < 256 => StoredOrGuessed)'
<1> DEFINE record == Append(r.record, Incoming)  data == SubSeq(record, 1, SECSIZ)
           check  == CheckLen(r.crc_flag)
<1>1. r \in ReceiveState /\ r.pc = "data" /\ r.sectcurr = (r.sectnum + 1) % 256 /\ Len(r.buffer) < NSECTS
      /\ r.record \in Seq(Bytes) /\ Len(r.record) < SECSIZ + check
  BY DEF IInv, TypeOK, Data, Reading, Numbers, ReceiveState
<1>2. CASE /\ Received' = Received /\ r'.sectnum = r.sectnum /\ guessed' = guessed
           /\ r'.sectcurr = r.sectcurr
  BY <1>1, <1>2, NoneKept
<1>3. CASE /\ r' = Stored(data) /\ GoodRecord(record) /\ ~(Len(record) < SECSIZ + check)
           /\ guessed' = IF r.missing \/ down = <<>> THEN guessed \cup {r.sectcurr} ELSE guessed
  <2>1. /\ r'.sectnum = r.sectcurr /\ r'.pc = "first" /\ Len(Received') = Len(Received) + 1
        /\ \A i \in 1 .. Len(Received) : Received'[i] = Received[i]
        /\ Received'[Len(Received) + 1] = data
        /\ r' \in ReceiveState
    BY <1>3, SectorKept
  <2> HIDE DEF data
  <2> DEFINE k == Len(Received)
  <2>2. k \in Nat BY <1>1, ReceivedTyped
  <2>3. k + 1 < 256 => r.sectcurr = k + 1
    <3>1. ASSUME k + 1 < 256 PROVE r.sectnum = k
      <4>1. k < 256 BY <2>2, <3>1
      <4> QED BY <4>1 DEF Numbers
    <3> HIDE DEF k
    <3> QED BY <1>1, <2>2, <3>1
  <2>4. Numbers'
    <3>1. Len(Received') = k + 1 BY <2>1
    <3> QED BY <2>1, <2>3, <3>1 DEF Numbers
  <2>5. ASSUME Len(Received') < 256, NEW i \in DOMAIN Received'
        PROVE  i \in guessed' \/ Received'[i] = Sector[i]
    <3>1. k + 1 < 256 /\ k < 256 BY <2>1, <2>2, <2>5
    <3>2. Received' \in Seq(Block) /\ Received \in Seq(Block) BY <1>1, <2>1 DEF Received, ReceiveState
    <3>3. i \in 1 .. k + 1 BY <2>1, <2>5, <3>2
    <3>4. CASE i \in 1 .. k
      <4>1. i \in DOMAIN Received BY <3>2, <3>4
      <4>2. i \in guessed \/ Received[i] = Sector[i] BY <3>1, <4>1 DEF StoredOrGuessed
      <4> QED BY <1>3, <2>1, <3>4, <4>2
    <3>5. CASE i = k + 1
      <4>1. r.sectcurr = i /\ Received'[i] = data BY <2>1, <2>3, <3>1, <3>5
      <4>2. CASE r.missing \/ down = <<>> BY <1>3, <4>1, <4>2
      <4>3. CASE ~(r.missing \/ down = <<>>)
        <5>1. SubSeq(Append(r.record, Incoming), 1, SECSIZ) = Sector[r.sectcurr]
          BY <1>3, <4>3, GoodRecordIsSector
        <5> QED BY <4>1, <5>1 DEF data
      <4> QED BY <4>2, <4>3
    <3> HIDE DEF k
    <3> QED BY <2>2, <3>3, <3>4, <3>5
  <2>6. ASSUME Len(Received') < 256 PROVE StoredOrGuessed'
    <3>1. \A i \in DOMAIN Received' : i \in guessed' \/ Received'[i] = Sector[i] BY <2>5, <2>6
    <3> QED BY <3>1 DEF StoredOrGuessed, Sector, Sectors
  <2> QED BY <2>4, <2>6
<1> QED BY <1>2, <1>3, DataOutcomes

LEMMA StepSectors ==
  ASSUME IInv, Whole, Numbers, Len(Received) < 256 => StoredOrGuessed, [Next]_vars
  PROVE  Numbers' /\ (Len(Received) < 256 => StoredOrGuessed)'
<1>1. r \in ReceiveState /\ r.stored \in Seq(Block) /\ r.buffer \in Seq(Block)
  BY DEF IInv, TypeOK, ReceiveState
<1>2. CASE r' = r /\ guessed' = guessed
  <2>1. Received' = Received BY <1>2 DEF Received
  <2> QED BY <1>2, <2>1, NoneKept DEF Numbers
<1>3. CASE StartSending \/ Request \/ SectorSent \/ EotSent \/ UNCHANGED vars
  <2>1. r' = r /\ guessed' = guessed BY <1>3 DEF StartSending, Request, SectorSent, EotSent, vars
  <2> QED BY <1>2, <2>1
<1>4. CASE StartReceiving
  <2>1. r' = [r EXCEPT !.pc = "first"] /\ guessed' = guessed BY <1>4 DEF StartReceiving
  <2>2. r'.pc = "first" /\ r'.sectnum = r.sectnum /\ Received' = Received
    BY <1>1, <2>1 DEF ReceiveState, Received
  <2> QED BY <2>1, <2>2, NoneKept
<1>5. CASE First
  <2>1. r.pc = "first" /\ guessed' = guessed BY <1>5 DEF First, Reading
  <2>2. \/ r' = [r EXCEPT !.pc = "number"]
        \/ r' = [Save EXCEPT !.pc = "over"]
        \/ r' = [r EXCEPT !.pc = "error"]
        \/ r' = r
    BY <1>5 DEF First
  <2>3. r'.pc # "data" /\ r'.sectnum = r.sectnum
    BY <1>1, <2>1, <2>2 DEF ReceiveState, Save
  <2>4. Received' = Received
    <3>1. CASE r'.stored = r.stored /\ r'.buffer = r.buffer BY <3>1 DEF Received
    <3>2. CASE r' = [Save EXCEPT !.pc = "over"]
      <4>1. r'.stored = r.stored \o r.buffer /\ r'.buffer = <<>> BY <1>1, <3>2 DEF ReceiveState, Save
      <4>2. \A q \in Seq(Block) : q \o <<>> = q OBVIOUS
      <4>3. r.stored \o r.buffer \in Seq(Block) BY <1>1
      <4> QED BY <4>1, <4>2, <4>3 DEF Received
    <3> QED BY <1>1, <2>2, <3>1, <3>2 DEF ReceiveState
  <2> QED BY <2>1, <2>3, <2>4, NoneKept
<1>6. CASE Number
  <2>1. r' = [r EXCEPT !.pc = "complement", !.sectcurr = Incoming] /\ guessed' = guessed BY <1>6 DEF Number
  <2>2. r'.pc = "complement" /\ r'.sectnum = r.sectnum /\ Received' = Received
    BY <1>1, <2>1 DEF ReceiveState, Received
  <2> QED BY <2>1, <2>2, NoneKept
<1>7. CASE Complement
  <2>1. r' = [r EXCEPT !.pc = Numbered(Incoming), !.record = <<>>, !.missing = FALSE] /\ guessed' = guessed
    BY <1>7 DEF Complement
  <2>2. r'.pc = Numbered(Incoming) /\ r'.sectnum = r.sectnum /\ r'.sectcurr = r.sectcurr /\ Received' = Received
    BY <1>1, <2>1 DEF ReceiveState, Received
  <2>3. Numbered(Incoming) = "data" => r.sectcurr = (r.sectnum + 1) % 256 BY DEF Numbered
  <2> QED BY <2>1, <2>2, <2>3, NoneKept
<1>8. CASE Data BY <1>8, DataKeepsSectors
<1>9. CASE PurgeDuplicate \/ PurgeError
  <2>1. r' = r /\ guessed' = guessed BY <1>9, PurgeKeeps DEF PurgeDuplicate, PurgeError
  <2> QED BY <1>2, <2>1
<1> QED BY <1>3, <1>4, <1>5, <1>6, <1>7, <1>8, <1>9 DEF Next, Sending, Receiving

\* What rcvfile keeps is the file's sectors in order, but for those of which a byte was
\* missing, as long as the sector number has not wrapped (cmodem2.c:99-143): a sector
\* of which every byte came differs from one that was sent in one byte at most, and the
\* check finds that byte.  The model loses or changes at most one byte of a
\* transmission (Damaged): of two changes that compensate each other in a checksum
\* this says nothing.
THEOREM KeptSectors == ASSUME ModesAgree PROVE Spec => [](Len(Received) < 256 => StoredOrGuessed)
<1> DEFINE Inv == IInv /\ KeptInv
<1>1. Init => Inv
  <2> SUFFICES ASSUME Init PROVE KeptInv BY InitIInv
  <2>1. r.pc = "off" /\ r.stored = <<>> /\ r.buffer = <<>> /\ r.sectnum = 0 BY DEF Init
  <2>2. Received = <<>> /\ Len(Received) = 0 BY <2>1 DEF Received
  <2> QED BY <2>1, <2>2 DEF KeptInv, Whole, Numbers, StoredOrGuessed
<1>2. Inv /\ [Next]_vars => Inv'
  <2> SUFFICES ASSUME IInv, KeptInv, [Next]_vars PROVE IInv' /\ KeptInv' OBVIOUS
  <2>1. IInv' BY StepIInv
  <2>2. Whole' BY <2>1, StepWhole DEF KeptInv
  <2> QED BY <2>1, <2>2, StepSectors DEF KeptInv
<1>3. Inv => (Len(Received) < 256 => StoredOrGuessed)
  BY DEF KeptInv
<1> QED BY <1>1, <1>2, <1>3, PTL DEF Spec

(***************************************************************************)
(* How much it keeps.                                                      *)
(***************************************************************************)

\* A step that keeps no sector: what is on the line matters only without a fault to
\* spare.
LEMMA FaultsSpare ==
  ASSUME IInv, IInv', Bounded, Received' = Received,
         faults <= faults'
  PROVE  /\ Len(Received') <= Sectors + faults'
         /\ faults' # faults => Spare'
         /\ Spare => Spare'
<1> DEFINE n == Len(Received)
<1>1. n \in Nat /\ Sectors \in Nat /\ faults \in Nat /\ n <= Sectors + faults /\ faults' \in Nat /\ faults <= faults'
  BY ReceivedTyped, Constants DEF IInv, TypeOK, Bounded
<1>2. Len(Received') = n /\ Sectors' = Sectors
  BY DEF Sectors
<1>3. Spare <=> n < Sectors + faults
  BY DEF Spare
<1>4. Spare' <=> n < Sectors + faults'
  BY <1>2 DEF Spare
<1> HIDE DEF n
<1>5. \A i, j, m, k \in Nat : i <= m + j /\ j <= k => i <= m + k /\ (k # j => i < m + k) /\ (i < m + j => i < m + k)
  OBVIOUS
<1>6. n <= Sectors + faults' /\ (faults' # faults => n < Sectors + faults')
      /\ (n < Sectors + faults => n < Sectors + faults')
  BY <1>1, <1>5
<1> QED BY <1>2, <1>3, <1>4, <1>6

LEMMA SenderKeepsBounded ==
  ASSUME IInv, IInv', Bounded, Request \/ SectorSent \/ EotSent
  PROVE  Bounded'
<1>1. /\ r' = r /\ Answers # {}
      /\ \/ down' = down /\ faults' = faults
         \/ SendDown(<<EOT>>)
         \/ \E n \in 1 .. Sectors : SendDown(Frame[s'.crc_flag][n])
  BY SenderLine
<1>2. TypeOK /\ faults \in Nat /\ faults' \in Nat /\ s'.crc_flag \in BOOLEAN
  BY DEF IInv, TypeOK, SendState
<1>3. r.pc \in {"off", "first", "over"} \cup Purging /\ (r.pc \in {"off", "first"} => down = <<>>)
  BY <1>1, <1>2, SenderTurn DEF IInv
<1>4. ASSUME NEW bytes \in Seq(Bytes), bytes # <<>>, SendDown(bytes)
      PROVE  faults' >= faults /\ (down = <<>> /\ faults' = faults => down' = bytes)
  <2>1. faults' \in faults .. MaxFaults /\ (down = <<>> => (faults' = faults => down' = bytes))
    BY <1>2, <1>4, SentDown
  <2> QED BY <1>2, <2>1
<1>5. PICK bytes \in Clean : (down' = down /\ faults' = faults) \/ (bytes # <<>> /\ bytes \in Seq(Bytes) /\ SendDown(bytes))
  <2>1. CASE down' = down /\ faults' = faults
    <3>1. <<>> \in Clean BY DEF Clean
    <3> QED BY <2>1, <3>1
  <2>2. CASE SendDown(<<EOT>>)
    <3>1. <<EOT>> \in Seq(Bytes) /\ <<EOT>> # <<>> BY DEF EOT, Bytes
    <3>2. <<EOT>> \in Clean BY DEF Clean
    <3> QED BY <2>2, <3>1, <3>2
  <2>3. CASE \E n \in 1 .. Sectors : SendDown(Frame[s'.crc_flag][n])
    <3>1. PICK n \in 1 .. Sectors : SendDown(Frame[s'.crc_flag][n]) BY <2>3
    <3>2. Frame[s'.crc_flag][n] \in Seq(Bytes) /\ Len(Frame[s'.crc_flag][n]) = 3 + SECSIZ + CheckLen(s'.crc_flag)
      BY <1>2, FrameTyped
    <3>3. Frame[s'.crc_flag][n] # <<>>
      <4>1. 3 + SECSIZ + CheckLen(s'.crc_flag) # 0 BY Constants DEF CheckLen
      <4> QED BY <3>2, <4>1
    <3>4. Frame[s'.crc_flag][n] \in Clean BY <1>2 DEF Clean
    <3> QED BY <3>1, <3>2, <3>3, <3>4
  <2> QED BY <1>1, <2>1, <2>2, <2>3
<1>6. faults' >= faults /\ (down = <<>> /\ faults' = faults => down' \in Clean)
  <2>1. <<>> \in Clean BY DEF Clean
  <2> QED BY <1>2, <1>4, <1>5, <2>1
<1>7. Received' = Received
  BY <1>1 DEF Received
<1>8. Len(Received') <= Sectors + faults' /\ (faults' # faults => Spare')
  BY <1>2, <1>6, <1>7, FaultsSpare
<1>9. Clean' = Clean
  <2>1. Sectors' = Sectors /\ Frame' = Frame BY DEF Frame, Sectors, Sector, Record
  <2> QED BY <2>1 DEF Clean
<1>10. r'.pc = "first" => Spare' \/ down' \in Clean
  BY <1>1, <1>3, <1>6, <1>8
<1>11. r'.pc \notin {"number", "complement", "data"}
  BY <1>1, <1>3 DEF Purging
<1> QED BY <1>8, <1>9, <1>10, <1>11 DEF Bounded, Sectors

\* A first byte that is SOH is that of a sector, without a fault to spare.
LEMMA CleanHead ==
  ASSUME IInv, down \in Clean, Incoming = SOH
  PROVE  Rest(down) # <<>> /\ Head(Rest(down)) \in 1 .. Sectors
<1>1. down # <<>> /\ Incoming = down[1]
  BY IncomingTyped DEF IInv, SOH
<1>2. down # <<EOT>>
  BY <1>1 DEF SOH, EOT
<1>3. PICK crc_flag \in BOOLEAN, n \in 1 .. Sectors : down = Frame[crc_flag][n]
  BY <1>1, <1>2 DEF Clean
<1>4. down \in Seq(Bytes) /\ Len(down) = 3 + SECSIZ + CheckLen(crc_flag) /\ down[2] = n
  BY <1>3, FrameTyped
<1>5. Len(down) \in Nat /\ Len(down) >= 5
  BY <1>4, Constants DEF CheckLen
<1>6. /\ Rest(down) \in Seq(Bytes) /\ Len(Rest(down)) = Len(down) - 1
      /\ \A i \in DOMAIN Rest(down) : Rest(down)[i] = down[i + 1]
  BY <1>1, <1>4, RestTyped
<1>7. Rest(down) # <<>> /\ 1 \in DOMAIN Rest(down)
  BY <1>5, <1>6
<1>8. Head(Rest(down)) = down[2]
  <2> DEFINE rest == Rest(down)
  <2>1. rest \in Seq(Bytes) /\ rest # <<>> /\ rest[1] = down[1 + 1] BY <1>6, <1>7
  <2> HIDE DEF rest
  <2>2. Head(rest) = rest[1] BY <2>1
  <2> QED BY <2>1, <2>2 DEF rest
<1> QED BY <1>4, <1>7, <1>8

\* A step of the receiver that keeps no sector.
LEMMA ReceiverBounded ==
  ASSUME IInv, IInv', Bounded, Received' = Received, faults <= faults',
         r'.pc = "first" => Spare \/ down' \in Clean,
         r'.pc = "number" => Spare \/ (down' # <<>> /\ Head(down') \in 1 .. Sectors),
         r'.pc \in {"complement", "data"} => Spare \/ r'.sectcurr \in 1 .. Sectors
  PROVE  Bounded'
<1>1. Len(Received') <= Sectors + faults' /\ (Spare => Spare')
  BY FaultsSpare
<1>2. Sectors' = Sectors /\ Clean' = Clean
  <2>1. Sectors' = Sectors /\ Frame' = Frame BY DEF Frame, Sectors, Sector, Record
  <2> QED BY <2>1 DEF Clean
<1> QED BY <1>1, <1>2 DEF Bounded

LEMMA DataKeepsBounded ==
  ASSUME IInv, IInv', Numbers, Bounded, Sectors + MaxFaults < 256, Data
  PROVE  Bounded'
<1>1. r \in ReceiveState /\ r.pc = "data" /\ r.sectcurr = (r.sectnum + 1) % 256
  BY DEF IInv, TypeOK, Data, Reading, Numbers
<1>2. Spare \/ r.sectcurr \in 1 .. Sectors
  BY <1>1 DEF Bounded
<1>3. faults \in 0 .. MaxFaults /\ faults' \in 0 .. MaxFaults /\ faults <= faults'
  <2>1. faults \in 0 .. MaxFaults /\ faults' \in 0 .. MaxFaults BY DEF IInv, TypeOK
  <2>2. faults' = faults \/ SendUp(ACK) BY DEF Data, Hold
  <2>3. ASSUME SendUp(ACK) PROVE faults' \in faults .. MaxFaults
    <3>1. ACK \in Bytes BY DEF ACK, Bytes
    <3> QED BY <2>3, <3>1, SentUp DEF IInv
  <2> QED BY <2>1, <2>2, <2>3, Constants
<1>4. CASE /\ Received' = Received /\ r'.sectnum = r.sectnum /\ guessed' = guessed
           /\ r'.sectcurr = r.sectcurr /\ r'.pc \in {"data", "error"}
  BY <1>2, <1>3, <1>4, ReceiverBounded
<1>5. CASE /\ r' = Stored(SubSeq(Append(r.record, Incoming), 1, SECSIZ))
           /\ ~(Len(Append(r.record, Incoming)) < SECSIZ + CheckLen(r.crc_flag))
  <2>1. r'.pc = "first" /\ Len(Received') = Len(Received) + 1 BY <1>5, SectorKept
  <2> DEFINE k == Len(Received)
  <2>2. k \in Nat /\ k <= Sectors + faults /\ (Spare => k < Sectors + faults)
    BY <1>1, ReceivedTyped DEF Bounded, Spare
  <2>3. k < 256 => r.sectnum = k BY DEF Numbers
  <2>4. Sectors \in Nat /\ MaxFaults \in Nat BY Constants
  <2>5. Len(Received') = k + 1 BY <2>1
  <2> HIDE DEF k
  <2>6. k < 256
    <3>1. \A a, b, c, d \in Nat : a <= b + c /\ c <= d /\ b + d < 256 => a < 256 OBVIOUS
    <3>2. faults \in Nat /\ faults <= MaxFaults BY <1>3
    <3> QED BY <2>2, <2>4, <3>1, <3>2
  <2>7. k + 1 <= Sectors + faults
    <3>1. CASE Spare BY <1>3, <2>2, <2>4, <3>1
    <3>2. CASE r.sectcurr \in 1 .. Sectors
      <4>1. r.sectcurr = (k + 1) % 256 BY <1>1, <2>3, <2>6
      <4>2. \A a \in Nat : a < 256 /\ (a + 1) % 256 # 0 => (a + 1) % 256 = a + 1 OBVIOUS
      <4>3. r.sectcurr = k + 1 BY <2>2, <2>6, <3>2, <4>1, <4>2
      <4>4. \A a, b, c \in Nat : a \in 1 .. b => a <= b + c OBVIOUS
      <4>5. faults \in Nat BY <1>3
      <4> QED BY <2>2, <2>4, <3>2, <4>3, <4>4, <4>5
    <3> QED BY <1>2, <3>1, <3>2
  <2>8. k + 1 <= Sectors + faults'
    <3>1. \A a, b, c, d \in Nat : a <= b + c /\ c <= d => a <= b + d OBVIOUS
    <3>2. faults \in Nat /\ faults' \in Nat /\ k + 1 \in Nat BY <1>3, <2>2
    <3> QED BY <1>3, <2>4, <2>7, <3>1, <3>2
  <2>9. down' = <<>>
    <3>1. r.record \in Seq(Bytes) /\ down \in Seq(Bytes) BY <1>1 DEF IInv, TypeOK, ReceiveState
    <3>2. Incoming \in Bytes BY IncomingTyped DEF IInv
    <3>3. down' = Rest(down) BY DEF Data, Reading
    <3>4. CASE down = <<>> BY <3>1, <3>3, <3>4, RestTyped
    <3>5. CASE down # <<>>
      <4> DEFINE left == Len(down)  m == Len(r.record)  n == CheckLen(r.crc_flag)
      <4>1. FrameLen = 3 + SECSIZ + n /\ SECSIZ \in Nat /\ n \in Nat BY Constants DEF FrameLen, CheckLen
      <4>2. Len(Append(r.record, Incoming)) = m + 1 BY <3>1, <3>2
      <4>3. left + 3 + m <= FrameLen BY <1>1, <3>5 DEF IInv, Lengths
      <4>4. m + 1 >= SECSIZ + n BY <1>5, <3>1, <4>1, <4>2
      <4>5. left \in Nat /\ left # 0 /\ m \in Nat BY <3>1, <3>5
      <4> HIDE DEF left, m, n
      <4>6. left = 1 BY <4>1, <4>3, <4>4, <4>5
      <4> QED BY <3>1, <3>3, <3>5, <4>6, RestTyped DEF left
    <3> QED BY <3>4, <3>5
  <2>10. Sectors' = Sectors /\ <<>> \in Clean' BY DEF Sectors, Clean
  <2> QED BY <2>1, <2>5, <2>8, <2>9, <2>10 DEF Bounded
<1> QED BY <1>4, <1>5, DataOutcomes

LEMMA StepBounded ==
  ASSUME IInv, IInv', Numbers, Bounded, Sectors + MaxFaults < 256, [Next]_vars
  PROVE  Bounded'
<1>1. /\ r \in ReceiveState /\ r.stored \in Seq(Block) /\ r.buffer \in Seq(Block)
      /\ TypeOK /\ down \in Seq(Bytes) /\ faults \in Nat
  BY DEF IInv, TypeOK, ReceiveState
<1>2. ASSUME NEW byte \in Bytes, SendUp(byte) \/ Hold PROVE faults <= faults'
  <2>1. CASE Hold BY <1>1, <2>1 DEF Hold
  <2>2. CASE SendUp(byte)
    <3>1. faults' \in faults .. MaxFaults BY <1>1, <2>2, SentUp
    <3> QED BY <1>1, <3>1, Constants
  <2> QED BY <1>2, <2>1, <2>2
<1>3. ACK \in Bytes /\ NAK \in Bytes /\ RequestByte \in Bytes
  BY DEF ACK, NAK, CRC, RequestByte, Bytes
<1>4. CASE StartSending
  <2>1. r' = r /\ down' = down /\ faults' = faults BY <1>4 DEF StartSending
  <2>2. Received' = Received /\ faults <= faults' BY <1>1, <2>1 DEF Received
  <2> QED BY <2>1, <2>2, ReceiverBounded DEF Bounded
<1>5. CASE Request \/ SectorSent \/ EotSent BY <1>5, SenderKeepsBounded
<1>6. CASE StartReceiving
  <2>1. r' = [r EXCEPT !.pc = "first"] /\ down' = <<>> /\ SendUp(RequestByte) BY <1>6 DEF StartReceiving
  <2>2. r'.pc = "first" /\ Received' = Received /\ <<>> \in Clean
    BY <1>1, <2>1 DEF ReceiveState, Received, Clean
  <2>3. faults <= faults' BY <1>2, <1>3, <2>1
  <2> QED BY <2>1, <2>2, <2>3, ReceiverBounded
<1>7. CASE First
  <2>1. r.pc = "first" /\ down' = Rest(down) /\ (Spare \/ down \in Clean)
    BY <1>7 DEF First, Reading, Bounded
  <2>2. CASE Incoming = SOH /\ r' = [r EXCEPT !.pc = "number"] /\ Hold
    <3>1. r'.pc = "number" /\ Received' = Received BY <1>1, <2>2 DEF ReceiveState, Received
    <3>2. Spare \/ (down' # <<>> /\ Head(down') \in 1 .. Sectors) BY <2>1, <2>2, CleanHead
    <3>3. faults <= faults' BY <1>2, <1>3, <2>2
    <3> QED BY <3>1, <3>2, <3>3, ReceiverBounded
  <2>3. CASE r' = [Save EXCEPT !.pc = "over"] /\ SendUp(ACK)
    <3>1. r'.stored = r.stored \o r.buffer /\ r'.buffer = <<>> /\ r'.pc = "over"
      BY <1>1, <2>3 DEF ReceiveState, Save
    <3>2. Received' = Received
      <4>1. \A q \in Seq(Block) : q \o <<>> = q OBVIOUS
      <4>2. r.stored \o r.buffer \in Seq(Block) BY <1>1
      <4> QED BY <3>1, <4>1, <4>2 DEF Received
    <3>3. faults <= faults' BY <1>2, <1>3, <2>3
    <3> QED BY <3>1, <3>2, <3>3, ReceiverBounded
  <2>4. CASE Incoming # SOH /\ Incoming # EOT /\ r' = r /\ Hold
    <3>1. Received' = Received BY <2>4 DEF Received
    <3>2. faults <= faults' BY <1>2, <1>3, <2>4
    <3>3. Spare \/ down' \in Clean
      <4>1. CASE down = <<>>
        <5>1. down' = <<>> BY <1>1, <2>1, <4>1, RestTyped
        <5> QED BY <5>1 DEF Clean
      <4>2. CASE down # <<>> /\ ~ Spare
        <5>1. Incoming = down[1] BY <1>1, <4>2, IncomingTyped
        <5>2. down # <<EOT>> BY <2>4, <5>1
        <5>3. PICK crc_flag \in BOOLEAN, n \in 1 .. Sectors : down = Frame[crc_flag][n]
          BY <2>1, <4>2, <5>2 DEF Clean
        <5>4. down[1] = SOH BY <5>3, FrameTyped
        <5> QED BY <2>4, <5>1, <5>4
      <4> QED BY <4>1, <4>2
    <3> QED BY <2>1, <2>4, <3>1, <3>2, <3>3, ReceiverBounded
  <2>5. Incoming # TIMEOUT BY <1>1, IncomingTyped
  <2>6. SOH # EOT /\ SOH # TIMEOUT /\ EOT # TIMEOUT BY DEF SOH, EOT, TIMEOUT
  <2> QED BY <1>7, <2>2, <2>3, <2>4, <2>5, <2>6 DEF First
<1>8. CASE Number
  <2>1. /\ r.pc = "number" /\ Hold
        /\ r' = [r EXCEPT !.pc = "complement", !.sectcurr = Incoming]
    BY <1>8 DEF Number, Reading
  <2>2. r'.pc = "complement" /\ r'.sectcurr = Incoming /\ Received' = Received
    BY <1>1, <2>1 DEF ReceiveState, Received
  <2>3. Spare \/ Incoming \in 1 .. Sectors BY <2>1 DEF Bounded, Incoming
  <2>4. faults <= faults' BY <1>2, <1>3, <2>1
  <2> QED BY <2>2, <2>3, <2>4, ReceiverBounded
<1>9. CASE Complement
  <2>1. /\ r.pc = "complement" /\ Hold
        /\ r' = [r EXCEPT !.pc = Numbered(Incoming), !.record = <<>>, !.missing = FALSE]
    BY <1>9 DEF Complement, Reading
  <2>2. r'.pc = Numbered(Incoming) /\ r'.sectcurr = r.sectcurr /\ Received' = Received
    BY <1>1, <2>1 DEF ReceiveState, Received
  <2>3. r'.pc \in {"data", "error", "duplicate"} BY <2>2 DEF Numbered
  <2>4. faults <= faults' BY <1>2, <1>3, <2>1
  <2> QED BY <2>1, <2>2, <2>3, <2>4, ReceiverBounded DEF Bounded
<1>10. CASE Data BY <1>10, DataKeepsBounded
<1>11. CASE PurgeDuplicate \/ PurgeError
  <2>1. r' = r BY <1>11, PurgeKeeps
  <2>2. r.pc \in Purging BY <1>11 DEF PurgeDuplicate, PurgeError, Reading, Purging
  <2>3. Received' = Received BY <2>1 DEF Received
  <2>4. faults <= faults'
    <3>1. Hold \/ SendUp(ACK) \/ SendUp(RequestByte) BY <1>11 DEF PurgeDuplicate, PurgeError
    <3> QED BY <1>2, <1>3, <3>1
  <2> QED BY <2>1, <2>2, <2>3, <2>4, ReceiverBounded DEF Purging
<1>12. CASE UNCHANGED vars
  <2>1. r' = r /\ down' = down /\ faults' = faults BY <1>12 DEF vars
  <2>2. Received' = Received /\ faults <= faults' BY <1>1, <2>1 DEF Received
  <2> QED BY <2>1, <2>2, ReceiverBounded DEF Bounded
<1> QED BY <1>4, <1>5, <1>6, <1>7, <1>8, <1>9, <1>10, <1>11, <1>12 DEF Next, Sending, Receiving

\* What rcvfile keeps is the file's sectors, but for those of which a byte was missing
\* (cmodem2.c:99-143 and 236-297), when the sectors of the file and the bytes the lines
\* spoil are together fewer than the numbers of sectors: a sector is kept under its own
\* number only, so that every one beyond the file's own took a fault, and the number
\* cannot have wrapped.  As in KeptSectors, no transmission has more than one byte
\* lost or changed.
THEOREM SectorsStored ==
  ASSUME ModesAgree, Sectors + MaxFaults < 256
  PROVE  Spec => []StoredOrGuessed
<1> DEFINE Inv == IInv /\ KeptInv /\ Bounded
<1>1. Init => Inv
  <2> SUFFICES ASSUME Init PROVE KeptInv /\ Bounded BY InitIInv
  <2>1. r.pc = "off" /\ r.stored = <<>> /\ r.buffer = <<>> /\ r.sectnum = 0 /\ faults = 0 BY DEF Init
  <2>2. Received = <<>> /\ Len(Received) = 0 BY <2>1 DEF Received
  <2>3. KeptInv BY <2>1, <2>2 DEF KeptInv, Whole, Numbers, StoredOrGuessed
  <2>4. Len(Received) <= Sectors + faults BY <2>1, <2>2, Constants
  <2> QED BY <2>1, <2>3, <2>4 DEF Bounded
<1>2. Inv /\ [Next]_vars => Inv'
  <2> SUFFICES ASSUME IInv, KeptInv, Bounded, [Next]_vars PROVE IInv' /\ KeptInv' /\ Bounded' OBVIOUS
  <2>1. IInv' BY StepIInv
  <2>2. Whole' BY <2>1, StepWhole DEF KeptInv
  <2>3. KeptInv' BY <2>2, StepSectors DEF KeptInv
  <2>4. Bounded' BY <2>1, StepBounded DEF KeptInv
  <2> QED BY <2>1, <2>3, <2>4
<1>3. Inv => StoredOrGuessed
  <2> SUFFICES ASSUME IInv, KeptInv, Bounded PROVE Len(Received) < 256 BY DEF KeptInv
  <2>1. Len(Received) \in Nat BY ReceivedTyped DEF IInv, TypeOK
  <2>2. Len(Received) <= Sectors + faults /\ faults \in 0 .. MaxFaults BY DEF Bounded, IInv, TypeOK
  <2>3. \A a, b, c, d \in Nat : a <= b + c /\ c <= d /\ b + d < 256 => a < 256 OBVIOUS
  <2>4. faults \in Nat /\ faults <= MaxFaults BY <2>2
  <2> QED BY <2>1, <2>2, <2>3, <2>4, Constants
<1> QED BY <1>1, <1>2, <1>3, PTL DEF Spec

(***************************************************************************)
(* Types, and the end of a transfer with an error, whatever the noise.     *)
(***************************************************************************)
LEMMA SenderTyped ==
  ASSUME TypeOK, s' \in SendState, r' = r, guessed' = guessed, up' \in {<<>>, Rest(up)},
         \/ down' = down /\ faults' = faults
         \/ SendDown(<<EOT>>)
         \/ \E crc_flag \in BOOLEAN, n \in 1 .. Sectors : SendDown(Frame[crc_flag][n])
  PROVE  TypeOK'
<1>1. /\ r \in ReceiveState /\ Len(r.record) < SECSIZ + CheckLen(r.crc_flag) /\ Len(r.buffer) < NSECTS
      /\ down \in Seq(Bytes) /\ up \in Seq(Bytes) /\ faults \in 0 .. MaxFaults /\ guessed \subseteq Bytes
      /\ MaxFaults \in Nat
  BY Constants DEF TypeOK
<1>2. down' \in Seq(Bytes) /\ faults' \in 0 .. MaxFaults
  <2>1. ASSUME NEW bytes \in Seq(Bytes), bytes # <<>>, SendDown(bytes)
        PROVE  down' \in Seq(Bytes) /\ faults' \in 0 .. MaxFaults
    <3>1. down' \in Seq(Bytes) /\ faults' \in faults .. MaxFaults BY <2>1, SentDown
    <3> QED BY <1>1, <3>1
  <2>2. CASE down' = down /\ faults' = faults BY <1>1, <2>2
  <2>3. CASE SendDown(<<EOT>>)
    <3>1. <<EOT>> \in Seq(Bytes) /\ <<EOT>> # <<>> BY DEF EOT, Bytes
    <3> QED BY <2>1, <2>3, <3>1
  <2>4. CASE \E crc_flag \in BOOLEAN, n \in 1 .. Sectors : SendDown(Frame[crc_flag][n])
    <3>1. PICK crc_flag \in BOOLEAN, n \in 1 .. Sectors : SendDown(Frame[crc_flag][n]) BY <2>4
    <3>2. Frame[crc_flag][n] \in Seq(Bytes) /\ Len(Frame[crc_flag][n]) = 3 + SECSIZ + CheckLen(crc_flag)
      BY FrameTyped
    <3>3. Frame[crc_flag][n] # <<>>
      <4>1. 3 + SECSIZ + CheckLen(crc_flag) # 0 BY Constants DEF CheckLen
      <4> QED BY <3>2, <4>1
    <3> QED BY <2>1, <3>1, <3>2, <3>3
  <2> QED BY <2>2, <2>3, <2>4
<1>3. up' \in Seq(Bytes)
  <2>1. Rest(up) \in Seq(Bytes) BY <1>1, RestTyped
  <2>2. <<>> \in Seq(Bytes) OBVIOUS
  <2> QED BY <2>1, <2>2
<1>4. Len(r'.record) < SECSIZ + CheckLen(r'.crc_flag) /\ Len(r'.buffer) < NSECTS /\ guessed' \subseteq Bytes
      /\ r' \in ReceiveState
  BY <1>1
<1>5. s' \in SendState OBVIOUS
<1>6. ReceiveState' = ReceiveState /\ SendState' = SendState
  BY DEF ReceiveState, SendState, Block, Sectors
<1> QED BY <1>2, <1>3, <1>4, <1>5, <1>6 DEF TypeOK

LEMMA ProceedTyped ==
  ASSUME TypeOK, NEW crc_flag \in BOOLEAN, NEW n \in 1 .. Sectors + 1, Proceed(crc_flag, n)
  PROVE  /\ s' \in SendState /\ Tries'
         /\ \/ SendDown(<<EOT>>)
            \/ \E flag \in BOOLEAN, m \in 1 .. Sectors : SendDown(Frame[flag][m])
<1>1. s' = [pc |-> IF n <= Sectors THEN "sector" ELSE "eot", crc_flag |-> crc_flag,
            sectnum |-> n, attempts |-> 1]
  BY DEF Proceed
<1>2. 1 \in 0 .. RETRYMAX + REQUESTMAX /\ 1 <= RETRYMAX
  BY Constants
<1>3. Sectors \in Nat
  BY Constants
<1>4. s' \in SendState
  BY <1>1, <1>2 DEF SendState
<1>5. ~(n <= Sectors) => n = Sectors + 1
  BY <1>3
<1>6. Tries'
  BY <1>1, <1>2, <1>5 DEF Tries, Sectors
<1>7. CASE n <= Sectors
  <2>1. n \in 1 .. Sectors /\ SendDown(Frame[crc_flag][n]) BY <1>7 DEF Proceed
  <2> QED BY <1>4, <1>6, <2>1
<1>8. CASE ~(n <= Sectors)
  <2>1. SendDown(<<EOT>>) BY <1>8 DEF Proceed
  <2> QED BY <1>4, <1>6, <2>1
<1> QED BY <1>7, <1>8

LEMMA SendingTyped ==
  ASSUME TypeOK, Tries, Sending
  PROVE  TypeOK' /\ Tries'
<1>1. /\ s \in SendState /\ s.crc_flag \in BOOLEAN /\ s.sectnum \in 1 .. Sectors + 1
      /\ s.attempts \in 0 .. RETRYMAX + REQUESTMAX
      /\ Sectors \in Nat /\ RETRYMAX \in Nat \ {0} /\ REQUESTMAX \in Nat \ {0}
  BY Constants DEF TypeOK, SendState
<1>2. CASE StartSending
  <2>1. s' = [s EXCEPT !.pc = "request"] /\ r' = r /\ guessed' = guessed /\ up' = <<>>
        /\ down' = down /\ faults' = faults /\ s.pc = "off"
    BY <1>2 DEF StartSending
  <2>2. s' \in SendState /\ s'.pc = "request" /\ s'.attempts = s.attempts BY <1>1, <2>1 DEF SendState
  <2>3. Tries' BY <1>1, <2>1, <2>2 DEF Tries
  <2> QED BY <2>1, <2>2, <2>3, SenderTyped
<1>3. CASE Request
  <2>1. s.pc = "request" /\ r' = r /\ guessed' = guessed /\ up' = Rest(up) BY <1>3 DEF Request
  <2>2. CASE \E crc_flag \in BOOLEAN : Proceed(crc_flag, 1)
    <3>1. PICK crc_flag \in BOOLEAN : Proceed(crc_flag, 1) BY <2>2
    <3>2. 1 \in 1 .. Sectors + 1 BY <1>1
    <3> QED BY <2>1, <3>1, <3>2, ProceedTyped, SenderTyped
  <2>3. CASE /\ s' = [s EXCEPT !.attempts = @ + 1,
                               !.pc = IF s.attempts + 1 = REQUESTMAX THEN "aborted" ELSE @]
             /\ UNCHANGED <<down, faults>>
    <3>1. s.attempts < REQUESTMAX BY <2>1 DEF Tries
    <3>2. s.attempts + 1 \in 0 .. RETRYMAX + REQUESTMAX BY <1>1, <3>1
    <3>3. s' \in SendState /\ s'.attempts = s.attempts + 1
          /\ s'.pc = IF s.attempts + 1 = REQUESTMAX THEN "aborted" ELSE "request"
      BY <1>1, <2>1, <2>3, <3>2 DEF SendState
    <3>4. s.attempts + 1 # REQUESTMAX => s.attempts + 1 < REQUESTMAX BY <1>1, <3>1
    <3>5. Tries' BY <3>3, <3>4 DEF Tries
    <3> QED BY <2>1, <2>3, <3>3, <3>5, SenderTyped
  <2> QED BY <1>3, <2>2, <2>3 DEF Request
<1>4. ASSUME NEW pc \in {"aborted", "done"}, Stop(pc), s.pc \in {"sector", "eot"}, pc = "done" => s.pc = "eot"
      PROVE  s' \in SendState /\ Tries' /\ down' = down /\ faults' = faults
  <2>1. s' = [s EXCEPT !.pc = pc] /\ down' = down /\ faults' = faults BY <1>4 DEF Stop
  <2>2. s' \in SendState /\ s'.pc = pc /\ s'.sectnum = s.sectnum BY <1>1, <2>1 DEF SendState
  <2>3. Tries' BY <1>4, <2>2 DEF Tries, Sectors
  <2> QED BY <2>1, <2>2, <2>3
<1>5. ASSUME s' = Again, s.attempts # RETRYMAX, s.pc \in {"sector", "eot"}
      PROVE  s' \in SendState /\ Tries'
  <2>1. s.attempts <= RETRYMAX BY <1>5 DEF Tries
  <2>2. s.attempts + 1 \in 0 .. RETRYMAX + REQUESTMAX /\ s.attempts + 1 <= RETRYMAX BY <1>1, <1>5, <2>1
  <2>3. s' \in SendState /\ s'.attempts = s.attempts + 1 /\ s'.pc = s.pc /\ s'.sectnum = s.sectnum
    BY <1>1, <1>5, <2>2 DEF SendState, Again
  <2>4. Tries' BY <1>5, <2>2, <2>3 DEF Tries, Sectors
  <2> QED BY <2>3, <2>4
<1>6. CASE SectorSent
  <2>1. s.pc = "sector" /\ r' = r /\ guessed' = guessed /\ up' = Rest(up) /\ s.sectnum <= Sectors
    BY <1>6 DEF SectorSent, Tries
  <2>2. CASE Stop("aborted") BY <1>4, <2>1, <2>2, SenderTyped
  <2>3. CASE Proceed(s.crc_flag, s.sectnum + 1)
    <3>1. s.sectnum + 1 \in 1 .. Sectors + 1 BY <1>1, <2>1
    <3> QED BY <1>1, <2>1, <2>3, <3>1, ProceedTyped, SenderTyped
  <2>4. CASE s.attempts # RETRYMAX /\ s' = Again /\ SendDown(Frame[s.crc_flag][s.sectnum])
    <3>1. s.sectnum \in 1 .. Sectors BY <1>1, <2>1
    <3> QED BY <1>1, <1>5, <2>1, <2>4, <3>1, SenderTyped
  <2> QED BY <1>6, <2>2, <2>3, <2>4 DEF SectorSent
<1>7. CASE EotSent
  <2>1. s.pc = "eot" /\ r' = r /\ guessed' = guessed /\ up' = Rest(up) BY <1>7 DEF EotSent
  <2>2. CASE Stop("aborted") BY <1>4, <2>1, <2>2, SenderTyped
  <2>3. CASE Stop("done") BY <1>4, <2>1, <2>3, SenderTyped
  <2>4. CASE s.attempts # RETRYMAX /\ s' = Again /\ SendDown(<<EOT>>) BY <1>5, <2>1, <2>4, SenderTyped
  <2> QED BY <1>7, <2>2, <2>3, <2>4 DEF EotSent
<1> QED BY <1>2, <1>3, <1>6, <1>7 DEF Sending

LEMMA ReceiverTyped ==
  ASSUME TypeOK, s' = s, r' \in ReceiveState, Len(r'.record) < SECSIZ + CheckLen(r'.crc_flag),
         Len(r'.buffer) < NSECTS, guessed' \subseteq Bytes, down' \in {<<>>, Rest(down)},
         Hold \/ \E byte \in Bytes : SendUp(byte)
  PROVE  TypeOK'
<1>1. s \in SendState /\ down \in Seq(Bytes) /\ up \in Seq(Bytes) /\ faults \in 0 .. MaxFaults /\ MaxFaults \in Nat
  BY Constants DEF TypeOK
<1>2. up' \in Seq(Bytes) /\ faults' \in 0 .. MaxFaults
  <2>1. CASE Hold BY <1>1, <2>1 DEF Hold
  <2>2. CASE \E byte \in Bytes : SendUp(byte)
    <3>1. up' \in Seq(Bytes) /\ faults' \in faults .. MaxFaults BY <2>2, SentUp
    <3> QED BY <1>1, <3>1
  <2> QED BY <2>1, <2>2
<1>3. down' \in Seq(Bytes)
  <2>1. Rest(down) \in Seq(Bytes) BY <1>1, RestTyped
  <2>2. <<>> \in Seq(Bytes) OBVIOUS
  <2> QED BY <2>1, <2>2
<1>4. r' \in ReceiveState /\ Len(r'.record) < SECSIZ + CheckLen(r'.crc_flag) /\ Len(r'.buffer) < NSECTS
      /\ guessed' \subseteq Bytes /\ s' \in SendState
  BY <1>1
<1>5. ReceiveState' = ReceiveState /\ SendState' = SendState
  BY DEF ReceiveState, SendState, Block, Sectors
<1> QED BY <1>2, <1>3, <1>4, <1>5 DEF TypeOK

\* A step of the receiver while it purges the line changes nothing but the line.
LEMMA PurgingHolds ==
  ASSUME TypeOK, PurgeDuplicate \/ PurgeError
  PROVE  r' = r /\ up' = up /\ Hold
<1>1. Incoming # TIMEOUT
  BY IncomingTyped
<1> QED BY <1>1 DEF PurgeDuplicate, PurgeError, Hold

LEMMA ReceivingTyped ==
  ASSUME TypeOK, Receiving
  PROVE  TypeOK' /\ s' = s
<1>1. /\ r \in ReceiveState /\ Len(r.record) < SECSIZ + CheckLen(r.crc_flag) /\ Len(r.buffer) < NSECTS
      /\ r.record \in Seq(Bytes) /\ r.stored \in Seq(Block) /\ r.buffer \in Seq(Block)
      /\ r.crc_flag \in BOOLEAN /\ r.sectcurr \in Bytes
      /\ guessed \subseteq Bytes
      /\ SECSIZ \in Nat \ {0} /\ NSECTS \in Nat \ {0} /\ 0 < SECSIZ + CheckLen(r.crc_flag)
  BY Constants DEF TypeOK, ReceiveState, CheckLen
<1>2. s' = s
  BY DEF Receiving, StartReceiving, First, Number, Complement, Data, PurgeDuplicate, PurgeError, Reading
<1>3. ACK \in Bytes /\ RequestByte \in Bytes /\ Incoming \in Bytes /\ Incoming # TIMEOUT
  BY IncomingTyped DEF ACK, NAK, CRC, RequestByte, Bytes
<1>4. ASSUME NEW pc \in {"first", "number", "error"}, r' = [r EXCEPT !.pc = pc]
      PROVE  r' \in ReceiveState /\ r'.record = r.record /\ r'.buffer = r.buffer /\ r'.crc_flag = r.crc_flag
  BY <1>1, <1>4 DEF ReceiveState, Purging
<1>5. CASE StartReceiving
  <2>1. r' = [r EXCEPT !.pc = "first"] /\ down' = <<>> /\ SendUp(RequestByte) /\ guessed' = guessed
    BY <1>5 DEF StartReceiving
  <2> QED BY <1>1, <1>2, <1>3, <1>4, <2>1, ReceiverTyped
<1>6. CASE First
  <2>1. down' = Rest(down) /\ guessed' = guessed BY <1>6 DEF First, Reading
  <2>2. CASE r' = [r EXCEPT !.pc = "number"] /\ Hold BY <1>1, <1>2, <1>4, <2>1, <2>2, ReceiverTyped
  <2>3. CASE r' = [Save EXCEPT !.pc = "over"] /\ SendUp(ACK)
    <3>1. r.stored \o r.buffer \in Seq(Block) /\ <<>> \in Seq(Block) BY <1>1
    <3>2. r' \in ReceiveState /\ r'.record = r.record /\ r'.buffer = <<>> /\ r'.crc_flag = r.crc_flag
      BY <1>1, <2>3, <3>1 DEF ReceiveState, Save
    <3>3. Len(r'.buffer) < NSECTS
      <4>1. Len(r'.buffer) = 0 BY <3>2
      <4> QED BY <1>1, <4>1
    <3> QED BY <1>1, <1>2, <1>3, <2>1, <2>3, <3>2, <3>3, ReceiverTyped
  <2>4. CASE r' = r /\ Hold BY <1>1, <1>2, <2>1, <2>4, ReceiverTyped
  <2> QED BY <1>3, <1>6, <2>2, <2>3, <2>4 DEF First, SOH, EOT, TIMEOUT
<1>7. CASE Number
  <2>1. r' = [r EXCEPT !.pc = "complement", !.sectcurr = Incoming] /\ down' = Rest(down) /\ guessed' = guessed /\ Hold
    BY <1>7 DEF Number, Reading
  <2>2. r' \in ReceiveState /\ r'.record = r.record /\ r'.buffer = r.buffer /\ r'.crc_flag = r.crc_flag
    BY <1>1, <1>3, <2>1 DEF ReceiveState
  <2> QED BY <1>1, <1>2, <2>1, <2>2, ReceiverTyped
<1>8. CASE Complement
  <2>1. /\ r' = [r EXCEPT !.pc = Numbered(Incoming), !.record = <<>>, !.missing = FALSE]
        /\ down' = Rest(down) /\ guessed' = guessed /\ Hold
    BY <1>8 DEF Complement, Reading
  <2>2. Numbered(Incoming) \in {"data", "error", "duplicate"} BY DEF Numbered
  <2>3. <<>> \in Seq(Bytes) OBVIOUS
  <2>4. r' \in ReceiveState /\ r'.record = <<>> /\ r'.buffer = r.buffer /\ r'.crc_flag = r.crc_flag
    BY <1>1, <2>1, <2>2, <2>3 DEF ReceiveState, Purging
  <2>5. Len(r'.record) < SECSIZ + CheckLen(r'.crc_flag)
    <3>1. Len(r'.record) = 0 BY <2>4
    <3> QED BY <1>1, <2>4, <3>1
  <2> QED BY <1>1, <1>2, <2>1, <2>4, <2>5, ReceiverTyped
<1>9. CASE Data
  <2> DEFINE record == Append(r.record, Incoming)  missing == r.missing \/ down = <<>>
  <2>1. down' = Rest(down) BY <1>9 DEF Data, Reading
  <2>2. record \in Seq(Bytes) BY <1>1, <1>3
  <2>3. missing \in BOOLEAN BY <1>1 DEF ReceiveState
  <2>4. CASE Len(record) < SECSIZ + CheckLen(r.crc_flag)
    <3>1. r' = [r EXCEPT !.record = record, !.missing = missing] /\ Hold /\ guessed' = guessed
      BY <1>9, <2>4 DEF Data
    <3>2. r' \in ReceiveState /\ r'.record = record /\ r'.buffer = r.buffer /\ r'.crc_flag = r.crc_flag
      <4> HIDE DEF record, missing
      <4> QED BY <1>1, <2>2, <2>3, <3>1 DEF ReceiveState
    <3>3. Len(r'.record) < SECSIZ + CheckLen(r'.crc_flag) BY <2>4, <3>2
    <3> HIDE DEF record
    <3> QED BY <1>1, <1>2, <2>1, <3>1, <3>2, <3>3, ReceiverTyped
  <2>5. CASE ~(Len(record) < SECSIZ + CheckLen(r.crc_flag)) /\ GoodRecord(record)
    <3> DEFINE data == SubSeq(record, 1, SECSIZ)
    <3>1. /\ r' = Stored(data) /\ SendUp(ACK)
          /\ guessed' = IF missing THEN guessed \cup {r.sectcurr} ELSE guessed
      BY <1>9, <2>5 DEF Data
    <3>2. data \in Block
      <4> DEFINE k == Len(r.record)  n == Len(record)  check == CheckLen(r.crc_flag)
      <4>1. n = k + 1 /\ k \in Nat /\ k < SECSIZ + check /\ ~(n < SECSIZ + check) BY <1>1, <1>3, <2>5
      <4>2. check \in Nat \ {0} BY DEF CheckLen
      <4>3. n = SECSIZ + check
        <5> HIDE DEF k, n, check
        <5> QED BY <1>1, <4>1, <4>2
      <4>4. Len(record) = SECSIZ + check BY <4>3
      <4> HIDE DEF record, check
      <4> QED BY <2>2, <4>2, <4>4, DataTyped
    <3> HIDE DEF data, missing
    <3>3. r' \in ReceiveState /\ r'.record = r.record /\ r'.crc_flag = r.crc_flag /\ Len(r'.buffer) < NSECTS
      BY <1>1, <3>1, <3>2, StoredTyped
    <3>4. guessed' \subseteq Bytes BY <1>1, <3>1
    <3> QED BY <1>1, <1>2, <1>3, <2>1, <3>1, <3>3, <3>4, ReceiverTyped
  <2>6. CASE ~(Len(record) < SECSIZ + CheckLen(r.crc_flag)) /\ ~ GoodRecord(record)
    <3>1. r' = [r EXCEPT !.pc = "error"] /\ Hold /\ guessed' = guessed BY <1>9, <2>6 DEF Data
    <3> QED BY <1>1, <1>2, <1>4, <2>1, <3>1, ReceiverTyped
  <2> QED BY <2>4, <2>5, <2>6
<1>10. CASE PurgeDuplicate \/ PurgeError
  <2>1. down' = Rest(down) /\ guessed' = guessed BY <1>10 DEF PurgeDuplicate, PurgeError, Reading
  <2>2. r' = r /\ Hold BY <1>10, PurgingHolds
  <2> QED BY <1>1, <1>2, <2>1, <2>2, ReceiverTyped
<1> QED BY <1>2, <1>5, <1>6, <1>7, <1>8, <1>9, <1>10 DEF Receiving

LEMMA StepTyped == TypeOK /\ Tries /\ [Next]_vars => TypeOK' /\ Tries'
<1> SUFFICES ASSUME TypeOK, Tries, [Next]_vars PROVE TypeOK' /\ Tries'
  OBVIOUS
<1>1. CASE Sending BY <1>1, SendingTyped
<1>2. CASE Receiving
  <2>1. TypeOK' /\ s' = s BY <1>2, ReceivingTyped
  <2> QED BY <2>1 DEF Tries, Sectors
<1>3. CASE UNCHANGED vars
  <2>1. s' = s /\ r' = r /\ down' = down /\ up' = up /\ faults' = faults /\ guessed' = guessed
    BY <1>3 DEF vars
  <2> QED BY <2>1 DEF TypeOK, Tries, SendState, ReceiveState, Block, Sectors
<1> QED BY <1>1, <1>2, <1>3 DEF Next

\* Every field keeps its type, and the buffer of rcvfile never overflows
\* (cmodem2.c:63-297), whatever the lines do.
THEOREM TypeCorrect == Spec => []TypeOK
<1>1. Init => TypeOK /\ Tries BY InitIInv DEF IInv
<1>2. TypeOK /\ Tries /\ [Next]_vars => TypeOK' /\ Tries' BY StepTyped
<1> QED BY <1>1, <1>2, PTL DEF Spec

\* After one error the receiver takes nothing more and answers nothing
\* (cmodem2.c:153-157 and 167-172 wait for a TIMEOUT that receive, which returns an
\* unsigned char, cannot give).
THEOREM ErrorsEndReception == Spec => ErrorsAreFinal
<1>1. TypeOK /\ [Next]_vars => [r.pc \in Purging => r' = r /\ Len(up') <= Len(up)]_vars
  <2> SUFFICES ASSUME TypeOK, [Next]_vars, r.pc \in Purging PROVE r' = r /\ Len(up') <= Len(up)
    OBVIOUS
  <2>1. up \in Seq(Bytes) BY DEF TypeOK
  <2>2. Len(up) \in Nat /\ Len(<<>>) <= Len(up) /\ Len(Rest(up)) <= Len(up)
    <3>1. up = <<>> => Len(Rest(up)) = 0 BY <2>1, RestTyped
    <3>2. up # <<>> => Len(Rest(up)) = Len(up) - 1 BY <2>1, RestTyped
    <3>3. Len(up) \in Nat BY <2>1
    <3> QED BY <3>1, <3>2, <3>3
  <2>3. CASE Sending
    <3>1. r' = r /\ up' \in {<<>>, Rest(up)} BY <2>3 DEF Sending, StartSending, Request, SectorSent, EotSent
    <3> QED BY <2>2, <3>1
  <2>4. CASE PurgeDuplicate \/ PurgeError
    <3>1. r' = r /\ up' = up BY <2>4, PurgingHolds
    <3> QED BY <2>2, <3>1
  <2>5. CASE UNCHANGED vars BY <2>2, <2>5 DEF vars
  <2>6. ~(StartReceiving \/ First \/ Number \/ Complement \/ Data)
    BY DEF StartReceiving, First, Number, Complement, Data, Reading, Purging
  <2> QED BY <2>3, <2>4, <2>5, <2>6 DEF Next, Receiving
<1>2. Spec => []TypeOK BY TypeCorrect
<1> QED BY <1>1, <1>2, PTL DEF Spec, ErrorsAreFinal
================================================================================
