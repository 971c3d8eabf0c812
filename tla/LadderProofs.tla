------------------------------ MODULE LadderProofs ------------------------------
(***************************************************************************)
(* Theorems about MCLadders, for scalars of every width and groups of every *)
(* order: the recodings of mul_scalar, lincomb and Cortex-M4's ladders keep *)
(* the number they recode and leave digits that the tables have; the       *)
(* ladders over them, and Cortex-M4's fixed-base product, compute the      *)
(* multiple they should; and mod_n_inv's division steps give the inverse.  *)
(***************************************************************************)
EXTENDS MCLadders, ArithmeticLemmas

OddDigits == {d \in -15..15 : d % 2 = 1}

Abs(d) == IF d < 0 THEN -d ELSE d

(* An odd digit is twice the index of its entry, and one more. *)
LEMMA EntryIndex ==
  ASSUME NEW d \in OddDigits
  PROVE  /\ d \in Int /\ d # 0 /\ Abs(d) \div 2 \in 0..7 /\ 2 * (Abs(d) \div 2) + 1 = Abs(d)
         /\ d > 0 => d \div 2 = Abs(d) \div 2
BY DEF OddDigits, Abs

(* The opposite of a residue. *)
LEMMA SameOpposite ==
  ASSUME NEW n \in Nat, n > 0, NEW x \in Int, NEW y \in Int, Same(n, x, y)
  PROVE  Same(n, n - x, -y)
<1> DEFINE p == x \div n
           q == y \div n
           r == x % n
<1>1. p \in Int /\ q \in Int /\ r \in Int /\ x = n * p + r /\ y = n * q + r
  BY Division DEF Same
<1> HIDE DEF p, q, r
<1> DEFINE u == n - x
           v == -y
           c == 1 + (q - p)
<1>2. u = v + c * n /\ u \in Int /\ v \in Int /\ c \in Int
  BY <1>1, SMTT(30)
<1> HIDE DEF u, v, c
<1>3. u % n = v % n
  BY <1>2, SameRemainder
<1> QED
  BY <1>3 DEF u, v, Same

LEMMA SameSum ==
  ASSUME NEW n \in Nat, n > 0, NEW a \in Int, NEW b \in Int, NEW c \in Int, NEW d \in Int,
         Same(n, a, b), Same(n, c, d)
  PROVE  Same(n, a + c, b + d)
<1>1. Same(n, a + c, b + c)
  BY SamePlus
<1>2. Same(n, c + b, d + b)
  BY SamePlus
<1>3. c + b = b + c /\ d + b = b + d
  OBVIOUS
<1> QED
  BY <1>1, <1>2, <1>3 DEF Same

(* One turn of a ladder: w times what the accumulator stands for, and a summand. *)
LEMMA Turn ==
  ASSUME NEW n \in Nat, n > 0, NEW w \in Int, NEW v \in Int,
         NEW x \in Int, NEW y \in Int, Same(n, x, y)
  PROVE  /\ (w * (v % n) + x) % n = (y + w * v) % n
         /\ (y + w * v) % n \in 0..(n - 1)
<1> DEFINE a == v % n
<1>1. a \in Int /\ Same(n, a, v)
  BY Remainder
<1> HIDE DEF a
<1> DEFINE s == a * w
           z == v * w
<1>2. Same(n, s, z)
  BY <1>1, SameTimes
<1>3. s \in Int /\ z \in Int /\ w * a = s /\ w * v = z
  BY <1>1, SMTT(30)
<1> HIDE DEF s, z
<1>4. s + x \in Int /\ z + y = y + z
  BY <1>3
<1>5. Same(n, s + x, z + y)
  BY <1>2, <1>3, SameSum
<1>6. (s + x) % n \in 0..(n - 1)
  BY <1>4, Division
<1> QED
  BY <1>3, <1>4, <1>5, <1>6 DEF Same, a
(* One turn of a ladder that reads two scalars. *)
LEMMA JointTurn ==
  ASSUME NEW n \in Nat, n > 0, NEW v1 \in Int, NEW v2 \in Int, NEW d1 \in Int, NEW d2 \in Int,
         NEW a \in Int, NEW b \in Int, NEW x \in Int, NEW y \in Int,
         Same(n, x, d1 * a), Same(n, y, d2 * b)
  PROVE  /\ (2 * ((v1 * a + v2 * b) % n) + x + y) % n
              = ((d1 + 2 * v1) * a + (d2 + 2 * v2) * b) % n
         /\ ((d1 + 2 * v1) * a + (d2 + 2 * v2) * b) % n \in 0..(n - 1)
<1> DEFINE c1 == d1 * a
           c2 == d2 * b
           v  == v1 * a + v2 * b
           w  == 2
           X  == x + y
           Y  == c1 + c2
           Z  == (d1 + 2 * v1) * a + (d2 + 2 * v2) * b
<1>1. c1 \in Int /\ c2 \in Int /\ v \in Int /\ w \in Int /\ Z = Y + w * v
  BY SMTT(30)
<1> HIDE DEF c1, c2, v, Z
<1>2. X \in Int /\ Y \in Int
  BY <1>1
<1>3. Same(n, X, Y)
  BY <1>1, SameSum DEF c1, c2
<1>4. 2 * (v % n) + x + y = w * (v % n) + X
  <2>1. v % n \in Int
    BY <1>1, Division
  <2> QED
    BY <2>1
<1> HIDE DEF X, Y, w
<1>5. (w * (v % n) + X) % n = (Y + w * v) % n /\ (Y + w * v) % n \in 0..(n - 1)
  BY <1>1, <1>2, <1>3, Turn, Zenon
<1>6. (2 * (v % n) + x + y) % n = Z % n /\ Z % n \in 0..(n - 1)
  BY <1>1, <1>4, <1>5
<1> QED
  BY <1>6 DEF v, Z

(* The entry of a table of odd multiples of p, with the sign of the digit. *)
LEMMA SignedEntry ==
  ASSUME NEW n \in Nat, n > 0, NEW d \in OddDigits, NEW p \in Int, NEW x,
         x = IF d > 0 THEN (Abs(d) * p) % n ELSE (n - ((Abs(d) * p) % n)) % n
  PROVE  x \in 0..(n - 1) /\ Same(n, x, d * p)
<1> DEFINE a == Abs(d) * p
           y == a % n
           z == d * p
           u == n - y
<1>1. a \in Int /\ z \in Int /\ z = IF d > 0 THEN a ELSE -a
  <2>1. d \in Int /\ Abs(d) = IF d < 0 THEN -d ELSE d
    BY EntryIndex DEF Abs
  <2>2. d # 0
    BY EntryIndex
  <2>3. (-d) * p = -(d * p) /\ d * p \in Int
    BY <2>1, SMTT(30)
  <2> QED
    BY <2>1, <2>2, <2>3
<1> HIDE DEF a, z
<1>2. y \in 0..(n - 1) /\ y \in Int /\ Same(n, y, a)
  BY <1>1, Remainder
<1> HIDE DEF y
<1>3. u \in Int /\ Same(n, u, -a)
  <2>1. Same(n, n - y, -a)
    BY <1>1, <1>2, SameOpposite
  <2> QED
    BY <1>2, <2>1
<1> HIDE DEF u
<1>4. u % n \in 0..(n - 1) /\ Same(n, u % n, u)
  BY <1>3, Remainder
<1>5. x = IF d > 0 THEN y ELSE u % n
  BY DEF y, u, a
<1>6. CASE d > 0
  BY <1>1, <1>2, <1>5, <1>6 DEF z
<1>7. CASE ~(d > 0)
  BY <1>1, <1>3, <1>4, <1>5, <1>7 DEF z, Same
<1> QED
  BY <1>6, <1>7
-------------------------------------------------------------------------------
(* mul_scalar.  The scalar it recodes is odd, and k up to its sign; the digits
   below the one before i are settled, that one is positive and odd, and those
   from i up are nibbles. *)
Nibbles == 0..(NumNibbles - 1)

MulTyped ==
  /\ k \in 0..(MulOrder - 1) /\ acc \in 0..(MulOrder - 1)
  /\ i \in -1..NumNibbles /\ e \in [Nibbles -> -15..15]

MadeOdd ==
  /\ k # 0 /\ kOdd \in 1..(MulOrder - 1) /\ kOdd % 2 = 1
  /\ kOdd = IF k % 2 = 1 THEN k ELSE MulOrder - k

KeepsScalar == Horner(NumNibbles, 16, e)[0] = kOdd

MulRecoding ==
  /\ MadeOdd /\ KeepsScalar /\ i \in 1..NumNibbles
  /\ \A j \in Nibbles : j < i => e[j] \in OddDigits
  /\ e[i - 1] > 0
  /\ \A j \in Nibbles : j >= i => e[j] \in 0..15

MulOnLadder ==
  /\ MadeOdd /\ KeepsScalar /\ i \in -1..(NumNibbles - 2)
  /\ \A j \in Nibbles : e[j] \in OddDigits
  /\ e[NumNibbles - 1] > 0
  /\ acc = Horner(NumNibbles, 16, e)[i + 1] % MulOrder

MulInv ==
  /\ MulTyped
  /\ \/ phase = "start" /\ acc = 0
     \/ phase = "recode" /\ MulRecoding
     \/ phase = "ladder" /\ MulOnLadder
     \/ phase = "done" /\ acc = k

LEMMA MulSizes ==
  /\ NumNibbles \in Nat /\ NumNibbles > 1 /\ MulOrder \in Nat /\ MulOrder > 1 /\ MulOrder % 2 = 1
  /\ MulOrder < PowerOf(16, NumNibbles) /\ Nibbles = Mul!Index
<1>1. \A n : Mul!Pow16(n) = PowerOf(16, n)
  BY DEF Mul!Pow16, PowerOf
<1> QED
  BY <1>1, LaddersAssumption DEF Mul!MulScalarParameters, Nibbles, Mul!Index

LEMMA MulValues == \A j : Mul!ValueFrom(j) = Horner(NumNibbles, 16, e)[j]
BY DEF Mul!ValueFrom, Mul!Values, Horner

LEMMA MulInitial ==
  ASSUME Mul!Init
  PROVE  MulInv
<1>1. \A j \in Nibbles : 0 \in -15..15
  OBVIOUS
<1> QED
  BY <1>1, MulSizes DEF Mul!Init, MulInv, MulTyped

(* k, or n - k: the one that is odd; its nibbles, the lowest of them odd. *)
LEMMA MulStarts ==
  ASSUME MulInv, Mul!Start
  PROVE  MulInv'
<1>1. /\ phase = "start" /\ k' = k /\ acc' = acc /\ acc = 0 /\ k \in 0..(MulOrder - 1)
      /\ i \in -1..NumNibbles /\ e \in [Nibbles -> -15..15] /\ acc \in 0..(MulOrder - 1)
  BY DEF MulInv, MulTyped, Mul!Start
<1>2. CASE k = 0
  <2>1. phase' = "done" /\ i' = i /\ e' = e
    BY <1>2 DEF Mul!Start
  <2> QED
    BY <1>1, <1>2, <2>1 DEF MulInv, MulTyped
<1>3. CASE k # 0
  <2>1. /\ phase' = "recode" /\ i' = 1 /\ kOdd' = IF k % 2 = 1 THEN k ELSE MulOrder - k
        /\ e' = [j \in Nibbles |-> (kOdd' \div Mul!Pow16(j)) % 16]
    BY <1>3, MulSizes DEF Mul!Start
  <2> DEFINE x == kOdd'
  <2>2. x \in 1..(MulOrder - 1) /\ x % 2 = 1 /\ x \in Nat /\ x < MulOrder
    BY <1>1, <1>3, <2>1, MulSizes
  <2>3. MadeOdd'
    BY <1>1, <1>3, <2>1, <2>2 DEF MadeOdd
  <2> DEFINE d == e'
             n == NumNibbles
             W == 16
  <2>4. n \in Nat /\ n > 1 /\ W \in Nat \ {0} /\ x < PowerOf(W, n) /\ Nibbles = 0..(n - 1)
    <3>1. PowerOf(W, n) \in Nat /\ n \in Nat
      BY MulSizes, PowerUnfolded
    <3> QED
      BY <2>2, <3>1, MulSizes DEF Nibbles
  <2>5. \A g \in 0..(n - 1) : d[g] = (x \div PowerOf(W, g)) % W
    <3>1. \A g : Mul!Pow16(g) = PowerOf(W, g)
      BY DEF Mul!Pow16, PowerOf
    <3> QED
      BY <2>1, <2>4, <3>1
  <2> HIDE DEF x, d, n, W
  <2>6. (\A g \in 0..(n - 1) : d[g] \in 0..(W - 1)) /\ Horner(n, W, d)[0] = x
    BY <2>2, <2>4, <2>5, HornerOfNumber
  <2>7. \A g \in Nibbles : d[g] \in 0..15
    BY <2>4, <2>6 DEF W
  <2>8. d[0] \in OddDigits /\ d[0] > 0
    <3>1. 0 \in 0..(n - 1) /\ PowerOf(W, 0) = 1
      BY <2>4, PowerUnfolded
    <3>2. d[0] = (x \div 1) % 16
      BY <2>5, <3>1 DEF W
    <3>3. d[0] \in 0..15 /\ d[0] % 2 = 1
      BY <2>2, <3>2
    <3> QED
      BY <3>3 DEF OddDigits
  <2>9. d = [j \in Nibbles |-> d[j]] /\ d \in [Nibbles -> -15..15]
    BY <2>1, <2>7 DEF d
  <2>10. MulTyped'
    BY <1>1, <2>1, <2>4, <2>9 DEF MulTyped, d, n
  <2>11. MulRecoding'
    <3>1. \A j \in Nibbles : j < 1 => j = 0
      BY <2>4
    <3>2. 1 \in 1..n /\ 1 - 1 = 0
      BY <2>4
    <3>3. /\ \A j \in Nibbles : j < 1 => d[j] \in OddDigits
          /\ d[1 - 1] > 0
          /\ \A j \in Nibbles : j >= 1 => d[j] \in 0..15
      BY <2>7, <2>8, <3>1, <3>2
    <3> QED
      BY <2>1, <2>3, <2>6, <3>2, <3>3 DEF MulRecoding, KeepsScalar, d, n, W, x, Nibbles
  <2> QED
    BY <2>1, <2>10, <2>11 DEF MulInv
<1> QED
  BY <1>2, <1>3

LEMMA MulRecodes ==
  ASSUME MulInv, Mul!Recode
  PROVE  MulInv'
<1> DEFINE n == NumNibbles
           W == 16
           c == [e EXCEPT ![i - 1] = e[i - 1] - 16]
           d == [c EXCEPT ![i] = e[i] + 1]
<1>1. /\ phase = "recode" /\ phase' = phase /\ k' = k /\ kOdd' = kOdd /\ acc' = acc /\ i' = i + 1
      /\ MulTyped /\ MulRecoding /\ i < n
  BY DEF MulInv, Mul!Recode
<1>2. /\ i \in 1..(n - 1) /\ i \in Nibbles /\ i - 1 \in Nibbles /\ i - 1 # i /\ n \in Nat
      /\ i + 1 \in 1..n /\ i + 1 \in -1..n /\ (i + 1) - 1 = i /\ Nibbles = 0..(n - 1)
      /\ i - 1 \in Nat /\ (i - 1) + 1 = i
  BY <1>1, MulSizes DEF MulRecoding, Nibbles
<1>3. /\ e \in [Nibbles -> Int] /\ e[i - 1] \in OddDigits /\ e[i - 1] \in 1..15 /\ e[i] \in 0..15
      /\ e = [j \in Nibbles |-> e[j]] /\ e \in [Nibbles -> -15..15]
  <2>1. e \in [Nibbles -> -15..15]
    BY <1>1 DEF MulTyped
  <2>2. \A j \in Nibbles : e[j] \in -15..15
    BY <2>1
  <2>3. e \in [Nibbles -> Int] /\ e = [j \in Nibbles |-> e[j]]
    BY <2>1
  <2>4. i - 1 < i /\ i >= i
    BY <1>2
  <2>5. e[i - 1] \in OddDigits /\ e[i - 1] > 0 /\ e[i] \in 0..15
    BY <1>1, <1>2, <2>4 DEF MulRecoding
  <2>6. e[i - 1] \in 1..15
    BY <2>5 DEF OddDigits
  <2> QED
    BY <2>1, <2>3, <2>5, <2>6
<1>4. MadeOdd'
  BY <1>1 DEF MulRecoding, MadeOdd
<1>5. CASE e[i] % 2 # 0
  <2>1. e' = e
    BY <1>5 DEF Mul!Recode
  <2>2. e[i] \in OddDigits /\ e[i] > 0
    BY <1>3, <1>5 DEF OddDigits
  <2>3. /\ \A j \in Nibbles : j < i + 1 => e[j] \in OddDigits
        /\ \A j \in Nibbles : j >= i + 1 => e[j] \in 0..15
    <3>1. \A j \in Nibbles : (j < i + 1 => j < i \/ j = i) /\ (j >= i + 1 => j >= i)
      BY <1>2
    <3> QED
      BY <1>1, <2>2, <3>1 DEF MulRecoding
  <2>4. MulRecoding'
    BY <1>1, <1>2, <1>4, <2>1, <2>2, <2>3 DEF MulRecoding, KeepsScalar
  <2> QED
    BY <1>1, <1>2, <2>1, <2>4 DEF MulInv, MulTyped
<1>6. CASE e[i] % 2 = 0
  <2>1. e' = d
    <3>1. e' = [e EXCEPT ![i - 1] = @ - 16, ![i] = @ + 1]
      BY <1>6 DEF Mul!Recode
    <3> QED
      BY <1>2, <1>3, <3>1
  <2>2. /\ c \in [Nibbles -> Int] /\ c[i - 1] = e[i - 1] - 16 /\ c[i] = e[i]
        /\ \A j \in Nibbles : j # i - 1 => c[j] = e[j]
    BY <1>2, <1>3
  <2> HIDE DEF c
  <2>3. /\ d \in [Nibbles -> Int] /\ d[i] = e[i] + 1 /\ d[i - 1] = e[i - 1] - 16
        /\ \A j \in Nibbles : j # i => d[j] = c[j]
        /\ \A j \in Nibbles : j # i /\ j # i - 1 => d[j] = e[j]
    BY <1>2, <1>3, <2>2
  <2> HIDE DEF d
  <2>4. d[i - 1] \in OddDigits /\ d[i] \in OddDigits /\ d[i] > 0
    <3>1. d[i - 1] \in -15..15 /\ d[i - 1] % 2 = 1
      BY <1>3, <2>3 DEF OddDigits
    <3>2. d[i] \in 1..15 /\ d[i] % 2 = 1
      BY <1>3, <1>6, <2>3
    <3> QED
      BY <3>1, <3>2 DEF OddDigits
  <2>5. /\ \A j \in Nibbles : j < i + 1 => d[j] \in OddDigits
        /\ \A j \in Nibbles : j >= i + 1 => d[j] \in 0..15
    <3>1. ASSUME NEW j \in Nibbles, j < i + 1 PROVE d[j] \in OddDigits
      <4>1. j = i \/ j = i - 1 \/ (j < i /\ j # i /\ j # i - 1)
        BY <1>2, <3>1
      <4> QED
        BY <1>1, <2>3, <2>4, <4>1 DEF MulRecoding
    <3>2. ASSUME NEW j \in Nibbles, j >= i + 1 PROVE d[j] \in 0..15
      <4>1. j >= i /\ j # i /\ j # i - 1
        BY <1>2, <3>2
      <4> QED
        BY <1>1, <2>3, <4>1 DEF MulRecoding
    <3> QED
      BY <3>1, <3>2
  <2>6. Horner(n, W, d)[0] = Horner(n, W, e)[0]
    <3> HIDE DEF n, W
    <3>1. W \in Nat \ {0}
      BY DEF W
    <3>2. DifferAt(n, e, c, i - 1) /\ DifferAt(n, c, d, i)
      BY <1>2, <1>3, <2>2, <2>3 DEF DifferAt
    <3>3. i - 1 \in 0..(n - 1) /\ i \in 0..(n - 1)
      BY <1>2
    <3>4. Horner(n, W, c)[0] = Horner(n, W, e)[0] + (c[i - 1] - e[i - 1]) * PowerOf(W, i - 1)
      BY <1>2, <3>1, <3>2, <3>3, HornerChange
    <3>5. Horner(n, W, d)[0] = Horner(n, W, c)[0] + (d[i] - c[i]) * PowerOf(W, i)
      BY <1>2, <3>1, <3>2, <3>3, HornerChange
    <3> DEFINE p == PowerOf(W, i - 1)
    <3>6. p \in Nat /\ PowerOf(W, i) = W * p
      <4>1. PowerOf(W, i - 1) \in Nat \ {0} /\ PowerOf(W, (i - 1) + 1) = W * PowerOf(W, i - 1)
        BY <1>2, <3>1, PowerUnfolded
      <4> QED
        BY <1>2, <4>1
    <3> HIDE DEF p
    <3>7. c[i - 1] - e[i - 1] = -16 /\ d[i] - c[i] = 1
      BY <1>3, <2>2, <2>3
    <3>8. Horner(n, W, e)[0] \in Int
      <4>1. \A g \in 0..(n - 1) : e[g] \in Int
        BY <1>2, <1>3
      <4>2. W \in Int /\ 0 \in 0..n
        BY <1>2, <3>1
      <4> QED
        BY <1>2, <4>1, <4>2, HornerUnfolded
    <3> QED
      BY <3>4, <3>5, <3>6, <3>7, <3>8 DEF p, W
  <2>7. MulRecoding'
    BY <1>1, <1>2, <1>4, <2>1, <2>4, <2>5, <2>6 DEF MulRecoding, KeepsScalar, n, W
  <2>8. d \in [Nibbles -> -15..15]
    <3>1. \A j \in Nibbles : d[j] \in -15..15
      <4>1. \A j \in Nibbles : j < i + 1 \/ j >= i + 1
        BY <1>2
      <4> QED
        BY <2>5, <4>1 DEF OddDigits
    <3>2. d = [j \in Nibbles |-> d[j]]
      BY <2>3
    <3> QED
      BY <3>1, <3>2
  <2> QED
    BY <1>1, <1>2, <2>1, <2>7, <2>8 DEF MulInv, MulTyped
<1> QED
  BY <1>5, <1>6

(* The table entry of a digit, with the digit's sign. *)
LEMMA MulEntry ==
  ASSUME NEW d \in OddDigits, NEW x,
         x = IF d < 0 THEN MulOrder - Mul!TableEntry(Mul!Abs(d) \div 2)
             ELSE Mul!TableEntry(Mul!Abs(d) \div 2)
  PROVE  x \in Int /\ Same(MulOrder, x, d)
<1> DEFINE n == MulOrder
           a == Abs(d)
           y == a % n
<1>1. n \in Nat /\ n > 0
  BY MulSizes
<1>2. a \in Int /\ d \in Int /\ Mul!TableEntry(Mul!Abs(d) \div 2) = y /\ a = IF d < 0 THEN -d ELSE d
  <2>1. Mul!Abs(d) = a /\ a = IF d < 0 THEN -d ELSE d
    BY DEF Mul!Abs, Abs
  <2>2. 2 * (a \div 2) + 1 = a /\ d \in Int
    BY EntryIndex
  <2>3. a \in Int
    BY <2>1, <2>2
  <2> HIDE DEF a
  <2> QED
    BY <2>1, <2>2, <2>3 DEF Mul!TableEntry
<1> HIDE DEF n, a
<1>3. y \in Int /\ Same(n, y, a)
  BY <1>1, <1>2, Remainder
<1> HIDE DEF y
<1>4. CASE d < 0
  <2>1. x = n - y /\ -a = d /\ x \in Int
    BY <1>1, <1>2, <1>3, <1>4 DEF n
  <2>2. Same(n, n - y, -a)
    BY <1>1, <1>2, <1>3, SameOpposite
  <2> QED
    BY <2>1, <2>2 DEF n
<1>5. CASE ~(d < 0)
  BY <1>2, <1>3, <1>5 DEF n
<1> QED
  BY <1>4, <1>5

(* What the digits stand for from each place up, on the ladder. *)
LEMMA MulReads ==
  ASSUME MulTyped
  PROVE  /\ Horner(NumNibbles, 16, e)[NumNibbles] = 0
         /\ \A j \in Nibbles :
              Horner(NumNibbles, 16, e)[j] = e[j] + 16 * Horner(NumNibbles, 16, e)[j + 1]
         /\ \A j \in 0..NumNibbles : Horner(NumNibbles, 16, e)[j] \in Int
<1> DEFINE W == 16
<1>1. W \in Int /\ NumNibbles \in Nat /\ \A j \in 0..(NumNibbles - 1) : e[j] \in Int
  <2>1. \A j \in Nibbles : e[j] \in -15..15
    BY DEF MulTyped
  <2>2. \A j \in Nibbles : e[j] \in Int
    BY <2>1
  <2> QED
    BY <2>2, MulSizes DEF Nibbles
<1> HIDE DEF W
<1>2. /\ Horner(NumNibbles, W, e)[NumNibbles] = 0
      /\ \A j \in Nibbles : Horner(NumNibbles, W, e)[j] = e[j] + W * Horner(NumNibbles, W, e)[j + 1]
      /\ \A j \in 0..NumNibbles : Horner(NumNibbles, W, e)[j] \in Int
  BY <1>1, HornerUnfolded DEF Nibbles
<1> QED
  BY <1>2 DEF W

LEMMA MulBegins ==
  ASSUME MulInv, Mul!BeginLadder
  PROVE  MulInv'
<1> DEFINE n == NumNibbles
           d == e[n - 1]
           H == Horner(n, 16, e)
<1>1. /\ phase' = "ladder" /\ k' = k /\ kOdd' = kOdd /\ e' = e /\ i = n /\ i' = n - 2
      /\ acc' = Mul!TableEntry(d \div 2) /\ MulTyped /\ MulRecoding
  BY DEF MulInv, Mul!BeginLadder
<1>2. n \in Nat /\ n > 1 /\ n - 1 \in Nibbles /\ (n - 1) + 1 = n /\ n - 2 \in -1..(n - 2)
      /\ (n - 2) + 1 = n - 1 /\ n - 2 \in -1..n
  BY MulSizes DEF Nibbles
<1>3. (\A j \in Nibbles : e[j] \in OddDigits) /\ d > 0
  <2>1. \A j \in Nibbles : j < n
    BY <1>2 DEF Nibbles
  <2> QED
    BY <1>1, <2>1 DEF MulRecoding
<1>4. H[n - 1] = d
  <2>1. H[n] = 0 /\ H[n - 1] = d + 16 * H[n] /\ d \in Int
    BY <1>1, <1>2, <1>3, MulReads DEF OddDigits
  <2> QED
    BY <2>1
<1>5. acc' = d % MulOrder /\ acc' \in 0..(MulOrder - 1)
  <2>1. 2 * (d \div 2) + 1 = d /\ d \in Int
    BY <1>2, <1>3 DEF OddDigits
  <2> HIDE DEF d
  <2> QED
    BY <1>1, <2>1, MulSizes, Division DEF Mul!TableEntry
<1>6. MulOnLadder'
  BY <1>1, <1>2, <1>3, <1>4, <1>5 DEF MulOnLadder, MulRecoding, MadeOdd, KeepsScalar
<1> QED
  BY <1>1, <1>2, <1>5, <1>6 DEF MulInv, MulTyped

LEMMA MulClimbs ==
  ASSUME MulInv, Mul!Ladder
  PROVE  MulInv'
<1> DEFINE n == NumNibbles
           d == e[i]
           H == Horner(n, 16, e)
           E == Mul!TableEntry(Mul!Abs(d) \div 2)
           x == IF d < 0 THEN MulOrder - E ELSE E
           v == H[i + 1]
<1>1. /\ phase = "ladder" /\ phase' = phase /\ k' = k /\ kOdd' = kOdd /\ e' = e /\ i' = i - 1 /\ i >= 0
      /\ acc' = (16 * acc + x) % MulOrder /\ MulTyped /\ MulOnLadder
  BY DEF MulInv, Mul!Ladder
<1>2. /\ i \in 0..(n - 2) /\ i \in Nibbles /\ i + 1 \in 0..n /\ i - 1 \in -1..(n - 2) /\ (i - 1) + 1 = i
      /\ i - 1 \in -1..n
  BY <1>1, MulSizes DEF MulOnLadder, Nibbles
<1>3. d \in OddDigits /\ acc = v % MulOrder /\ v \in Int /\ H[i] = d + 16 * v /\ d \in Int
  BY <1>1, <1>2, MulReads DEF MulOnLadder, OddDigits
<1> HIDE DEF d, v, E
<1>4. x \in Int /\ Same(MulOrder, x, d)
  BY <1>3, MulEntry DEF E
<1> HIDE DEF x
<1>5. acc' = (d + 16 * v) % MulOrder /\ acc' \in 0..(MulOrder - 1)
  <2> DEFINE w == 16
  <2>1. w \in Int /\ MulOrder \in Nat /\ MulOrder > 0
    BY MulSizes
  <2> HIDE DEF w
  <2>2. /\ (w * (v % MulOrder) + x) % MulOrder = (d + w * v) % MulOrder
        /\ (d + w * v) % MulOrder \in 0..(MulOrder - 1)
    BY <1>3, <1>4, <2>1, Turn, Zenon
  <2> QED
    BY <1>1, <1>3, <2>2 DEF w
<1>6. MulOnLadder'
  BY <1>1, <1>2, <1>3, <1>5 DEF MulOnLadder, MadeOdd, KeepsScalar
<1> QED
  BY <1>1, <1>2, <1>5, <1>6 DEF MulInv, MulTyped

(* The scalar was k, or its opposite. *)
LEMMA MulEnds ==
  ASSUME MulInv, Mul!End
  PROVE  MulInv'
<1>1. /\ phase = "ladder" /\ phase' = "done" /\ k' = k /\ kOdd' = kOdd /\ e' = e /\ i' = i /\ i < 0
      /\ acc' = IF k % 2 = 0 THEN (MulOrder - acc) % MulOrder ELSE acc
      /\ MulTyped /\ MulOnLadder
  BY DEF MulInv, Mul!End
<1>2. i = -1 /\ i + 1 = 0 /\ MulOrder \in Nat /\ MulOrder > 1 /\ k \in 1..(MulOrder - 1)
  BY <1>1, MulSizes DEF MulOnLadder, MulTyped, MadeOdd
<1>3. kOdd \in 0..(MulOrder - 1) /\ acc = kOdd % MulOrder
  BY <1>1, <1>2 DEF MulOnLadder, KeepsScalar, MadeOdd
<1>4. acc = kOdd
  BY <1>2, <1>3, Remainder
<1>5. acc' = k
  <2>1. CASE k % 2 = 0
    <3>1. acc' = (MulOrder - acc) % MulOrder /\ acc = MulOrder - k
      BY <1>1, <1>4, <2>1 DEF MulOnLadder, MadeOdd
    <3>2. MulOrder - acc = k /\ k \in 0..(MulOrder - 1)
      BY <1>2, <3>1
    <3> QED
      BY <1>2, <3>1, <3>2, Remainder
  <2>2. CASE k % 2 # 0
    <3>1. k % 2 = 1
      BY <1>2, <2>2
    <3> QED
      BY <1>1, <1>4, <2>2, <3>1 DEF MulOnLadder, MadeOdd
  <2> QED
    BY <2>1, <2>2
<1> QED
  BY <1>1, <1>2, <1>5 DEF MulInv, MulTyped

LEMMA MulSteps ==
  ASSUME MulInv, Mul!Next
  PROVE  MulInv'
BY MulStarts, MulRecodes, MulBegins, MulClimbs, MulEnds DEF Mul!Next

(* What the invariant says: digits within the table, the number kept, and the
   multiple of P. *)
LEMMA MulGoals ==
  ASSUME MulInv
  PROVE  Mul!TypeOK /\ Mul!RecodingPreservesValue /\ Mul!LadderComputesMultiple
<1>1. Mul!TypeOK
  <2>1. /\ phase \in {"start", "recode", "ladder", "done"} /\ k \in 0..(MulOrder - 1)
        /\ acc \in 0..(MulOrder - 1) /\ i \in -1..NumNibbles
    BY DEF MulInv, MulTyped
  <2>2. \A j \in Mul!Index : e[j] \in -16..16
    <3>1. \A j \in Nibbles : e[j] \in -15..15
      BY DEF MulInv, MulTyped
    <3> QED
      BY <3>1, MulSizes
  <2>3. ASSUME phase = "ladder"
        PROVE  /\ \A j \in Mul!Index : e[j] % 2 = 1 /\ Mul!Abs(e[j]) \div 2 \in 0..7
               /\ e[NumNibbles - 1] > 0
    <3>1. MulOnLadder
      BY <2>3 DEF MulInv
    <3>2. \A j \in Mul!Index : e[j] \in OddDigits
      BY <3>1, MulSizes DEF MulOnLadder
    <3>3. \A d \in OddDigits : d % 2 = 1 /\ Mul!Abs(d) \div 2 \in 0..7
      BY EntryIndex DEF OddDigits, Mul!Abs, Abs
    <3> QED
      BY <3>1, <3>2, <3>3 DEF MulOnLadder
  <2> QED
    BY <2>1, <2>2, <2>3 DEF Mul!TypeOK
<1>2. Mul!RecodingPreservesValue
  BY MulValues DEF Mul!RecodingPreservesValue, MulInv, MulRecoding, MulOnLadder, KeepsScalar
<1>3. Mul!LadderComputesMultiple
  BY MulValues DEF Mul!LadderComputesMultiple, MulInv, MulOnLadder
<1> QED
  BY <1>1, <1>2, <1>3
-------------------------------------------------------------------------------
(* lincomb.  What slide does to each of its two arrays is proved in SlideProofs,
   for any array: here for both. *)
S1 == INSTANCE SlideProofs WITH st <- s1
S2 == INSTANCE SlideProofs WITH k <- k2, st <- s2

LEMMA LinSlides ==
  /\ S1!SlideParameters /\ S2!SlideParameters
  /\ Lin!Slide1!Next => S1!Next
  /\ Lin!Slide2!Next => S2!Next
<1>1. NumBits \in Nat /\ NumBits > 1
  BY LaddersAssumption DEF Lin!LincombParameters
<1>2. Lin!Slide1!Next => S1!Next
  BY DEF Lin!Slide1!Next, Lin!Slide1!Scan, Lin!Slide1!Window, Lin!Slide1!Carry, Lin!Slide1!CloseWindow,
         Lin!Slide1!Shift, S1!Next, S1!Scan, S1!Window, S1!Carry, S1!CloseWindow, S1!Shift
<1>3. Lin!Slide2!Next => S2!Next
  BY DEF Lin!Slide2!Next, Lin!Slide2!Scan, Lin!Slide2!Window, Lin!Slide2!Carry, Lin!Slide2!CloseWindow,
         Lin!Slide2!Shift, S2!Next, S2!Scan, S2!Window, S2!Carry, S2!CloseWindow, S2!Shift
<1> QED
  BY <1>1, <1>2, <1>3 DEF S1!SlideParameters, S2!SlideParameters

LEMMA LinReads ==
  /\ \A r, j : /\ Lin!Slide1!ValueFrom(r, j) = S1!ValueFrom(r, j)
               /\ Lin!Slide2!ValueFrom(r, j) = S1!ValueFrom(r, j)
               /\ S2!ValueFrom(r, j) = S1!ValueFrom(r, j)
  /\ \A b : Lin!Slide1!Fresh(b) = S1!Fresh(b) /\ Lin!Slide2!Fresh(b) = S1!Fresh(b) /\ S2!Fresh(b) = S1!Fresh(b)
  /\ \A b : Lin!Slide1!Pow2(b) = S1!Pow2(b) /\ Lin!Slide2!Pow2(b) = S1!Pow2(b) /\ S2!Pow2(b) = S1!Pow2(b)
<1>1. \A r, j : Lin!Slide1!ValueFrom(r, j) = S1!ValueFrom(r, j)
  BY DEF Lin!Slide1!ValueFrom, Lin!Slide1!Values, S1!ValueFrom, S1!Values
<1>2. \A r, j : Lin!Slide2!ValueFrom(r, j) = S1!ValueFrom(r, j)
  BY DEF Lin!Slide2!ValueFrom, Lin!Slide2!Values, S1!ValueFrom, S1!Values
<1>3. \A r, j : S2!ValueFrom(r, j) = S1!ValueFrom(r, j)
  BY DEF S2!ValueFrom, S2!Values, S1!ValueFrom, S1!Values
<1>4. \A b : Lin!Slide1!Fresh(b) = S1!Fresh(b) /\ Lin!Slide2!Fresh(b) = S1!Fresh(b) /\ S2!Fresh(b) = S1!Fresh(b)
  BY DEF Lin!Slide1!Fresh, Lin!Slide2!Fresh, S1!Fresh, S2!Fresh, Lin!Slide1!Slots, Lin!Slide2!Slots, S1!Slots, S2!Slots
<1>5. \A b : Lin!Slide1!Pow2(b) = S1!Pow2(b) /\ Lin!Slide2!Pow2(b) = S1!Pow2(b) /\ S2!Pow2(b) = S1!Pow2(b)
  BY DEF Lin!Slide1!Pow2, Lin!Slide2!Pow2, S1!Pow2, S2!Pow2
<1> QED
  BY <1>1, <1>2, <1>3, <1>4, <1>5

(* Both arrays are well formed and stand for the numbers they were filled with. *)
BothSlides == S1!IInv /\ S2!IInv /\ S1!ValuePreserved /\ S2!ValuePreserved

BothDone == s1.at = "done" /\ s2.at = "done"

LinTyped ==
  /\ BothSlides
  /\ acc \in 0..(LinOrder - 1) /\ i \in -1..NumBits /\ p1 \in {0, 1} /\ p2 \in Seconds

(* What the digits from place j up ask for. *)
LinRead(r, x, s, y, j) == (S1!ValueFrom(r, j) * x + S1!ValueFrom(s, j) * y) % LinOrder

LinCombination == LinRead(S1!Fresh(k).r, p1, S1!Fresh(k2).r, p2, 0)

(* The slots above the one the scan has come to are zero. *)
LinScanned ==
  /\ BothDone /\ i \in 0..NumBits /\ acc = 0
  /\ \A j \in 0..NumBits : j > i => s1.r[j] = 0 /\ s2.r[j] = 0

LinInv ==
  /\ LinTyped
  /\ \/ /\ phase = "start" /\ i = NumBits /\ acc = 0
        /\ s1 = S1!Fresh(k) /\ s2 = S1!Fresh(k2)
     \/ phase = "slide1" /\ i = NumBits /\ acc = 0
     \/ phase = "slide2" /\ i = NumBits /\ acc = 0 /\ s1.at = "done"
     \/ phase = "scan" /\ LinScanned
     \/ phase = "ladder" /\ BothDone /\ acc = LinRead(s1.r, p1, s2.r, p2, i + 1)
     \/ phase = "done" /\ acc = LinCombination

LEMMA LinSizes ==
  /\ NumBits \in Nat /\ NumBits > 1 /\ LinOrder \in Nat /\ LinOrder > 30
  /\ \A x \in Seconds : x \in 0..(LinOrder - 1) /\ x \in Int
  /\ \A x \in SecondScalars : x \in 0..(LinOrder - 1)
<1>1. /\ NumBits \in Nat /\ NumBits > 1 /\ LinOrder \in Nat /\ LinOrder > 30
      /\ Seconds \subseteq 0..(LinOrder - 1) /\ SecondScalars \subseteq 0..(LinOrder - 1)
  BY LaddersAssumption DEF Lin!LincombParameters
<1> QED
  BY <1>1

LEMMA LinBits == ASSUME NEW x \in Nat PROVE Lin!BitsOf(x) \in S1!Scalars
<1>1. ASSUME NEW j \in 0..(NumBits - 1) PROVE (x \div Lin!Slide1!Pow2(j)) % 2 \in {0, 1}
  <2> DEFINE q == Lin!Slide1!Pow2(j)
             y == x \div q
  <2>1. q = PowerOf(2, j) /\ j \in Nat
    BY LinSizes DEF Lin!Slide1!Pow2, PowerOf
  <2>2. q \in Nat /\ q > 0
    <3>1. PowerOf(2, j) \in Nat \ {0}
      BY <2>1, PowerUnfolded
    <3> HIDE DEF q
    <3> QED
      BY <2>1, <3>1
  <2> HIDE DEF q
  <2>3. y \in Nat
    BY <2>2, NatDivision
  <2> HIDE DEF y
  <2>4. y % 2 \in {0, 1}
    BY <2>3
  <2> QED
    BY <2>4 DEF y, q
<1> QED
  BY <1>1 DEF Lin!BitsOf, S1!Scalars

LEMMA SlidesStart ==
  ASSUME S1!SlideParameters, S2!SlideParameters, k \in S1!Scalars, k2 \in S1!Scalars,
         s1 = S1!Fresh(k), s2 = S1!Fresh(k2)
  PROVE  BothSlides
<1>1. S1!Init
  BY DEF S1!Init
<1>2. S2!Init
  BY LinReads DEF S2!Init, S1!Scalars, S2!Scalars
<1> QED
  BY <1>1, <1>2, S1!InitialInv, S2!InitialInv, S1!FreshValue, S2!FreshValue DEF BothSlides

LEMMA LinInitial ==
  ASSUME Lin!Init
  PROVE  LinInv
<1>1. k \in S1!Scalars /\ k2 \in S1!Scalars
  <2>1. \A x \in 0..(LinOrder - 1) : x \in Nat
    BY LinSizes
  <2> QED
    BY <2>1, LinSizes, LinBits DEF Lin!Init
<1>2. s1 = S1!Fresh(k) /\ s2 = S1!Fresh(k2)
  BY LinReads DEF Lin!Init
<1>3. BothSlides
  BY <1>1, <1>2, LinSlides, SlidesStart
<1>4. phase = "start" /\ i = NumBits /\ acc = 0 /\ p1 \in {0, 1} /\ p2 \in Seconds
  BY DEF Lin!Init
<1>5. 0 \in 0..(LinOrder - 1) /\ NumBits \in -1..NumBits
  BY LinSizes
<1> QED
  BY <1>2, <1>3, <1>4, <1>5 DEF LinInv, LinTyped

(* A slide that rests keeps what is known of it. *)
LEMMA SlidesRest ==
  ASSUME BothSlides
  PROVE  /\ k' = k /\ s1' = s1 => S1!IInv' /\ S1!ValuePreserved'
         /\ k2' = k2 /\ s2' = s2 => S2!IInv' /\ S2!ValuePreserved'
<1>1. ASSUME k' = k, s1' = s1 PROVE S1!IInv' /\ S1!ValuePreserved'
  BY <1>1 DEF BothSlides, S1!IInv, S1!ValuePreserved
<1>2. ASSUME k2' = k2, s2' = s2 PROVE S2!IInv' /\ S2!ValuePreserved'
  BY <1>2 DEF BothSlides, S2!IInv, S2!ValuePreserved
<1> QED
  BY <1>1, <1>2

(* What the digits of the two arrays are, and how they are read. *)
LEMMA LinDigits ==
  ASSUME BothSlides
  PROVE  /\ \A j \in 0..NumBits : s1.r[j] \in S1!Digits /\ s2.r[j] \in S1!Digits
         /\ \A j \in 0..NumBits :
              /\ S1!ValueFrom(s1.r, j) = s1.r[j] + 2 * S1!ValueFrom(s1.r, j + 1)
              /\ S1!ValueFrom(s2.r, j) = s2.r[j] + 2 * S1!ValueFrom(s2.r, j + 1)
         /\ \A j \in 0..(NumBits + 1) : S1!ValueFrom(s1.r, j) \in Int /\ S1!ValueFrom(s2.r, j) \in Int
         /\ s1.r \in [0..NumBits -> Int] /\ s2.r \in [0..NumBits -> Int]
<1>1. S1!Slots = 0..NumBits /\ S2!Slots = 0..NumBits /\ S1!Digits = S2!Digits
  BY DEF S1!Slots, S2!Slots, S1!Digits, S2!Digits
<1>2. /\ s1.r \in [S1!Slots -> Int] /\ \A j \in S1!Slots : s1.r[j] \in S1!Digits
      /\ s2.r \in [S2!Slots -> Int] /\ \A j \in S2!Slots : s2.r[j] \in S2!Digits
  BY LinSlides, S1!SlotsAreDigits, S2!SlotsAreDigits DEF BothSlides
<1>3. /\ \A j \in S1!Slots : S1!ValueFrom(s1.r, j) = s1.r[j] + 2 * S1!ValueFrom(s1.r, j + 1)
      /\ \A j \in 0..(NumBits + 1) : S1!ValueFrom(s1.r, j) \in Int
  BY <1>2, LinSlides, S1!ValuesUnfolded
<1>4. /\ \A j \in S1!Slots : S1!ValueFrom(s2.r, j) = s2.r[j] + 2 * S1!ValueFrom(s2.r, j + 1)
      /\ \A j \in 0..(NumBits + 1) : S1!ValueFrom(s2.r, j) \in Int
  <2>1. s2.r \in [S1!Slots -> Int]
    BY <1>1, <1>2
  <2> QED
    BY <2>1, LinSlides, S1!ValuesUnfolded
<1> QED
  BY <1>1, <1>2, <1>3, <1>4

(* A finished array stands for its scalar. *)
LEMMA LinFinished ==
  ASSUME BothSlides
  PROVE  /\ s1.at = "done" => S1!ValueFrom(S1!Fresh(k).r, 0) = S1!ValueFrom(s1.r, 0)
         /\ s2.at = "done" => S1!ValueFrom(S1!Fresh(k2).r, 0) = S1!ValueFrom(s2.r, 0)
<1>1. S1!ValueFrom(s1.r, 0) \in Int /\ S1!ValueFrom(s2.r, 0) \in Int
  <2>1. 0 \in 0..(NumBits + 1)
    BY LinSizes
  <2> QED
    BY <2>1, LinDigits
<1>2. ASSUME s1.at = "done" PROVE S1!ValueFrom(S1!Fresh(k).r, 0) = S1!ValueFrom(s1.r, 0) + 0
  BY <1>2 DEF BothSlides, S1!ValuePreserved
<1>3. ASSUME s2.at = "done" PROVE S1!ValueFrom(S1!Fresh(k2).r, 0) = S1!ValueFrom(s2.r, 0) + 0
  BY <1>3, LinReads DEF BothSlides, S2!ValuePreserved
<1> QED
  BY <1>1, <1>2, <1>3

(* A zero scalar stands for zero. *)
LEMMA LinZeroScalar ==
  ASSUME NEW b \in S1!Scalars, Lin!IsZero(b)
  PROVE  S1!ValueFrom(S1!Fresh(b).r, 0) = 0
<1> DEFINE r == S1!Fresh(b).r
<1>1. \A j \in 0..(NumBits - 1) : b[j] = 0
  BY DEF Lin!IsZero, S1!Scalars
<1>2. r \in [S1!Slots -> {0, 1}] /\ \A j \in S1!Slots : r[j] = 0
  BY <1>1, LinSlides, S1!FreshNumber
<1> HIDE DEF r
<1>3. r \in [S1!Slots -> Int]
  <2>1. \A j \in S1!Slots : r[j] \in Int
    BY <1>2
  <2> QED
    BY <1>2, <2>1
<1>4. 0 \in 0..(NumBits + 1) /\ \A j \in S1!Slots : j >= 0 => r[j] = 0
  BY <1>2, LinSizes
<1> DEFINE z == 0
<1>5. z \in 0..(NumBits + 1) /\ \A j \in S1!Slots : j >= z => r[j] = 0
  BY <1>4
<1> HIDE DEF z
<1>6. S1!ValueFrom(r, z) = 0
  BY <1>3, <1>5, LinSlides, S1!ZerosStandForZero
<1> QED
  BY <1>6 DEF r, z

LEMMA LinStarts ==
  ASSUME LinInv, Lin!Start
  PROVE  LinInv'
<1> DEFINE x == S1!ValueFrom(S1!Fresh(k).r, 0)
           y == S1!ValueFrom(S1!Fresh(k2).r, 0)
           none1 == Lin!IsZero(k) \/ p1 = 0
           none2 == Lin!IsZero(k2) \/ p2 = 0
<1>1. /\ phase = "start" /\ i = NumBits /\ acc = 0 /\ s1 = S1!Fresh(k) /\ s2 = S1!Fresh(k2) /\ LinTyped
      /\ k' = k /\ k2' = k2 /\ s1' = s1 /\ s2' = s2 /\ p1' = p1 /\ p2' = p2 /\ i' = i
  BY DEF LinInv, Lin!Start
<1>2. BothSlides /\ BothSlides' /\ p1 \in {0, 1} /\ p2 \in 0..(LinOrder - 1) /\ p2 \in Seconds
  BY <1>1, SlidesRest, LinSizes DEF LinTyped, BothSlides
<1>3. x \in Int /\ y \in Int
  <2>1. 0 \in 0..(NumBits + 1)
    BY LinSizes
  <2>2. S1!ValueFrom(s1.r, 0) \in Int /\ S1!ValueFrom(s2.r, 0) \in Int
    BY <1>2, <2>1, LinDigits
  <2> QED
    BY <1>1, <2>2
<1>4. /\ none1 => x * p1 = 0
      /\ none2 => y * p2 = 0
  <2>1. k \in S1!Scalars /\ k2 \in S1!Scalars
    BY <1>2 DEF BothSlides, S1!IInv, S2!IInv, S1!Scalars, S2!Scalars
  <2>2. (Lin!IsZero(k) => x = 0) /\ (Lin!IsZero(k2) => y = 0)
    BY <2>1, LinZeroScalar
  <2> HIDE DEF x, y
  <2> QED
    BY <1>2, <1>3, <2>2
<1>5. /\ none1 /\ none2 => phase' = "done" /\ acc' = 0
      /\ none1 /\ ~none2 => phase' = "done" /\ acc' = (y * p2) % LinOrder
      /\ ~none1 /\ none2 => phase' = "done" /\ acc' = (x * p1) % LinOrder
      /\ ~none1 /\ ~none2 => phase' = "slide1" /\ acc' = acc
  BY <1>1, LinReads DEF Lin!Start, Lin!Number
<1> DEFINE u == x * p1
           w == y * p2
<1>6. u \in Int /\ w \in Int
  <2> HIDE DEF x, y
  <2> QED
    BY <1>2, <1>3
<1>7. LinCombination' = (u + w) % LinOrder
  BY <1>1 DEF LinCombination, LinRead
<1>8. CASE none1 \/ none2
  <2>1. phase' = "done" /\ acc' = (u + w) % LinOrder
    <3> HIDE DEF x, y, u, w, none1, none2
    <3>1. 0 % LinOrder = 0
      BY LinSizes, Remainder
    <3>2. CASE none1 /\ none2
      <4>1. u + w = 0 /\ phase' = "done" /\ acc' = 0
        BY <1>4, <1>5, <3>2 DEF u, w
      <4> QED
        BY <3>1, <4>1
    <3>3. CASE none1 /\ ~none2
      <4>1. u + w = w /\ phase' = "done" /\ acc' = w % LinOrder
        <5>1. u = 0
          BY <1>4, <3>3 DEF u
        <5> QED
          BY <1>5, <1>6, <3>3, <5>1 DEF w
      <4> QED
        BY <4>1
    <3>4. CASE ~none1 /\ none2
      <4>1. u + w = u /\ phase' = "done" /\ acc' = u % LinOrder
        <5>1. w = 0
          BY <1>4, <3>4 DEF w
        <5> QED
          BY <1>5, <1>6, <3>4, <5>1 DEF u
      <4> QED
        BY <4>1
    <3> QED
      BY <1>8, <3>2, <3>3, <3>4
  <2>2. (u + w) % LinOrder \in 0..(LinOrder - 1)
    <3> DEFINE z == u + w
    <3>1. z \in Int
      <4> HIDE DEF u, w
      <4> QED
        BY <1>6
    <3> HIDE DEF z
    <3>2. z % LinOrder \in 0..(LinOrder - 1)
      BY <3>1, LinSizes, Remainder
    <3> QED
      BY <3>2 DEF z
  <2>3. LinTyped'
    BY <1>1, <1>2, <2>1, <2>2 DEF LinTyped
  <2> HIDE DEF u, w
  <2> QED
    BY <1>7, <2>1, <2>3 DEF LinInv
<1>9. CASE ~(none1 \/ none2)
  <2>1. phase' = "slide1" /\ acc' = acc
    BY <1>5, <1>9
  <2> QED
    BY <1>1, <1>2, <2>1 DEF LinInv, LinTyped
<1> QED
  BY <1>8, <1>9

LEMMA LinSlides1 ==
  ASSUME LinInv, Lin!RunSlide1
  PROVE  LinInv'
<1>1. /\ phase = "slide1" /\ i = NumBits /\ acc = 0 /\ LinTyped
      /\ k2' = k2 /\ s2' = s2 /\ p1' = p1 /\ p2' = p2 /\ i' = i /\ acc' = acc
  BY DEF LinInv, Lin!RunSlide1
<1>2. BothSlides /\ S2!IInv' /\ S2!ValuePreserved'
  BY <1>1, SlidesRest DEF LinTyped
<1>3. CASE Lin!Slide1!Next /\ UNCHANGED phase
  <2>1. S1!IInv' /\ S1!ValuePreserved'
    BY <1>2, <1>3, LinSlides, S1!StepKeepsInv, S1!StepKeepsValue DEF BothSlides
  <2> QED
    BY <1>1, <1>2, <1>3, <2>1 DEF LinInv, LinTyped, BothSlides
<1>4. CASE s1.at = "done" /\ phase' = "slide2" /\ UNCHANGED <<k, s1>>
  <2>1. S1!IInv' /\ S1!ValuePreserved' /\ s1'.at = "done"
    BY <1>2, <1>4, SlidesRest
  <2> QED
    BY <1>1, <1>2, <1>4, <2>1 DEF LinInv, LinTyped, BothSlides
<1> QED
  BY <1>3, <1>4 DEF Lin!RunSlide1

LEMMA LinSlides2 ==
  ASSUME LinInv, Lin!RunSlide2
  PROVE  LinInv'
<1>1. /\ phase = "slide2" /\ i = NumBits /\ acc = 0 /\ LinTyped /\ s1.at = "done"
      /\ k' = k /\ s1' = s1 /\ p1' = p1 /\ p2' = p2 /\ i' = i /\ acc' = acc
  BY DEF LinInv, Lin!RunSlide2
<1>2. BothSlides /\ S1!IInv' /\ S1!ValuePreserved'
  BY <1>1, SlidesRest DEF LinTyped
<1>3. CASE Lin!Slide2!Next /\ UNCHANGED phase
  <2>1. S2!IInv' /\ S2!ValuePreserved'
    BY <1>2, <1>3, LinSlides, S2!StepKeepsInv, S2!StepKeepsValue DEF BothSlides
  <2> QED
    BY <1>1, <1>2, <1>3, <2>1 DEF LinInv, LinTyped, BothSlides
<1>4. CASE s2.at = "done" /\ phase' = "scan" /\ UNCHANGED <<k2, s2>>
  <2>1. S2!IInv' /\ S2!ValuePreserved' /\ s2'.at = "done"
    BY <1>2, <1>4, SlidesRest
  <2>2. NumBits \in 0..NumBits /\ \A j \in 0..NumBits : ~(j > NumBits)
    BY LinSizes
  <2> QED
    BY <1>1, <1>2, <1>4, <2>1, <2>2 DEF LinInv, LinTyped, BothSlides, LinScanned, BothDone
<1> QED
  BY <1>3, <1>4 DEF Lin!RunSlide2

(* Nothing above the slot where the scan stops is left out. *)
LEMMA LinScans ==
  ASSUME LinInv, Lin!ScanTop
  PROVE  LinInv'
<1>1. /\ phase = "scan" /\ LinTyped /\ LinScanned
      /\ k' = k /\ k2' = k2 /\ s1' = s1 /\ s2' = s2 /\ p1' = p1 /\ p2' = p2 /\ acc' = acc
  BY DEF LinInv, Lin!ScanTop
<1>2. BothSlides /\ BothSlides' /\ i \in 0..NumBits /\ acc = 0 /\ NumBits \in Nat
  BY <1>1, SlidesRest, LinSizes DEF LinTyped, BothSlides, LinScanned
<1>3. CASE i > 0 /\ s1.r[i] = 0 /\ s2.r[i] = 0
  <2>1. i' = i - 1 /\ phase' = phase /\ i - 1 \in 0..NumBits /\ i - 1 \in -1..NumBits
    BY <1>2, <1>3 DEF Lin!ScanTop
  <2>2. \A j \in 0..NumBits : j > i - 1 => s1.r[j] = 0 /\ s2.r[j] = 0
    <3>1. \A j \in 0..NumBits : j > i - 1 => j = i \/ j > i
      BY <1>2
    <3> QED
      BY <1>1, <1>3, <3>1 DEF LinScanned
  <2>3. LinScanned'
    BY <1>1, <2>1, <2>2 DEF LinScanned, BothDone
  <2> QED
    BY <1>1, <1>2, <2>1, <2>3 DEF LinInv, LinTyped
<1>4. CASE ~(i > 0 /\ s1.r[i] = 0 /\ s2.r[i] = 0)
  <2>1. i' = i /\ phase' = "ladder"
    BY <1>4 DEF Lin!ScanTop
  <2> DEFINE j == i + 1
  <2>2. j \in 0..(NumBits + 1) /\ \A g \in S1!Slots : g >= j => s1.r[g] = 0 /\ s2.r[g] = 0
    BY <1>1, <1>2 DEF S1!Slots, LinScanned
  <2>3. s1.r \in [S1!Slots -> Int] /\ s2.r \in [S1!Slots -> Int]
    BY <1>2, LinDigits DEF S1!Slots
  <2> HIDE DEF j
  <2>4. S1!ValueFrom(s1.r, j) = 0 /\ S1!ValueFrom(s2.r, j) = 0
    BY <2>2, <2>3, LinSlides, S1!ZerosStandForZero
  <2>5. LinRead(s1.r, p1, s2.r, p2, j) = acc
    <3>1. 0 * p1 + 0 * p2 = 0 /\ 0 % LinOrder = 0
      <4>1. p1 \in Int /\ p2 \in Int
        BY <1>1, LinSizes DEF LinTyped
      <4> QED
        BY <4>1, LinSizes, Remainder
    <3> QED
      BY <1>2, <2>4, <3>1 DEF LinRead
  <2>6. i' + 1 = j /\ i' \in -1..NumBits
    BY <1>2, <2>1 DEF j
  <2> QED
    BY <1>1, <1>2, <2>1, <2>5, <2>6 DEF LinInv, LinTyped, LinScanned, BothDone
<1> QED
  BY <1>3, <1>4

(* The two entries that a turn adds. *)
LEMMA LinEntry ==
  ASSUME NEW d \in S1!Digits, NEW p \in Int
  PROVE  Lin!Selected(d, p) \in Int /\ Same(LinOrder, Lin!Selected(d, p), d * p)
<1> DEFINE x == Lin!Selected(d, p)
<1>1. CASE d = 0
  <2>1. x = 0 /\ d * p = 0
    BY <1>1 DEF Lin!Selected
  <2> HIDE DEF x
  <2> QED
    BY <2>1 DEF x, Same
<1>2. CASE d # 0
  <2>1. d \in OddDigits
    BY <1>2 DEF S1!Digits, OddDigits
  <2>2. 2 * (Lin!Abs(d) \div 2) + 1 = Abs(d) /\ Lin!Abs(d) = Abs(d)
    <3>1. Lin!Abs(d) = Abs(d)
      BY DEF Lin!Abs, Abs
    <3> QED
      BY <2>1, <3>1, EntryIndex
  <2>3. x = IF d > 0 THEN (Abs(d) * p) % LinOrder
            ELSE (LinOrder - ((Abs(d) * p) % LinOrder)) % LinOrder
    BY <1>2, <2>2 DEF Lin!Selected
  <2> HIDE DEF x
  <2>4. x \in 0..(LinOrder - 1) /\ Same(LinOrder, x, d * p)
    BY <2>1, <2>3, LinSizes, SignedEntry
  <2> QED
    BY <2>4, LinSizes DEF x
<1> QED
  BY <1>1, <1>2

LEMMA LinClimbs ==
  ASSUME LinInv, Lin!Ladder
  PROVE  LinInv'
<1>1. /\ phase = "ladder" /\ LinTyped /\ BothDone /\ acc = LinRead(s1.r, p1, s2.r, p2, i + 1)
      /\ k' = k /\ k2' = k2 /\ s1' = s1 /\ s2' = s2 /\ p1' = p1 /\ p2' = p2
  BY DEF LinInv, Lin!Ladder
<1>2. /\ BothSlides /\ BothSlides' /\ i \in -1..NumBits /\ NumBits \in Nat /\ p1 \in Int /\ p2 \in Int
      /\ acc \in 0..(LinOrder - 1) /\ LinOrder \in Nat /\ LinOrder > 0
  BY <1>1, SlidesRest, LinSizes DEF LinTyped, BothSlides
<1>3. CASE i < 0
  <2>1. phase' = "done" /\ i' = i /\ acc' = acc /\ i + 1 = 0
    BY <1>2, <1>3 DEF Lin!Ladder
  <2>2. LinRead(s1.r, p1, s2.r, p2, 0) = LinCombination /\ LinCombination' = LinCombination
    BY <1>1, <1>2, LinFinished DEF LinRead, LinCombination, BothDone
  <2> QED
    BY <1>1, <1>2, <2>1, <2>2 DEF LinInv, LinTyped
<1>4. CASE ~(i < 0)
  <2> DEFINE d1 == s1.r[i]
             d2 == s2.r[i]
             v1 == S1!ValueFrom(s1.r, i + 1)
             v2 == S1!ValueFrom(s2.r, i + 1)
             x  == Lin!Selected(d1, p1)
             y  == Lin!Selected(d2, p2)
  <2>1. /\ i' = i - 1 /\ phase' = phase /\ i - 1 \in -1..NumBits /\ (i - 1) + 1 = i /\ i \in 0..NumBits
        /\ i + 1 \in 0..(NumBits + 1) /\ acc' = (2 * acc + x + y) % LinOrder
    BY <1>2, <1>4 DEF Lin!Ladder
  <2>2. /\ S1!ValueFrom(s1.r, i) = d1 + 2 * v1 /\ S1!ValueFrom(s2.r, i) = d2 + 2 * v2
        /\ d1 \in S1!Digits /\ d2 \in S1!Digits /\ v1 \in Int /\ v2 \in Int
    BY <1>2, <2>1, LinDigits
  <2>3. d1 \in Int /\ d2 \in Int
    BY <2>2 DEF S1!Digits
  <2>4. /\ x \in Int /\ Same(LinOrder, x, d1 * p1)
        /\ y \in Int /\ Same(LinOrder, y, d2 * p2)
    BY <1>2, <2>2, LinEntry
  <2>5. acc = (v1 * p1 + v2 * p2) % LinOrder
    BY <1>1 DEF LinRead
  <2>6. LinRead(s1.r, p1, s2.r, p2, i) = ((d1 + 2 * v1) * p1 + (d2 + 2 * v2) * p2) % LinOrder
    BY <2>2 DEF LinRead
  <2> HIDE DEF d1, d2, v1, v2, x, y
  <2>7. /\ (2 * ((v1 * p1 + v2 * p2) % LinOrder) + x + y) % LinOrder
             = ((d1 + 2 * v1) * p1 + (d2 + 2 * v2) * p2) % LinOrder
        /\ ((d1 + 2 * v1) * p1 + (d2 + 2 * v2) * p2) % LinOrder \in 0..(LinOrder - 1)
    BY <1>2, <2>2, <2>3, <2>4, JointTurn, Zenon
  <2>8. acc' = LinRead(s1.r, p1, s2.r, p2, i) /\ acc' \in 0..(LinOrder - 1)
    BY <2>1, <2>5, <2>6, <2>7
  <2> QED
    BY <1>1, <1>2, <2>1, <2>8 DEF LinInv, LinTyped, BothDone
<1> QED
  BY <1>3, <1>4

LEMMA LinSteps ==
  ASSUME LinInv, Lin!Next
  PROVE  LinInv'
BY LinStarts, LinSlides1, LinSlides2, LinScans, LinClimbs DEF Lin!Next

(* What the invariant says: each recoding stays inside its array and keeps its
   number, and the accumulator is the combination for what was read. *)
LEMMA LinGoals ==
  ASSUME LinInv
  PROVE  /\ Lin!TypeOK /\ Lin!Slide1!TypeOK /\ Lin!Slide2!TypeOK
         /\ Lin!Slide1!ValuePreserved /\ Lin!Slide2!ValuePreserved
         /\ Lin!ComputesCombination
<1>1. BothSlides /\ LinTyped
  BY DEF LinInv, LinTyped
<1>2. Lin!Slide1!TypeOK
  <2>1. S1!TypeOK
    BY <1>1, LinSlides, S1!InvTyped DEF BothSlides
  <2> QED
    BY <2>1 DEF S1!TypeOK, Lin!Slide1!TypeOK, S1!Scalars, Lin!Slide1!Scalars, S1!Slots, Lin!Slide1!Slots,
                S1!Digits, Lin!Slide1!Digits
<1>3. Lin!Slide2!TypeOK
  <2>1. S2!TypeOK
    BY <1>1, LinSlides, S2!InvTyped DEF BothSlides
  <2> QED
    BY <2>1 DEF S2!TypeOK, Lin!Slide2!TypeOK, S2!Scalars, Lin!Slide2!Scalars, S2!Slots, Lin!Slide2!Slots,
                S2!Digits, Lin!Slide2!Digits
<1>4. Lin!Slide1!ValuePreserved
  BY <1>1, LinReads DEF BothSlides, S1!ValuePreserved, Lin!Slide1!ValuePreserved
<1>5. Lin!Slide2!ValuePreserved
  BY <1>1, LinReads DEF BothSlides, S2!ValuePreserved, Lin!Slide2!ValuePreserved
<1>6. Lin!TypeOK
  <2>1. ASSUME NEW d \in S1!Digits PROVE Lin!Abs(d) \div 2 \in 0..7
    <3>1. CASE d = 0
      BY <3>1 DEF Lin!Abs
    <3>2. CASE d # 0
      <4>1. d \in OddDigits /\ Lin!Abs(d) = Abs(d)
        BY <3>2 DEF S1!Digits, OddDigits, Lin!Abs, Abs
      <4> QED
        BY <4>1, EntryIndex
    <3> QED
      BY <3>1, <3>2
  <2>2. \A j \in 0..NumBits : {Lin!Abs(s1.r[j]) \div 2, Lin!Abs(s2.r[j]) \div 2} \subseteq 0..7
    BY <1>1, <2>1, LinDigits
  <2> QED
    BY <2>2 DEF Lin!TypeOK, LinInv, LinTyped
<1>7. Lin!ComputesCombination
  BY LinReads DEF Lin!ComputesCombination, Lin!From, Lin!Number, LinInv, LinRead, LinCombination
<1> QED
  BY <1>2, <1>3, <1>4, <1>5, <1>6, <1>7
-------------------------------------------------------------------------------
(* The ladders on Cortex-M4, which slide_257 recodes for: k Q, and verify's sum. *)
U1 == INSTANCE SlideProofs WITH NumBits <- SlideBits, st <- s1
U2 == INSTANCE SlideProofs WITH NumBits <- SlideBits, k <- k2, st <- s2

LEMMA M4Sizes ==
  /\ SlideBits \in Nat /\ SlideBits > 1 /\ SlideOrder \in Nat /\ SlideOrder > 30
  /\ \A x \in BasePoints : x \in 1..(SlideOrder - 1)
  /\ \A x \in PartnerScalars : x \in 0..(SlideOrder - 1)
  /\ \A j \in 0..7, x \in 1..(SlideOrder - 1) : ((2 * j + 1) * x) % SlideOrder # 0
<1>1. /\ SlideBits \in Nat /\ SlideBits > 1 /\ SlideOrder \in Nat /\ SlideOrder > 30
      /\ BasePoints \subseteq 1..(SlideOrder - 1) /\ PartnerScalars \subseteq 0..(SlideOrder - 1)
      /\ \A j \in 0..7, x \in 1..(SlideOrder - 1) : ((2 * j + 1) * x) % SlideOrder # 0
  BY LaddersAssumption DEF M4!CortexParameters
<1> QED
  BY <1>1

LEMMA M4Slides ==
  /\ U1!SlideParameters /\ U2!SlideParameters
  /\ M4!Slide1!Next => U1!Next
  /\ M4!Slide2!Next => U2!Next
<1>1. M4!Slide1!Next => U1!Next
  BY DEF M4!Slide1!Next, M4!Slide1!Scan, M4!Slide1!Window, M4!Slide1!Carry, M4!Slide1!CloseWindow,
         M4!Slide1!Shift, U1!Next, U1!Scan, U1!Window, U1!Carry, U1!CloseWindow, U1!Shift
<1>2. M4!Slide2!Next => U2!Next
  BY DEF M4!Slide2!Next, M4!Slide2!Scan, M4!Slide2!Window, M4!Slide2!Carry, M4!Slide2!CloseWindow,
         M4!Slide2!Shift, U2!Next, U2!Scan, U2!Window, U2!Carry, U2!CloseWindow, U2!Shift
<1> QED
  BY <1>1, <1>2, M4Sizes DEF U1!SlideParameters, U2!SlideParameters

LEMMA M4Reads ==
  /\ \A r, j : /\ M4!Slide1!ValueFrom(r, j) = U1!ValueFrom(r, j)
               /\ M4!Slide2!ValueFrom(r, j) = U1!ValueFrom(r, j)
               /\ U2!ValueFrom(r, j) = U1!ValueFrom(r, j)
  /\ \A b : M4!Slide1!Fresh(b) = U1!Fresh(b) /\ M4!Slide2!Fresh(b) = U1!Fresh(b) /\ U2!Fresh(b) = U1!Fresh(b)
  /\ \A b : M4!Slide1!Pow2(b) = U1!Pow2(b) /\ M4!Slide2!Pow2(b) = U1!Pow2(b) /\ U2!Pow2(b) = U1!Pow2(b)
<1>1. \A r, j : M4!Slide1!ValueFrom(r, j) = U1!ValueFrom(r, j)
  BY DEF M4!Slide1!ValueFrom, M4!Slide1!Values, U1!ValueFrom, U1!Values
<1>2. \A r, j : M4!Slide2!ValueFrom(r, j) = U1!ValueFrom(r, j)
  BY DEF M4!Slide2!ValueFrom, M4!Slide2!Values, U1!ValueFrom, U1!Values
<1>3. \A r, j : U2!ValueFrom(r, j) = U1!ValueFrom(r, j)
  BY DEF U2!ValueFrom, U2!Values, U1!ValueFrom, U1!Values
<1>4. \A b : M4!Slide1!Fresh(b) = U1!Fresh(b) /\ M4!Slide2!Fresh(b) = U1!Fresh(b) /\ U2!Fresh(b) = U1!Fresh(b)
  BY DEF M4!Slide1!Fresh, M4!Slide2!Fresh, U1!Fresh, U2!Fresh, M4!Slide1!Slots, M4!Slide2!Slots, U1!Slots,
         U2!Slots
<1>5. \A b : M4!Slide1!Pow2(b) = U1!Pow2(b) /\ M4!Slide2!Pow2(b) = U1!Pow2(b) /\ U2!Pow2(b) = U1!Pow2(b)
  BY DEF M4!Slide1!Pow2, M4!Slide2!Pow2, U1!Pow2, U2!Pow2
<1> QED
  BY <1>1, <1>2, <1>3, <1>4, <1>5

BothSlides257 == U1!IInv /\ U2!IInv /\ U1!ValuePreserved /\ U2!ValuePreserved

(* What the digits from place j up ask for: of Q, and of the base point. *)
M4Read(r, x, s, j) == (U1!ValueFrom(r, j) * x + U1!ValueFrom(s, j)) % SlideOrder

M4Combination == M4Read(U1!Fresh(k).r, p2, U1!Fresh(k2).r, 0)

SomeBit(b) == \E j \in 0..(SlideBits - 1) : b[j] # 0

(* k Q leaves the second array as it was filled, with zeros. *)
Alone == s2 = U1!Fresh(k2) /\ \A j \in 0..SlideBits : s2.r[j] = 0

M4Typed ==
  /\ BothSlides257
  /\ form \in {"variable", "joint"} /\ (form = "variable" => Alone)
  /\ acc \in 0..(SlideOrder - 1) /\ i \in -1..SlideBits /\ p2 \in 1..(SlideOrder - 1)

M4Recoded == s1.at = "done" /\ (form = "joint" => s2.at = "done")

M4Scanned ==
  /\ i \in 0..SlideBits /\ acc = 0
  /\ \A j \in 0..SlideBits : j > i => s1.r[j] = 0 /\ s2.r[j] = 0

M4Inv ==
  /\ M4Typed
  /\ \/ /\ phase = "start" /\ i = SlideBits /\ acc = 0
        /\ s1 = U1!Fresh(k) /\ s2 = U1!Fresh(k2)
     \/ /\ phase = "slide1" /\ i = SlideBits /\ acc = 0
        /\ form = "variable" => SomeBit(k)
     \/ phase = "slide2" /\ i = SlideBits /\ acc = 0 /\ form = "joint" /\ s1.at = "done"
     \/ /\ phase = "scan" /\ M4Recoded /\ M4Scanned
        /\ form = "variable" => SomeBit(k)
     \/ phase = "ladder" /\ M4Recoded /\ acc = M4Read(s1.r, p2, s2.r, i + 1)
     \/ phase = "done" /\ acc = M4Combination

LEMMA M4Bits == ASSUME NEW x \in Nat PROVE M4!SlideScalar(x) \in U1!Scalars
<1>1. ASSUME NEW j \in 0..(SlideBits - 1) PROVE (x \div M4!Pow2(j)) % 2 \in {0, 1}
  <2> DEFINE q == M4!Pow2(j)
             y == x \div q
  <2>1. q = PowerOf(2, j) /\ j \in Nat
    BY M4Sizes DEF M4!Pow2, M4!Slide1!Pow2, PowerOf
  <2>2. q \in Nat /\ q > 0
    <3>1. PowerOf(2, j) \in Nat \ {0}
      BY <2>1, PowerUnfolded
    <3> HIDE DEF q
    <3> QED
      BY <2>1, <3>1
  <2> HIDE DEF q
  <2>3. y \in Nat
    BY <2>2, NatDivision
  <2> HIDE DEF y
  <2>4. y % 2 \in {0, 1}
    BY <2>3
  <2> QED
    BY <2>4 DEF y, q
<1> QED
  BY <1>1 DEF M4!SlideScalar, M4!BitsOf, U1!Scalars

LEMMA M4ZeroBits == \A j \in 0..(SlideBits - 1) : M4!SlideScalar(0)[j] = 0
<1> SUFFICES ASSUME NEW j \in 0..(SlideBits - 1) PROVE (0 \div M4!Pow2(j)) % 2 = 0
  BY DEF M4!SlideScalar, M4!BitsOf
<1> DEFINE q == M4!Pow2(j)
<1>1. q = PowerOf(2, j) /\ j \in Nat
  BY M4Sizes DEF M4!Pow2, M4!Slide1!Pow2, PowerOf
<1>2. q \in Nat /\ q > 0
  <2>1. PowerOf(2, j) \in Nat \ {0}
    BY <1>1, PowerUnfolded
  <2> HIDE DEF q
  <2> QED
    BY <1>1, <2>1
<1> HIDE DEF q
<1> DEFINE z == 0
<1>3. z \in Int /\ z \in 0..(q - 1) /\ z = q * z + z
  BY <1>2
<1> HIDE DEF z
<1>4. z \div q = z
  BY <1>2, <1>3, DivisionUnique
<1> QED
  BY <1>4 DEF z, q

LEMMA M4Initial ==
  ASSUME M4!Init, form \in {"variable", "joint"}
  PROVE  M4Inv
<1>1. M4!SlideInit
  BY DEF M4!Init, M4!FixedInit, M4!InverseInit
<1>2. k \in U1!Scalars /\ k2 \in U1!Scalars
  <2>1. \E x \in Nat : k = M4!SlideScalar(x)
    <3>1. \A x \in (IF form = "joint" THEN 1 ELSE 0)..(SlideOrder - 1) : x \in Nat
      OBVIOUS
    <3> QED
      BY <1>1, <3>1 DEF M4!SlideInit
  <2>2. \E x \in Nat : k2 = M4!SlideScalar(x)
    <3>1. \A x \in (IF form = "joint" THEN PartnerScalars ELSE {0}) : x \in Nat
      BY M4Sizes
    <3> QED
      BY <1>1, <3>1 DEF M4!SlideInit
  <2> QED
    BY <2>1, <2>2, M4Bits
<1>3. /\ s1 = U1!Fresh(k) /\ s2 = U1!Fresh(k2) /\ phase = "start" /\ i = SlideBits /\ acc = 0
      /\ p2 \in 1..(SlideOrder - 1)
  BY <1>1, M4Reads, M4Sizes DEF M4!SlideInit
<1>4. BothSlides257
  <2>1. U1!Init
    BY <1>2, <1>3 DEF U1!Init
  <2>2. U2!Init
    BY <1>2, <1>3, M4Reads DEF U2!Init, U1!Scalars, U2!Scalars
  <2> QED
    BY <2>1, <2>2, M4Slides, U1!InitialInv, U2!InitialInv, U1!FreshValue, U2!FreshValue
       DEF BothSlides257
<1>5. ASSUME form = "variable" PROVE Alone
  <2>1. k2 = M4!SlideScalar(0)
    BY <1>1, <1>5 DEF M4!SlideInit
  <2>2. \A j \in U1!Slots : U1!Fresh(k2).r[j] = 0
    BY <1>2, <2>1, M4ZeroBits, M4Slides, U1!FreshNumber
  <2> QED
    BY <1>3, <2>2 DEF Alone, U1!Slots
<1>6. 0 \in 0..(SlideOrder - 1) /\ SlideBits \in -1..SlideBits
  BY M4Sizes
<1> QED
  BY <1>3, <1>4, <1>5, <1>6 DEF M4Inv, M4Typed

LEMMA M4Rest ==
  ASSUME BothSlides257
  PROVE  /\ k' = k /\ s1' = s1 => U1!IInv' /\ U1!ValuePreserved'
         /\ k2' = k2 /\ s2' = s2 => U2!IInv' /\ U2!ValuePreserved'
<1>1. ASSUME k' = k, s1' = s1 PROVE U1!IInv' /\ U1!ValuePreserved'
  BY <1>1 DEF BothSlides257, U1!IInv, U1!ValuePreserved
<1>2. ASSUME k2' = k2, s2' = s2 PROVE U2!IInv' /\ U2!ValuePreserved'
  BY <1>2 DEF BothSlides257, U2!IInv, U2!ValuePreserved
<1> QED
  BY <1>1, <1>2

LEMMA M4Digits ==
  ASSUME BothSlides257
  PROVE  /\ \A j \in 0..SlideBits : s1.r[j] \in U1!Digits /\ s2.r[j] \in U1!Digits
         /\ \A j \in 0..SlideBits :
              /\ U1!ValueFrom(s1.r, j) = s1.r[j] + 2 * U1!ValueFrom(s1.r, j + 1)
              /\ U1!ValueFrom(s2.r, j) = s2.r[j] + 2 * U1!ValueFrom(s2.r, j + 1)
         /\ \A j \in 0..(SlideBits + 1) : U1!ValueFrom(s1.r, j) \in Int /\ U1!ValueFrom(s2.r, j) \in Int
         /\ s1.r \in [0..SlideBits -> Int] /\ s2.r \in [0..SlideBits -> Int]
<1>1. U1!Slots = 0..SlideBits /\ U2!Slots = 0..SlideBits /\ U1!Digits = U2!Digits
  BY DEF U1!Slots, U2!Slots, U1!Digits, U2!Digits
<1>2. /\ s1.r \in [U1!Slots -> Int] /\ \A j \in U1!Slots : s1.r[j] \in U1!Digits
      /\ s2.r \in [U2!Slots -> Int] /\ \A j \in U2!Slots : s2.r[j] \in U2!Digits
  BY M4Slides, U1!SlotsAreDigits, U2!SlotsAreDigits DEF BothSlides257
<1>3. /\ \A j \in U1!Slots : U1!ValueFrom(s1.r, j) = s1.r[j] + 2 * U1!ValueFrom(s1.r, j + 1)
      /\ \A j \in 0..(SlideBits + 1) : U1!ValueFrom(s1.r, j) \in Int
  BY <1>2, M4Slides, U1!ValuesUnfolded
<1>4. /\ \A j \in U1!Slots : U1!ValueFrom(s2.r, j) = s2.r[j] + 2 * U1!ValueFrom(s2.r, j + 1)
      /\ \A j \in 0..(SlideBits + 1) : U1!ValueFrom(s2.r, j) \in Int
  <2>1. s2.r \in [U1!Slots -> Int]
    BY <1>1, <1>2
  <2> QED
    BY <2>1, M4Slides, U1!ValuesUnfolded
<1> QED
  BY <1>1, <1>2, <1>3, <1>4

LEMMA M4Finished ==
  ASSUME BothSlides257
  PROVE  /\ s1.at = "done" => U1!ValueFrom(U1!Fresh(k).r, 0) = U1!ValueFrom(s1.r, 0)
         /\ s2.at = "done" => U1!ValueFrom(U1!Fresh(k2).r, 0) = U1!ValueFrom(s2.r, 0)
<1>1. U1!ValueFrom(s1.r, 0) \in Int /\ U1!ValueFrom(s2.r, 0) \in Int
  <2>1. 0 \in 0..(SlideBits + 1)
    BY M4Sizes
  <2> QED
    BY <2>1, M4Digits
<1>2. ASSUME s1.at = "done" PROVE U1!ValueFrom(U1!Fresh(k).r, 0) = U1!ValueFrom(s1.r, 0) + 0
  BY <1>2 DEF BothSlides257, U1!ValuePreserved
<1>3. ASSUME s2.at = "done" PROVE U1!ValueFrom(U1!Fresh(k2).r, 0) = U1!ValueFrom(s2.r, 0) + 0
  BY <1>3, M4Reads DEF BothSlides257, U2!ValuePreserved
<1> QED
  BY <1>1, <1>2, <1>3

-------------------------------------------------------------------------------
(* The tables, and what is added from them: never a second operand at infinity. *)
OddTable(g, x) ==
  \A j \in 0..7 : g[j] = ((2 * j + 1) * x) % SlideOrder /\ g[j] \in 1..(SlideOrder - 1)

LEMMA OddMultiple ==
  ASSUME NEW x \in 1..(SlideOrder - 1), NEW j \in 0..7
  PROVE  ((2 * j + 1) * x) % SlideOrder \in 1..(SlideOrder - 1)
<1> DEFINE u == (2 * j + 1) * x
<1>1. u \in Int
  OBVIOUS
<1>2. u % SlideOrder # 0
  BY M4Sizes, Zenon
<1> HIDE DEF u
<1>3. u % SlideOrder \in 0..(SlideOrder - 1)
  BY <1>1, M4Sizes, Remainder
<1>4. u % SlideOrder \in 1..(SlideOrder - 1)
  BY <1>2, <1>3, M4Sizes
<1> QED
  BY <1>4 DEF u

(* Three times, five times, ...: twice Q, and the entry before. *)
LEMMA NextMultiple ==
  ASSUME NEW x \in 1..(SlideOrder - 1), NEW j \in 1..7
  PROVE  (((2 * x) % SlideOrder) + (((2 * (j - 1) + 1) * x) % SlideOrder)) % SlideOrder
           = ((2 * j + 1) * x) % SlideOrder
<1> DEFINE n == SlideOrder
           a == 2 * x
           b == (2 * (j - 1) + 1) * x
           c == (2 * j + 1) * x
<1>1. n \in Nat /\ n > 0 /\ a \in Int /\ b \in Int /\ c = a + b
  BY M4Sizes, SMTT(30)
<1> HIDE DEF n, a, b, c
<1> DEFINE u == a % n
           v == b % n
<1>2. u \in Int /\ v \in Int /\ Same(n, u, a) /\ Same(n, v, b)
  BY <1>1, Remainder
<1> HIDE DEF u, v
<1>3. Same(n, u + v, a + b)
  BY <1>1, <1>2, SameSum
<1>4. (u + v) % n = c % n
  BY <1>1, <1>3 DEF Same
<1> QED
  BY <1>4 DEF u, v, a, b, c, n

LEMMA M4OddMultiples ==
  ASSUME p2 \in 1..(SlideOrder - 1), form # "fixed"
  PROVE  OddTable(M4!OddMultiples, p2)
<1> DEFINE Step(v) == M4!Added(M4!Double(p2), v)
           body(g) == [j \in 0..7 |-> IF j = 0 THEN p2 ELSE Step(g[j - 1])]
           s == CHOOSE g : g = body(g)
           w(j) == ((2 * j + 1) * p2) % SlideOrder
           h == [j \in 0..7 |-> w(j)]
<1>1. M4!OddMultiples = s
  BY DEF M4!OddMultiples
<1>2. \A j \in 0..7 : w(j) \in 1..(SlideOrder - 1)
  BY OddMultiple
<1>3. w(0) = p2
  <2>1. (2 * 0 + 1) * p2 = p2 /\ p2 \in 0..(SlideOrder - 1)
    OBVIOUS
  <2>2. p2 % SlideOrder = p2
    BY <2>1, M4Sizes, Remainder
  <2> QED
    BY <2>1, <2>2
<1>4. ASSUME NEW j \in 1..7 PROVE Step(w(j - 1)) = w(j)
  <2>1. M4!Double(p2) = (2 * p2) % SlideOrder
    BY DEF M4!Double, M4!Broken, M4!GroupOrder
  <2>2. (2 * p2) % SlideOrder \in 0..(SlideOrder - 1)
    <3> DEFINE u == 2 * p2
    <3>1. u \in Int
      OBVIOUS
    <3> HIDE DEF u
    <3>2. u % SlideOrder \in 0..(SlideOrder - 1)
      BY <3>1, M4Sizes, Remainder
    <3> QED
      BY <3>2 DEF u
  <2>3. w(j - 1) \in 1..(SlideOrder - 1)
    <3>1. j - 1 \in 0..7
      OBVIOUS
    <3> QED
      BY <1>2, <3>1
  <2>4. (((2 * p2) % SlideOrder) + w(j - 1)) % SlideOrder = w(j)
    BY NextMultiple
  <2> HIDE DEF w
  <2>5. Step(w(j - 1)) = (((2 * p2) % SlideOrder) + w(j - 1)) % SlideOrder
    <3> DEFINE a == (2 * p2) % SlideOrder
               b == w(j - 1)
    <3>1. a # -1 /\ b # -1 /\ b # 0 /\ M4!Double(p2) = a
      BY <2>1, <2>2, <2>3
    <3> HIDE DEF a, b
    <3>2. M4!Added(a, b) = (a + b) % SlideOrder
      BY <3>1 DEF M4!Added, M4!Broken, M4!GroupOrder
    <3> QED
      BY <3>1, <3>2 DEF a, b
  <2> QED
    BY <2>4, <2>5
<1> HIDE DEF Step, w
<1>5. h = body(h)
  <2>1. ASSUME NEW j \in 1..7 PROVE h[j] = Step(h[j - 1])
    <3>1. j - 1 \in 0..7 /\ j \in 0..7
      OBVIOUS
    <3>2. h[j] = w(j) /\ h[j - 1] = w(j - 1)
      BY <3>1
    <3> QED
      BY <1>4, <3>2
  <2>2. h[0] = p2 /\ \A j \in 0..7 : j # 0 => j \in 1..7
    BY <1>3
  <2> DEFINE bh == body(h)
  <2>3. \A j \in 0..7 : bh[j] = IF j = 0 THEN p2 ELSE Step(h[j - 1])
    OBVIOUS
  <2>4. \A j \in 0..7 : h[j] = bh[j]
    BY <2>1, <2>2, <2>3
  <2>5. h = [j \in 0..7 |-> h[j]] /\ bh = [j \in 0..7 |-> bh[j]]
    OBVIOUS
  <2> HIDE DEF h, bh
  <2>6. h = bh
    BY <2>4, <2>5, Zenon
  <2> QED
    BY <2>6 DEF bh
<1> HIDE DEF h
<1>6. s = body(s)
  <2> HIDE DEF body
  <2> QED
    BY <1>5
<1> HIDE DEF s
<1>7. \A j \in 0..7 : s[j] = IF j = 0 THEN p2 ELSE Step(s[j - 1])
  BY <1>6, Zenon
<1> DEFINE S == {j \in 0..7 : s[j] = w(j)}
<1>8. 0 \in S /\ \A j \in 1..7 : j - 1 \in S => j \in S
  <2>1. ASSUME NEW j \in 1..7, j - 1 \in S PROVE j \in S
    <3>1. j \in 0..7 /\ j # 0
      OBVIOUS
    <3>2. s[j] = Step(s[j - 1]) /\ s[j - 1] = w(j - 1)
      BY <1>7, <2>1, <3>1
    <3>3. s[j] = w(j)
      BY <1>4, <3>2
    <3> QED
      BY <3>1, <3>3
  <2>2. 0 \in S
    BY <1>3, <1>7
  <2> QED
    BY <2>1, <2>2
<1>9. 0..7 \subseteq S
  <2> DEFINE n == 7
  <2>1. n \in Nat /\ 0 \in S /\ \A j \in 1..n : j - 1 \in S => j \in S
    BY <1>8
  <2> HIDE DEF n, S
  <2>2. 0..n \subseteq S
    BY <2>1, UpTo
  <2> QED
    BY <2>2 DEF n
<1>10. \A j \in 0..7 : s[j] = w(j) /\ s[j] \in 1..(SlideOrder - 1)
  BY <1>2, <1>9
<1> QED
  BY <1>1, <1>10 DEF OddTable, w

LEMMA M4BaseMultiples ==
  ASSUME form # "fixed"
  PROVE  OddTable(M4!BaseMultiples, 1)
<1>1. 1 \in 1..(SlideOrder - 1)
  BY M4Sizes
<1>2. ASSUME NEW j \in 0..7
      PROVE  /\ M4!BaseMultiples[j] = ((2 * j + 1) * 1) % SlideOrder
             /\ ((2 * j + 1) * 1) % SlideOrder \in 1..(SlideOrder - 1)
  <2>1. M4!BaseMultiples[j] = (2 * j + 1) % SlideOrder /\ (2 * j + 1) * 1 = 2 * j + 1
    BY DEF M4!BaseMultiples, M4!GroupOrder
  <2> DEFINE x == 1
  <2>2. x \in 1..(SlideOrder - 1)
    BY <1>1
  <2> HIDE DEF x
  <2>3. ((2 * j + 1) * x) % SlideOrder \in 1..(SlideOrder - 1)
    BY <2>2, OddMultiple
  <2> QED
    BY <2>1, <2>3 DEF x
<1> QED
  BY <1>2 DEF OddTable

(* The entry that an odd digit selects is its multiple of x, and not infinity. *)
LEMMA M4Entry ==
  ASSUME form # "fixed", NEW d \in OddDigits, NEW x \in Int, NEW g, OddTable(g, x)
  PROVE  /\ M4!Selected(g, d) \in 1..(SlideOrder - 1)
         /\ Same(SlideOrder, M4!Selected(g, d), d * x)
<1> DEFINE n == SlideOrder
           y == M4!Selected(g, d)
           j == Abs(d) \div 2
           z == g[j]
<1>1. /\ j \in 0..7 /\ 2 * j + 1 = Abs(d) /\ d \in Int /\ d # 0
      /\ d > 0 => d \div 2 = j
  BY EntryIndex
<1>2. z = (Abs(d) * x) % n /\ z \in 1..(n - 1)
  <2> HIDE DEF j
  <2> QED
    BY <1>1 DEF OddTable
<1>3. y = IF d > 0 THEN z ELSE (n - z) % n
  <2>1. M4!Abs(d) = Abs(d)
    BY DEF M4!Abs, Abs
  <2>2. z # -1
    BY <1>2
  <2>3. CASE d > 0
    BY <1>1, <2>3 DEF M4!Selected
  <2>4. CASE ~(d > 0)
    <3>1. y = M4!Negated(z)
      BY <2>1, <2>4 DEF M4!Selected
    <3> HIDE DEF z, y
    <3> QED
      BY <2>2, <2>4, <3>1 DEF M4!Negated, M4!Broken, M4!GroupOrder
  <2> QED
    BY <2>3, <2>4
<1>4. y = IF d > 0 THEN (Abs(d) * x) % n ELSE (n - ((Abs(d) * x) % n)) % n
  BY <1>2, <1>3
<1> HIDE DEF y, z
<1>5. n \in Nat /\ n > 0
  BY M4Sizes
<1>6. Same(n, y, d * x)
  <2> HIDE DEF n
  <2> QED
    BY <1>4, <1>5, SignedEntry
<1>7. y \in 1..(n - 1)
  <2>1. n - z \in 1..(n - 1) /\ n - z \in 0..(n - 1)
    BY <1>2, <1>5
  <2>2. (n - z) % n = n - z
    BY <1>5, <2>1, Remainder
  <2> QED
    BY <1>2, <1>3, <2>1, <2>2
<1> QED
  BY <1>6, <1>7 DEF y

LEMMA M4AddsDigit ==
  ASSUME form # "fixed", NEW d \in U1!Digits, NEW x \in Int, NEW g, OddTable(g, x),
         NEW a \in 0..(SlideOrder - 1), NEW b \in Int, Same(SlideOrder, a, b)
  PROVE  /\ M4!AddDigit(a, g, d) \in 0..(SlideOrder - 1)
         /\ Same(SlideOrder, M4!AddDigit(a, g, d), b + d * x)
<1> DEFINE n == SlideOrder
           y == M4!AddDigit(a, g, d)
           w == d * x
<1>1. n \in Nat /\ n > 0 /\ a \in Int
  BY M4Sizes
<1>2. CASE d = 0
  <2>1. y = a /\ w = 0
    BY <1>2 DEF M4!AddDigit
  <2>2. b + w = b
    <3> HIDE DEF w
    <3> QED
      BY <2>1
  <2> HIDE DEF y, w
  <2> QED
    BY <2>1, <2>2 DEF y, w
<1>3. CASE d # 0
  <2> DEFINE z == M4!Selected(g, d)
             c == a + z
  <2>1. d \in OddDigits
    BY <1>3 DEF U1!Digits, OddDigits
  <2>2. z \in 1..(n - 1) /\ Same(n, z, w) /\ z \in Int /\ w \in Int
    <3>1. z \in 1..(n - 1) /\ Same(n, z, w)
      BY <2>1, M4Entry
    <3>2. z \in Int
      <4> HIDE DEF z
      <4> QED
        BY <3>1
    <3>3. w \in Int
      BY <2>1 DEF OddDigits
    <3> QED
      BY <3>1, <3>2, <3>3
  <2>3. y = c % n
    <3>1. y = M4!Added(a, z)
      BY <1>3 DEF M4!AddDigit
    <3> HIDE DEF y, z, n
    <3>2. a # -1 /\ z # -1 /\ z # 0
      BY <1>1, <2>2
    <3> QED
      BY <3>1, <3>2 DEF M4!Added, M4!Broken, M4!GroupOrder, n
  <2> HIDE DEF y, z, w
  <2>4. c \in Int /\ Same(n, c, b + w)
    BY <1>1, <2>2, SameSum
  <2> HIDE DEF c
  <2>5. c % n \in 0..(n - 1) /\ Same(n, c % n, c)
    BY <1>1, <2>4, Remainder
  <2>6. y \in 0..(n - 1) /\ Same(n, y, b + w)
    BY <2>3, <2>4, <2>5 DEF Same
  <2> QED
    BY <2>6 DEF y, w
<1> QED
  BY <1>2, <1>3

-------------------------------------------------------------------------------
LEMMA M4Starts ==
  ASSUME M4Inv, M4!Start
  PROVE  M4Inv'
<1>1. /\ phase = "start" /\ i = SlideBits /\ acc = 0 /\ s1 = U1!Fresh(k) /\ s2 = U1!Fresh(k2) /\ M4Typed
      /\ form' = form /\ k' = k /\ k2' = k2 /\ s1' = s1 /\ s2' = s2 /\ p2' = p2 /\ i' = i /\ acc' = acc
      /\ phase' = IF form = "variable" /\ \A j \in DOMAIN k : k[j] = 0 THEN "done" ELSE "slide1"
  BY DEF M4Inv, M4!Start
<1>2. BothSlides257 /\ BothSlides257' /\ k \in U1!Scalars
  BY <1>1, M4Rest DEF M4Typed, BothSlides257, U1!IInv
<1>3. M4Typed'
  BY <1>1, <1>2 DEF M4Typed, Alone
<1>4. CASE form = "variable" /\ \A j \in DOMAIN k : k[j] = 0
  <2>1. \A j \in 0..(SlideBits - 1) : k[j] = 0
    BY <1>2, <1>4 DEF U1!Scalars
  <2>2. \A j \in U1!Slots : s1.r[j] = 0 /\ s2.r[j] = 0
    BY <1>1, <1>2, <1>4, <2>1, M4Slides, U1!FreshNumber DEF M4Typed, Alone, U1!Slots
  <2>3. s1.r \in [U1!Slots -> Int] /\ s2.r \in [U1!Slots -> Int]
    BY <1>2, M4Digits DEF U1!Slots
  <2> DEFINE z == 0
  <2>4. z \in 0..(SlideBits + 1) /\ \A j \in U1!Slots : j >= z => s1.r[j] = 0 /\ s2.r[j] = 0
    BY <2>2, M4Sizes
  <2> HIDE DEF z
  <2>5. U1!ValueFrom(s1.r, z) = 0 /\ U1!ValueFrom(s2.r, z) = 0
    BY <2>3, <2>4, M4Slides, U1!ZerosStandForZero
  <2>6. M4Combination = 0
    <3>1. 0 * p2 + 0 = 0 /\ 0 % SlideOrder = 0
      BY M4Sizes, Remainder, <1>1 DEF M4Typed
    <3> QED
      BY <1>1, <2>5, <3>1 DEF M4Combination, M4Read, z
  <2>7. M4Combination' = M4Combination
    BY <1>1 DEF M4Combination
  <2> QED
    BY <1>1, <1>3, <1>4, <2>6, <2>7 DEF M4Inv
<1>5. CASE ~(form = "variable" /\ \A j \in DOMAIN k : k[j] = 0)
  <2>1. form = "variable" => SomeBit(k)
    BY <1>2, <1>5 DEF SomeBit, U1!Scalars
  <2>2. form' = "variable" => SomeBit(k)'
    BY <1>1, <2>1 DEF SomeBit
  <2> QED
    BY <1>1, <1>3, <1>5, <2>2 DEF M4Inv
<1> QED
  BY <1>4, <1>5

LEMMA M4Slides1 ==
  ASSUME M4Inv, M4!RunSlide1
  PROVE  M4Inv'
<1>1. /\ phase = "slide1" /\ i = SlideBits /\ acc = 0 /\ M4Typed /\ (form = "variable" => SomeBit(k))
      /\ form' = form /\ k2' = k2 /\ s2' = s2 /\ p2' = p2 /\ i' = i /\ acc' = acc
  BY DEF M4Inv, M4!RunSlide1
<1>2. BothSlides257 /\ U2!IInv' /\ U2!ValuePreserved'
  BY <1>1, M4Rest DEF M4Typed
<1>3. CASE M4!Slide1!Next /\ UNCHANGED phase
  <2>1. U1!IInv' /\ U1!ValuePreserved' /\ k' = k
    <3>1. U1!Next
      BY <1>3, M4Slides
    <3>2. k' = k
      BY <3>1 DEF U1!Next, U1!Scan, U1!Window, U1!Carry
    <3> QED
      BY <1>2, <3>1, <3>2, M4Slides, U1!StepKeepsInv, U1!StepKeepsValue DEF BothSlides257
  <2>2. M4Typed'
    BY <1>1, <1>2, <2>1 DEF M4Typed, BothSlides257, Alone
  <2> QED
    BY <1>1, <1>3, <2>1, <2>2 DEF M4Inv, SomeBit
<1>4. CASE s1.at = "done" /\ UNCHANGED <<k, s1>> /\ phase' = IF form = "joint" THEN "slide2" ELSE "scan"
  <2>1. U1!IInv' /\ U1!ValuePreserved' /\ s1'.at = "done" /\ k' = k /\ s1' = s1
    BY <1>2, <1>4, M4Rest
  <2>2. M4Typed'
    BY <1>1, <1>2, <2>1 DEF M4Typed, BothSlides257, Alone
  <2>3. CASE form = "joint"
    BY <1>1, <1>4, <2>1, <2>2, <2>3 DEF M4Inv
  <2>4. CASE form # "joint"
    <3>1. SlideBits \in 0..SlideBits /\ \A j \in 0..SlideBits : ~(j > SlideBits)
      BY M4Sizes
    <3> QED
      BY <1>1, <1>4, <2>1, <2>2, <2>4, <3>1 DEF M4Inv, M4Recoded, M4Scanned, SomeBit
  <2> QED
    BY <2>3, <2>4
<1> QED
  BY <1>3, <1>4 DEF M4!RunSlide1

LEMMA M4Slides2 ==
  ASSUME M4Inv, M4!RunSlide2
  PROVE  M4Inv'
<1>1. /\ phase = "slide2" /\ i = SlideBits /\ acc = 0 /\ M4Typed /\ form = "joint" /\ s1.at = "done"
      /\ form' = form /\ k' = k /\ s1' = s1 /\ p2' = p2 /\ i' = i /\ acc' = acc
  BY DEF M4Inv, M4!RunSlide2
<1>2. BothSlides257 /\ U1!IInv' /\ U1!ValuePreserved'
  BY <1>1, M4Rest DEF M4Typed
<1>3. CASE M4!Slide2!Next /\ UNCHANGED phase
  <2>1. U2!IInv' /\ U2!ValuePreserved'
    BY <1>2, <1>3, M4Slides, U2!StepKeepsInv, U2!StepKeepsValue DEF BothSlides257
  <2> QED
    BY <1>1, <1>2, <1>3, <2>1 DEF M4Inv, M4Typed, BothSlides257
<1>4. CASE s2.at = "done" /\ UNCHANGED <<k2, s2>> /\ phase' = "scan"
  <2>1. U2!IInv' /\ U2!ValuePreserved' /\ s2'.at = "done"
    BY <1>2, <1>4, M4Rest
  <2>2. SlideBits \in 0..SlideBits /\ \A j \in 0..SlideBits : ~(j > SlideBits)
    BY M4Sizes
  <2> QED
    BY <1>1, <1>2, <1>4, <2>1, <2>2 DEF M4Inv, M4Typed, BothSlides257, M4Recoded, M4Scanned
<1> QED
  BY <1>3, <1>4 DEF M4!RunSlide2

(* Zeros above a slot leave its digit alone to be read. *)
LEMMA M4ReadsTop ==
  ASSUME BothSlides257, NEW j \in 0..SlideBits,
         \A g \in 0..SlideBits : g > j => s1.r[g] = 0 /\ s2.r[g] = 0
  PROVE  U1!ValueFrom(s1.r, j + 1) = 0 /\ U1!ValueFrom(s2.r, j + 1) = 0
<1> DEFINE l == j + 1
<1>1. l \in 0..(SlideBits + 1) /\ \A g \in U1!Slots : g >= l => s1.r[g] = 0 /\ s2.r[g] = 0
  BY M4Sizes DEF U1!Slots
<1>2. s1.r \in [U1!Slots -> Int] /\ s2.r \in [U1!Slots -> Int]
  BY M4Digits DEF U1!Slots
<1> HIDE DEF l
<1>3. U1!ValueFrom(s1.r, l) = 0 /\ U1!ValueFrom(s2.r, l) = 0
  BY <1>1, <1>2, M4Slides, U1!ZerosStandForZero
<1> QED
  BY <1>3 DEF l

(* The scan for k Q stops at a digit, since k is not zero. *)
LEMMA M4TopDigit ==
  ASSUME BothSlides257, SomeBit(k), s1.at = "done", NEW j \in 0..SlideBits,
         \A g \in 0..SlideBits : g > j => s1.r[g] = 0 /\ s2.r[g] = 0,
         ~(j > 0 /\ s1.r[j] = 0)
  PROVE  s1.r[j] # 0
<1> SUFFICES ASSUME s1.r[j] = 0 PROVE FALSE
  OBVIOUS
<1>1. j = 0
  BY M4Sizes
<1>2. U1!ValueFrom(s1.r, 0) = 0
  <2>1. U1!ValueFrom(s1.r, 0 + 1) = 0
    BY <1>1, M4ReadsTop
  <2>2. 0 \in 0..SlideBits
    BY M4Sizes
  <2>3. U1!ValueFrom(s1.r, 0) = s1.r[0] + 2 * U1!ValueFrom(s1.r, 0 + 1)
    BY <2>2, M4Digits
  <2> QED
    BY <1>1, <2>1, <2>3
<1>3. U1!ValueFrom(U1!Fresh(k).r, 0) > 0
  <2>1. k \in U1!Scalars /\ \E g \in 0..(SlideBits - 1) : k[g] # 0
    BY DEF BothSlides257, U1!IInv, SomeBit
  <2> QED
    BY <2>1, M4Slides, U1!FreshNumber
<1> QED
  BY <1>2, <1>3, M4Finished

LEMMA M4Scans ==
  ASSUME M4Inv, M4!ScanTop
  PROVE  M4Inv'
<1>1. /\ phase = "scan" /\ M4Typed /\ M4Recoded /\ M4Scanned /\ (form = "variable" => SomeBit(k))
      /\ form' = form /\ k' = k /\ k2' = k2 /\ s1' = s1 /\ s2' = s2 /\ p2' = p2
  BY DEF M4Inv, M4!ScanTop
<1>2. /\ BothSlides257 /\ BothSlides257' /\ i \in 0..SlideBits /\ acc = 0 /\ SlideBits \in Nat
      /\ \A j \in 0..SlideBits : j > i => s1.r[j] = 0 /\ s2.r[j] = 0
  BY <1>1, M4Rest, M4Sizes DEF M4Typed, BothSlides257, M4Scanned
<1>3. CASE i > 0 /\ s1.r[i] = 0 /\ (form = "joint" => s2.r[i] = 0)
  <2>1. /\ i' = i - 1 /\ phase' = phase /\ acc' = acc /\ i - 1 \in 0..SlideBits
        /\ i - 1 \in -1..SlideBits
    BY <1>2, <1>3 DEF M4!ScanTop
  <2>2. s2.r[i] = 0
    BY <1>1, <1>2, <1>3 DEF M4Typed, Alone
  <2>3. \A j \in 0..SlideBits : j > i - 1 => s1.r[j] = 0 /\ s2.r[j] = 0
    <3>1. \A j \in 0..SlideBits : j > i - 1 => j = i \/ j > i
      BY <1>2
    <3> QED
      BY <1>2, <1>3, <2>2, <3>1
  <2>4. M4Typed'
    BY <1>1, <1>2, <2>1 DEF M4Typed, Alone
  <2> QED
    BY <1>1, <1>2, <2>1, <2>3, <2>4 DEF M4Inv, M4Recoded, M4Scanned, SomeBit
<1>4. CASE ~(i > 0 /\ s1.r[i] = 0 /\ (form = "joint" => s2.r[i] = 0))
  <2>1. /\ phase' = "ladder"
        /\ form = "joint" => i' = i /\ acc' = acc
        /\ form # "joint" => i' = i - 1 /\ acc' = M4!Selected(M4!OddMultiples, s1.r[i])
    BY <1>4 DEF M4!ScanTop
  <2>2. U1!ValueFrom(s1.r, i + 1) = 0 /\ U1!ValueFrom(s2.r, i + 1) = 0
    BY <1>2, M4ReadsTop
  <2>3. p2 \in 1..(SlideOrder - 1) /\ SlideOrder \in Nat /\ SlideOrder > 0
    BY <1>1, M4Sizes DEF M4Typed
  <2>4. CASE form = "joint"
    <3>1. M4Read(s1.r, p2, s2.r, i + 1) = 0
      <4>1. 0 * p2 + 0 = 0 /\ 0 % SlideOrder = 0
        BY <2>3, Remainder
      <4> QED
        BY <2>2, <4>1 DEF M4Read
    <3>2. i' = i /\ acc' = 0 /\ i \in -1..SlideBits
      BY <1>2, <2>1, <2>4
    <3>3. M4Typed'
      BY <1>1, <1>2, <2>4, <3>2 DEF M4Typed
    <3> QED
      BY <1>1, <2>1, <3>1, <3>2, <3>3 DEF M4Inv, M4Recoded
  <2>5. CASE form # "joint"
    <3> DEFINE d == s1.r[i]
               x == M4!Selected(M4!OddMultiples, d)
    <3>1. form = "variable"
      BY <1>1, <2>5 DEF M4Typed
    <3>2. d \in OddDigits
      <4>1. d # 0
        BY <1>1, <1>2, <1>4, <2>5, <3>1, M4TopDigit DEF M4Recoded
      <4>2. d \in U1!Digits
        BY <1>2, M4Digits
      <4> QED
        BY <4>1, <4>2 DEF U1!Digits, OddDigits
    <3>3. x \in 1..(SlideOrder - 1) /\ Same(SlideOrder, x, d * p2)
      <4>1. OddTable(M4!OddMultiples, p2) /\ p2 \in Int
        BY <2>3, <3>1, M4OddMultiples
      <4> QED
        BY <3>1, <3>2, <4>1, M4Entry
    <3>4. M4Read(s1.r, p2, s2.r, i) = (d * p2) % SlideOrder
      <4>1. /\ U1!ValueFrom(s1.r, i) = d + 2 * U1!ValueFrom(s1.r, i + 1)
            /\ U1!ValueFrom(s2.r, i) = s2.r[i] + 2 * U1!ValueFrom(s2.r, i + 1)
        BY <1>2, M4Digits
      <4>2. s2.r[i] = 0 /\ d \in Int
        BY <1>1, <1>2, <3>1, <3>2 DEF M4Typed, Alone, OddDigits
      <4>3. U1!ValueFrom(s1.r, i) = d /\ U1!ValueFrom(s2.r, i) = 0
        BY <2>2, <4>1, <4>2
      <4>4. d * p2 + 0 = d * p2
        BY <2>3, <4>2
      <4> QED
        BY <4>3, <4>4 DEF M4Read
    <3> HIDE DEF x
    <3>5. x = (d * p2) % SlideOrder /\ x \in 0..(SlideOrder - 1)
      <4>1. x \in 0..(SlideOrder - 1)
        BY <2>3, <3>3
      <4>2. x % SlideOrder = x
        BY <2>3, <4>1, Remainder
      <4> QED
        BY <3>3, <4>1, <4>2 DEF Same
    <3>6. i' = i - 1 /\ acc' = x /\ i - 1 \in -1..SlideBits /\ (i - 1) + 1 = i
      BY <1>2, <2>1, <2>5 DEF x
    <3>7. M4Typed'
      BY <1>1, <1>2, <3>1, <3>5, <3>6 DEF M4Typed, Alone
    <3>8. acc' = M4Read(s1'.r, p2', s2'.r, i' + 1)
      BY <1>1, <3>4, <3>5, <3>6
    <3> HIDE DEF d
    <3> QED
      BY <1>1, <2>1, <3>7, <3>8 DEF M4Inv, M4Recoded
  <2> QED
    BY <2>4, <2>5
<1> QED
  BY <1>3, <1>4

(* One turn: the doubled accumulator and the two summands. *)
LEMMA M4Turn ==
  ASSUME NEW n \in Nat, n > 0, NEW v1 \in Int, NEW v2 \in Int, NEW d1 \in Int, NEW d2 \in Int,
         NEW a \in Int, NEW z \in 0..(n - 1),
         Same(n, z, (2 * (v1 * a + v2) + d2 * 1) + d1 * a)
  PROVE  z = ((d1 + 2 * v1) * a + (d2 + 2 * v2)) % n
<1> DEFINE x == (2 * (v1 * a + v2) + d2 * 1) + d1 * a
           y == (d1 + 2 * v1) * a + (d2 + 2 * v2)
<1>1. x = y
  BY SMTT(30)
<1> HIDE DEF x, y
<1>2. z % n = z
  BY Remainder
<1>3. z = y % n
  BY <1>1, <1>2 DEF Same, x
<1> QED
  BY <1>3 DEF y

LEMMA M4Doubles ==
  ASSUME form # "fixed", NEW v \in Int, NEW a, a = v % SlideOrder
  PROVE  M4!Double(a) \in 0..(SlideOrder - 1) /\ Same(SlideOrder, M4!Double(a), 2 * v)
<1> DEFINE n == SlideOrder
           w == 2
           u == a * w
           x == v * w
<1>1. n \in Nat /\ n > 0 /\ w \in Int
  BY M4Sizes
<1>2. a \in 0..(n - 1) /\ a \in Int /\ Same(n, a, v)
  <2>1. v % n \in 0..(n - 1) /\ Same(n, v % n, v)
    BY <1>1, Remainder
  <2>2. \A c \in 0..(n - 1) : c \in Int
    BY <1>1
  <2> QED
    BY <2>1, <2>2, Zenon
<1>3. M4!Double(a) = u % n
  <2>1. a # -1 /\ 2 * a = u
    BY <1>1, <1>2
  <2> QED
    BY <2>1 DEF M4!Double, M4!Broken, M4!GroupOrder
<1>4. u \in Int /\ 2 * v = x
  BY <1>2
<1> HIDE DEF w
<1>5. Same(n, u, x)
  <2> HIDE DEF n
  <2> QED
    BY <1>1, <1>2, SameTimes
<1> HIDE DEF u, x
<1>6. u % n \in 0..(n - 1) /\ Same(n, u % n, u)
  <2> HIDE DEF n
  <2> QED
    BY <1>1, <1>4, Remainder
<1> QED
  BY <1>3, <1>4, <1>5, <1>6 DEF Same

LEMMA M4Climbs ==
  ASSUME M4Inv, M4!Ladder
  PROVE  M4Inv'
<1>1. /\ phase = "ladder" /\ M4Typed /\ M4Recoded /\ acc = M4Read(s1.r, p2, s2.r, i + 1)
      /\ form' = form /\ k' = k /\ k2' = k2 /\ s1' = s1 /\ s2' = s2 /\ p2' = p2
  BY DEF M4Inv, M4!Ladder
<1>2. /\ BothSlides257 /\ BothSlides257' /\ i \in -1..SlideBits /\ SlideBits \in Nat
      /\ p2 \in 1..(SlideOrder - 1) /\ p2 \in Int /\ SlideOrder \in Nat /\ SlideOrder > 0
      /\ acc \in 0..(SlideOrder - 1) /\ form \in {"variable", "joint"}
  BY <1>1, M4Rest, M4Sizes DEF M4Typed, BothSlides257
<1>3. CASE i < 0
  <2>1. phase' = "done" /\ i' = i /\ acc' = acc /\ i + 1 = 0
    BY <1>2, <1>3 DEF M4!Ladder
  <2>2. U1!ValueFrom(U1!Fresh(k2).r, 0) = U1!ValueFrom(s2.r, 0)
    BY <1>1, <1>2, M4Finished DEF M4Recoded, M4Typed, Alone, U1!Fresh
  <2>3. M4Read(s1.r, p2, s2.r, 0) = M4Combination /\ M4Combination' = M4Combination
    BY <1>1, <1>2, <2>2, M4Finished DEF M4Read, M4Combination, M4Recoded
  <2>4. M4Typed'
    BY <1>1, <1>2, <2>1 DEF M4Typed, Alone
  <2> QED
    BY <1>1, <2>1, <2>3, <2>4 DEF M4Inv
<1>4. CASE ~(i < 0)
  <2> DEFINE d1 == s1.r[i]
             d2 == s2.r[i]
             v1 == U1!ValueFrom(s1.r, i + 1)
             v2 == U1!ValueFrom(s2.r, i + 1)
             v  == v1 * p2 + v2
             a  == M4!Double(acc)
             b  == M4!AddDigit(a, M4!BaseMultiples, d2)
             x  == d2 * 1
  <2>1. /\ i' = i - 1 /\ phase' = phase /\ i - 1 \in -1..SlideBits /\ (i - 1) + 1 = i /\ i \in 0..SlideBits
        /\ i + 1 \in 0..(SlideBits + 1)
        /\ acc' = IF form = "variable" THEN M4!AddDigit(a, M4!OddMultiples, d1)
                  ELSE M4!AddDigit(b, M4!OddMultiples, d1)
    BY <1>2, <1>4 DEF M4!Ladder
  <2>2. /\ U1!ValueFrom(s1.r, i) = d1 + 2 * v1 /\ U1!ValueFrom(s2.r, i) = d2 + 2 * v2
        /\ d1 \in U1!Digits /\ d2 \in U1!Digits /\ v1 \in Int /\ v2 \in Int
    BY <1>2, <2>1, M4Digits
  <2>3. d1 \in Int /\ d2 \in Int /\ (form = "variable" => d2 = 0)
    BY <1>1, <2>1, <2>2 DEF U1!Digits, M4Typed, Alone
  <2>4. acc = v % SlideOrder
    BY <1>1 DEF M4Read
  <2>5. M4Read(s1.r, p2, s2.r, i) = ((d1 + 2 * v1) * p2 + (d2 + 2 * v2)) % SlideOrder
    BY <2>2 DEF M4Read
  <2>6. v \in Int /\ x \in Int /\ (form = "variable" => x = 0)
    <3> HIDE DEF d1, d2, v1, v2
    <3> QED
      BY <1>2, <2>2, <2>3
  <2>7. OddTable(M4!OddMultiples, p2) /\ OddTable(M4!BaseMultiples, 1) /\ form # "fixed"
    BY <1>2, M4OddMultiples, M4BaseMultiples
  <2> HIDE DEF d1, d2, v1, v2, v
  <2>8. a \in 0..(SlideOrder - 1) /\ Same(SlideOrder, a, 2 * v)
    BY <2>4, <2>6, <2>7, M4Doubles
  <2> HIDE DEF a
  <2>9. b \in 0..(SlideOrder - 1) /\ Same(SlideOrder, b, 2 * v + x)
    <3> DEFINE y == 1
               w == 2 * v
               g == M4!BaseMultiples
    <3>1. y \in Int /\ w \in Int /\ OddTable(g, y)
      BY <2>6, <2>7
    <3> HIDE DEF y, w, g
    <3>2. M4!AddDigit(a, g, d2) \in 0..(SlideOrder - 1) /\ Same(SlideOrder, M4!AddDigit(a, g, d2), w + d2 * y)
      BY <2>2, <2>7, <2>8, <3>1, M4AddsDigit DEF w
    <3> QED
      BY <3>2 DEF y, w, g
  <2> HIDE DEF b
  <2> DEFINE c == IF form = "variable" THEN a ELSE b
             w == 2 * v + x
             z == M4!AddDigit(c, M4!OddMultiples, d1)
  <2>10. c \in 0..(SlideOrder - 1) /\ w \in Int /\ Same(SlideOrder, c, w) /\ acc' = z
    <3>1. form = "variable" => w = 2 * v
      BY <2>6
    <3>2. w \in Int
      BY <2>6
    <3> HIDE DEF w
    <3>3. Same(SlideOrder, b, w)
      BY <2>9 DEF w
    <3> QED
      BY <2>1, <2>8, <2>9, <3>1, <3>2, <3>3
  <2> HIDE DEF c, w
  <2>11. z \in 0..(SlideOrder - 1) /\ Same(SlideOrder, z, w + d1 * p2)
    BY <1>2, <2>2, <2>7, <2>10, M4AddsDigit
  <2> HIDE DEF z
  <2>12. Same(SlideOrder, z, (2 * (v1 * p2 + v2) + d2 * 1) + d1 * p2)
    BY <2>11 DEF w, x, v
  <2>13. z = ((d1 + 2 * v1) * p2 + (d2 + 2 * v2)) % SlideOrder
    BY <1>2, <2>2, <2>3, <2>11, <2>12, M4Turn
  <2>14. acc' = M4Read(s1'.r, p2', s2'.r, i' + 1) /\ acc' \in 0..(SlideOrder - 1)
    BY <1>1, <2>1, <2>5, <2>10, <2>11, <2>13
  <2>15. M4Typed'
    BY <1>1, <1>2, <2>1, <2>14 DEF M4Typed, Alone
  <2> QED
    BY <1>1, <2>1, <2>14, <2>15 DEF M4Inv, M4Recoded
<1> QED
  BY <1>3, <1>4

LEMMA M4Steps ==
  ASSUME M4Inv, M4!Next
  PROVE  M4Inv'
<1>1. form \in {"variable", "joint"}
  BY DEF M4Inv, M4Typed
<1>2. M4!Start \/ M4!RunSlide1 \/ M4!RunSlide2 \/ M4!ScanTop \/ M4!Ladder
  BY <1>1 DEF M4!Next, M4!FixedTurn, M4!FixedEnd, M4!InverseRound, M4!InverseEnd
<1> QED
  BY <1>2, M4Starts, M4Slides1, M4Slides2, M4Scans, M4Climbs

LEMMA M4Goals ==
  ASSUME M4Inv
  PROVE  M4!TypeOK /\ M4!RecodingPreservesValue /\ M4!ComputesMultiple
<1>1. BothSlides257 /\ M4Typed
  BY DEF M4Inv, M4Typed
<1>2. M4!Slide1!TypeOK
  <2>1. U1!TypeOK
    BY <1>1, M4Slides, U1!InvTyped DEF BothSlides257
  <2> QED
    BY <2>1 DEF U1!TypeOK, M4!Slide1!TypeOK, U1!Scalars, M4!Slide1!Scalars, U1!Slots, M4!Slide1!Slots,
                U1!Digits, M4!Slide1!Digits
<1>3. M4!Slide2!TypeOK
  <2>1. U2!TypeOK
    BY <1>1, M4Slides, U2!InvTyped DEF BothSlides257
  <2> QED
    BY <2>1 DEF U2!TypeOK, M4!Slide2!TypeOK, U2!Scalars, M4!Slide2!Scalars, U2!Slots, M4!Slide2!Slots,
                U2!Digits, M4!Slide2!Digits
<1>4. M4!RecodingPreservesValue
  <2>1. M4!Slide1!ValuePreserved
    BY <1>1, M4Reads DEF BothSlides257, U1!ValuePreserved, M4!Slide1!ValuePreserved
  <2>2. M4!Slide2!ValuePreserved
    BY <1>1, M4Reads DEF BothSlides257, U2!ValuePreserved, M4!Slide2!ValuePreserved
  <2> QED
    BY <2>1, <2>2 DEF M4!RecodingPreservesValue
<1>5. M4!TypeOK
  <2>1. ASSUME NEW d \in U1!Digits PROVE M4!Abs(d) \div 2 \in 0..7
    <3>1. CASE d = 0
      BY <3>1 DEF M4!Abs
    <3>2. CASE d # 0
      <4>1. d \in OddDigits /\ M4!Abs(d) = Abs(d)
        BY <3>2 DEF U1!Digits, OddDigits, M4!Abs, Abs
      <4> QED
        BY <4>1, EntryIndex
    <3> QED
      BY <3>1, <3>2
  <2>2. \A j \in 0..SlideBits : {M4!Abs(s1.r[j]) \div 2, M4!Abs(s2.r[j]) \div 2} \subseteq 0..7
    BY <1>1, <2>1, M4Digits
  <2>3. phase \in {"start", "slide1", "slide2", "scan", "ladder", "done"}
    BY DEF M4Inv
  <2> QED
    BY <1>1, <1>2, <1>3, <2>2, <2>3 DEF M4!TypeOK, M4Typed, M4!GroupOrder
<1>6. M4!ComputesMultiple
  BY <1>1, M4Reads DEF M4!ComputesMultiple, M4!Number, M4Inv, M4Typed, M4Read, M4Combination
<1> QED
  BY <1>4, <1>5, <1>6
-------------------------------------------------------------------------------
(* Division steps: what one does to the numbers it keeps. *)
DivRecord == [delta : Int, f : Int, g : Int, u : Int, v : Int, q : Int, r : Int]

DivFirst(dl, f, g) == [delta |-> dl, f |-> f, g |-> g, u |-> 1, v |-> 0, q |-> 0, r |-> 1]

(* A step swaps or not, then halves. *)
Swaps(s) == s.delta > 0 /\ s.g % 2 = 1

DivSwapped(s) ==
  IF Swaps(s) THEN [delta |-> -s.delta, f |-> s.g, g |-> -s.f,
                    u |-> s.q, v |-> s.r, q |-> -s.u, r |-> -s.v]
  ELSE s

LEMMA SwapFields ==
  ASSUME NEW s \in DivRecord
  PROVE  /\ DivSwapped(s) \in DivRecord
         /\ Swaps(s) => /\ DivSwapped(s).delta = -s.delta
                        /\ DivSwapped(s).f = s.g /\ DivSwapped(s).g = -s.f
                        /\ DivSwapped(s).u = s.q /\ DivSwapped(s).v = s.r
                        /\ DivSwapped(s).q = -s.u /\ DivSwapped(s).r = -s.v
         /\ ~Swaps(s) => DivSwapped(s) = s
<1>1. CASE Swaps(s)
  BY <1>1 DEF DivSwapped, DivRecord
<1>2. CASE ~Swaps(s)
  BY <1>2 DEF DivSwapped
<1> QED
  BY <1>1, <1>2

LEMMA StepFields ==
  ASSUME NEW s \in DivRecord, NEW t0, t0 = DivSwapped(s)
  PROVE  LET o == t0.g % 2 IN
         /\ t0 \in DivRecord
         /\ M4!DivStep(s).delta = t0.delta + 1
         /\ M4!DivStep(s).f = t0.f /\ M4!DivStep(s).g = (t0.g + o * t0.f) \div 2
         /\ M4!DivStep(s).u = 2 * t0.u /\ M4!DivStep(s).v = 2 * t0.v
         /\ M4!DivStep(s).q = t0.q + o * t0.u /\ M4!DivStep(s).r = t0.r + o * t0.v
         /\ M4!DivStep(s) \in DivRecord
<1> DEFINE o == t0.g % 2
           h == [delta |-> t0.delta + 1, f |-> t0.f, g |-> (t0.g + o * t0.f) \div 2,
                 u |-> 2 * t0.u, v |-> 2 * t0.v, q |-> t0.q + o * t0.u, r |-> t0.r + o * t0.v]
<1>1. M4!DivStep(s) = h
  BY DEF M4!DivStep, DivSwapped, Swaps
<1>2. t0 \in DivRecord
  BY SwapFields
<1>3. o \in {0, 1}
  BY <1>2 DEF DivRecord
<1>4. /\ t0.delta + 1 \in Int /\ t0.f \in Int /\ (t0.g + o * t0.f) \div 2 \in Int
      /\ 2 * t0.u \in Int /\ 2 * t0.v \in Int /\ t0.q + o * t0.u \in Int /\ t0.r + o * t0.v \in Int
  <2> HIDE DEF o
  <2>1. /\ t0.delta \in Int /\ t0.f \in Int /\ t0.g \in Int /\ t0.u \in Int /\ t0.v \in Int
        /\ t0.q \in Int /\ t0.r \in Int
    BY <1>2 DEF DivRecord
  <2> QED
    BY <1>3, <2>1
<1>5. h \in DivRecord
  <2> HIDE DEF o
  <2> QED
    BY <1>4 DEF DivRecord
<1> QED
  BY <1>1, <1>2, <1>5

(* The table of steps from given numbers. *)
DivTable(c, dl, f, g) ==
  CHOOSE h : h = [j \in 0..c |-> IF j = 0 THEN DivFirst(dl, f, g) ELSE M4!DivStep(h[j - 1])]

LEMMA DivStepsTable == \A c, dl, f, g : M4!DivSteps(c, dl, f, g) = DivTable(c, dl, f, g)[c]
BY DEF M4!DivSteps, DivTable, DivFirst

LEMMA DivTableUnfolded ==
  ASSUME NEW c \in Nat, NEW dl \in Int, NEW f \in Int, NEW g \in Int
  PROVE  /\ DivTable(c, dl, f, g)[0] = DivFirst(dl, f, g)
         /\ \A j \in 1..c : DivTable(c, dl, f, g)[j] = M4!DivStep(DivTable(c, dl, f, g)[j - 1])
         /\ \A j \in 0..c : DivTable(c, dl, f, g)[j] \in DivRecord
<1> DEFINE V == DivRecord
           z == DivFirst(dl, f, g)
           F == [j \in 1..c |-> [v \in V |-> M4!DivStep(v)]]
           body(h) == [j \in 0..c |-> IF j = 0 THEN z ELSE M4!DivStep(h[j - 1])]
           s == CHOOSE h : h = body(h)
           h0 == Unfolded(c, V, z, F)
<1>1. DivTable(c, dl, f, g) = s
  BY DEF DivTable
<1>2. z \in V
  BY DEF DivFirst, DivRecord
<1>3. ASSUME NEW v \in V PROVE M4!DivStep(v) \in V
  BY <1>3, StepFields
<1> HIDE DEF z
<1>4. F \in [1..c -> [V -> V]]
  <2> HIDE DEF V
  <2> QED
    BY <1>3
<1>5. h0 \in [0..c -> V] /\ h0[0] = z /\ \A j \in 1..c : h0[j] = F[j][h0[j - 1]]
  <2> HIDE DEF V, F
  <2> QED
    BY <1>2, <1>4, Unfolding
<1>6. \A j \in 1..c : h0[j] = M4!DivStep(h0[j - 1])
  <2> HIDE DEF V, h0
  <2>1. ASSUME NEW j \in 1..c PROVE h0[j - 1] \in V /\ h0[j] = F[j][h0[j - 1]]
    BY <1>5
  <2> QED
    BY <2>1
<1>7. h0 = body(h0)
  <2> HIDE DEF h0, V
  <2>1. \A j \in 0..c : h0[j] = IF j = 0 THEN z ELSE M4!DivStep(h0[j - 1])
    BY <1>5, <1>6
  <2> QED
    BY <1>5, <2>1
<1>8. s = body(s)
  <2> HIDE DEF body, h0
  <2> QED
    BY <1>7
<1> HIDE DEF V
<1>9. s[0] = z /\ \A j \in 1..c : s[j] = M4!DivStep(s[j - 1])
  <2> HIDE DEF s, h0
  <2>1. \A j \in 0..c : s[j] = IF j = 0 THEN z ELSE M4!DivStep(s[j - 1])
    BY <1>8
  <2> QED
    BY <2>1
<1>10. \A j \in 0..c : s[j] \in V
  <2> DEFINE S == {j \in 0..c : s[j] \in V}
  <2> HIDE DEF s
  <2>1. 0 \in S
    BY <1>2, <1>9
  <2>2. ASSUME NEW j \in 1..c, j - 1 \in S PROVE j \in S
    BY <2>2, <1>3, <1>9
  <2> HIDE DEF S
  <2>3. 0..c \subseteq S
    BY <2>1, <2>2, UpTo
  <2> QED
    BY <2>3 DEF S
<1> QED
  BY <1>1, <1>9, <1>10 DEF z, V

(* One step more is the step after. *)
LEMMA DivStepsNext ==
  ASSUME NEW c \in Nat, NEW dl \in Int, NEW f \in Int, NEW g \in Int
  PROVE  /\ M4!DivSteps(0, dl, f, g) = DivFirst(dl, f, g)
         /\ M4!DivSteps(c, dl, f, g) \in DivRecord
         /\ M4!DivSteps(c + 1, dl, f, g) = M4!DivStep(M4!DivSteps(c, dl, f, g))
<1> DEFINE H(n) == DivTable(n, dl, f, g)
           S == {j \in 0..c : H(c)[j] = H(c + 1)[j]}
<1>1. ASSUME NEW n \in Nat
      PROVE  /\ H(n)[0] = DivFirst(dl, f, g)
             /\ \A j \in 1..n : H(n)[j] = M4!DivStep(H(n)[j - 1])
             /\ \A j \in 0..n : H(n)[j] \in DivRecord
  BY DivTableUnfolded
<1>2. \A n : M4!DivSteps(n, dl, f, g) = H(n)[n]
  BY DivStepsTable
<1> HIDE DEF H
<1>3. 0 \in S
  BY <1>1, c + 1 \in Nat
<1>4. ASSUME NEW j \in 1..c, j - 1 \in S PROVE j \in S
  <2>1. H(c)[j] = M4!DivStep(H(c)[j - 1]) /\ H(c + 1)[j] = M4!DivStep(H(c + 1)[j - 1])
    BY <1>1, c + 1 \in Nat, j \in 1..(c + 1)
  <2> QED
    BY <1>4, <2>1
<1> HIDE DEF S
<1>5. 0..c \subseteq S
  BY <1>3, <1>4, UpTo
<1>6. H(c)[c] = H(c + 1)[c]
  BY <1>5, c \in 0..c DEF S
<1>7. H(c + 1)[c + 1] = M4!DivStep(H(c + 1)[c])
  BY <1>1, c + 1 \in Nat, c + 1 \in 1..(c + 1), (c + 1) - 1 = c
<1> QED
  BY <1>1, <1>2, <1>6, <1>7, c \in 0..c, 0 \in Nat

(* The magnitudes of two numbers are together at most a third one. *)
Within(a, b, c) == a + b <= c /\ a - b <= c /\ b - a <= c /\ -a - b <= c

(* What a step leaves of the two numbers it halves. *)
DivSound(s, w, x, y) ==
  /\ s.f % 2 = 1
  /\ s.u * x + s.v * y = w * s.f
  /\ s.q * x + s.r * y = w * s.g
  /\ s.u * s.r - s.v * s.q = w
  /\ Within(s.u, s.v, w) /\ Within(s.q, s.r, w)

LEMMA SwapSound ==
  ASSUME NEW s \in DivRecord, NEW w \in Nat, NEW x \in Int, NEW y \in Int, DivSound(s, w, x, y)
  PROVE  DivSound(DivSwapped(s), w, x, y)
<1>1. /\ s.f \in Int /\ s.g \in Int /\ s.u \in Int /\ s.v \in Int /\ s.q \in Int /\ s.r \in Int
  BY DEF DivRecord
<1>2. CASE Swaps(s)
  <2> DEFINE z == DivSwapped(s)
             ux == s.u * x
             vy == s.v * y
             qx == s.q * x
             ry == s.r * y
             wf == w * s.f
             wg == w * s.g
  <2>1. z.f = s.g /\ z.g = -s.f /\ z.u = s.q /\ z.v = s.r /\ z.q = -s.u /\ z.r = -s.v
    BY <1>2, SwapFields
  <2> HIDE DEF z
  <2>2. z.f % 2 = 1
    BY <1>2, <2>1 DEF Swaps
  <2>3. z.u * x + z.v * y = w * z.f
    BY <2>1 DEF DivSound
  <2>4. z.q * x + z.r * y = w * z.g
    <3>1. ux + vy = wf /\ ux \in Int /\ vy \in Int /\ wf \in Int
      BY <1>1 DEF DivSound
    <3>2. (-s.u) * x = -ux /\ (-s.v) * y = -vy /\ w * (-s.f) = -wf
      BY <1>1
    <3> HIDE DEF ux, vy, wf
    <3>3. (-s.u) * x + (-s.v) * y = w * (-s.f)
      BY <3>1, <3>2
    <3> QED
      BY <2>1, <3>3
  <2>5. z.u * z.r - z.v * z.q = w
    <3> DEFINE ur == s.u * s.r
               vq == s.v * s.q
    <3>1. ur - vq = w /\ ur \in Int /\ vq \in Int
      BY <1>1 DEF DivSound
    <3>2. s.q * (-s.v) = -vq /\ s.r * (-s.u) = -ur
      BY <1>1
    <3> HIDE DEF ur, vq
    <3>3. s.q * (-s.v) - s.r * (-s.u) = w
      BY <3>1, <3>2
    <3> QED
      BY <2>1, <3>3
  <2>6. Within(z.u, z.v, w) /\ Within(z.q, z.r, w)
    <3>1. Within(s.u, s.v, w) /\ Within(s.q, s.r, w)
      BY DEF DivSound
    <3>2. Within(-s.u, -s.v, w)
      BY <1>1, <3>1 DEF Within
    <3> QED
      BY <2>1, <3>1, <3>2
  <2> QED
    BY <2>2, <2>3, <2>4, <2>5, <2>6 DEF DivSound, z
<1>3. CASE ~Swaps(s)
  BY <1>3, SwapFields
<1> QED
  BY <1>2, <1>3

LEMMA StepSound ==
  ASSUME NEW s \in DivRecord, NEW w \in Nat, NEW x \in Int, NEW y \in Int, DivSound(s, w, x, y)
  PROVE  DivSound(M4!DivStep(s), 2 * w, x, y)
<1> DEFINE z == DivSwapped(s)
           o == z.g % 2
           n == M4!DivStep(s)
<1>1. /\ z \in DivRecord
      /\ n.f = z.f /\ n.g = (z.g + o * z.f) \div 2 /\ n.u = 2 * z.u /\ n.v = 2 * z.v
      /\ n.q = z.q + o * z.u /\ n.r = z.r + o * z.v
  BY StepFields
<1>2. DivSound(z, w, x, y)
  BY SwapSound
<1> HIDE DEF z, n
<1>3. z.f \in Int /\ z.g \in Int /\ z.u \in Int /\ z.v \in Int /\ z.q \in Int /\ z.r \in Int
  BY <1>1 DEF DivRecord
<1>4. o \in {0, 1}
  BY <1>3
<1>5. n.f % 2 = 1
  BY <1>1, <1>2 DEF DivSound
<1>6. 2 * n.g = z.g + o * z.f
  <2>1. z.f % 2 = 1
    BY <1>2 DEF DivSound
  <2> DEFINE x2 == z.g + o * z.f
  <2>2. x2 \in Int /\ x2 % 2 = 0
    <3>1. CASE o = 0
      BY <1>3, <3>1
    <3>2. CASE o = 1
      BY <1>3, <2>1, <3>2
    <3> QED
      BY <1>4, <3>1, <3>2
  <2>3. n.g = x2 \div 2
    BY <1>1
  <2> HIDE DEF x2
  <2>4. 2 * n.g = x2
    BY <2>2, <2>3
  <2> QED
    BY <2>4 DEF x2
<1> HIDE DEF o
<1> DEFINE ux == z.u * x
           vy == z.v * y
           qx == z.q * x
           ry == z.r * y
           wf == w * z.f
           wg == w * z.g
<1>7. /\ ux \in Int /\ vy \in Int /\ qx \in Int /\ ry \in Int /\ wf \in Int /\ wg \in Int
      /\ ux + vy = wf /\ qx + ry = wg
  BY <1>2, <1>3 DEF DivSound
<1>8. n.u * x + n.v * y = (2 * w) * n.f
  <2>1. (2 * z.u) * x = 2 * ux /\ (2 * z.v) * y = 2 * vy /\ (2 * w) * z.f = 2 * wf
    BY <1>3
  <2> HIDE DEF ux, vy, wf
  <2>2. (2 * z.u) * x + (2 * z.v) * y = (2 * w) * z.f
    BY <1>7, <2>1
  <2> QED
    BY <1>1, <2>2
<1>9. n.q * x + n.r * y = (2 * w) * n.g
  <2>1. (2 * w) * n.g = w * (z.g + o * z.f)
    <3>1. n.g \in Int
      BY <1>1, <1>3, <1>4
    <3>2. (2 * w) * n.g = w * (2 * n.g)
      BY <3>1
    <3> QED
      BY <1>6, <3>2
  <2>2. CASE o = 0
    <3>1. n.q = z.q /\ n.r = z.r /\ (2 * w) * n.g = wg
      BY <1>1, <1>3, <2>1, <2>2
    <3> QED
      BY <1>7, <3>1
  <2>3. CASE o = 1
    <3>1. n.q = z.q + z.u /\ n.r = z.r + z.v /\ (2 * w) * n.g = w * (z.g + z.f)
      BY <1>1, <1>3, <2>1, <2>3
    <3>2. (z.q + z.u) * x = qx + ux /\ (z.r + z.v) * y = ry + vy /\ w * (z.g + z.f) = wg + wf
      BY <1>3
    <3> HIDE DEF ux, vy, qx, ry, wf, wg
    <3>3. (z.q + z.u) * x + (z.r + z.v) * y = w * (z.g + z.f)
      BY <1>7, <3>2
    <3> QED
      BY <3>1, <3>3
  <2> QED
    BY <1>4, <2>2, <2>3
<1>10. n.u * n.r - n.v * n.q = 2 * w
  <2> DEFINE ur == z.u * z.r
             vq == z.v * z.q
             uv == z.u * z.v
  <2>1. ur \in Int /\ vq \in Int /\ uv \in Int /\ ur - vq = w
    BY <1>2, <1>3 DEF DivSound
  <2>2. CASE o = 0
    <3>1. n.u = 2 * z.u /\ n.v = 2 * z.v /\ n.q = z.q /\ n.r = z.r
      BY <1>1, <1>3, <2>2
    <3>2. (2 * z.u) * z.r = 2 * ur /\ (2 * z.v) * z.q = 2 * vq
      BY <1>3
    <3> HIDE DEF ur, vq
    <3>3. (2 * z.u) * z.r - (2 * z.v) * z.q = 2 * w
      BY <2>1, <3>2
    <3> QED
      BY <3>1, <3>3
  <2>3. CASE o = 1
    <3>1. n.u = 2 * z.u /\ n.v = 2 * z.v /\ n.q = z.q + z.u /\ n.r = z.r + z.v
      BY <1>1, <1>3, <2>3
    <3>2. (2 * z.u) * (z.r + z.v) = 2 * ur + 2 * uv /\ (2 * z.v) * (z.q + z.u) = 2 * vq + 2 * uv
      BY <1>3
    <3> HIDE DEF ur, vq, uv
    <3>3. (2 * z.u) * (z.r + z.v) - (2 * z.v) * (z.q + z.u) = 2 * w
      BY <2>1, <3>2
    <3> QED
      BY <3>1, <3>3
  <2> QED
    BY <1>4, <2>2, <2>3
<1>11. Within(n.u, n.v, 2 * w) /\ Within(n.q, n.r, 2 * w)
  <2>1. Within(z.u, z.v, w) /\ Within(z.q, z.r, w)
    BY <1>2 DEF DivSound
  <2>2. Within(2 * z.u, 2 * z.v, 2 * w)
    BY <1>3, <2>1 DEF Within
  <2>3. Within(z.q, z.r, 2 * w)
    BY <1>3, <2>1 DEF Within
  <2>4. Within(z.q + z.u, z.r + z.v, 2 * w)
    BY <1>3, <2>1 DEF Within
  <2>5. o = 0 => n.q = z.q /\ n.r = z.r
    BY <1>1, <1>3
  <2>6. o = 1 => n.q = z.q + z.u /\ n.r = z.r + z.v
    BY <1>1, <1>3
  <2> QED
    BY <1>1, <1>4, <2>2, <2>3, <2>4, <2>5, <2>6
<1> QED
  BY <1>5, <1>8, <1>9, <1>10, <1>11 DEF DivSound, n

(* The numbers e that a step would keep if nothing were cut off, when s began with
   remainders: a and b are the quotients, c the weight of the first digit missing. *)
Tracks(s, e0, c, a, b) ==
  /\ e0.delta = s.delta
  /\ e0.f = s.f + c * (s.u * a + s.v * b)
  /\ e0.g = s.g + c * (s.q * a + s.r * b)

LEMMA HalfShift ==
  ASSUME NEW x \in Int, NEW y \in Int
  PROVE  (x + 2 * y) \div 2 = (x \div 2) + y /\ (x + 2 * y) % 2 = x % 2
OBVIOUS

LEMMA SwapTracks ==
  ASSUME NEW s \in DivRecord, NEW e0 \in DivRecord, NEW c \in Nat, NEW a \in Int, NEW b \in Int,
         Tracks(s, e0, 2 * c, a, b)
  PROVE  Tracks(DivSwapped(s), DivSwapped(e0), 2 * c, a, b)
<1>1. /\ s.f \in Int /\ s.g \in Int /\ s.u \in Int /\ s.v \in Int /\ s.q \in Int /\ s.r \in Int
      /\ s.delta \in Int /\ e0.f \in Int /\ e0.g \in Int /\ e0.delta \in Int
  BY DEF DivRecord
<1> DEFINE uv == s.u * a + s.v * b
           qr == s.q * a + s.r * b
           cu == c * uv
           cq == c * qr
<1>2. uv \in Int /\ qr \in Int
  BY <1>1
<1>3. cu \in Int /\ cq \in Int /\ (2 * c) * uv = 2 * cu /\ (2 * c) * qr = 2 * cq
  <2> HIDE DEF uv, qr
  <2> QED
    BY <1>2
<1>4. e0.delta = s.delta /\ e0.f = s.f + 2 * cu /\ e0.g = s.g + 2 * cq
  <2>1. e0.delta = s.delta /\ e0.f = s.f + (2 * c) * uv /\ e0.g = s.g + (2 * c) * qr
    BY DEF Tracks
  <2> QED
    BY <1>3, <2>1
<1>5. e0.g % 2 = s.g % 2
  <2> HIDE DEF cq
  <2> QED
    BY <1>1, <1>3, <1>4
<1>6. Swaps(e0) <=> Swaps(s)
  BY <1>4, <1>5 DEF Swaps
<1>7. CASE Swaps(s)
  <2> DEFINE z == DivSwapped(s)
             y == DivSwapped(e0)
  <2>1. z.delta = -s.delta /\ z.f = s.g /\ z.g = -s.f /\ z.u = s.q /\ z.v = s.r /\ z.q = -s.u /\ z.r = -s.v
    BY <1>7, SwapFields
  <2>2. y.delta = -e0.delta /\ y.f = e0.g /\ y.g = -e0.f
    BY <1>6, <1>7, SwapFields
  <2> HIDE DEF z, y
  <2>3. y.g = z.g + (2 * c) * (z.q * a + z.r * b)
    <3>1. (-s.u) * a + (-s.v) * b = -uv
      BY <1>1
    <3>2. (2 * c) * (-uv) = -(2 * cu)
      <4> HIDE DEF uv
      <4> QED
        BY <1>2
    <3>3. (2 * c) * (z.q * a + z.r * b) = -(2 * cu)
      BY <2>1, <3>1, <3>2
    <3>4. y.g = -(s.f + 2 * cu)
      BY <1>4, <2>2
    <3> HIDE DEF cu
    <3>5. -(s.f + 2 * cu) = (-s.f) + (-(2 * cu))
      BY <1>1, <1>3
    <3> QED
      BY <2>1, <3>3, <3>4, <3>5
  <2>4. y.f = z.f + (2 * c) * (z.u * a + z.v * b)
    BY <1>3, <1>4, <2>1, <2>2
  <2> QED
    BY <1>4, <2>1, <2>2, <2>3, <2>4 DEF Tracks, z, y
<1>8. CASE ~Swaps(s)
  BY <1>6, <1>8, SwapFields
<1> QED
  BY <1>7, <1>8

LEMMA StepTracks ==
  ASSUME NEW s \in DivRecord, NEW e0 \in DivRecord, NEW c \in Nat, NEW a \in Int, NEW b \in Int,
         Tracks(s, e0, 2 * c, a, b)
  PROVE  Tracks(M4!DivStep(s), M4!DivStep(e0), c, a, b)
<1> DEFINE z == DivSwapped(s)
           y == DivSwapped(e0)
           o == z.g % 2
           w == y.g % 2
           n == M4!DivStep(s)
           h == M4!DivStep(e0)
<1>1. /\ z \in DivRecord /\ n.delta = z.delta + 1
      /\ n.f = z.f /\ n.g = (z.g + o * z.f) \div 2 /\ n.u = 2 * z.u /\ n.v = 2 * z.v
      /\ n.q = z.q + o * z.u /\ n.r = z.r + o * z.v
  BY StepFields
<1>2. /\ y \in DivRecord /\ h.delta = y.delta + 1 /\ h.f = y.f /\ h.g = (y.g + w * y.f) \div 2
  BY StepFields
<1>3. Tracks(z, y, 2 * c, a, b)
  BY SwapTracks
<1> HIDE DEF z, y, n, h
<1>4. /\ z.f \in Int /\ z.g \in Int /\ z.u \in Int /\ z.v \in Int /\ z.q \in Int /\ z.r \in Int
      /\ y.f \in Int /\ y.g \in Int
  BY <1>1, <1>2 DEF DivRecord
<1> DEFINE uv == z.u * a + z.v * b
           qr == z.q * a + z.r * b
           cu == c * uv
           cq == c * qr
<1>5. uv \in Int /\ qr \in Int
  BY <1>4
<1>6. cu \in Int /\ cq \in Int /\ (2 * c) * uv = 2 * cu /\ (2 * c) * qr = 2 * cq
  <2> HIDE DEF uv, qr
  <2> QED
    BY <1>5
<1>7. y.delta = z.delta /\ y.f = z.f + 2 * cu /\ y.g = z.g + 2 * cq
  <2>1. y.delta = z.delta /\ y.f = z.f + (2 * c) * uv /\ y.g = z.g + (2 * c) * qr
    BY <1>3 DEF Tracks
  <2> QED
    BY <1>6, <2>1
<1>8. w = o /\ o \in {0, 1}
  <2>1. y.g % 2 = z.g % 2
    <3> HIDE DEF cq
    <3>1. (z.g + 2 * cq) % 2 = z.g % 2
      BY <1>4, <1>6, HalfShift
    <3> QED
      BY <1>7, <3>1
  <2> QED
    BY <1>4, <2>1
<1>9. h.f = n.f + c * (n.u * a + n.v * b)
  <2>1. (2 * z.u) * a + (2 * z.v) * b = 2 * uv
    BY <1>4
  <2>2. c * (2 * uv) = 2 * cu
    <3> HIDE DEF uv
    <3> QED
      BY <1>5
  <2>3. c * (n.u * a + n.v * b) = 2 * cu
    BY <1>1, <2>1, <2>2
  <2> QED
    BY <1>1, <1>2, <1>7, <2>3
<1>10. h.g = n.g + c * (n.q * a + n.r * b)
  <2>1. CASE o = 0
    <3>1. n.q = z.q /\ n.r = z.r /\ n.g = z.g \div 2 /\ h.g = y.g \div 2
      <4>1. w = 0
        BY <1>8, <2>1
      <4> HIDE DEF o, w
      <4>2. /\ n.g = (z.g + 0 * z.f) \div 2 /\ h.g = (y.g + 0 * y.f) \div 2
            /\ n.q = z.q + 0 * z.u /\ n.r = z.r + 0 * z.v
        BY <1>1, <1>2, <2>1, <4>1
      <4>3. z.g + 0 * z.f = z.g /\ y.g + 0 * y.f = y.g /\ z.q + 0 * z.u = z.q /\ z.r + 0 * z.v = z.r
        BY <1>4
      <4> QED
        BY <4>2, <4>3
    <3>2. (z.g + 2 * cq) \div 2 = z.g \div 2 + cq
      <4> HIDE DEF cq
      <4> QED
        BY <1>4, <1>6, HalfShift
    <3> QED
      BY <1>7, <3>1, <3>2
  <2>2. CASE o = 1
    <3>1. n.q = z.q + z.u /\ n.r = z.r + z.v /\ n.g = (z.g + z.f) \div 2 /\ h.g = (y.g + y.f) \div 2
      <4>1. w = 1
        BY <1>8, <2>2
      <4> HIDE DEF o, w
      <4>2. /\ n.g = (z.g + 1 * z.f) \div 2 /\ h.g = (y.g + 1 * y.f) \div 2
            /\ n.q = z.q + 1 * z.u /\ n.r = z.r + 1 * z.v
        BY <1>1, <1>2, <2>2, <4>1
      <4>3. 1 * z.f = z.f /\ 1 * y.f = y.f /\ 1 * z.u = z.u /\ 1 * z.v = z.v
        BY <1>4
      <4> QED
        BY <4>2, <4>3
    <3>2. (y.g + y.f) \div 2 = (z.g + z.f) \div 2 + (cq + cu)
      <4> HIDE DEF cq, cu
      <4> DEFINE x0 == z.g + z.f
                 y0 == cq + cu
      <4>1. x0 \in Int /\ y0 \in Int
        BY <1>4, <1>6
      <4>2. y.g + y.f = x0 + 2 * y0
        BY <1>4, <1>6, <1>7
      <4> HIDE DEF x0, y0
      <4>3. (x0 + 2 * y0) \div 2 = (x0 \div 2) + y0
        BY <4>1, HalfShift
      <4> QED
        BY <4>2, <4>3 DEF x0, y0
    <3>3. (z.q + z.u) * a + (z.r + z.v) * b = qr + uv
      BY <1>4
    <3>4. c * (qr + uv) = cq + cu
      <4> HIDE DEF qr, uv
      <4> QED
        BY <1>5
    <3>5. c * (n.q * a + n.r * b) = cq + cu
      BY <3>1, <3>3, <3>4
    <3> QED
      BY <3>1, <3>2, <3>5
  <2> QED
    BY <1>8, <2>1, <2>2
<1> QED
  BY <1>1, <1>2, <1>7, <1>9, <1>10 DEF Tracks, n, h

(* A row of the matrix takes numbers to what it takes their remainders to, and more. *)
LEMMA RowOfNumbers ==
  ASSUME NEW w \in Nat, NEW u \in Int, NEW v \in Int, NEW x0 \in Int, NEW y0 \in Int,
         NEW a \in Int, NEW b \in Int, NEW f \in Int, u * x0 + v * y0 = w * f
  PROVE  u * ((2 * w) * a + x0) + v * ((2 * w) * b + y0) = w * (f + 2 * (u * a + v * b))
<1> DEFINE ux == u * x0
           vy == v * y0
           ua == u * a
           vb == v * b
           wa == w * a
           wb == w * b
           wf == w * f
           wua == w * ua
           wvb == w * vb
<1>1. /\ ux \in Int /\ vy \in Int /\ ua \in Int /\ vb \in Int /\ wa \in Int /\ wb \in Int /\ wf \in Int
      /\ ux + vy = wf
  OBVIOUS
<1>2. u * wa = wua /\ v * wb = wvb
  BY Product3
<1>3. wua \in Int /\ wvb \in Int
  <2> HIDE DEF ua, vb
  <2> QED
    BY <1>1
<1>4. u * ((2 * w) * a + x0) = 2 * wua + ux
  <2>1. (2 * w) * a = 2 * wa
    OBVIOUS
  <2> HIDE DEF wua, wa
  <2>2. u * (2 * wa + x0) = 2 * (u * wa) + u * x0
    BY <1>1
  <2> QED
    BY <1>2, <2>1, <2>2
<1>5. v * ((2 * w) * b + y0) = 2 * wvb + vy
  <2>1. (2 * w) * b = 2 * wb
    OBVIOUS
  <2> HIDE DEF wvb, wb
  <2>2. v * (2 * wb + y0) = 2 * (v * wb) + v * y0
    BY <1>1
  <2> QED
    BY <1>2, <2>1, <2>2
<1>6. w * (f + 2 * (ua + vb)) = wf + 2 * (wua + wvb)
  <2> HIDE DEF ua, vb
  <2> QED
    BY <1>1
<1> HIDE DEF ux, vy, wf, wua, wvb
<1>7. (2 * wua + ux) + (2 * wvb + vy) = wf + 2 * (wua + wvb)
  BY <1>1, <1>3
<1> QED
  BY <1>4, <1>5, <1>6, <1>7

(* The numbers that steps compute when nothing is cut off. *)
ExactSteps(ex, c) ==
  /\ \A j \in 0..c : ex[j] \in DivRecord
  /\ \A j \in 0..(c - 1) : ex[j + 1] = M4!DivStep(ex[j])

(* A round's matrix, computed from the low words alone, is the one of the exact steps. *)
LEMMA RoundExact ==
  ASSUME NEW c \in Nat, NEW ex, ExactSteps(ex, c), NEW dl \in Int, NEW x \in Int, NEW y \in Int,
         x % 2 = 1, ex[0].delta = dl, ex[0].f = x, ex[0].g = y,
         NEW s0, s0 = M4!DivSteps(c, dl, x % PowerOf(2, c + 1), y % PowerOf(2, c + 1))
  PROVE  /\ s0 \in DivRecord /\ s0.delta = ex[c].delta /\ ex[c].f % 2 = 1
         /\ s0.u * x + s0.v * y = PowerOf(2, c) * ex[c].f
         /\ s0.q * x + s0.r * y = PowerOf(2, c) * ex[c].g
         /\ s0.u * s0.r - s0.v * s0.q = PowerOf(2, c)
         /\ Within(s0.u, s0.v, PowerOf(2, c)) /\ Within(s0.q, s0.r, PowerOf(2, c))
<1> DEFINE Q(n) == PowerOf(2, n)
           w == Q(c)
           z == Q(c + 1)
           x0 == x % z
           y0 == y % z
           a == x \div z
           b == y \div z
           H(n) == M4!DivSteps(n, dl, x0, y0)
           S == {j \in 0..c : /\ H(j) \in DivRecord /\ DivSound(H(j), Q(j), x0, y0)
                              /\ Tracks(H(j), ex[j], Q((c + 1) - j), a, b)}
<1>1. Q(0) = 1 /\ \A n \in Nat : Q(n) \in Nat /\ Q(n) > 0 /\ Q(n + 1) = 2 * Q(n)
  BY PowersOfTwo
<1> HIDE DEF Q
<1>2. w \in Nat /\ z \in Nat /\ z > 0 /\ z = 2 * w
  BY <1>1, c + 1 \in Nat
<1>3. /\ x0 \in Int /\ a \in Int /\ x = z * a + x0
      /\ y0 \in Int /\ b \in Int /\ y = z * b + y0
  BY <1>2, Division
<1> HIDE DEF w, z, x0, y0, a, b
<1>4. ASSUME NEW n \in Nat
      PROVE  /\ H(0) = DivFirst(dl, x0, y0) /\ H(n) \in DivRecord /\ H(n + 1) = M4!DivStep(H(n))
  <2>1. x0 \in Int /\ y0 \in Int
    BY <1>3
  <2> QED
    BY <2>1, DivStepsNext
<1> HIDE DEF H
<1>5. 0 \in S
  <2> DEFINE h == H(0)
  <2>1. /\ h \in DivRecord /\ h.delta = dl /\ h.f = x0 /\ h.g = y0
        /\ h.u = 1 /\ h.v = 0 /\ h.q = 0 /\ h.r = 1
    BY <1>4, 0 \in Nat DEF DivFirst
  <2>2. x0 % 2 = 1
    <3> DEFINE wa == w * a
    <3>1. wa \in Int /\ x = 2 * wa + x0
      <4>1. (2 * w) * a = 2 * wa
        BY <1>2, <1>3
      <4> QED
        BY <1>2, <1>3, <4>1
    <3> HIDE DEF wa
    <3>2. (x0 + 2 * wa) % 2 = x0 % 2
      BY <1>3, <3>1, HalfShift
    <3>3. x = x0 + 2 * wa
      BY <1>3, <3>1
    <3> QED
      BY <3>2, <3>3
  <2>3. DivSound(h, 1, x0, y0)
    <3> HIDE DEF h
    <3>1. 1 * x0 + 0 * y0 = 1 * x0 /\ 0 * x0 + 1 * y0 = 1 * y0
      BY <1>3
    <3> QED
      BY <2>1, <2>2, <3>1 DEF DivSound, Within
  <2>4. Tracks(h, ex[0], z, a, b)
    <3> HIDE DEF h
    <3>1. 1 * a + 0 * b = a /\ 0 * a + 1 * b = b
      BY <1>3
    <3>2. x = x0 + z * a /\ y = y0 + z * b
      BY <1>2, <1>3
    <3> QED
      BY <2>1, <3>1, <3>2 DEF Tracks
  <2> HIDE DEF h
  <2>5. (c + 1) - 0 = c + 1
    OBVIOUS
  <2> QED
    BY <1>1, <2>1, <2>3, <2>4, <2>5 DEF h, z
<1>6. ASSUME NEW j \in 1..c, j - 1 \in S PROVE j \in S
  <2> DEFINE h == j - 1
             d == (c + 1) - j
  <2>1. h \in Nat /\ h \in 0..(c - 1) /\ h + 1 = j /\ d \in Nat /\ (c + 1) - h = d + 1
    OBVIOUS
  <2>2. /\ H(h) \in DivRecord /\ DivSound(H(h), Q(h), x0, y0)
        /\ Tracks(H(h), ex[h], Q((c + 1) - h), a, b)
    BY <1>6
  <2> HIDE DEF h, d
  <2>3. H(j) = M4!DivStep(H(h)) /\ H(j) \in DivRecord /\ ex[j] = M4!DivStep(ex[h]) /\ ex[h] \in DivRecord
    BY <1>4, <2>1, j \in Nat DEF ExactSteps
  <2>4. Q(j) = 2 * Q(h) /\ Q((c + 1) - h) = 2 * Q(d) /\ Q(h) \in Nat /\ Q(d) \in Nat
    BY <1>1, <2>1
  <2>5. DivSound(H(j), Q(j), x0, y0)
    BY <1>3, <2>2, <2>3, <2>4, StepSound
  <2>6. Tracks(H(j), ex[j], Q(d), a, b)
    BY <1>3, <2>2, <2>3, <2>4, StepTracks
  <2> QED
    BY <2>3, <2>5, <2>6 DEF d
<1> HIDE DEF S
<1>7. c \in S
  <2>1. 0..c \subseteq S
    BY <1>5, <1>6, UpTo
  <2> QED
    BY <2>1, c \in 0..c
<1>8. s0 = H(c)
  BY DEF H, x0, y0, z, Q
<1>9. /\ s0 \in DivRecord /\ DivSound(s0, w, x0, y0) /\ Tracks(s0, ex[c], 2, a, b)
  <2>1. Q((c + 1) - c) = 2
    <3>1. (c + 1) - c = 0 + 1
      OBVIOUS
    <3> QED
      BY <1>1, <3>1, 0 \in Nat
  <2> QED
    BY <1>7, <1>8, <2>1 DEF S, w
<1>10. /\ s0.f \in Int /\ s0.g \in Int /\ s0.u \in Int /\ s0.v \in Int /\ s0.q \in Int /\ s0.r \in Int
  BY <1>9 DEF DivRecord
<1>11. /\ ex[c].delta = s0.delta
       /\ ex[c].f = s0.f + 2 * (s0.u * a + s0.v * b) /\ ex[c].g = s0.g + 2 * (s0.q * a + s0.r * b)
  BY <1>9 DEF Tracks
<1>12. s0.u * x + s0.v * y = w * ex[c].f
  <2>1. s0.u * x0 + s0.v * y0 = w * s0.f
    BY <1>9 DEF DivSound
  <2>2. s0.u \in Int /\ s0.v \in Int /\ s0.f \in Int /\ w \in Nat
    BY <1>2, <1>10
  <2>3. x0 \in Int /\ y0 \in Int /\ a \in Int /\ b \in Int
    BY <1>3
  <2>4. s0.u * ((2 * w) * a + x0) + s0.v * ((2 * w) * b + y0)
          = w * (s0.f + 2 * (s0.u * a + s0.v * b))
    <3> DEFINE k1 == s0.u
               k3 == s0.v
               h1 == s0.f
    <3>1. k1 \in Int /\ k3 \in Int /\ h1 \in Int /\ w \in Nat /\ k1 * x0 + k3 * y0 = w * h1
      BY <2>1, <2>2
    <3> HIDE DEF k1, k3, h1
    <3>2. k1 * ((2 * w) * a + x0) + k3 * ((2 * w) * b + y0) = w * (h1 + 2 * (k1 * a + k3 * b))
      BY <2>3, <3>1, RowOfNumbers
    <3> QED
      BY <3>2 DEF k1, k3, h1
  <2>5. x = (2 * w) * a + x0 /\ y = (2 * w) * b + y0
    BY <1>2, <1>3
  <2> QED
    BY <1>11, <2>4, <2>5
<1>13. s0.q * x + s0.r * y = w * ex[c].g
  <2>1. s0.q * x0 + s0.r * y0 = w * s0.g
    BY <1>9 DEF DivSound
  <2>2. s0.q \in Int /\ s0.r \in Int /\ s0.g \in Int /\ w \in Nat
    BY <1>2, <1>10
  <2>3. x0 \in Int /\ y0 \in Int /\ a \in Int /\ b \in Int
    BY <1>3
  <2>4. s0.q * ((2 * w) * a + x0) + s0.r * ((2 * w) * b + y0)
          = w * (s0.g + 2 * (s0.q * a + s0.r * b))
    <3> DEFINE k1 == s0.q
               k3 == s0.r
               h1 == s0.g
    <3>1. k1 \in Int /\ k3 \in Int /\ h1 \in Int /\ w \in Nat /\ k1 * x0 + k3 * y0 = w * h1
      BY <2>1, <2>2
    <3> HIDE DEF k1, k3, h1
    <3>2. k1 * ((2 * w) * a + x0) + k3 * ((2 * w) * b + y0) = w * (h1 + 2 * (k1 * a + k3 * b))
      BY <2>3, <3>1, RowOfNumbers
    <3> QED
      BY <3>2 DEF k1, k3, h1
  <2>5. x = (2 * w) * a + x0 /\ y = (2 * w) * b + y0
    BY <1>2, <1>3
  <2> QED
    BY <1>11, <2>4, <2>5
<1>14. ex[c].f % 2 = 1
  <2> DEFINE t0 == s0.u * a + s0.v * b
  <2>1. t0 \in Int
    BY <1>3, <1>10
  <2> HIDE DEF t0
  <2>2. (s0.f + 2 * t0) % 2 = s0.f % 2
    BY <1>10, <2>1, HalfShift
  <2>3. s0.f % 2 = 1
    BY <1>9 DEF DivSound
  <2> QED
    BY <1>11, <2>2, <2>3 DEF t0
<1>15. s0.u * s0.r - s0.v * s0.q = w /\ Within(s0.u, s0.v, w) /\ Within(s0.q, s0.r, w)
  BY <1>9 DEF DivSound
<1> QED
  BY <1>9, <1>11, <1>12, <1>13, <1>14, <1>15 DEF w, Q

(* Magnitudes with a flag that negates them. *)
FlagWords(S) == [flip : BOOLEAN, val : S]

LEMMA M4Powers ==
  ASSUME NEW n \in Nat
  PROVE  M4!Pow2(n) = PowerOf(2, n) /\ M4!Pow2(n) \in Nat /\ M4!Pow2(n) > 0
<1>1. M4!Pow2(n) = PowerOf(2, n)
  BY DEF M4!Pow2, M4!Slide1!Pow2, PowerOf, PowersOf
<1> QED
  BY <1>1, PowersOfTwo

LEMMA FlaggedValue ==
  ASSUME NEW flip \in BOOLEAN, NEW v \in Int
  PROVE  /\ M4!Flagged(flip, M4!Unsigned(flip, v)) \in FlagWords(Int)
         /\ M4!Actual(M4!Flagged(flip, M4!Unsigned(flip, v))) = v
BY DEF M4!Flagged, M4!Unsigned, M4!Actual, FlagWords

LEMMA ActualValue ==
  ASSUME NEW w \in FlagWords(Int)
  PROVE  /\ M4!Actual(w) \in Int /\ w.flip \in BOOLEAN /\ w.val \in Int
         /\ M4!Abs(w.val) = M4!Abs(M4!Actual(w))
         /\ M4!Actual(w) = IF w.flip THEN -w.val ELSE w.val
BY DEF M4!Actual, FlagWords, M4!Abs

(* A row of a round's matrix, applied to f and g: the division is exact. *)
LEMMA FGProduct ==
  ASSUME NEW a \in Int, NEW b \in Int, NEW w0 \in FlagWords(Int), NEW w1 \in FlagWords(Int),
         NEW f \in Int, DivWord \in Nat,
         a * M4!Actual(w0) + b * M4!Actual(w1) = PowerOf(2, DivWord) * f
  PROVE  /\ M4!MatrixMulFG(a, b, w0, w1) \in FlagWords(Int)
         /\ M4!Actual(M4!MatrixMulFG(a, b, w0, w1)) = f
<1> DEFINE flip == M4!Flip(b, w1)
           w == M4!Pow2(DivWord)
<1>1. flip \in BOOLEAN
  BY DEF M4!Flip
<1>2. w = PowerOf(2, DivWord) /\ w \in Nat /\ w > 0
  BY M4Powers
<1> HIDE DEF flip, w
<1>3. (w * f) \div w = f
  <2> DEFINE x == w * f
  <2>1. x \in Int /\ x = w * f + 0
    BY <1>2
  <2>2. 0 \in 0..(w - 1)
    BY <1>2
  <2> HIDE DEF x
  <2> QED
    BY <1>2, <2>1, <2>2, DivisionUnique DEF x
<1>4. M4!MatrixMulFG(a, b, w0, w1) = M4!Flagged(flip, M4!Unsigned(flip, f))
  BY <1>2, <1>3 DEF M4!MatrixMulFG, flip, w
<1> QED
  BY <1>1, <1>4, FlaggedValue

(* Numbers modulo the order may be divided by powers of two. *)
LEMMA HalvesModulo ==
  ASSUME NEW m0 \in Nat, m0 % 2 = 1, NEW n \in Nat, NEW x \in Int
  PROVE  \E z \in 0..(m0 - 1) : (z * PowerOf(2, n)) % m0 = x % m0
<1> DEFINE w == PowerOf(2, n)
<1>1. m0 > 0
  <2>1. CASE m0 = 0
    BY <2>1
  <2> QED
    BY <2>1
<1>2. w \in Nat
  BY PowersOfTwo
<1>3. PICK h \in Int : Same(m0, w * h, 1)
  BY OddInvertible
<1> HIDE DEF w
<1> DEFINE y == x * h
           z == y % m0
           wh == w * h
<1>4. y \in Int /\ wh \in Int
  BY <1>2, <1>3
<1>5. z \in 0..(m0 - 1) /\ Same(m0, z, y)
  <2> HIDE DEF y
  <2> QED
    BY <1>1, <1>4, Remainder
<1>6. Same(m0, z * w, y * w)
  <2> HIDE DEF y, z
  <2>1. z \in Int
    BY <1>5
  <2>2. w \in Int
    BY <1>2
  <2> QED
    BY <1>1, <1>4, <1>5, <2>1, <2>2, SameTimes
<1>7. y * w = wh * x
  <2>1. w \in Int /\ h \in Int
    BY <1>2, <1>3
  <2>2. (x * h) * w = (w * h) * x
    <3>1. (h * x) * w = (h * w) * x
      BY <2>1, Product3
    <3>2. h * x = x * h /\ h * w = w * h
      BY <2>1, Product3
    <3> QED
      BY <3>1, <3>2
  <2> QED
    BY <2>2
<1>8. Same(m0, wh * x, 1 * x)
  <2> DEFINE one == 1
  <2>1. one \in Int /\ Same(m0, wh, one)
    BY <1>3
  <2> HIDE DEF one, wh
  <2> QED
    BY <1>1, <1>4, <2>1, SameTimes DEF one
<1>9. (z * w) % m0 = x % m0
  BY <1>6, <1>7, <1>8 DEF Same
<1> QED
  BY <1>5, <1>9 DEF w

(* A row applied to x and y, divided by one power of two more, modulo the order. *)
LEMMA XYProduct ==
  ASSUME NEW a \in Int, NEW b \in Int, NEW w0 \in FlagWords(Int), NEW w1 \in FlagWords(Int),
         DivWord \in Nat, InvOrder \in Nat, InvOrder % 2 = 1
  PROVE  LET r0 == M4!MatrixMulModN(a, b, w0, w1) IN
         /\ r0 \in FlagWords(0..(InvOrder - 1))
         /\ Same(InvOrder, PowerOf(2, DivWord + 1) * M4!Actual(r0),
                 a * M4!Actual(w0) + b * M4!Actual(w1))
<1> DEFINE flip == M4!Flip(b, w1)
           w == M4!Pow2(DivWord + 1)
           x == a * M4!Actual(w0) + b * M4!Actual(w1)
           y == M4!Unsigned(flip, x)
           R0(z) == (z * w) % InvOrder = y % InvOrder
           z0 == CHOOSE z \in 0..(InvOrder - 1) : R0(z)
           r0 == M4!MatrixMulModN(a, b, w0, w1)
<1>1. flip \in BOOLEAN
  BY DEF M4!Flip
<1>2. w = PowerOf(2, DivWord + 1) /\ w \in Nat
  BY M4Powers, DivWord + 1 \in Nat
<1>3. x \in Int
  <2>1. M4!Actual(w0) \in Int /\ M4!Actual(w1) \in Int
    BY ActualValue
  <2> QED
    BY <2>1
<1>4. r0 = M4!Flagged(flip, z0)
  BY DEF M4!MatrixMulModN
<1> HIDE DEF flip, x, w
<1>5. y \in Int /\ y = IF flip THEN -x ELSE x
  BY <1>1, <1>3 DEF M4!Unsigned
<1> HIDE DEF y, r0
<1>6. z0 \in 0..(InvOrder - 1) /\ R0(z0)
  <2>1. \E z \in 0..(InvOrder - 1) : R0(z)
    <3> DEFINE c == DivWord + 1
    <3>1. c \in Nat /\ w = PowerOf(2, c)
      BY <1>2
    <3> HIDE DEF c
    <3>2. \E z \in 0..(InvOrder - 1) : (z * PowerOf(2, c)) % InvOrder = y % InvOrder
      BY <1>5, <3>1, HalvesModulo
    <3> QED
      BY <3>1, <3>2
  <2> HIDE DEF R0
  <2> QED
    BY <2>1
<1>7. Same(InvOrder, z0 * w, y)
  BY <1>6 DEF Same
<1> HIDE DEF z0, R0
<1>8. r0 \in FlagWords(0..(InvOrder - 1)) /\ M4!Actual(r0) = IF flip THEN -z0 ELSE z0
  BY <1>1, <1>4, <1>6 DEF FlagWords, M4!Flagged, M4!Actual
<1>9. Same(InvOrder, w * M4!Actual(r0), x)
  <2> DEFINE zw == z0 * w
  <2>1. zw \in Int /\ z0 \in Int
    BY <1>2, <1>6
  <2>2. CASE ~flip
    <3>1. w * M4!Actual(r0) = zw /\ y = x
      BY <1>2, <1>5, <1>8, <2>1, <2>2
    <3> QED
      BY <1>7, <3>1
  <2>3. CASE flip
    <3>1. M4!Actual(r0) = -z0 /\ y = -x
      BY <1>5, <1>8, <2>3
    <3>2. w * (-z0) = 0 - zw
      BY <1>2, <2>1
    <3>3. InvOrder > 0 /\ Same(InvOrder, 0, 0) /\ 0 \in Int
      BY <1>6 DEF Same
    <3> HIDE DEF zw
    <3>4. Same(InvOrder, 0 - zw, 0 - y)
      BY <1>5, <1>7, <2>1, <3>3, SameSums DEF zw
    <3>5. 0 - y = x
      BY <1>3, <3>1
    <3> QED
      BY <3>1, <3>2, <3>4, <3>5
  <2> QED
    BY <1>1, <2>2, <2>3
<1> QED
  BY <1>2, <1>8, <1>9 DEF r0, x

(* A row of a round's matrix makes no number larger than those it is applied to. *)
LEMMA RowBound ==
  ASSUME NEW u \in Int, NEW v \in Int, NEW w \in Nat, w > 0, NEW n \in Nat, Within(u, v, w),
         NEW x \in -n..n, NEW y \in -n..n, NEW f \in Int, u * x + v * y = w * f
  PROVE  f \in -n..n
<1> DEFINE au == IF u < 0 THEN -u ELSE u
           av == IF v < 0 THEN -v ELSE v
           ux == u * x
           vy == v * y
           un == au * n
           vn == av * n
           wn == w * n
           wf == w * f
<1>1. au \in Nat /\ av \in Nat /\ au + av <= w
  BY DEF Within
<1>2. ux \in Int /\ vy \in Int /\ wn \in Int /\ wf \in Int /\ ux + vy = wf
  OBVIOUS
<1>3. ASSUME NEW c \in Int, NEW z \in -n..n, NEW ac \in Nat, ac = IF c < 0 THEN -c ELSE c
      PROVE  c * z <= ac * n /\ -(c * z) <= ac * n
  <2>1. ac * (n - z) >= 0 /\ ac * (n + z) >= 0
    BY <1>3
  <2>2. ac * (n - z) = ac * n - ac * z /\ ac * (n + z) = ac * n + ac * z
    BY <1>3
  <2>3. ac * z = IF c < 0 THEN -(c * z) ELSE c * z
    BY <1>3
  <2> DEFINE cz == c * z
             az == ac * z
             an == ac * n
  <2>4. cz \in Int /\ az \in Int /\ an \in Int /\ an - az >= 0 /\ an + az >= 0 /\ az = IF c < 0 THEN -cz ELSE cz
    BY <1>3, <2>1, <2>2, <2>3
  <2> HIDE DEF cz, az, an
  <2>5. cz <= an /\ -cz <= an
    BY <2>4
  <2> QED
    BY <2>5 DEF cz, an
<1>4. ux <= un /\ -ux <= un /\ vy <= vn /\ -vy <= vn
  <2> HIDE DEF au, av
  <2>1. (au = IF u < 0 THEN -u ELSE u) /\ (av = IF v < 0 THEN -v ELSE v)
    BY DEF au, av
  <2> QED
    BY <1>1, <1>3, <2>1
<1> HIDE DEF au, av
<1>5. un \in Int /\ vn \in Int /\ un + vn <= wn
  <2>1. (au + av) * n <= w * n
    BY <1>1
  <2>2. (au + av) * n = un + vn
    BY <1>1
  <2> QED
    BY <1>1, <2>1, <2>2
<1>6. wf <= wn /\ -wf <= wn
  <2> HIDE DEF ux, vy, un, vn, wn, wf
  <2> QED
    BY <1>2, <1>4, <1>5
<1>7. w * (n - f) >= 0 /\ w * (n + f) >= 0
  <2>1. w * (n - f) = wn - wf /\ w * (n + f) = wn + wf
    OBVIOUS
  <2> HIDE DEF wn, wf
  <2> QED
    BY <1>2, <1>6, <2>1
<1>8. f <= n
  <2> SUFFICES ASSUME n - f < 0 PROVE FALSE
    OBVIOUS
  <2>1. w * (n - f) < 0
    OBVIOUS
  <2> QED
    BY <1>7, <2>1
<1>9. -n <= f
  <2> SUFFICES ASSUME n + f < 0 PROVE FALSE
    OBVIOUS
  <2>1. w * (n + f) < 0
    OBVIOUS
  <2> QED
    BY <1>7, <2>1
<1> QED
  BY <1>8, <1>9

(* The numbers that x and y combine with whole coefficients. *)
Combines(x, y, z) == \E a, b \in Int : z = a * x + b * y

(* A matrix whose determinant is what its rows are divided by loses no combination. *)
LEMMA RowsCombine ==
  ASSUME NEW u \in Int, NEW v \in Int, NEW q \in Int, NEW r \in Int, NEW w \in Nat, w > 0,
         NEW x \in Int, NEW y \in Int, NEW f \in Int, NEW g \in Int,
         u * x + v * y = w * f, q * x + r * y = w * g, u * r - v * q = w
  PROVE  Combines(f, g, x) /\ Combines(f, g, y)
<1> DEFINE ur == u * r
           vq == v * q
<1>1. ur \in Int /\ vq \in Int /\ ur - vq = w
  OBVIOUS
<1>2. x = r * f + (-v) * g
  <2>1. w * (r * f + (-v) * g) = w * x
    <3> DEFINE rvy == (r * v) * y
               rux == (r * u) * x
               vqx == (v * q) * x
               wrf == r * (w * f)
               wvg == v * (w * g)
    <3>1. wrf = rux + rvy /\ rux \in Int /\ rvy \in Int
      <4>1. r * (u * x + v * y) = r * (u * x) + r * (v * y)
        OBVIOUS
      <4>2. r * (u * x) = rux /\ r * (v * y) = rvy
        BY Product3
      <4> QED
        BY <4>1, <4>2
    <3>2. wvg = vqx + rvy /\ vqx \in Int
      <4>1. v * (q * x + r * y) = v * (q * x) + v * (r * y)
        OBVIOUS
      <4>2. v * (q * x) = vqx /\ v * (r * y) = (v * r) * y /\ v * r = r * v
        BY Product3
      <4> QED
        BY <4>1, <4>2
    <3>3. rux - vqx = w * x
      <4>1. rux = ur * x
        BY Product3
      <4>2. (ur - vq) * x = ur * x - vq * x
        OBVIOUS
      <4> QED
        BY <1>1, <4>1, <4>2
    <3>4. w * (r * f + (-v) * g) = wrf - wvg
      <4>1. wrf = w * (r * f) /\ wvg = w * (v * g)
        BY Product3
      <4> DEFINE rf == r * f
                 vg == v * g
      <4>2. rf \in Int /\ vg \in Int /\ (-v) * g = -vg
        OBVIOUS
      <4> HIDE DEF rf, vg
      <4>3. w * (rf + (-vg)) = w * rf - w * vg
        BY <4>2
      <4> QED
        BY <4>1, <4>2, <4>3 DEF rf, vg
    <3> HIDE DEF rvy, rux, vqx, wrf, wvg
    <3>5. wrf - wvg = rux - vqx
      BY <3>1, <3>2
    <3> QED
      BY <3>3, <3>4, <3>5
  <2>2. ASSUME NEW a \in Int, NEW b \in Int, w * a = w * b PROVE a = b
    BY <2>2
  <2> DEFINE z == r * f + (-v) * g
  <2>3. z \in Int /\ w * z = w * x
    BY <2>1
  <2> HIDE DEF z
  <2> QED
    BY <2>2, <2>3 DEF z
<1>3. y = (-q) * f + u * g
  <2>1. w * ((-q) * f + u * g) = w * y
    <3> DEFINE qux == (q * u) * x
               qvy == (q * v) * y
               ury == (u * r) * y
               wqf == q * (w * f)
               wug == u * (w * g)
    <3>1. wqf = qux + qvy /\ qux \in Int /\ qvy \in Int
      <4>1. q * (u * x + v * y) = q * (u * x) + q * (v * y)
        OBVIOUS
      <4>2. q * (u * x) = qux /\ q * (v * y) = qvy
        BY Product3
      <4> QED
        BY <4>1, <4>2
    <3>2. wug = qux + ury /\ ury \in Int
      <4>1. u * (q * x + r * y) = u * (q * x) + u * (r * y)
        OBVIOUS
      <4>2. u * (r * y) = ury /\ u * (q * x) = (u * q) * x /\ u * q = q * u
        BY Product3
      <4> QED
        BY <4>1, <4>2
    <3>3. ury - qvy = w * y
      <4>1. qvy = vq * y
        BY Product3
      <4>2. (ur - vq) * y = ur * y - vq * y
        OBVIOUS
      <4> QED
        BY <1>1, <4>1, <4>2
    <3>4. w * ((-q) * f + u * g) = wug - wqf
      <4>1. wqf = w * (q * f) /\ wug = w * (u * g)
        BY Product3
      <4> DEFINE qf == q * f
                 ug == u * g
      <4>2. qf \in Int /\ ug \in Int /\ (-q) * f = -qf
        OBVIOUS
      <4> HIDE DEF qf, ug
      <4>3. w * ((-qf) + ug) = w * ug - w * qf
        BY <4>2
      <4> QED
        BY <4>1, <4>2, <4>3 DEF qf, ug
    <3> HIDE DEF qux, qvy, ury, wqf, wug
    <3>5. wug - wqf = ury - qvy
      BY <3>1, <3>2
    <3> QED
      BY <3>3, <3>4, <3>5
  <2>2. ASSUME NEW a \in Int, NEW b \in Int, w * a = w * b PROVE a = b
    BY <2>2
  <2> DEFINE z == (-q) * f + u * g
  <2>3. z \in Int /\ w * z = w * y
    BY <2>1
  <2> HIDE DEF z
  <2> QED
    BY <2>2, <2>3 DEF z
<1> QED
  BY <1>2, <1>3, -v \in Int, -q \in Int DEF Combines

LEMMA CombinedTwice ==
  ASSUME NEW x \in Int, NEW y \in Int, NEW f \in Int, NEW g \in Int, NEW z \in Int,
         Combines(f, g, x), Combines(f, g, y), Combines(x, y, z)
  PROVE  Combines(f, g, z)
<1>1. PICK a1 \in Int, b1 \in Int : x = a1 * f + b1 * g
  BY DEF Combines
<1>2. PICK a2 \in Int, b2 \in Int : y = a2 * f + b2 * g
  BY DEF Combines
<1>3. PICK a \in Int, b \in Int : z = a * x + b * y
  BY DEF Combines
<1> DEFINE aa1 == a * a1
           ab1 == a * b1
           ba2 == b * a2
           bb2 == b * b2
<1>4. aa1 \in Int /\ ab1 \in Int /\ ba2 \in Int /\ bb2 \in Int
  BY <1>1, <1>2, <1>3
<1>5. a * x = aa1 * f + ab1 * g
  <2> DEFINE s == a1 * f
             c == b1 * g
  <2>1. s \in Int /\ c \in Int /\ x = s + c /\ a \in Int
    BY <1>1, <1>3
  <2>2. a * s = aa1 * f /\ a * c = ab1 * g
    BY <1>1, <1>3, Product3
  <2> HIDE DEF s, c
  <2>3. a * (s + c) = a * s + a * c
    BY <2>1
  <2> QED
    BY <2>1, <2>2, <2>3
<1>6. b * y = ba2 * f + bb2 * g
  <2> DEFINE s == a2 * f
             c == b2 * g
  <2>1. s \in Int /\ c \in Int /\ y = s + c /\ b \in Int
    BY <1>2, <1>3
  <2>2. b * s = ba2 * f /\ b * c = bb2 * g
    BY <1>2, <1>3, Product3
  <2> HIDE DEF s, c
  <2>3. b * (s + c) = b * s + b * c
    BY <2>1
  <2> QED
    BY <2>1, <2>2, <2>3
<1> HIDE DEF aa1, ab1, ba2, bb2
<1>7. z = (aa1 + ba2) * f + (ab1 + bb2) * g
  <2> DEFINE s1f == aa1 * f
             s2f == ba2 * f
             s1g == ab1 * g
             s2g == bb2 * g
  <2>1. s1f \in Int /\ s2f \in Int /\ s1g \in Int /\ s2g \in Int
    BY <1>4
  <2>2. (aa1 + ba2) * f = s1f + s2f /\ (ab1 + bb2) * g = s1g + s2g
    BY <1>4
  <2>3. z = (s1f + s1g) + (s2f + s2g)
    BY <1>3, <1>5, <1>6
  <2> HIDE DEF s1f, s2f, s1g, s2g
  <2> QED
    BY <2>1, <2>2, <2>3
<1> QED
  BY <1>4, <1>7, aa1 + ba2 \in Int, ab1 + bb2 \in Int DEF Combines

(* What is left when g is 0: nothing but 1 divides a prime and a smaller number. *)
LEMMA OnlyUnits ==
  ASSUME NEW n \in Nat, \A d \in 2..(n - 1) : n % d # 0, NEW x \in 1..(n - 1), NEW f \in -n..n,
         NEW z0 \in Int, z0 = 0, Combines(f, z0, n), Combines(f, z0, x)
  PROVE  f = 1 \/ f = -1
<1>1. PICK a \in Int, b \in Int : n = a * f + b * z0
  BY DEF Combines
<1>2. PICK c \in Int, d \in Int : x = c * f + d * z0
  BY DEF Combines
<1>3. n = a * f /\ x = c * f
  <2>1. b * z0 = 0 /\ d * z0 = 0 /\ a * f \in Int /\ c * f \in Int
    BY <1>1, <1>2
  <2> DEFINE af == a * f
             cf == c * f
  <2> HIDE DEF af, cf
  <2>2. af \in Int /\ cf \in Int /\ n = af + 0 /\ x = cf + 0
    BY <1>1, <1>2, <2>1 DEF af, cf
  <2> QED
    BY <2>2 DEF af, cf
<1>4. f # 0
  BY <1>1, <1>3
<1> DEFINE h == IF f < 0 THEN -f ELSE f
<1>5. h \in 1..n
  BY <1>4
<1>6. ASSUME NEW y \in Nat, NEW s \in Int, y = s * f
      PROVE  y % h = 0
  <2>1. PICK q \in Int : y = h * q
    <3>1. CASE f < 0
      <4>1. y = h * (-s)
        BY <1>6, <3>1
      <4> QED
        BY <1>6, <4>1, -s \in Int
    <3>2. CASE ~(f < 0)
      <4>1. y = h * s
        BY <1>6, <3>2
      <4> QED
        BY <1>6, <4>1
    <3> QED
      BY <3>1, <3>2
  <2> HIDE DEF h
  <2> DEFINE hq == h * q
  <2>2. hq \in Int /\ y = hq + 0 /\ y = hq
    BY <1>5, <2>1
  <2>3. 0 \in 0..(h - 1) /\ h \in Nat /\ h > 0 /\ q \in Int
    BY <1>5, <2>1
  <2>4. y = h * q + 0
    BY <2>2
  <2> QED
    BY <2>3, <2>4, DivisionUnique
<1>7. n % h = 0 /\ x % h = 0
  BY <1>1, <1>2, <1>3, <1>6
<1> HIDE DEF h
<1>8. h # n
  <2>1. x % n = x
    <3>1. x \in 0..(n - 1) /\ n > 0
      OBVIOUS
    <3> QED
      BY <3>1, Remainder
  <2> QED
    BY <1>7, <2>1
<1>9. h = 1
  <2> SUFFICES ASSUME h # 1 PROVE FALSE
    OBVIOUS
  <2>1. h \in 2..(n - 1)
    BY <1>5, <1>8
  <2> QED
    BY <1>7, <2>1
<1> QED
  BY <1>9 DEF h

(* One row of a round's matrix keeps what x is over the input: z, wx, wy and z1 are
   the input, x, y and the new x, q the powers of two still to be divided out. *)
InvertingRow(n, z, wx, wy, z1, x, y, f, u, v, w, q) ==
  /\ Same(n, z * wx, (2 * q) * x) /\ Same(n, z * wy, (2 * q) * y)
  /\ Same(n, (2 * w) * z1, u * wx + v * wy) /\ u * x + v * y = w * f

LEMMA RowInverts ==
  ASSUME NEW n \in Nat, n > 0, NEW z \in Int, NEW wx \in Int, NEW wy \in Int, NEW z1 \in Int,
         NEW x \in Int, NEW y \in Int, NEW f \in Int, NEW u \in Int, NEW v \in Int,
         NEW w \in Int, NEW q \in Int, NEW h \in Int, Same(n, (2 * w) * h, 1),
         InvertingRow(n, z, wx, wy, z1, x, y, f, u, v, w, q)
  PROVE  Same(n, z * z1, q * f)
<1>0. /\ Same(n, z * wx, (2 * q) * x) /\ Same(n, z * wy, (2 * q) * y)
      /\ Same(n, (2 * w) * z1, u * wx + v * wy) /\ u * x + v * y = w * f
  BY DEF InvertingRow
<1> DEFINE w2 == 2 * w
           q2 == 2 * q
           uwx == u * wx
           vwy == v * wy
           ux == u * x
           vy == v * y
           zwx == z * wx
           zwy == z * wy
           q2x == q2 * x
           q2y == q2 * y
<1>1. w2 \in Int /\ q2 \in Int /\ uwx \in Int /\ vwy \in Int /\ ux \in Int /\ vy \in Int /\ zwx \in Int /\ zwy \in Int
  OBVIOUS
<1>2. q2x \in Int /\ q2y \in Int
  <2> HIDE DEF q2
  <2> QED
    BY <1>1
<1>3. Same(n, (w2 * z1) * z, (uwx + vwy) * z)
  <2> DEFINE s == w2 * z1
             c == uwx + vwy
  <2>1. s \in Int /\ c \in Int /\ Same(n, s, c)
    BY <1>0, <1>1
  <2> HIDE DEF s, c
  <2> QED
    BY <2>1, SameTimes DEF s, c
<1>4. (uwx + vwy) * z = zwx * u + zwy * v
  <2>1. uwx * z = zwx * u /\ vwy * z = zwy * v
    <3>1. (wx * u) * z = (wx * z) * u /\ wx * u = uwx /\ wx * z = zwx
      BY Product3
    <3>2. (wy * v) * z = (wy * z) * v /\ wy * v = vwy /\ wy * z = zwy
      BY Product3
    <3> QED
      BY <3>1, <3>2
  <2> HIDE DEF uwx, vwy, zwx, zwy
  <2>2. (uwx + vwy) * z = uwx * z + vwy * z
    BY <1>1
  <2> QED
    BY <2>1, <2>2
<1>5. Same(n, zwx * u + zwy * v, q2x * u + q2y * v)
  <2> DEFINE s1u == zwx * u
             s2u == zwy * v
             s3u == q2x * u
             s4u == q2y * v
  <2> HIDE DEF zwx, zwy, q2x, q2y
  <2>1. s1u \in Int /\ s2u \in Int /\ s3u \in Int /\ s4u \in Int
    BY <1>1, <1>2
  <2>2. Same(n, zwx, q2x) /\ Same(n, zwy, q2y)
    BY <1>0 DEF zwx, zwy, q2x, q2y, q2
  <2>3. Same(n, s1u, s3u) /\ Same(n, s2u, s4u)
    BY <1>1, <1>2, <2>2, SameTimes
  <2> HIDE DEF s1u, s2u, s3u, s4u
  <2> QED
    BY <2>1, <2>3, SameSums DEF s1u, s2u, s3u, s4u
<1>6. q2x * u + q2y * v = (q * f) * w2
  <2>1. q2x * u = q2 * ux /\ q2y * v = q2 * vy
    <3>1. (q2 * x) * u = q2 * (x * u) /\ x * u = ux
      BY <1>1, Product3
    <3>2. (q2 * y) * v = q2 * (y * v) /\ y * v = vy
      BY <1>1, Product3
    <3> QED
      BY <3>1, <3>2
  <2>2. q2 * ux + q2 * vy = q2 * (w * f)
    <3> DEFINE wf == w * f
    <3>1. wf \in Int /\ ux + vy = wf
      BY <1>0
    <3> HIDE DEF ux, vy, wf, q2
    <3>2. q2 * (ux + vy) = q2 * ux + q2 * vy
      BY <1>1
    <3> QED
      BY <3>1, <3>2 DEF wf
  <2>3. q2 * (w * f) = (q * f) * w2
    <3> DEFINE qf == q * f
               wf == w * f
               qwf == q * wf
    <3>1. qf \in Int /\ wf \in Int /\ qwf \in Int
      OBVIOUS
    <3>2. q * wf = w * qf
      <4>1. (q * f) * w = (q * w) * f /\ (w * q) * f = w * (q * f) /\ q * w = w * q
        BY Product3
      <4>2. (q * w) * f = q * (w * f)
        BY Product3
      <4> QED
        BY <4>1, <4>2
    <3> HIDE DEF qf, wf
    <3>3. (2 * q) * wf = 2 * (q * wf) /\ qf * (2 * w) = 2 * (w * qf)
      BY <3>1
    <3> QED
      BY <3>2, <3>3 DEF qf, wf
  <2> QED
    BY <2>1, <2>2, <2>3
<1>7. (w2 * z1) * z = (z * z1) * w2
  BY <1>1, Product3
<1>8. Same(n, (z * z1) * w2, (q * f) * w2)
  BY <1>3, <1>4, <1>5, <1>6, <1>7 DEF Same
<1> DEFINE zz1 == z * z1
           qf == q * f
<1>9. zz1 \in Int /\ qf \in Int /\ Same(n, w2 * h, 1)
  OBVIOUS
<1>10. Same(n, zz1 * w2, qf * w2)
  BY <1>8
<1> HIDE DEF zz1, qf, w2
<1>11. Same(n, zz1, qf)
  BY <1>1, <1>9, <1>10, SameCancel
<1> QED
  BY <1>11 DEF zz1, qf

(* The flags of x and f, and the sign of f, decide whether the result is negated. *)
LEMMA SignedResult ==
  ASSUME NEW n \in Nat, n > 1, NEW z \in 1..(n - 1),
         NEW wx \in FlagWords(0..(n - 1)), NEW wf \in FlagWords(Int),
         M4!Actual(wf) = 1 \/ M4!Actual(wf) = -1,
         Same(n, z * M4!Actual(wx), M4!Actual(wf)),
         NEW result, result = IF wx.flip # (wf.flip # (wf.val < 0)) THEN n - wx.val ELSE wx.val
  PROVE  (z * result) % n = 1
<1> DEFINE v == wx.val
           neg == wx.flip # (wf.flip # (wf.val < 0))
           zv == z * v
           minus == -1
<1>1. v \in 0..(n - 1) /\ wx.flip \in BOOLEAN /\ wf.flip \in BOOLEAN /\ wf.val \in Int
  BY DEF FlagWords
<1>2. M4!Actual(wx) = (IF wx.flip THEN -v ELSE v) /\ M4!Actual(wf) = IF wf.flip THEN -wf.val ELSE wf.val
  BY DEF M4!Actual
<1>3. neg <=> (wx.flip # (M4!Actual(wf) = -1))
  BY <1>1, <1>2
<1> HIDE DEF v
<1>4. zv \in Int /\ z \in Int /\ z * (-v) = -zv /\ z * (n - v) = z * n - zv
  BY <1>1
<1>5. 1 % n = 1
  <2>1. 1 \in 0..(n - 1) /\ n > 0
    OBVIOUS
  <2> QED
    BY <2>1, Remainder
<1> DEFINE wz == z * M4!Actual(wx)
           s == M4!Actual(wf)
<1>6. wz = (IF wx.flip THEN -zv ELSE zv) /\ wz \in Int /\ Same(n, wz, s) /\ (s = 1 \/ s = minus) /\ s \in Int
  BY <1>1, <1>2, <1>4
<1> HIDE DEF wz, s, zv
<1>7. minus \in Int /\ n > 0
  OBVIOUS
<1>8. Same(n, wz * minus, s * minus)
  <2> HIDE DEF minus
  <2> QED
    BY <1>6, <1>7, SameTimes
<1>9. wz * minus = -wz /\ s * minus = -s
  BY <1>6
<1>10. Same(n, IF neg THEN -zv ELSE zv, 1)
  <2>1. CASE s = 1
    <3>1. neg <=> wx.flip
      BY <1>1, <1>3, <2>1 DEF s
    <3> QED
      BY <1>1, <1>6, <2>1, <3>1
  <2>2. CASE s = minus
    <3>1. neg <=> ~wx.flip
      BY <1>1, <1>3, <2>2 DEF s
    <3>2. Same(n, -wz, 1)
      BY <1>8, <1>9, <2>2
    <3>3. -wz = IF neg THEN -zv ELSE zv
      BY <1>1, <1>4, <1>6, <3>1
    <3> QED
      BY <3>2, <3>3
  <2> QED
    BY <1>6, <2>1, <2>2
<1>11. CASE neg
  <2>1. z * result = -zv + z * n
    <3>1. result = n - v
      BY <1>11 DEF v
    <3> DEFINE zn == z * n
    <3>2. zn \in Int
      OBVIOUS
    <3> HIDE DEF zn
    <3>3. zn - zv = -zv + zn
      BY <1>4, <3>2
    <3> QED
      BY <1>4, <3>1, <3>3 DEF zn
  <2> DEFINE x == z * result
  <2>2. x \in Int /\ -zv \in Int /\ x = (-zv) + z * n
    BY <1>4, <2>1
  <2> HIDE DEF x
  <2>3. x % n = (-zv) % n
    BY <1>4, <1>7, <2>2, SameRemainder
  <2> QED
    BY <1>5, <1>10, <1>11, <2>3 DEF x, Same
<1>12. CASE ~neg
  <2>1. z * result = zv
    BY <1>12 DEF v, zv
  <2> QED
    BY <1>5, <1>10, <1>12, <2>1 DEF Same
<1> QED
  BY <1>11, <1>12

(* What mod_n_inv keeps between rounds: z is acc after c rounds for the input x. *)
InverseWords ==
  [delta : Int, f : FlagWords(Int), g : FlagWords(Int),
   x : FlagWords(0..(InvOrder - 1)), y : FlagWords(0..(InvOrder - 1)), out : Int]

ExactAfter(n, x) == M4!DivSteps(n, 1, InvOrder, x)

Exactly(z, s) == z.delta = s.delta /\ M4!Actual(z.f) = s.f /\ M4!Actual(z.g) = s.g

InverseBooks(z, c, x) ==
  /\ Exactly(z, ExactAfter(DivWord * c, x))
  /\ M4!Actual(z.f) % 2 = 1
  /\ M4!Actual(z.f) \in -InvOrder..InvOrder /\ M4!Actual(z.g) \in -InvOrder..InvOrder
  /\ Combines(M4!Actual(z.f), M4!Actual(z.g), InvOrder)
  /\ Combines(M4!Actual(z.f), M4!Actual(z.g), x)
  /\ Same(InvOrder, x * M4!Actual(z.x), PowerOf(2, Rounds - c) * M4!Actual(z.f))
  /\ Same(InvOrder, x * M4!Actual(z.y), PowerOf(2, Rounds - c) * M4!Actual(z.g))

LEMMA InverseSizes ==
  /\ InvOrder \in Nat /\ InvOrder % 2 = 1 /\ \A d \in 2..(InvOrder - 1) : InvOrder % d # 0
  /\ DivWord \in Nat /\ Rounds \in Nat /\ PowerOf(2, Rounds) < InvOrder
  /\ \A x \in 1..(InvOrder - 1) : ExactAfter(Rounds * DivWord, x).g = 0
<1>1. M4!InverseParameters
  BY LaddersAssumption
<1> QED
  BY <1>1, M4Powers DEF M4!InverseParameters, ExactAfter

(* The steps of a round, from where the rounds before have come. *)
LEMMA ExactNext ==
  ASSUME NEW n \in Nat, NEW x \in Int, InvOrder \in Int
  PROVE  ExactAfter(n, x) \in DivRecord /\ ExactAfter(n + 1, x) = M4!DivStep(ExactAfter(n, x))
<1> DEFINE one == 1
<1>1. one \in Int
  OBVIOUS
<1> HIDE DEF one
<1>2. /\ M4!DivSteps(n, one, InvOrder, x) \in DivRecord
      /\ M4!DivSteps(n + 1, one, InvOrder, x) = M4!DivStep(M4!DivSteps(n, one, InvOrder, x))
  BY <1>1, DivStepsNext
<1> QED
  BY <1>2 DEF ExactAfter, one

LEMMA StepsOfRound ==
  ASSUME NEW d \in Nat, NEW x \in Int, NEW c \in Nat, InvOrder \in Int,
         NEW ex, \A j \in 0..c : ex[j] = ExactAfter(d + j, x)
  PROVE  ExactSteps(ex, c) /\ ex[0] = ExactAfter(d, x) /\ ex[c] = ExactAfter(d + c, x)
<1>1. ASSUME NEW j \in Nat
      PROVE  /\ ExactAfter(d + j, x) \in DivRecord
             /\ ExactAfter(d + (j + 1), x) = M4!DivStep(ExactAfter(d + j, x))
  <2> DEFINE n == d + j
  <2>1. n \in Nat /\ d + (j + 1) = n + 1
    OBVIOUS
  <2> HIDE DEF n
  <2> QED
    BY <2>1, ExactNext DEF n
<1>2. ASSUME NEW j \in 0..c PROVE ex[j] \in DivRecord
  BY <1>1
<1>3. ASSUME NEW j \in 0..(c - 1) PROVE ex[j + 1] = M4!DivStep(ex[j])
  <2>1. j \in Nat /\ j \in 0..c /\ j + 1 \in 0..c
    OBVIOUS
  <2> QED
    BY <1>1, <2>1
<1>4. ex[0] = ExactAfter(d, x) /\ ex[c] = ExactAfter(d + c, x)
  <2>1. 0 \in 0..c /\ c \in 0..c /\ d + 0 = d
    OBVIOUS
  <2> QED
    BY <2>1
<1> QED
  BY <1>2, <1>3, <1>4 DEF ExactSteps

RoundMatrix(z) == M4!DivSteps(DivWord, z.delta, M4!Low(z.f), M4!Low(z.g))

RoundOf(z) ==
  [z EXCEPT !.delta = RoundMatrix(z).delta,
            !.f = M4!MatrixMulFG(RoundMatrix(z).u, RoundMatrix(z).v, z.f, z.g),
            !.g = M4!MatrixMulFG(RoundMatrix(z).q, RoundMatrix(z).r, z.f, z.g),
            !.x = M4!MatrixMulModN(RoundMatrix(z).u, RoundMatrix(z).v, z.x, z.y),
            !.y = M4!MatrixMulModN(RoundMatrix(z).q, RoundMatrix(z).r, z.x, z.y)]

Written(z1, z, dl, f, g, x, y) ==
  z1 = [z EXCEPT !.delta = dl, !.f = f, !.g = g, !.x = x, !.y = y]

LEMMA RoundFields ==
  ASSUME NEW z \in InverseWords, NEW dl \in Int, NEW f \in FlagWords(Int), NEW g \in FlagWords(Int),
         NEW x \in FlagWords(0..(InvOrder - 1)), NEW y \in FlagWords(0..(InvOrder - 1)),
         NEW z1, Written(z1, z, dl, f, g, x, y)
  PROVE  /\ z1 \in InverseWords
         /\ z1.delta = dl /\ z1.f = f /\ z1.g = g /\ z1.x = x /\ z1.y = y
BY DEF InverseWords, Written

(* A round does what its division steps would do to the whole numbers. *)
LEMMA RoundKeepsBooks ==
  ASSUME NEW z \in InverseWords, NEW c \in 0..(Rounds - 1), NEW x \in 1..(InvOrder - 1), InverseBooks(z, c, x)
  PROVE  RoundOf(z) \in InverseWords /\ InverseBooks(RoundOf(z), c + 1, x)
<1> DEFINE n == InvOrder
           s0 == RoundMatrix(z)
           fv == M4!Actual(z.f)
           gv == M4!Actual(z.g)
           xv == M4!Actual(z.x)
           yv == M4!Actual(z.y)
           d == DivWord * c
           ex == [j \in 0..DivWord |-> ExactAfter(d + j, x)]
           h == ex[DivWord]
           w == PowerOf(2, DivWord)
           q == PowerOf(2, (Rounds - c) - 1)
           y == RoundOf(z)
<1>1. DivWord \in Nat /\ Rounds \in Nat /\ n \in Nat /\ n % 2 = 1 /\ n > 0
  BY InverseSizes
<1>2. d \in Nat /\ DivWord * (c + 1) = d + DivWord
  <2>1. c \in Nat
    OBVIOUS
  <2> QED
    BY <1>1, <2>1
<1> HIDE DEF d
<1>3. ExactSteps(ex, DivWord) /\ ex[0] = ExactAfter(d, x) /\ h = ExactAfter(DivWord * (c + 1), x)
  <2> DEFINE e0 == ex
  <2>1. \A j \in 0..DivWord : e0[j] = ExactAfter(d + j, x)
    OBVIOUS
  <2>2. x \in Int /\ InvOrder \in Int
    BY <1>1
  <2> HIDE DEF e0
  <2>3. ExactSteps(e0, DivWord) /\ e0[0] = ExactAfter(d, x) /\ e0[DivWord] = ExactAfter(d + DivWord, x)
    BY <1>1, <1>2, <2>1, <2>2, StepsOfRound
  <2> QED
    BY <1>2, <2>3 DEF e0
<1>4. z.delta \in Int /\ z.f \in FlagWords(Int) /\ z.g \in FlagWords(Int) /\ z.x \in FlagWords(0..(n - 1)) /\ z.y \in FlagWords(0..(n - 1)) /\ z.out \in Int
  BY DEF InverseWords
<1>5. z.x \in FlagWords(Int) /\ z.y \in FlagWords(Int)
  BY <1>4 DEF FlagWords
<1>6. fv \in Int /\ gv \in Int /\ xv \in Int /\ yv \in Int
  BY <1>4, <1>5, ActualValue
<1>7. /\ z.delta = ex[0].delta /\ fv = ex[0].f /\ gv = ex[0].g /\ fv % 2 = 1
      /\ fv \in -n..n /\ gv \in -n..n /\ Combines(fv, gv, n) /\ Combines(fv, gv, x)
      /\ Same(n, x * xv, PowerOf(2, Rounds - c) * fv) /\ Same(n, x * yv, PowerOf(2, Rounds - c) * gv)
  BY <1>3 DEF InverseBooks, Exactly, d
<1>8. M4!Low(z.f) = fv % PowerOf(2, DivWord + 1) /\ M4!Low(z.g) = gv % PowerOf(2, DivWord + 1)
  BY <1>1, M4Powers, DivWord + 1 \in Nat DEF M4!Low
<1>9. s0 = M4!DivSteps(DivWord, z.delta, fv % PowerOf(2, DivWord + 1), gv % PowerOf(2, DivWord + 1))
  BY <1>8 DEF RoundMatrix
<1> HIDE DEF s0, fv, gv, xv, yv, ex
<1>10. /\ s0 \in DivRecord /\ s0.delta = h.delta /\ h.f % 2 = 1
       /\ s0.u * fv + s0.v * gv = w * h.f
       /\ s0.q * fv + s0.r * gv = w * h.g
       /\ s0.u * s0.r - s0.v * s0.q = w
       /\ Within(s0.u, s0.v, w) /\ Within(s0.q, s0.r, w)
  <2> DEFINE dl == z.delta
  <2>1. dl \in Int /\ ex[0].delta = dl /\ ex[0].f = fv /\ ex[0].g = gv /\ fv % 2 = 1
    BY <1>4, <1>7
  <2>2. s0 = M4!DivSteps(DivWord, dl, fv % PowerOf(2, DivWord + 1), gv % PowerOf(2, DivWord + 1))
    BY <1>9
  <2> HIDE DEF dl
  <2> QED
    BY <1>1, <1>3, <1>6, <2>1, <2>2, RoundExact
<1> DEFINE u == s0.u
           v == s0.v
           qq == s0.q
           rr == s0.r
           f1 == h.f
           g1 == h.g
<1>11. u \in Int /\ v \in Int /\ qq \in Int /\ rr \in Int /\ f1 \in Int /\ g1 \in Int /\ h.delta \in Int
  <2>1. h \in DivRecord
    BY <1>1, <1>3, DivWord \in 0..DivWord DEF ExactSteps
  <2> HIDE DEF h
  <2> QED
    BY <1>10, <2>1 DEF DivRecord
<1>12. w \in Nat /\ w > 0 /\ q \in Nat /\ PowerOf(2, Rounds - c) = 2 * q /\ (Rounds - c) - 1 = Rounds - (c + 1)
       /\ PowerOf(2, DivWord + 1) = 2 * w
  <2> DEFINE j == (Rounds - c) - 1
  <2>1. j \in Nat /\ j + 1 = Rounds - c /\ j = Rounds - (c + 1)
    BY <1>1
  <2> HIDE DEF j
  <2> QED
    BY <1>1, <2>1, PowersOfTwo DEF j
<1>13. /\ u * fv + v * gv = w * f1 /\ qq * fv + rr * gv = w * g1 /\ u * rr - v * qq = w
       /\ Within(u, v, w) /\ Within(qq, rr, w)
  BY <1>10
<1> DEFINE f2 == M4!MatrixMulFG(u, v, z.f, z.g)
           g2 == M4!MatrixMulFG(qq, rr, z.f, z.g)
           x2 == M4!MatrixMulModN(u, v, z.x, z.y)
           y2 == M4!MatrixMulModN(qq, rr, z.x, z.y)
<1>14. y = [z EXCEPT !.delta = s0.delta, !.f = f2, !.g = g2, !.x = x2, !.y = y2]
  BY DEF RoundOf, s0
<1> HIDE DEF w, q, u, v, qq, rr, f1, g1, y, h
<1>15. /\ f2 \in FlagWords(Int) /\ M4!Actual(f2) = f1
       /\ g2 \in FlagWords(Int) /\ M4!Actual(g2) = g1
  <2>1. u * M4!Actual(z.f) + v * M4!Actual(z.g) = PowerOf(2, DivWord) * f1
    BY <1>13 DEF fv, gv, w
  <2>2. qq * M4!Actual(z.f) + rr * M4!Actual(z.g) = PowerOf(2, DivWord) * g1
    BY <1>13 DEF fv, gv, w
  <2>3. f2 \in FlagWords(Int) /\ M4!Actual(f2) = f1
    <3>1. u \in Int /\ v \in Int /\ f1 \in Int
      BY <1>11
    <3> QED
      BY <1>1, <1>4, <2>1, <3>1, FGProduct
  <2>4. g2 \in FlagWords(Int) /\ M4!Actual(g2) = g1
    <3>1. qq \in Int /\ rr \in Int /\ g1 \in Int
      BY <1>11
    <3> QED
      BY <1>1, <1>4, <2>2, <3>1, FGProduct
  <2> QED
    BY <2>3, <2>4
<1>16. /\ x2 \in FlagWords(0..(n - 1)) /\ Same(n, (2 * w) * M4!Actual(x2), u * xv + v * yv)
       /\ y2 \in FlagWords(0..(n - 1)) /\ Same(n, (2 * w) * M4!Actual(y2), qq * xv + rr * yv)
  <2>1. /\ x2 \in FlagWords(0..(InvOrder - 1))
        /\ Same(InvOrder, PowerOf(2, DivWord + 1) * M4!Actual(x2), u * M4!Actual(z.x) + v * M4!Actual(z.y))
    BY <1>1, <1>5, <1>11, XYProduct
  <2>2. /\ y2 \in FlagWords(0..(InvOrder - 1))
        /\ Same(InvOrder, PowerOf(2, DivWord + 1) * M4!Actual(y2), qq * M4!Actual(z.x) + rr * M4!Actual(z.y))
    BY <1>1, <1>5, <1>11, XYProduct
  <2> QED
    BY <1>12, <2>1, <2>2 DEF xv, yv
<1> HIDE DEF f2, g2, x2, y2
<1>17. y \in InverseWords /\ y.delta = h.delta /\ y.f = f2 /\ y.g = g2 /\ y.x = x2 /\ y.y = y2
  <2> DEFINE dl == s0.delta
  <2>1. dl \in Int /\ dl = h.delta /\ Written(y, z, dl, f2, g2, x2, y2)
    BY <1>10, <1>11, <1>14 DEF Written
  <2> HIDE DEF dl
  <2> QED
    BY <1>15, <1>16, <2>1, RoundFields
<1>18. M4!Actual(y.f) % 2 = 1 /\ y.delta = h.delta /\ M4!Actual(y.f) = h.f /\ M4!Actual(y.g) = h.g
  BY <1>10, <1>15, <1>17 DEF f1, g1
<1>19. f1 \in -n..n /\ g1 \in -n..n
  <2>1. n \in Nat /\ w \in Nat /\ w > 0 /\ fv \in -n..n /\ gv \in -n..n
    BY <1>1, <1>7, <1>12
  <2>2. Within(u, v, w) /\ u * fv + v * gv = w * f1 /\ Within(qq, rr, w) /\ qq * fv + rr * gv = w * g1
    BY <1>13
  <2> HIDE DEF n
  <2>3. f1 \in -n..n
    <3>1. Within(u, v, w) /\ u * fv + v * gv = w * f1 /\ u \in Int /\ v \in Int /\ f1 \in Int
      BY <1>11, <2>2
    <3> QED
      BY <2>1, <3>1, RowBound
  <2>4. g1 \in -n..n
    <3>1. Within(qq, rr, w) /\ qq * fv + rr * gv = w * g1 /\ qq \in Int /\ rr \in Int /\ g1 \in Int
      BY <1>11, <2>2
    <3> QED
      BY <2>1, <3>1, RowBound
  <2> QED
    BY <2>3, <2>4
<1>20. Combines(f1, g1, fv) /\ Combines(f1, g1, gv)
  <2>1. u * fv + v * gv = w * f1 /\ qq * fv + rr * gv = w * g1 /\ u * rr - v * qq = w /\ w \in Nat /\ w > 0
    BY <1>12, <1>13
  <2> QED
    BY <1>6, <1>11, <2>1, RowsCombine
<1>21. Combines(f1, g1, n) /\ Combines(f1, g1, x)
  BY <1>1, <1>6, <1>7, <1>11, <1>20, n \in Int, x \in Int, CombinedTwice
<1>22. Same(n, x * M4!Actual(y.x), q * f1) /\ Same(n, x * M4!Actual(y.y), q * g1)
  <2> DEFINE ax == M4!Actual(y.x)
             ay == M4!Actual(y.y)
  <2>1. ax \in Int /\ ay \in Int
    <3>1. y.x \in FlagWords(Int) /\ y.y \in FlagWords(Int)
      BY <1>16, <1>17 DEF FlagWords
    <3> QED
      BY <3>1, ActualValue
  <2>2. PICK inv \in Int : Same(n, (2 * w) * inv, 1)
    <3>1. \E j \in Int : Same(n, PowerOf(2, DivWord + 1) * j, 1)
      BY <1>1, OddInvertible, DivWord + 1 \in Nat
    <3> QED
      BY <1>12, <3>1
  <2>3. Same(n, x * xv, (2 * q) * fv) /\ Same(n, x * yv, (2 * q) * gv)
    BY <1>7, <1>12
  <2>4. Same(n, (2 * w) * ax, u * xv + v * yv) /\ Same(n, (2 * w) * ay, qq * xv + rr * yv)
    BY <1>16, <1>17
  <2>5. w \in Int /\ q \in Int /\ x \in Int
    BY <1>12
  <2> HIDE DEF ax, ay
  <2>8. n \in Nat /\ n > 0
    BY <1>1
  <2> HIDE DEF n
  <2>6. Same(n, x * ax, q * f1)
    <3>1. InvertingRow(n, x, xv, yv, ax, fv, gv, f1, u, v, w, q)
      BY <1>13, <2>3, <2>4 DEF InvertingRow
    <3> QED
      BY <1>6, <1>11, <2>1, <2>2, <2>5, <2>8, <3>1, RowInverts
  <2>7. Same(n, x * ay, q * g1)
    <3>1. InvertingRow(n, x, xv, yv, ay, fv, gv, g1, qq, rr, w, q)
      BY <1>13, <2>3, <2>4 DEF InvertingRow
    <3> QED
      BY <1>6, <1>11, <2>1, <2>2, <2>5, <2>8, <3>1, RowInverts
  <2> QED
    BY <2>6, <2>7 DEF ax, ay
<1>23. InverseBooks(y, c + 1, x)
  <2>1. Exactly(y, ExactAfter(DivWord * (c + 1), x))
    BY <1>3, <1>18 DEF Exactly
  <2>2. q = PowerOf(2, Rounds - (c + 1))
    BY <1>12 DEF q
  <2> QED
    BY <1>15, <1>17, <1>18, <1>19, <1>21, <1>22, <2>1, <2>2 DEF InverseBooks
<1> QED
  BY <1>17, <1>23 DEF y

(* mod_n_inv between its rounds. *)
InverseInv ==
  /\ form = "inverse" /\ k \in 1..(InvOrder - 1) /\ i \in 0..Rounds
  /\ acc \in InverseWords /\ InverseBooks(acc, i, k)
  /\ phase \in {"ladder", "done"}
  /\ phase = "done" => /\ i = Rounds
                       /\ acc.out = IF M4!ShouldNeg THEN InvOrder - acc.x.val ELSE acc.x.val

LEMMA UnflaggedValue ==
  ASSUME NEW S, NEW v \in S
  PROVE  M4!Flagged(FALSE, v) \in FlagWords(S) /\ M4!Actual(M4!Flagged(FALSE, v)) = v
BY DEF M4!Flagged, M4!Actual, FlagWords

InverseStarts(z, x) ==
  z = [delta |-> 1, f |-> M4!Flagged(FALSE, InvOrder), g |-> M4!Flagged(FALSE, x),
       x |-> M4!Flagged(FALSE, 0), y |-> M4!Flagged(FALSE, M4!Pow2(Rounds)), out |-> 0]

LEMMA InverseBegins ==
  ASSUME NEW x \in 1..(InvOrder - 1), NEW z, InverseStarts(z, x)
  PROVE  z \in InverseWords /\ InverseBooks(z, 0, x)
<1> DEFINE n == InvOrder
           w == M4!Pow2(Rounds)
<1>1. n \in Nat /\ n % 2 = 1 /\ n > 0 /\ DivWord \in Nat /\ Rounds \in Nat
  BY InverseSizes
<1>2. w = PowerOf(2, Rounds) /\ w \in 0..(n - 1) /\ 0 \in 0..(n - 1) /\ n \in Int /\ x \in Int
  BY <1>1, InverseSizes, M4Powers
<1> HIDE DEF n, w
<1> DEFINE f0 == M4!Flagged(FALSE, n)
           g0 == M4!Flagged(FALSE, x)
           x0 == M4!Flagged(FALSE, 0)
           y0 == M4!Flagged(FALSE, w)
<1>3. z = [delta |-> 1, f |-> f0, g |-> g0, x |-> x0, y |-> y0, out |-> 0]
  BY DEF InverseStarts, n, w
<1>4. /\ z.delta = 1 /\ z.f \in FlagWords(Int) /\ M4!Actual(z.f) = n
      /\ z.g \in FlagWords(Int) /\ M4!Actual(z.g) = x
      /\ z.x \in FlagWords(0..(n - 1)) /\ M4!Actual(z.x) = 0
      /\ z.y \in FlagWords(0..(n - 1)) /\ M4!Actual(z.y) = w /\ z.out = 0
  <2>1. f0 \in FlagWords(Int) /\ M4!Actual(f0) = n /\ g0 \in FlagWords(Int) /\ M4!Actual(g0) = x
    BY <1>2, UnflaggedValue
  <2>2. x0 \in FlagWords(0..(n - 1)) /\ M4!Actual(x0) = 0
    BY <1>2, UnflaggedValue
  <2>3. y0 \in FlagWords(0..(n - 1)) /\ M4!Actual(y0) = w
    BY <1>2, UnflaggedValue
  <2> HIDE DEF f0, g0, x0, y0
  <2>4. z.delta = 1 /\ z.f = f0 /\ z.g = g0 /\ z.x = x0 /\ z.y = y0 /\ z.out = 0
    BY <1>3
  <2> QED
    BY <2>1, <2>2, <2>3, <2>4
<1>5. z \in InverseWords
  <2> HIDE DEF f0, g0, x0, y0
  <2>1. z.delta \in Int /\ z.out \in Int
    BY <1>4
  <2>2. z = [delta |-> z.delta, f |-> z.f, g |-> z.g, x |-> z.x, y |-> z.y, out |-> z.out]
    BY <1>3
  <2> QED
    BY <1>4, <2>1, <2>2 DEF InverseWords, n
<1>6. Exactly(z, ExactAfter(DivWord * 0, x))
  <2>1. ExactAfter(0, x) = DivFirst(1, n, x)
    <3> DEFINE one == 1
    <3>1. one \in Int /\ 0 \in Nat
      OBVIOUS
    <3> HIDE DEF one
    <3>2. \A c \in Nat : M4!DivSteps(0, one, n, x) = DivFirst(one, n, x)
      BY <1>2, <3>1, DivStepsNext
    <3> QED
      BY <3>1, <3>2 DEF ExactAfter, n, one
  <2>2. DivWord * 0 = 0
    BY <1>1
  <2> QED
    BY <1>4, <2>1, <2>2 DEF Exactly, DivFirst
<1>7. Combines(n, x, n) /\ Combines(n, x, x)
  <2>1. n = 1 * n + 0 * x /\ x = 0 * n + 1 * x
    BY <1>2
  <2> QED
    BY <2>1, 0 \in Int, 1 \in Int DEF Combines
<1>8. Same(n, x * 0, w * n)
  <2> DEFINE y == w * n
             zero == 0
  <2>1. y \in Int /\ y = zero + w * n /\ zero \in Int /\ w \in Int /\ x * 0 = zero
    BY <1>2
  <2> HIDE DEF y, zero
  <2>2. y % n = zero % n
    BY <1>1, <2>1, SameRemainder
  <2> QED
    BY <2>1, <2>2 DEF Same, y
<1>9. Same(n, x * w, w * x)
  <2>1. x * w = w * x
    BY <1>2, w \in Int
  <2> QED
    BY <2>1 DEF Same
<1>10. Rounds - 0 = Rounds /\ n \in -n..n /\ x \in -n..n
  BY <1>1 DEF n
<1> QED
  BY <1>1, <1>2, <1>4, <1>5, <1>6, <1>7, <1>8, <1>9, <1>10 DEF InverseBooks, n

LEMMA InverseInitial ==
  ASSUME Init, routine = "cortex_m4", form = "inverse"
  PROVE  InverseInv
<1>1. M4!InverseInit
  BY DEF Init, M4!Init, M4!FixedInit, M4!SlideInit
<1>2. k \in 1..(InvOrder - 1) /\ i = 0 /\ phase = "ladder" /\ InverseStarts(acc, k)
  BY <1>1 DEF M4!InverseInit, InverseStarts
<1>3. acc \in InverseWords /\ InverseBooks(acc, 0, k)
  BY <1>2, InverseBegins
<1>4. 0 \in 0..Rounds
  BY InverseSizes
<1> QED
  BY <1>2, <1>3, <1>4 DEF InverseInv

LEMMA InverseRounds ==
  ASSUME InverseInv, M4!InverseRound
  PROVE  InverseInv'
<1>1. /\ form = "inverse" /\ phase = "ladder" /\ i < Rounds /\ acc' = RoundOf(acc) /\ i' = i + 1
      /\ form' = form /\ k' = k /\ phase' = phase
  BY DEF M4!InverseRound, RoundOf, RoundMatrix
<1>2. k \in 1..(InvOrder - 1) /\ i \in 0..(Rounds - 1) /\ acc \in InverseWords /\ InverseBooks(acc, i, k)
  BY <1>1, InverseSizes DEF InverseInv
<1>3. RoundOf(acc) \in InverseWords /\ InverseBooks(RoundOf(acc), i + 1, k)
  BY <1>2, RoundKeepsBooks
<1>4. i + 1 \in 0..Rounds
  BY <1>2, InverseSizes
<1>5. InverseBooks(acc', i', k')
  BY <1>1, <1>3
<1>6. InverseBooks(acc, i, k)'
  BY <1>5 DEF InverseBooks, ExactAfter, Exactly
<1> QED
  BY <1>1, <1>2, <1>3, <1>4, <1>6 DEF InverseInv

LEMMA InverseEnds ==
  ASSUME InverseInv, M4!InverseEnd
  PROVE  InverseInv'
<1> DEFINE result == IF M4!ShouldNeg THEN InvOrder - acc.x.val ELSE acc.x.val
<1>1. /\ form = "inverse" /\ phase = "ladder" /\ i = Rounds /\ acc' = [acc EXCEPT !.out = result]
      /\ i' = i /\ form' = form /\ k' = k /\ phase' = "done"
  BY DEF M4!InverseEnd
<1>2. acc \in InverseWords /\ InverseBooks(acc, i, k) /\ k \in 1..(InvOrder - 1) /\ i \in 0..Rounds
  BY DEF InverseInv
<1>3. result \in Int
  <2>1. acc.x \in FlagWords(0..(InvOrder - 1))
    BY <1>2 DEF InverseWords
  <2> QED
    BY <2>1, InverseSizes DEF FlagWords
<1> HIDE DEF result
<1>4. /\ acc' \in InverseWords /\ acc'.out = result
      /\ acc'.delta = acc.delta /\ acc'.f = acc.f /\ acc'.g = acc.g /\ acc'.x = acc.x /\ acc'.y = acc.y
  BY <1>1, <1>2, <1>3 DEF InverseWords
<1>5. InverseBooks(acc', i', k')
  BY <1>1, <1>2, <1>4 DEF InverseBooks, Exactly
<1>6. InverseBooks(acc, i, k)'
  BY <1>5 DEF InverseBooks, ExactAfter, Exactly
<1>7. acc'.out = (IF M4!ShouldNeg THEN InvOrder - acc.x.val ELSE acc.x.val)'
  <2>1. M4!ShouldNeg' = M4!ShouldNeg
    BY <1>4 DEF M4!ShouldNeg
  <2> QED
    BY <1>4, <2>1 DEF result
<1> QED
  BY <1>1, <1>2, <1>4, <1>6, <1>7 DEF InverseInv

LEMMA InverseSteps ==
  ASSUME InverseInv, M4!Next
  PROVE  InverseInv'
<1>1. form = "inverse" /\ phase \in {"ladder", "done"}
  BY DEF InverseInv
<1>2. M4!InverseRound \/ M4!InverseEnd
  BY <1>1 DEF M4!Next, M4!FixedTurn, M4!FixedEnd, M4!Start, M4!RunSlide1, M4!RunSlide2, M4!ScanTop, M4!Ladder
<1> QED
  BY <1>2, InverseRounds, InverseEnds

LEMMA InverseGoals ==
  ASSUME InverseInv
  PROVE  M4!TypeOK /\ M4!Inverts
<1> DEFINE n == InvOrder
           fv == M4!Actual(acc.f)
           gv == M4!Actual(acc.g)
           xv == M4!Actual(acc.x)
<1>1. form = "inverse" /\ k \in 1..(n - 1) /\ i \in 0..Rounds /\ InverseBooks(acc, i, k) /\ phase \in {"ladder", "done"}
  BY DEF InverseInv
<1>2. /\ acc.f \in FlagWords(Int) /\ acc.g \in FlagWords(Int)
      /\ acc.x \in FlagWords(0..(n - 1)) /\ acc.y \in FlagWords(0..(n - 1))
  BY DEF InverseInv, InverseWords
<1>3. n \in Nat /\ n % 2 = 1 /\ n > 1
  BY <1>1, InverseSizes
<1>4. fv \in -n..n /\ gv \in -n..n /\ Same(n, k * xv, PowerOf(2, Rounds - i) * fv)
  BY <1>1 DEF InverseBooks
<1>5. fv \in Int /\ gv \in Int /\ M4!Abs(acc.f.val) = M4!Abs(fv) /\ M4!Abs(acc.g.val) = M4!Abs(gv) /\ acc.g.val \in Int
  BY <1>2, ActualValue
<1>6. M4!TypeOK
  <2>1. M4!Abs(fv) \in 0..n /\ M4!Abs(gv) \in 0..n
    <3> HIDE DEF fv, gv, n
    <3> QED
      BY <1>3, <1>4 DEF M4!Abs
  <2>2. acc.x.val \in 0..(n - 1) /\ acc.y.val \in 0..(n - 1)
    BY <1>2 DEF FlagWords
  <2> QED
    BY <1>1, <1>5, <2>1, <2>2 DEF M4!TypeOK
<1>7. (k * xv) % n = (M4!Pow2(Rounds - i) * fv) % n
  <2>1. Rounds - i \in Nat
    BY <1>1, InverseSizes
  <2> QED
    BY <1>4, <2>1, M4Powers DEF Same
<1>8. ASSUME phase = "done" PROVE (k * acc.out) % n = 1 /\ acc.g.val = 0
  <2>1. i = Rounds /\ acc.out = IF M4!ShouldNeg THEN n - acc.x.val ELSE acc.x.val
    BY <1>8 DEF InverseInv
  <2>2. gv = 0
    <3>1. gv = ExactAfter(DivWord * Rounds, k).g
      BY <1>1, <2>1 DEF InverseBooks, Exactly
    <3>2. DivWord * Rounds = Rounds * DivWord
      BY InverseSizes
    <3> HIDE DEF n
    <3> QED
      BY <1>1, <3>1, <3>2, InverseSizes DEF n
  <2>3. acc.g.val = 0
    BY <1>2, <2>2, ActualValue DEF M4!Actual
  <2>4. Combines(fv, gv, n) /\ Combines(fv, gv, k)
    BY <1>1 DEF InverseBooks
  <2>5. fv = 1 \/ fv = -1
    <3>1. \A d \in 2..(n - 1) : n % d # 0
      BY InverseSizes
    <3> HIDE DEF fv, gv, n
    <3> QED
      BY <1>1, <1>3, <1>4, <1>5, <2>2, <2>4, <3>1, OnlyUnits
  <2>6. Same(n, k * xv, fv)
    <3>1. PowerOf(2, Rounds - i) = 1
      <4>1. Rounds - i = 0
        BY <2>1, InverseSizes
      <4> QED
        BY <4>1, PowersOfTwo
    <3>2. 1 * fv = fv
      BY <1>5
    <3> QED
      BY <1>4, <3>1, <3>2
  <2>7. acc.out = IF acc.x.flip # (acc.f.flip # (acc.f.val < 0)) THEN n - acc.x.val ELSE acc.x.val
    BY <2>1 DEF M4!ShouldNeg
  <2>8. (k * acc.out) % n = 1
    <3> DEFINE result == acc.out
    <3>1. result = IF acc.x.flip # (acc.f.flip # (acc.f.val < 0)) THEN n - acc.x.val ELSE acc.x.val
      BY <2>7
    <3> HIDE DEF result, n
    <3>2. (k * result) % n = 1
      BY <1>1, <1>2, <1>3, <2>5, <2>6, <3>1, SignedResult
    <3> QED
      BY <3>2 DEF result
  <2> QED
    BY <2>3, <2>8
<1> QED
  BY <1>6, <1>7, <1>8 DEF M4!Inverts
-------------------------------------------------------------------------------
(* Cortex-M4's product with the base point. *)
LEMMA FixedSizes ==
  /\ Columns \in Nat /\ Columns > 0 /\ FixedOrder \in Nat /\ FixedOrder % 2 = 1 /\ FixedOrder > 0
  /\ PowerOf(2, 6 * Columns + 1) < FixedOrder /\ FixedOrder < PowerOf(2, 8 * Columns)
  /\ \A x \in FixedScalars : x \in 0..(FixedOrder - 1)
<1>1. /\ Columns \in Nat \ {0} /\ FixedOrder \in Nat /\ FixedOrder % 2 = 1
      /\ M4!Pow2(6 * Columns + 1) < FixedOrder /\ FixedOrder < M4!Pow2(8 * Columns)
      /\ FixedScalars \subseteq 0..(FixedOrder - 1)
  BY LaddersAssumption DEF M4!CortexParameters
<1>2. 6 * Columns + 1 \in Nat /\ 8 * Columns \in Nat
  BY <1>1
<1>3. M4!Pow2(6 * Columns + 1) = PowerOf(2, 6 * Columns + 1) /\ M4!Pow2(8 * Columns) = PowerOf(2, 8 * Columns)
  BY <1>2, M4Powers
<1>4. FixedOrder > 0
  <2>1. CASE FixedOrder = 0
    BY <1>1, <2>1
  <2> QED
    BY <1>1, <2>1
<1> QED
  BY <1>1, <1>3, <1>4

(* The weights of the four positions that an entry is for. *)
Place(s) == PowerOf(2, s * Columns)

LEMMA Places ==
  /\ \A s \in Nat : Place(s) \in Nat /\ Place(s) > 0 /\ M4!Pow2(s * Columns) = Place(s)
  /\ Place(0) = 1 /\ \A x, y \in Nat : Place(x + y) = Place(x) * Place(y)
  /\ Place(2) >= 4
<1>1. \A s \in Nat : s * Columns \in Nat
  BY FixedSizes
<1>2. ASSUME NEW s \in Nat PROVE Place(s) \in Nat /\ Place(s) > 0 /\ M4!Pow2(s * Columns) = Place(s)
  BY <1>1, M4Powers DEF Place
<1>3. Place(0) = 1
  <2>1. 0 * Columns = 0
    BY FixedSizes
  <2> QED
    BY <2>1, PowersOfTwo DEF Place
<1>4. ASSUME NEW x \in Nat, NEW y \in Nat PROVE Place(x + y) = Place(x) * Place(y)
  <2>1. (x + y) * Columns = x * Columns + y * Columns
    BY FixedSizes
  <2>2. x * Columns \in Nat /\ y * Columns \in Nat
    BY <1>1
  <2> QED
    BY <2>1, <2>2, PowersOfTwo DEF Place
<1>5. Place(2) >= 4
  <2> DEFINE j == 2 * Columns - 2
             w == PowerOf(2, j)
  <2>1. j \in Nat /\ (j + 1) + 1 = 2 * Columns /\ j + 1 \in Nat
    BY FixedSizes
  <2> HIDE DEF j
  <2>2. PowerOf(2, 2 * Columns) = 2 * PowerOf(2, j + 1) /\ PowerOf(2, j + 1) = 2 * w /\ w \in Nat /\ w > 0
    BY <2>1, PowersOfTwo
  <2> HIDE DEF w
  <2>3. PowerOf(2, 2 * Columns) >= 4
    BY <2>2
  <2> QED
    BY <2>3 DEF Place
<1> QED
  BY <1>2, <1>3, <1>4, <1>5

(* A sum of the four with signs. *)
Signs == {1, -1}
Quad(s3, s2t, s1t, s0) == s3 * Place(6) + s2t * Place(4) + s1t * Place(2) + s0

LEMMA QuadRange ==
  ASSUME NEW x \in Signs, NEW y \in Signs, NEW z \in Signs
  PROVE  Quad(1, x, y, z) \in 1..(FixedOrder - 1)
<1> DEFINE w == Place(2)
           q == Place(4)
           r == Place(6)
<1>1. w \in Nat /\ w >= 4 /\ q \in Nat /\ r \in Nat
  BY Places
<1>2. q = w * w /\ r = q * w
  <2>1. 2 + 2 = 4 /\ 4 + 2 = 6 /\ 2 \in Nat /\ 4 \in Nat
    OBVIOUS
  <2> QED
    BY <2>1, Places
<1>3. q >= 4 * w /\ r >= 4 * q
  BY <1>1, <1>2
<1>4. 2 * r < FixedOrder
  <2>1. 6 * Columns \in Nat
    BY FixedSizes
  <2>2. PowerOf(2, 6 * Columns + 1) = 2 * PowerOf(2, 6 * Columns)
    BY <2>1, PowersOfTwo
  <2> QED
    BY <2>2, FixedSizes DEF Place
<1> HIDE DEF w, q, r
<1>5. Quad(1, x, y, z) = 1 * r + x * q + y * w + z
  BY DEF Quad, w, q, r
<1>6. 1 * r + x * q + y * w + z \in Int
  BY <1>1 DEF Signs
<1>7. 1 * r + x * q + y * w + z > 0 /\ 1 * r + x * q + y * w + z < 2 * r
  BY <1>1, <1>3 DEF Signs
<1> QED
  BY <1>1, <1>4, <1>5, <1>6, <1>7, FixedSizes

LEMMA FixedPowers ==
  /\ M4!C = Columns
  /\ M4!Pow2(6 * M4!C) = Place(6) /\ M4!Pow2(4 * M4!C) = Place(4) /\ M4!Pow2(2 * M4!C) = Place(2)
  /\ M4!Pow2(0 * M4!C) = Place(0) /\ M4!Pow2(1 * M4!C) = Place(1)
<1>1. M4!C = Columns
  BY DEF M4!C
<1>2. 6 \in Nat /\ 4 \in Nat /\ 2 \in Nat /\ 1 \in Nat /\ 0 \in Nat
  OBVIOUS
<1> QED
  BY <1>1, <1>2, Places

(* Entries are multiples of the base point other than infinity. *)
LEMMA FixedEntries ==
  ASSUME NEW table \in {0, 1}, NEW mask, mask[0] \in {0, 1}, mask[1] \in {0, 1}, mask[2] \in {0, 1},
         form = "fixed"
  PROVE  LET v == Quad(1, M4!Sign(mask[2]), M4!Sign(mask[1]), M4!Sign(mask[0])) IN
         /\ M4!FixedEntry(table, mask) \in 1..(FixedOrder - 1)
         /\ v \in Int /\ Same(FixedOrder, M4!FixedEntry(table, mask), Place(table) * v)
<1> DEFINE n == FixedOrder
           v == Quad(1, M4!Sign(mask[2]), M4!Sign(mask[1]), M4!Sign(mask[0]))
           w == Place(table)
           x == w * v
<1>0. M4!GroupOrder = n
  BY DEF M4!GroupOrder
<1>1. n \in Nat /\ n > 0 /\ n % 2 = 1
  BY FixedSizes
<1>2. M4!Sign(mask[2]) \in Signs /\ M4!Sign(mask[1]) \in Signs /\ M4!Sign(mask[0]) \in Signs
  BY DEF M4!Sign, Signs
<1>3. v \in 1..(n - 1)
  BY <1>2, QuadRange
<1>4. w \in Nat /\ M4!Pow2(table * M4!C) = w
  BY FixedPowers, Places
<1>5. M4!FixedEntry(table, mask) = x % n
  <2> DEFINE z2 == M4!Sign(mask[2])
             z1 == M4!Sign(mask[1])
             z0 == M4!Sign(mask[0])
             p6 == Place(6)
             p4 == Place(4)
             p02 == Place(2)
  <2>1. v = 1 * p6 + z2 * p4 + z1 * p02 + z0
    BY DEF Quad
  <2>2. M4!FixedEntry(table, mask) = (w * (p6 + z2 * p4 + z1 * p02 + z0)) % M4!GroupOrder
    BY <1>4, FixedPowers DEF M4!FixedEntry
  <2>3. p6 \in Nat
    BY Places, 6 \in Nat
  <2> HIDE DEF v, w, z2, z1, z0, p6, p4, p02
  <2>4. 1 * p6 = p6
    BY <2>3
  <2> QED
    BY <2>1, <2>2, <2>4, <1>0
<1> HIDE DEF v, w
<1>6. x \in Int
  BY <1>3, <1>4
<1>7. x % n # 0
  <2> SUFFICES ASSUME x % n = 0 PROVE FALSE
    OBVIOUS
  <2>1. PICK inv \in Int : Same(n, w * inv, 1)
    <3>1. \E j \in Int : Same(n, PowerOf(2, table * Columns) * j, 1)
      <4>1. table * Columns \in Nat
        BY FixedSizes
      <4> QED
        BY <1>1, <4>1, OddInvertible
    <3> QED
      BY <3>1 DEF w, Place
  <2>2. Same(n, v * w, 0 * w)
    <3>1. 0 % n = 0 /\ 0 * w = 0 /\ v * w = x
      BY <1>1, <1>3, <1>4
    <3> QED
      BY <3>1 DEF Same
  <2>3. Same(n, v, 0)
    <3> DEFINE zero == 0
    <3>1. zero \in Int /\ Same(n, v * w, zero * w) /\ v \in Int /\ w \in Int
      BY <1>3, <1>4, <2>2
    <3> HIDE DEF zero, n
    <3>2. Same(n, v, zero)
      BY <1>1, <2>1, <3>1, SameCancel
    <3> QED
      BY <3>2 DEF zero
  <2>4. v % n = v /\ 0 % n = 0
    <3>1. v \in 0..(n - 1) /\ 0 \in 0..(n - 1)
      BY <1>1, <1>3
    <3> QED
      BY <1>1, <3>1, Remainder
  <2> QED
    BY <1>3, <2>3, <2>4 DEF Same
<1>8. x % n \in 0..(n - 1) /\ Same(n, x % n, x)
  <2> HIDE DEF x, n
  <2> QED
    BY <1>1, <1>6, Remainder
<1>9. M4!FixedEntry(table, mask) \in 1..(n - 1)
  BY <1>1, <1>5, <1>7, <1>8
<1> QED
  BY <1>3, <1>5, <1>8, <1>9 DEF v, w

FixedBits == [0..(8 * Columns - 1) -> {0, 1}]

(* What the four bits from a position on say. *)
FourSigns(b, at) ==
  Quad(M4!Sign(b[at + 6 * Columns]), M4!Sign(b[at + 4 * Columns]), M4!Sign(b[at + 2 * Columns]),
       M4!Sign(b[at]))

LEMMA FourBits ==
  ASSUME NEW b \in FixedBits, NEW at \in 0..(2 * Columns - 1)
  PROVE  /\ b[at] \in {0, 1} /\ b[at + 2 * Columns] \in {0, 1} /\ b[at + 4 * Columns] \in {0, 1}
         /\ b[at + 6 * Columns] \in {0, 1}
         /\ M4!Mask(b, at)[0] = b[at] /\ M4!Mask(b, at)[1] = b[at + 2 * Columns]
         /\ M4!Mask(b, at)[2] = b[at + 4 * Columns]
<1>1. /\ at \in 0..(8 * Columns - 1) /\ at + 2 * Columns \in 0..(8 * Columns - 1)
      /\ at + 4 * Columns \in 0..(8 * Columns - 1) /\ at + 6 * Columns \in 0..(8 * Columns - 1)
  BY FixedSizes
<1>2. at + 2 * 0 * Columns = at /\ at + 2 * 1 * Columns = at + 2 * Columns /\ at + 2 * 2 * Columns = at + 4 * Columns
  BY FixedSizes
<1> QED
  BY <1>1, <1>2, FixedPowers DEF FixedBits, M4!Mask

(* A complemented mask and a negated entry are the same multiple with all signs. *)
LEMMA FixedSelects ==
  ASSUME form = "fixed", NEW b \in FixedBits, NEW table \in {0, 1}, NEW at \in 0..(2 * Columns - 1)
  PROVE  /\ M4!FixedSelected(b, table, at) \in 1..(FixedOrder - 1)
         /\ Same(FixedOrder, M4!FixedSelected(b, table, at), Place(table) * FourSigns(b, at))
<1> DEFINE n == FixedOrder
           m0 == M4!Mask(b, at)
           f0 == M4!FixedSelected(b, table, at)
           x3 == b[at + 6 * Columns]
           w == Place(table)
<1>1. n \in Nat /\ n > 0
  BY FixedSizes
<1>2. m0[0] \in {0, 1} /\ m0[1] \in {0, 1} /\ m0[2] \in {0, 1} /\ x3 \in {0, 1}
  BY FourBits
<1>3. FourSigns(b, at) = Quad(M4!Sign(x3), M4!Sign(m0[2]), M4!Sign(m0[1]), M4!Sign(m0[0]))
  BY FourBits DEF FourSigns
<1>4. f0 = IF x3 = 1 THEN M4!FixedEntry(table, m0)
           ELSE M4!Negated(M4!FixedEntry(table, [j \in 0..2 |-> 1 - m0[j]]))
  BY FixedPowers DEF M4!FixedSelected
<1> HIDE DEF m0, f0, x3, n
<1>5. CASE x3 = 1
  <2>1. M4!Sign(x3) = 1
    BY <1>5 DEF M4!Sign
  <2> QED
    BY <1>2, <1>3, <1>4, <1>5, <2>1, FixedEntries DEF f0, n
<1>6. CASE x3 = 0
  <2> DEFINE m1 == [j \in 0..2 |-> 1 - m0[j]]
             y == M4!FixedEntry(table, m1)
             v == Quad(1, M4!Sign(m1[2]), M4!Sign(m1[1]), M4!Sign(m1[0]))
             wv == w * v
             u == FourSigns(b, at)
  <2>1. m1[0] = 1 - m0[0] /\ m1[1] = 1 - m0[1] /\ m1[2] = 1 - m0[2]
    OBVIOUS
  <2>2. m1[0] \in {0, 1} /\ m1[1] \in {0, 1} /\ m1[2] \in {0, 1}
    BY <1>2, <2>1
  <2> HIDE DEF m1
  <2>3. y \in 1..(n - 1) /\ v \in Int /\ Same(n, y, w * v)
    BY <2>2, FixedEntries DEF n
  <2>4. u = -v
    <3> DEFINE z0 == M4!Sign(m0[0])
               z1 == M4!Sign(m0[1])
               z2 == M4!Sign(m0[2])
               p6 == Place(6)
               p4 == Place(4)
               p02 == Place(2)
    <3>1. M4!Sign(m1[0]) = -z0 /\ M4!Sign(m1[1]) = -z1 /\ M4!Sign(m1[2]) = -z2 /\ M4!Sign(x3) = -1
          /\ z0 \in {1, -1} /\ z1 \in {1, -1} /\ z2 \in {1, -1}
      BY <1>2, <1>6, <2>1 DEF M4!Sign
    <3>2. p6 \in Nat /\ p4 \in Nat /\ p02 \in Nat
      BY Places, 6 \in Nat, 4 \in Nat, 2 \in Nat
    <3> HIDE DEF z0, z1, z2, p6, p4, p02
    <3>3. v = 1 * p6 + (-z2) * p4 + (-z1) * p02 + (-z0)
      BY <3>1 DEF v, Quad, p6, p4, p02
    <3>4. u = (-1) * p6 + z2 * p4 + z1 * p02 + z0
      BY <1>3, <3>1 DEF Quad, p6, p4, p02, z0, z1, z2
    <3> HIDE DEF u, v
    <3>5. v = p6 - (z2 * p4) - (z1 * p02) - z0 /\ u = (z2 * p4) + (z1 * p02) + z0 - p6
      BY <3>1, <3>2, <3>3, <3>4
    <3> QED
      BY <3>1, <3>2, <3>5
  <2> HIDE DEF u, v
  <2>5. f0 = (n - y) % n /\ (n - y) % n = n - y /\ f0 \in 1..(n - 1)
    <3>1. y # M4!Broken
      BY <2>3 DEF M4!Broken
    <3>2. f0 = (n - y) % n
      BY <1>4, <1>6, <3>1 DEF M4!Negated, M4!GroupOrder, m1, n
    <3>3. n - y \in 1..(n - 1) /\ n - y \in 0..(n - 1)
      BY <1>1, <2>3
    <3>4. (n - y) % n = n - y
      <4> DEFINE z == n - y
      <4>1. z \in 0..(n - 1)
        BY <3>3
      <4> HIDE DEF z
      <4> QED
        BY <1>1, <4>1, Remainder DEF z
    <3> QED
      BY <3>2, <3>3, <3>4
  <2>6. Same(n, n - y, w * u)
    <3> DEFINE zero == 0
    <3>1. w \in Int /\ wv \in Int /\ w * u = zero - wv
      <4>1. w \in Int
        <5>1. table \in Nat
          OBVIOUS
        <5> QED
          BY <5>1, Places
      <4> HIDE DEF w
      <4> QED
        BY <2>3, <2>4, <4>1
    <3>2. n % n = zero % n
      <4> DEFINE one == 1
                 top == n
      <4>1. top = zero + one * n /\ zero \in Int /\ one \in Int /\ top \in Int
        BY <1>1
      <4> HIDE DEF one, zero, top
      <4>2. top % n = zero % n
        BY <1>1, <4>1, SameRemainder
      <4> QED
        BY <4>2 DEF top
    <3>3. Same(n, n, zero) /\ zero \in Int /\ Same(n, y, wv) /\ y \in Int /\ n \in Int
      BY <1>1, <2>3, <3>2 DEF Same
    <3> HIDE DEF zero, wv, y
    <3>4. Same(n, n - y, zero - wv)
      BY <1>1, <3>1, <3>3, SameSums
    <3> QED
      BY <3>1, <3>4
  <2>7. f0 \in 1..(n - 1) /\ Same(n, f0, w * u)
    <3>1. f0 = n - y
      BY <2>5
    <3> QED
      BY <2>5, <2>6, <3>1
  <2>8. M4!FixedSelected(b, table, at) \in 1..(FixedOrder - 1)
    BY <2>7 DEF f0, n
  <2>9. Same(FixedOrder, M4!FixedSelected(b, table, at), Place(table) * FourSigns(b, at))
    <3>1. Same(n, f0, Place(table) * FourSigns(b, at))
      BY <2>7 DEF u
    <3> QED
      BY <3>1 DEF f0, n
  <2> QED
    BY <2>8, <2>9
<1> QED
  BY <1>2, <1>5, <1>6

(* The powers of two with signs that the turns down to x have read, as one sum. *)
FixedTerms(b, x) ==
  [j \in 0..(8 * Columns - 1) |-> IF j % Columns >= x THEN M4!Digit(b, j) * M4!Pow2(j) ELSE 0]

LEMMA FixedReadSum ==
  ASSUME NEW b, NEW x
  PROVE  M4!FixedRead(b, x) = SumOf(FixedTerms(b, x), 8 * Columns)
BY FixedPowers DEF M4!FixedRead, FixedTerms, SumOf

LEMMA FixedDigits ==
  ASSUME NEW b \in FixedBits, NEW j \in 0..(8 * Columns - 1)
  PROVE  /\ M4!Digit(b, j) \in Signs
         /\ M4!Digit(b, j) = IF j = 8 * Columns - 1 THEN 1 ELSE M4!Sign(b[j + 1])
         /\ M4!Digit(b, j) * M4!Pow2(j) \in Int /\ M4!Pow2(j) = PowerOf(2, j)
<1>1. M4!Digit(b, j) = IF j = 8 * Columns - 1 THEN 1 ELSE M4!Sign(b[j + 1])
  BY FixedPowers DEF M4!Digit
<1>2. M4!Digit(b, j) \in Signs
  <2>1. CASE j = 8 * Columns - 1
    BY <1>1, <2>1 DEF Signs
  <2>2. CASE j # 8 * Columns - 1
    <3>1. j + 1 \in 0..(8 * Columns - 1)
      BY <2>2, FixedSizes
    <3>2. b[j + 1] \in {0, 1}
      BY <3>1 DEF FixedBits
    <3> QED
      BY <1>1, <2>2, <3>2 DEF M4!Sign, Signs
  <2> QED
    BY <2>1, <2>2
<1>3. j \in Nat
  BY FixedSizes
<1>4. M4!Pow2(j) = PowerOf(2, j) /\ M4!Pow2(j) \in Nat
  BY <1>3, M4Powers
<1>5. M4!Digit(b, j) * M4!Pow2(j) \in Int
  <2> DEFINE y == M4!Pow2(j)
             d == M4!Digit(b, j)
  <2>1. y \in Int /\ d \in Int
    BY <1>2, <1>4 DEF Signs
  <2> HIDE DEF y, d
  <2>2. d * y \in Int
    BY <2>1
  <2> QED
    BY <2>2 DEF d, y
<1> QED
  BY <1>1, <1>2, <1>4, <1>5

LEMMA FixedTermsInt ==
  ASSUME NEW b \in FixedBits, NEW x, NEW j \in 0..(8 * Columns - 1)
  PROVE  FixedTerms(b, x)[j] = (IF j % Columns >= x THEN M4!Digit(b, j) * M4!Pow2(j) ELSE 0)
         /\ FixedTerms(b, x)[j] \in Int
BY FixedDigits DEF FixedTerms

(* The terms of an odd number of 8 C bits have it as their sum. *)
LEMMA FixedReadsNumber ==
  ASSUME NEW x \in Nat, x % 2 = 1, x < PowerOf(2, 8 * Columns)
  PROVE  /\ M4!BitsOf(x, 8 * M4!C) \in FixedBits
         /\ M4!FixedRead(M4!BitsOf(x, 8 * M4!C), 0) = x
<1> DEFINE n == 8 * Columns
           b == M4!BitsOf(x, 8 * M4!C)
           Tm == FixedTerms(b, 0)
           A(j) == SumOf(Tm, j)
           W(j) == Weighted(b, 2, j)
           Pw(j) == PowerOf(2, j)
           S == {j \in 0..(n - 1) : A(j) = W(j + 1) - Pw(j)}
<1>1. n \in Nat /\ n > 0 /\ 2 \in Nat \ {0} /\ Columns \in Nat /\ Columns > 0
  BY FixedSizes
<1>2. b = [j \in 0..(n - 1) |-> (x \div M4!Pow2(j)) % 2]
  BY FixedPowers DEF M4!BitsOf
<1>3. \A j \in 0..(n - 1) : b[j] = (x \div Pw(j)) % 2
  <2> SUFFICES ASSUME NEW j \in 0..(n - 1) PROVE b[j] = (x \div Pw(j)) % 2
    OBVIOUS
  <2>1. M4!Pow2(j) = Pw(j)
    <3>1. j \in Nat
      BY <1>1
    <3> QED
      BY <3>1, M4Powers
  <2> HIDE DEF b, Pw
  <2> QED
    BY <1>2, <2>1
<1>4. Pw(0) = 1 /\ \A j \in Nat : Pw(j) \in Nat /\ Pw(j) > 0 /\ Pw(j + 1) = 2 * Pw(j)
  BY PowersOfTwo
<1>5. (\A j \in 0..(n - 1) : b[j] \in 0..1) /\ W(n) = x
  <2> DEFINE two == 2
  <2>1. two \in Nat \ {0} /\ x < PowerOf(two, n) /\ \A j \in 0..(n - 1) : b[j] = (x \div PowerOf(two, j)) % two
    BY <1>3
  <2> HIDE DEF b, n, two
  <2>2. (\A j \in 0..(n - 1) : b[j] \in 0..(two - 1)) /\ Weighted(b, two, n) = x
    BY <1>1, <2>1, WeightedOfNumber
  <2> QED
    BY <2>2 DEF two
<1>6. b \in FixedBits
  <2>1. \A j \in 0..(n - 1) : b[j] \in {0, 1}
    BY <1>5
  <2> HIDE DEF b
  <2> QED
    BY <1>2, <2>1 DEF FixedBits
<1>7. /\ W(0) = 0 /\ \A j \in 0..(n - 1) : W(j + 1) = W(j) + b[j] * Pw(j)
      /\ \A j \in 0..n : W(j) \in Int
  <2> DEFINE two == 2
  <2>1. two \in Nat \ {0} /\ \A j \in 0..(n - 1) : b[j] \in Int
    BY <1>5
  <2> HIDE DEF b, n, two
  <2>2. /\ Weighted(b, two, 0) = 0
        /\ \A j \in 0..(n - 1) : Weighted(b, two, j + 1) = Weighted(b, two, j) + b[j] * PowerOf(two, j)
        /\ \A j \in 0..n : Weighted(b, two, j) \in Int
    BY <1>1, <2>1, WeightedStep
  <2> QED
    BY <2>2 DEF two
<1>8. \A j \in 0..(n - 1) : Tm[j] = M4!Digit(b, j) * Pw(j) /\ Tm[j] \in Int
  <2> SUFFICES ASSUME NEW j \in 0..(n - 1) PROVE Tm[j] = M4!Digit(b, j) * Pw(j) /\ Tm[j] \in Int
    OBVIOUS
  <2>1. j % Columns >= 0
    <3>1. j % Columns \in 0..(Columns - 1)
      BY <1>1, Remainder
    <3> QED
      BY <3>1, <1>1
  <2>2. M4!Pow2(j) = Pw(j)
    BY <1>6, FixedDigits
  <2> HIDE DEF b, Pw
  <2> QED
    BY <1>6, <2>1, <2>2, FixedTermsInt
<1>9. /\ A(0) = 0 /\ \A j \in 0..(n - 1) : A(j + 1) = A(j) + Tm[j]
      /\ \A j \in 0..n : A(j) \in Int
  <2>1. \A j \in 0..(n - 1) : Tm[j] \in Int
    BY <1>8
  <2> HIDE DEF Tm, n
  <2> QED
    BY <1>1, <2>1, SumsStep
<1>10. \A j \in 0..(n - 1) : M4!Digit(b, j) = IF j = n - 1 THEN 1 ELSE 2 * b[j + 1] - 1
  <2> HIDE DEF b
  <2> QED
    BY <1>6, FixedDigits DEF M4!Sign
<1>11. b[0] = 1
  <2>1. 0 \in 0..(n - 1) /\ Pw(0) = 1
    BY <1>1, <1>4
  <2>2. x \div 1 = x
    OBVIOUS
  <2> HIDE DEF b, Pw
  <2> QED
    BY <1>3, <2>1, <2>2
<1> HIDE DEF n, b, Tm, A, W, Pw
<1>12. 0 \in S /\ n - 1 \in Nat
  <2>1. 0 \in 0..(n - 1) /\ 0 + 1 = 1 /\ 1 * 1 = 1
    BY <1>1
  <2>2. W(1) = 1
    BY <1>4, <1>7, <1>11, <2>1
  <2> QED
    BY <1>1, <1>4, <1>9, <2>1, <2>2
<1>13. ASSUME NEW j \in 1..(n - 1), j - 1 \in S PROVE j \in S
  <2> DEFINE h == j - 1
             p == Pw(h)
             c == b[j]
             y == W(j)
  <2>1. h \in 0..(n - 1) /\ h \in Nat /\ h + 1 = j /\ h # n - 1 /\ j \in 0..(n - 1) /\ j \in 0..n /\ j \in Nat
    BY <1>1
  <2>2. A(h) = W(h + 1) - Pw(h)
    BY <1>13
  <2>3. Pw(h + 1) = 2 * Pw(h) /\ Pw(h) \in Nat
    BY <1>4, <2>1
  <2>4. A(h + 1) = A(h) + Tm[h] /\ Tm[h] = M4!Digit(b, h) * Pw(h) /\ M4!Digit(b, h) = 2 * b[h + 1] - 1
    BY <1>8, <1>9, <1>10, <2>1
  <2>5. W(j + 1) = W(j) + b[j] * Pw(j) /\ W(j) \in Int /\ b[j] \in 0..1
    BY <1>5, <1>7, <2>1
  <2> HIDE DEF h
  <2>6. A(j) = y - p + (2 * c - 1) * p /\ W(j + 1) = y + c * (2 * p) /\ Pw(j) = 2 * p
    BY <2>1, <2>2, <2>3, <2>4, <2>5
  <2>7. p \in Nat /\ y \in Int /\ c \in 0..1
    BY <2>3, <2>5
  <2> HIDE DEF p, y, c
  <2>8. A(j) = W(j + 1) - Pw(j)
    BY <2>6, <2>7
  <2> QED
    BY <2>1, <2>8
<1>14. n - 1 \in S
  <2>1. 0..(n - 1) \subseteq S
    <3> HIDE DEF S
    <3> QED
      BY <1>12, <1>13, UpTo
  <2> QED
    BY <1>12, <2>1
<1>15. A(n) = x
  <2> DEFINE h == n - 1
             p == Pw(h)
  <2>1. h \in 0..(n - 1) /\ h + 1 = n /\ h \in Nat
    BY <1>1
  <2>2. A(h) = W(h + 1) - p
    BY <1>14
  <2>3. A(h + 1) = A(h) + Tm[h] /\ Tm[h] = M4!Digit(b, h) * Pw(h) /\ M4!Digit(b, h) = 1
    BY <1>8, <1>9, <1>10, <2>1
  <2>4. p \in Nat
    BY <1>4, <2>1
  <2> HIDE DEF p, h
  <2>5. Tm[h] = 1 * p
    BY <2>3 DEF p
  <2> QED
    BY <1>5, <2>1, <2>2, <2>3, <2>4, <2>5
<1>16. M4!FixedRead(b, 0) = A(n)
  BY FixedReadSum DEF A, Tm, n
<1> QED
  BY <1>6, <1>15, <1>16 DEF b

(* Where a turn is between the terms of x + 1 and those of x: it has read the
   places below s C. *)
FixedMid(b, x, s) ==
  [j \in 0..(8 * Columns - 1) |->
     IF j % Columns >= x + 1 \/ (j % Columns = x /\ j < s * Columns)
     THEN M4!Digit(b, j) * M4!Pow2(j) ELSE 0]

LEMMA ColumnOf ==
  ASSUME NEW s \in Nat, NEW x \in 0..(Columns - 1)
  PROVE  (s * Columns + x) % Columns = x /\ (s * Columns + x) \div Columns = s
<1> DEFINE y == s * Columns + x
<1>1. y \in Int /\ y = Columns * s + x /\ Columns \in Nat /\ Columns > 0 /\ s \in Int
  BY FixedSizes
<1> HIDE DEF y
<1>2. y % Columns = x /\ y \div Columns = s
  BY <1>1, DivisionUnique
<1> QED
  BY <1>2 DEF y

LEMMA FixedMidInt ==
  ASSUME NEW b \in FixedBits, NEW x, NEW s, NEW j \in 0..(8 * Columns - 1)
  PROVE  /\ FixedMid(b, x, s)[j] = (IF j % Columns >= x + 1 \/ (j % Columns = x /\ j < s * Columns)
                                    THEN M4!Digit(b, j) * M4!Pow2(j) ELSE 0)
         /\ FixedMid(b, x, s)[j] \in Int
BY FixedDigits DEF FixedMid

LEMMA FixedMidStep ==
  ASSUME NEW b \in FixedBits, NEW x \in 0..(Columns - 1), NEW s \in 0..7
  PROVE  SumOf(FixedMid(b, x, s + 1), 8 * Columns)
           = SumOf(FixedMid(b, x, s), 8 * Columns) + M4!Digit(b, s * Columns + x) * PowerOf(2, s * Columns + x)
<1> DEFINE n == 8 * Columns
           at == s * Columns + x
           F == FixedMid(b, x, s)
           G == FixedMid(b, x, s + 1)
           ta == M4!Digit(b, at) * M4!Pow2(at)
<1>1. n \in Nat /\ Columns \in Nat /\ Columns > 0
  BY FixedSizes
<1>2. at \in 0..(n - 1) /\ at % Columns = x
  <2>1. s * Columns \in Nat /\ s * Columns <= 7 * Columns
    BY <1>1
  <2>2. s \in Nat
    OBVIOUS
  <2> QED
    BY <1>1, <2>1, <2>2, ColumnOf
<1>3. F[at] = 0 /\ G[at] = ta /\ F[at] \in Int /\ G[at] \in Int
  <2> DEFINE low == s * Columns
             high == (s + 1) * Columns
  <2>1. low \in Nat /\ high = low + Columns /\ at = low + x
    BY <1>1
  <2>2. ~(at < low) /\ at < high /\ ~(x >= x + 1)
    <3> HIDE DEF low, high
    <3> QED
      BY <1>1, <2>1
  <2>3. F[at] = IF at % Columns >= x + 1 \/ (at % Columns = x /\ at < low) THEN ta ELSE 0
    BY <1>2, FixedMidInt
  <2>4. G[at] = IF at % Columns >= x + 1 \/ (at % Columns = x /\ at < high) THEN ta ELSE 0
    BY <1>2, FixedMidInt
  <2>5. F[at] \in Int /\ G[at] \in Int
    BY <1>2, FixedMidInt
  <2> HIDE DEF low, high, at, ta, F, G
  <2> QED
    BY <1>2, <2>2, <2>3, <2>4, <2>5
<1>4. ASSUME NEW j \in 0..(n - 1), j # at PROVE F[j] = G[j] /\ F[j] \in Int /\ G[j] \in Int
  <2> DEFINE low == s * Columns
             high == (s + 1) * Columns
             r == j % Columns
             tj == M4!Digit(b, j) * M4!Pow2(j)
  <2>1. F[j] = (IF r >= x + 1 \/ (r = x /\ j < low) THEN tj ELSE 0) /\ F[j] \in Int
    BY FixedMidInt
  <2>2. G[j] = (IF r >= x + 1 \/ (r = x /\ j < high) THEN tj ELSE 0) /\ G[j] \in Int
    BY FixedMidInt
  <2>3. r = x => (j < low <=> j < high)
    <3> SUFFICES ASSUME r = x PROVE j < low <=> j < high
      OBVIOUS
    <3> DEFINE d == j \div Columns
    <3>1. j \in Nat /\ d \in Nat /\ j = Columns * d + x
      <4>1. j \in Nat
        BY <1>1
      <4>2. d \in Nat /\ j = Columns * d + r
        BY <1>1, <4>1, NatDivision
      <4> QED
        BY <4>1, <4>2
    <3> HIDE DEF d, r
    <3>2. d # s
      <4> SUFFICES ASSUME d = s PROVE FALSE
        OBVIOUS
      <4>1. Columns * s = s * Columns
        BY <1>1
      <4> QED
        BY <1>4, <3>1, <4>1
    <3>3. CASE d < s
      <4>1. d + 1 <= s /\ Columns * (d + 1) <= Columns * s /\ Columns * (d + 1) = Columns * d + Columns
        <5>1. d + 1 <= s
          BY <3>1, <3>3
        <5>2. s - (d + 1) \in Nat
          BY <3>1, <5>1
        <5>3. Columns * (s - (d + 1)) \in Nat
          BY <1>1, <5>2
        <5>4. Columns * (s - (d + 1)) = Columns * s - Columns * (d + 1)
          BY <1>1, <3>1
        <5>5. Columns * (d + 1) = Columns * d + Columns /\ Columns * s \in Int /\ Columns * d \in Int
          BY <1>1, <3>1
        <5> QED
          BY <1>1, <5>1, <5>3, <5>4, <5>5
      <4>2. low = Columns * s /\ high = low + Columns /\ Columns * d \in Nat /\ Columns * s \in Nat
        BY <1>1, <3>1
      <4> HIDE DEF low, high
      <4> QED
        BY <1>1, <3>1, <4>1, <4>2
    <3>4. CASE d > s
      <4>1. Columns * d >= Columns * s + Columns
        <5>1. d - (s + 1) \in Nat
          BY <3>1, <3>4
        <5>2. Columns * (d - (s + 1)) \in Nat
          BY <1>1, <5>1
        <5>3. Columns * (d - (s + 1)) = Columns * d - (Columns * s + Columns)
          BY <1>1, <3>1
        <5>4. Columns * s \in Int /\ Columns * d \in Int
          BY <1>1, <3>1
        <5> QED
          BY <1>1, <5>2, <5>3, <5>4
      <4>2. low = Columns * s /\ high = low + Columns /\ Columns * d \in Nat /\ Columns * s \in Nat
        BY <1>1, <3>1
      <4> HIDE DEF low, high
      <4> QED
        BY <1>1, <3>1, <4>1, <4>2
    <3> QED
      BY <3>1, <3>2, <3>3, <3>4
  <2> HIDE DEF low, high, r, tj, F, G
  <2> QED
    BY <2>1, <2>2, <2>3
<1>5. SumsDiffer(F, G, at, n)
  BY <1>3, <1>4 DEF SumsDiffer
<1>6. ta = M4!Digit(b, at) * PowerOf(2, at)
  <2>1. M4!Pow2(at) = PowerOf(2, at)
    <3> HIDE DEF at
    <3> QED
      BY <1>2, FixedDigits
  <2> QED
    BY <2>1
<1>7. SumOf(F, n) \in Int
  <2>1. \A j \in 0..(n - 1) : F[j] \in Int
    BY <1>3, <1>4
  <2> HIDE DEF F, n
  <2> QED
    BY <1>1, <2>1, SumsStep
<1>8. ta \in Int
  BY <1>3
<1> HIDE DEF F, G, n, at, ta
<1>9. SumOf(G, n) = SumOf(F, n) + (G[at] - F[at])
  BY <1>1, <1>2, <1>5, SumsChange
<1>10. SumOf(G, n) = SumOf(F, n) + ta
  BY <1>3, <1>7, <1>8, <1>9
<1> QED
  BY <1>6, <1>10 DEF F, G, n, at

LEMMA FixedMidEnds ==
  ASSUME NEW b \in FixedBits, NEW x \in 0..(Columns - 1)
  PROVE  /\ SumOf(FixedMid(b, x, 0), 8 * Columns) = M4!FixedRead(b, x + 1)
         /\ SumOf(FixedMid(b, x, 8), 8 * Columns) = M4!FixedRead(b, x)
<1> DEFINE n == 8 * Columns
<1>1. n \in Nat /\ Columns \in Nat /\ Columns > 0
  BY FixedSizes
<1>2. 0 * Columns = 0
  BY <1>1
<1>3. ASSUME NEW j \in 0..(n - 1) PROVE FixedMid(b, x, 0)[j] = FixedTerms(b, x + 1)[j]
  <2>1. ~(j < 0 * Columns)
    BY <1>1, <1>2
  <2> QED
    BY <2>1, FixedMidInt, FixedTermsInt
<1>4. ASSUME NEW j \in 0..(n - 1) PROVE FixedMid(b, x, 8)[j] = FixedTerms(b, x)[j]
  <2> DEFINE r == j % Columns
  <2>1. j < 8 * Columns
    BY <1>1
  <2>2. r \in Int
    BY <1>1, Remainder
  <2>3. FixedMid(b, x, 8)[j] = (IF r >= x + 1 \/ (r = x /\ j < 8 * Columns) THEN M4!Digit(b, j) * M4!Pow2(j) ELSE 0)
    BY FixedMidInt
  <2>4. FixedTerms(b, x)[j] = (IF r >= x THEN M4!Digit(b, j) * M4!Pow2(j) ELSE 0)
    BY FixedTermsInt
  <2> HIDE DEF r
  <2>5. r >= x <=> r >= x + 1 \/ r = x
    BY <1>1, <2>2
  <2> QED
    BY <2>1, <2>3, <2>4, <2>5
<1>5. FixedMid(b, x, 0) = FixedTerms(b, x + 1)
  BY <1>3 DEF FixedMid, FixedTerms
<1>6. FixedMid(b, x, 8) = FixedTerms(b, x)
  BY <1>4 DEF FixedMid, FixedTerms
<1> QED
  BY <1>5, <1>6, FixedReadSum

(* What the eight terms of a turn add. *)
Column(b, x, s) == M4!Digit(b, s * Columns + x) * Place(s)
FixedColumn(b, x) ==
  Column(b, x, 0) + (Column(b, x, 1) + (Column(b, x, 2) + (Column(b, x, 3)
    + (Column(b, x, 4) + (Column(b, x, 5) + (Column(b, x, 6) + Column(b, x, 7)))))))

LEMMA ColumnValue ==
  ASSUME NEW b \in FixedBits, NEW x \in 0..(Columns - 1), NEW s \in 0..7
  PROVE  /\ Column(b, x, s) \in Int
         /\ M4!Digit(b, s * Columns + x) * PowerOf(2, s * Columns + x) = PowerOf(2, x) * Column(b, x, s)
<1> DEFINE at == s * Columns + x
           d == M4!Digit(b, at)
           p == PowerOf(2, x)
           w == Place(s)
<1>1. Columns \in Nat /\ Columns > 0 /\ s \in Nat /\ x \in Nat /\ s * Columns \in Nat
  BY FixedSizes
<1>2. at \in 0..(8 * Columns - 1)
  <2>1. s * Columns <= 7 * Columns
    BY <1>1
  <2> QED
    BY <1>1, <2>1
<1>3. d \in Int
  <2> HIDE DEF at
  <2> QED
    BY <1>2, FixedDigits DEF Signs
<1>4. p \in Nat /\ w \in Nat /\ PowerOf(2, at) = w * p
  BY <1>1, PowersOfTwo DEF Place
<1>5. Column(b, x, s) = d * w
  BY DEF Column
<1> HIDE DEF at, d, p, w
<1>6. d * PowerOf(2, at) = p * (d * w) /\ d * w \in Int
  BY <1>3, <1>4
<1> QED
  BY <1>5, <1>6 DEF at, d, p

LEMMA FixedReadStep ==
  ASSUME NEW b \in FixedBits, NEW x \in 0..(Columns - 1)
  PROVE  /\ FixedColumn(b, x) \in Int /\ M4!FixedRead(b, x + 1) \in Int
         /\ M4!FixedRead(b, x) = M4!FixedRead(b, x + 1) + PowerOf(2, x) * FixedColumn(b, x)
<1> DEFINE A(s) == SumOf(FixedMid(b, x, s), 8 * Columns)
           Dg(s) == Column(b, x, s)
           p == PowerOf(2, x)
<1>1. \A s \in 0..7 : A(s + 1) = A(s) + p * Dg(s) /\ Dg(s) \in Int
  <2> SUFFICES ASSUME NEW s \in 0..7 PROVE A(s + 1) = A(s) + p * Dg(s) /\ Dg(s) \in Int
    OBVIOUS
  <2> QED
    BY FixedMidStep, ColumnValue
<1>2. A(0) = M4!FixedRead(b, x + 1) /\ A(8) = M4!FixedRead(b, x)
  BY FixedMidEnds
<1>3. A(0) \in Int
  <2> DEFINE F == FixedMid(b, x, 0)
             n == 8 * Columns
  <2>1. n \in Nat /\ \A j \in 0..(n - 1) : F[j] \in Int
    BY FixedSizes, FixedMidInt
  <2> HIDE DEF F, n
  <2>2. SumOf(F, n) \in Int
    BY <2>1, SumsStep
  <2> QED
    BY <2>2 DEF F, n
<1>4. p \in Nat
  <2>1. x \in Nat
    BY FixedSizes
  <2> QED
    BY <2>1, PowersOfTwo
<1>5. FixedColumn(b, x) = Dg(0) + (Dg(1) + (Dg(2) + (Dg(3) + (Dg(4) + (Dg(5) + (Dg(6) + Dg(7)))))))
  BY DEF FixedColumn
<1> HIDE DEF A, Dg, p
<1>6. /\ A(1) = A(0) + p * Dg(0) /\ A(2) = A(1) + p * Dg(1) /\ A(3) = A(2) + p * Dg(2) /\ A(4) = A(3) + p * Dg(3)
      /\ A(5) = A(4) + p * Dg(4) /\ A(6) = A(5) + p * Dg(5) /\ A(7) = A(6) + p * Dg(6) /\ A(8) = A(7) + p * Dg(7)
      /\ Dg(0) \in Int /\ Dg(1) \in Int /\ Dg(2) \in Int /\ Dg(3) \in Int
      /\ Dg(4) \in Int /\ Dg(5) \in Int /\ Dg(6) \in Int /\ Dg(7) \in Int
  BY <1>1
<1> DEFINE c6 == Dg(6) + Dg(7)
           c5 == Dg(5) + c6
           c4 == Dg(4) + c5
           c3 == Dg(3) + c4
           c2 == Dg(2) + c3
           c1 == Dg(1) + c2
           c0 == Dg(0) + c1
<1>7. c6 \in Int /\ c5 \in Int /\ c4 \in Int /\ c3 \in Int /\ c2 \in Int /\ c1 \in Int /\ c0 \in Int
  BY <1>6
<1>8. /\ p * c0 = p * Dg(0) + p * c1 /\ p * c1 = p * Dg(1) + p * c2 /\ p * c2 = p * Dg(2) + p * c3
      /\ p * c3 = p * Dg(3) + p * c4 /\ p * c4 = p * Dg(4) + p * c5 /\ p * c5 = p * Dg(5) + p * c6
      /\ p * c6 = p * Dg(6) + p * Dg(7)
  <2>1. \A y, z \in Int : p * (y + z) = p * y + p * z
    BY <1>4
  <2> QED
    BY <1>6, <1>7, <2>1
<1>9. A(1) \in Int /\ A(2) \in Int /\ A(3) \in Int /\ A(4) \in Int /\ A(5) \in Int /\ A(6) \in Int /\ A(7) \in Int
  BY <1>3, <1>4, <1>6
<1>10. FixedColumn(b, x) = c0
  BY <1>5
<1>11. \A y, z \in Int : p * z \in Int
  BY <1>4
<1> HIDE DEF c0, c1, c2, c3, c4, c5, c6
<1>12. A(8) = A(0) + p * c0
  <2> DEFINE e0 == p * Dg(0)
             e1 == p * Dg(1)
             e2 == p * Dg(2)
             e3 == p * Dg(3)
             e4 == p * Dg(4)
             e5 == p * Dg(5)
             e6 == p * Dg(6)
             e7 == p * Dg(7)
  <2>1. /\ e0 \in Int /\ e1 \in Int /\ e2 \in Int /\ e3 \in Int /\ e4 \in Int /\ e5 \in Int /\ e6 \in Int /\ e7 \in Int
    BY <1>6, <1>11
  <2>2. /\ A(1) = A(0) + e0 /\ A(2) = A(1) + e1 /\ A(3) = A(2) + e2 /\ A(4) = A(3) + e3
        /\ A(5) = A(4) + e4 /\ A(6) = A(5) + e5 /\ A(7) = A(6) + e6 /\ A(8) = A(7) + e7
    BY <1>6
  <2>3. p * c0 = e0 + (e1 + (e2 + (e3 + (e4 + (e5 + (e6 + e7))))))
    BY <1>8
  <2> HIDE DEF e0, e1, e2, e3, e4, e5, e6, e7
  <2> QED
    BY <1>3, <2>1, <2>2, <2>3
<1> QED
  BY <1>2, <1>3, <1>7, <1>10, <1>12 DEF p

ColumnDigit(b, x, s) == M4!Digit(b, s * Columns + x)
LowSigns(b, x) == Quad(ColumnDigit(b, x, 6), ColumnDigit(b, x, 4), ColumnDigit(b, x, 2), ColumnDigit(b, x, 0))
HighSigns(b, x) == Quad(ColumnDigit(b, x, 7), ColumnDigit(b, x, 5), ColumnDigit(b, x, 3), ColumnDigit(b, x, 1))

LEMMA ColumnDigits ==
  ASSUME NEW b \in FixedBits, NEW x \in 0..(Columns - 1), NEW s \in 0..7
  PROVE  /\ ColumnDigit(b, x, s) \in Int
         /\ ColumnDigit(b, x, s) = IF s = 7 /\ x = Columns - 1 THEN 1 ELSE M4!Sign(b[s * Columns + (x + 1)])
<1> DEFINE at == s * Columns + x
           low == s * Columns
<1>1. Columns \in Nat /\ Columns > 0 /\ low \in Nat /\ low <= 7 * Columns /\ (s # 7 => low <= 6 * Columns)
  BY FixedSizes
<1>2. at = low + x /\ at + 1 = low + (x + 1) /\ (s = 7 => low = 7 * Columns)
  BY <1>1
<1>3. at \in 0..(8 * Columns - 1) /\ (at = 8 * Columns - 1 <=> s = 7 /\ x = Columns - 1)
  <2> HIDE DEF at, low
  <2> QED
    BY <1>1, <1>2
<1>4. M4!Digit(b, at) \in Signs /\ M4!Digit(b, at) = IF at = 8 * Columns - 1 THEN 1 ELSE M4!Sign(b[at + 1])
  <2> HIDE DEF at
  <2> QED
    BY <1>3, FixedDigits
<1>5. ColumnDigit(b, x, s) = M4!Digit(b, at)
  BY DEF ColumnDigit
<1>6. M4!Digit(b, at) \in Int
  BY <1>4 DEF Signs
<1> HIDE DEF at
<1> QED
  BY <1>2, <1>3, <1>4, <1>5, <1>6

LEMMA FixedColumnSplit ==
  ASSUME NEW b \in FixedBits, NEW x \in 0..(Columns - 1)
  PROVE  /\ LowSigns(b, x) \in Int /\ HighSigns(b, x) \in Int
         /\ FixedColumn(b, x) = LowSigns(b, x) + Place(1) * HighSigns(b, x)
<1> DEFINE Dg(s) == ColumnDigit(b, x, s)
           w1 == Place(1)
           w2 == Place(2)
           w4 == Place(4)
           w6 == Place(6)
<1>1. /\ Dg(0) \in Int /\ Dg(1) \in Int /\ Dg(2) \in Int /\ Dg(3) \in Int
      /\ Dg(4) \in Int /\ Dg(5) \in Int /\ Dg(6) \in Int /\ Dg(7) \in Int
  BY ColumnDigits
<1>2. /\ w1 \in Nat /\ w2 \in Nat /\ w4 \in Nat /\ w6 \in Nat /\ Place(0) = 1
      /\ Place(3) = w1 * w2 /\ Place(5) = w1 * w4 /\ Place(7) = w1 * w6
  <2>1. 1 + 2 = 3 /\ 1 + 4 = 5 /\ 1 + 6 = 7 /\ 1 \in Nat /\ 2 \in Nat /\ 4 \in Nat /\ 6 \in Nat
    OBVIOUS
  <2> QED
    BY <2>1, Places
<1>3. \A s : Column(b, x, s) = Dg(s) * Place(s)
  BY DEF Column, ColumnDigit
<1> HIDE DEF Dg, w1, w2, w4, w6
<1>4. LowSigns(b, x) = Dg(6) * w6 + Dg(4) * w4 + Dg(2) * w2 + Dg(0)
  BY DEF LowSigns, Quad, Dg, w6, w4, w2
<1>5. HighSigns(b, x) = Dg(7) * w6 + Dg(5) * w4 + Dg(3) * w2 + Dg(1)
  BY DEF HighSigns, Quad, Dg, w6, w4, w2
<1>6. FixedColumn(b, x) = Dg(0) * 1 + (Dg(1) * w1 + (Dg(2) * w2 + (Dg(3) * (w1 * w2)
        + (Dg(4) * w4 + (Dg(5) * (w1 * w4) + (Dg(6) * w6 + Dg(7) * (w1 * w6)))))))
  BY <1>2, <1>3 DEF FixedColumn, w1, w2, w4, w6
<1> DEFINE a2 == Dg(2) * w2
           a4 == Dg(4) * w4
           a6 == Dg(6) * w6
           a3 == Dg(3) * w2
           a5 == Dg(5) * w4
           a7 == Dg(7) * w6
<1>7. a2 \in Int /\ a4 \in Int /\ a6 \in Int /\ a3 \in Int /\ a5 \in Int /\ a7 \in Int
  BY <1>1, <1>2
<1>8. Dg(3) * (w1 * w2) = w1 * a3 /\ Dg(5) * (w1 * w4) = w1 * a5 /\ Dg(7) * (w1 * w6) = w1 * a7
      /\ Dg(1) * w1 = w1 * Dg(1) /\ Dg(0) * 1 = Dg(0)
  BY <1>1, <1>2
<1> HIDE DEF a2, a3, a4, a5, a6, a7
<1>9. LowSigns(b, x) = a6 + a4 + a2 + Dg(0) /\ HighSigns(b, x) = a7 + a5 + a3 + Dg(1)
  BY <1>4, <1>5 DEF a2, a3, a4, a5, a6, a7
<1>10. FixedColumn(b, x) = Dg(0) + (w1 * Dg(1) + (a2 + (w1 * a3 + (a4 + (w1 * a5 + (a6 + w1 * a7))))))
  BY <1>6, <1>8 DEF a2, a4, a6
<1>11. w1 * (a7 + a5 + a3 + Dg(1)) = w1 * a7 + w1 * a5 + w1 * a3 + w1 * Dg(1)
  <2>1. \A y, z \in Int : w1 * (y + z) = w1 * y + w1 * z /\ y + z \in Int
    BY <1>2
  <2>2. a7 + a5 \in Int /\ a7 + a5 + a3 \in Int
    BY <1>7
  <2>3. w1 * (a7 + a5 + a3 + Dg(1)) = w1 * (a7 + a5 + a3) + w1 * Dg(1)
    BY <1>1, <2>1, <2>2
  <2>4. w1 * (a7 + a5 + a3) = w1 * (a7 + a5) + w1 * a3
    BY <1>7, <2>1, <2>2
  <2>5. w1 * (a7 + a5) = w1 * a7 + w1 * a5
    BY <1>7, <2>1
  <2> QED
    BY <2>3, <2>4, <2>5
<1>12. w1 * Dg(1) \in Int /\ w1 * a3 \in Int /\ w1 * a5 \in Int /\ w1 * a7 \in Int
  BY <1>1, <1>2, <1>7
<1>13. FixedColumn(b, x) = LowSigns(b, x) + w1 * HighSigns(b, x)
  BY <1>1, <1>7, <1>9, <1>10, <1>11, <1>12
<1> QED
  BY <1>1, <1>7, <1>9, <1>13 DEF w1

(* What a turn adds is what the two entries say. *)
LEMMA LowSelected ==
  ASSUME form = "fixed", NEW b \in FixedBits, NEW x \in 0..(Columns - 1)
  PROVE  /\ M4!FixedSelected(b, 0, x + 1) \in 1..(FixedOrder - 1)
         /\ Same(FixedOrder, M4!FixedSelected(b, 0, x + 1), LowSigns(b, x))
<1> DEFINE at == x + 1
           y == M4!FixedSelected(b, 0, at)
           z == FourSigns(b, at)
<1>1. at \in 0..(2 * Columns - 1) /\ Columns \in Nat /\ Columns > 0
  BY FixedSizes
<1>2. y \in 1..(FixedOrder - 1) /\ Same(FixedOrder, y, Place(0) * z)
  <2> HIDE DEF at
  <2> QED
    BY <1>1, FixedSelects
<1>3. z = LowSigns(b, x)
  <2>1. /\ at + 6 * Columns = 6 * Columns + (x + 1) /\ at + 4 * Columns = 4 * Columns + (x + 1)
        /\ at + 2 * Columns = 2 * Columns + (x + 1) /\ at = 0 * Columns + (x + 1)
    BY <1>1
  <2>2. /\ ColumnDigit(b, x, 6) = M4!Sign(b[6 * Columns + (x + 1)])
        /\ ColumnDigit(b, x, 4) = M4!Sign(b[4 * Columns + (x + 1)])
        /\ ColumnDigit(b, x, 2) = M4!Sign(b[2 * Columns + (x + 1)])
        /\ ColumnDigit(b, x, 0) = M4!Sign(b[0 * Columns + (x + 1)])
    BY ColumnDigits
  <2> HIDE DEF at
  <2> QED
    BY <2>1, <2>2 DEF FourSigns, LowSigns
<1>4. Place(0) * z = z
  <2>1. z \in Int
    BY <1>3, FixedColumnSplit
  <2> HIDE DEF z
  <2> QED
    BY <2>1, Places
<1> QED
  BY <1>2, <1>3, <1>4

LEMMA HighSelected ==
  ASSUME form = "fixed", NEW b \in FixedBits, NEW x \in 0..(Columns - 1), x # Columns - 1
  PROVE  /\ M4!FixedSelected(b, 1, x + Columns + 1) \in 1..(FixedOrder - 1)
         /\ Same(FixedOrder, M4!FixedSelected(b, 1, x + Columns + 1), Place(1) * HighSigns(b, x))
<1> DEFINE at == x + Columns + 1
           z == FourSigns(b, at)
<1>1. at \in 0..(2 * Columns - 1) /\ Columns \in Nat /\ Columns > 0
  BY FixedSizes
<1>2. /\ M4!FixedSelected(b, 1, at) \in 1..(FixedOrder - 1)
      /\ Same(FixedOrder, M4!FixedSelected(b, 1, at), Place(1) * z)
  <2> HIDE DEF at
  <2> QED
    BY <1>1, FixedSelects
<1>3. z = HighSigns(b, x)
  <2>1. /\ at + 6 * Columns = 7 * Columns + (x + 1) /\ at + 4 * Columns = 5 * Columns + (x + 1)
        /\ at + 2 * Columns = 3 * Columns + (x + 1) /\ at = 1 * Columns + (x + 1)
    BY <1>1
  <2>2. /\ ColumnDigit(b, x, 7) = M4!Sign(b[7 * Columns + (x + 1)])
        /\ ColumnDigit(b, x, 5) = M4!Sign(b[5 * Columns + (x + 1)])
        /\ ColumnDigit(b, x, 3) = M4!Sign(b[3 * Columns + (x + 1)])
        /\ ColumnDigit(b, x, 1) = M4!Sign(b[1 * Columns + (x + 1)])
    BY ColumnDigits
  <2> HIDE DEF at
  <2> QED
    BY <2>1, <2>2 DEF FourSigns, HighSigns
<1> QED
  BY <1>2, <1>3

LEMMA HighFirst ==
  ASSUME form = "fixed", NEW b \in FixedBits, NEW x \in 0..(Columns - 1), x = Columns - 1
  PROVE  /\ M4!FixedEntry(1, M4!Mask(b, x + Columns + 1)) \in 1..(FixedOrder - 1)
         /\ Same(FixedOrder, M4!FixedEntry(1, M4!Mask(b, x + Columns + 1)), Place(1) * HighSigns(b, x))
<1> DEFINE at == x + Columns + 1
           mk == M4!Mask(b, at)
<1>1. /\ at \in 0..(8 * Columns - 1) /\ at + 2 * Columns \in 0..(8 * Columns - 1)
      /\ at + 4 * Columns \in 0..(8 * Columns - 1) /\ Columns \in Nat /\ Columns > 0
  BY FixedSizes
<1>2. mk[0] = b[at] /\ mk[1] = b[at + 2 * Columns] /\ mk[2] = b[at + 4 * Columns]
  <2>1. at + 2 * 0 * Columns = at /\ at + 2 * 1 * Columns = at + 2 * Columns /\ at + 2 * 2 * Columns = at + 4 * Columns
    BY <1>1
  <2> HIDE DEF at
  <2> QED
    BY <2>1, FixedPowers DEF M4!Mask
<1>3. mk[0] \in {0, 1} /\ mk[1] \in {0, 1} /\ mk[2] \in {0, 1}
  BY <1>1, <1>2 DEF FixedBits
<1>4. Quad(1, M4!Sign(mk[2]), M4!Sign(mk[1]), M4!Sign(mk[0])) = HighSigns(b, x)
  <2>1. /\ at + 4 * Columns = 5 * Columns + (x + 1)
        /\ at + 2 * Columns = 3 * Columns + (x + 1) /\ at = 1 * Columns + (x + 1)
    BY <1>1
  <2>2. /\ ColumnDigit(b, x, 7) = 1
        /\ ColumnDigit(b, x, 5) = M4!Sign(b[5 * Columns + (x + 1)])
        /\ ColumnDigit(b, x, 3) = M4!Sign(b[3 * Columns + (x + 1)])
        /\ ColumnDigit(b, x, 1) = M4!Sign(b[1 * Columns + (x + 1)])
    BY ColumnDigits
  <2> HIDE DEF at, mk
  <2> QED
    BY <1>2, <2>1, <2>2 DEF HighSigns
<1> HIDE DEF mk
<1>5. LET v == Quad(1, M4!Sign(mk[2]), M4!Sign(mk[1]), M4!Sign(mk[0])) IN
      /\ M4!FixedEntry(1, mk) \in 1..(FixedOrder - 1)
      /\ v \in Int /\ Same(FixedOrder, M4!FixedEntry(1, mk), Place(1) * v)
  BY <1>3, FixedEntries
<1>6. M4!FixedEntry(1, mk) \in 1..(FixedOrder - 1) /\ Same(FixedOrder, M4!FixedEntry(1, mk), Place(1) * HighSigns(b, x))
  BY <1>4, <1>5
<1> QED
  BY <1>6 DEF mk

LEMMA FixedReadsNothing ==
  ASSUME NEW b \in FixedBits
  PROVE  M4!FixedRead(b, Columns) = 0
<1> DEFINE n == 8 * Columns
           F == FixedTerms(b, Columns)
           z == 0
<1>1. n \in Nat /\ Columns \in Nat /\ Columns > 0 /\ z \in 0..n
  BY FixedSizes
<1>2. \A j \in 0..(n - 1) : F[j] = 0 /\ F[j] \in Int
  <2> SUFFICES ASSUME NEW j \in 0..(n - 1) PROVE F[j] = 0 /\ F[j] \in Int
    OBVIOUS
  <2>1. ~(j % Columns >= Columns)
    <3>1. j % Columns \in 0..(Columns - 1)
      BY <1>1, Remainder
    <3> QED
      BY <1>1, <3>1
  <2> QED
    BY <2>1, FixedTermsInt
<1>3. M4!FixedRead(b, Columns) = SumOf(F, n)
  BY FixedReadSum
<1> HIDE DEF F, n
<1>4. \A j \in z..(n - 1) : F[j] = 0
  BY <1>2
<1>5. \A j \in 0..(n - 1) : F[j] \in Int
  BY <1>2
<1> HIDE DEF z
<1>6. SumOf(F, n) = SumOf(F, z)
  BY <1>1, <1>4, <1>5, SumsTail
<1>7. SumOf(F, 0) = 0
  BY <1>1, <1>5, SumsStep
<1> QED
  BY <1>3, <1>6, <1>7 DEF z

(* The odd one of a scalar and its negative. *)
OddOf(x) == IF x % 2 = 0 THEN FixedOrder - x ELSE x
FixedBitsOf(x) == M4!BitsOf(OddOf(x), 8 * M4!C)

LEMMA OddNumbers ==
  ASSUME NEW x \in 1..(FixedOrder - 1)
  PROVE  /\ OddOf(x) \in 1..(FixedOrder - 1) /\ FixedBitsOf(x) \in FixedBits
         /\ M4!FixedRead(FixedBitsOf(x), 0) = OddOf(x)
<1> DEFINE y == OddOf(x)
<1>1. y \in 1..(FixedOrder - 1) /\ y % 2 = 1
  <2>1. FixedOrder \in Nat /\ FixedOrder % 2 = 1
    BY FixedSizes
  <2>2. CASE x % 2 = 0
    <3>1. (FixedOrder - x) % 2 = 1
      BY <2>1, <2>2
    <3> QED
      BY <2>1, <2>2, <3>1 DEF OddOf
  <2>3. CASE x % 2 = 1
    BY <2>1, <2>3 DEF OddOf
  <2> QED
    BY <2>1, <2>2, <2>3
<1>2. y \in Nat /\ y < PowerOf(2, 8 * Columns)
  <2>1. PowerOf(2, 8 * Columns) \in Nat
    <3>1. 8 * Columns \in Nat
      BY FixedSizes
    <3> QED
      BY <3>1, PowersOfTwo
  <2> HIDE DEF y
  <2> QED
    BY <1>1, <2>1, FixedSizes
<1> HIDE DEF y
<1>3. /\ M4!BitsOf(y, 8 * M4!C) \in FixedBits
      /\ M4!FixedRead(M4!BitsOf(y, 8 * M4!C), 0) = y
  BY <1>1, <1>2, FixedReadsNumber
<1> QED
  BY <1>1, <1>3 DEF y, FixedBitsOf

(* scalarmult_fixed_base between its turns. *)
FixedSoFar(x, a, j) ==
  Same(FixedOrder, a * PowerOf(2, j), M4!FixedRead(FixedBitsOf(x), j))

FixedInv ==
  /\ form = "fixed" /\ k \in 0..(FixedOrder - 1) /\ acc \in 0..(FixedOrder - 1)
  /\ \/ /\ phase = "ladder" /\ k # 0 /\ i \in -1..(Columns - 1)
        /\ FixedSoFar(k, acc, i + 1) /\ (i = Columns - 1 => acc = 0)
     \/ phase = "done" /\ acc = k

LEMMA FixedInitial ==
  ASSUME M4!Init, form = "fixed"
  PROVE  FixedInv
<1>1. M4!FixedInit
  BY DEF M4!Init, M4!SlideInit, M4!InverseInit
<1>2. /\ k \in 0..(FixedOrder - 1) /\ acc = 0 /\ i = Columns - 1
      /\ phase = IF k = 0 THEN "done" ELSE "ladder"
  BY <1>1, FixedSizes, FixedPowers DEF M4!FixedInit
<1>3. 0 \in 0..(FixedOrder - 1) /\ Columns - 1 \in -1..(Columns - 1) /\ (Columns - 1) + 1 = Columns
  BY FixedSizes
<1>4. ASSUME k # 0 PROVE FixedSoFar(k, 0, Columns)
  <2>1. k \in 1..(FixedOrder - 1)
    BY <1>2, <1>4, FixedSizes
  <2>2. M4!FixedRead(FixedBitsOf(k), Columns) = 0
    BY <2>1, OddNumbers, FixedReadsNothing
  <2>3. 0 * PowerOf(2, Columns) = 0
    <3>1. PowerOf(2, Columns) \in Nat
      BY FixedSizes, PowersOfTwo
    <3> QED
      BY <3>1
  <2> QED
    BY <2>2, <2>3 DEF FixedSoFar, Same
<1> QED
  BY <1>1, <1>2, <1>3, <1>4 DEF FixedInv

(* The addition of a point other than infinity. *)
LEMMA FixedAdds ==
  ASSUME form = "fixed", NEW a \in 0..(FixedOrder - 1), NEW b \in 1..(FixedOrder - 1),
         NEW x \in Int, NEW y \in Int, Same(FixedOrder, a, x), Same(FixedOrder, b, y)
  PROVE  /\ M4!Added(a, b) \in 0..(FixedOrder - 1)
         /\ Same(FixedOrder, M4!Added(a, b), x + y)
<1> DEFINE n == FixedOrder
           c == a + b
<1>1. n \in Nat /\ n > 0
  BY FixedSizes
<1>2. M4!Added(a, b) = c % n
  BY DEF M4!Added, M4!Broken, M4!GroupOrder
<1>3. a \in Int /\ b \in Int /\ c \in Int
  BY <1>1
<1> HIDE DEF n
<1>4. Same(n, c, x + y)
  BY <1>1, <1>3, SameSum DEF n
<1> HIDE DEF c
<1>5. c % n \in 0..(n - 1) /\ Same(n, c % n, c)
  BY <1>1, <1>3, Remainder
<1> QED
  BY <1>2, <1>4, <1>5 DEF n, Same

LEMMA FixedDoubles ==
  ASSUME form = "fixed", NEW a \in 0..(FixedOrder - 1)
  PROVE  /\ M4!Double(a) \in 0..(FixedOrder - 1)
         /\ Same(FixedOrder, M4!Double(a), 2 * a)
<1> DEFINE n == FixedOrder
           c == 2 * a
<1>1. n \in Nat /\ n > 0
  BY FixedSizes
<1>2. M4!Double(a) = c % n
  BY DEF M4!Double, M4!Broken, M4!GroupOrder
<1>3. c \in Int
  BY <1>1
<1> HIDE DEF c, n
<1>4. c % n \in 0..(n - 1) /\ Same(n, c % n, c)
  BY <1>1, <1>3, Remainder
<1> QED
  BY <1>2, <1>4 DEF c, n

FixedHigh(b, a, x) ==
  IF x = M4!C - 1 THEN M4!FixedEntry(1, M4!Mask(b, x + M4!C + 1))
  ELSE M4!Added(M4!Double(a), M4!FixedSelected(b, 1, x + M4!C + 1))

(* One turn, from the double of what was there. *)
LEMMA FixedTurnSum ==
  ASSUME form = "fixed", NEW b \in FixedBits, NEW x \in 0..(Columns - 1), NEW a \in 0..(FixedOrder - 1),
         x = Columns - 1 => a = 0
  PROVE  /\ M4!Added(FixedHigh(b, a, x), M4!FixedSelected(b, 0, x + 1)) \in 0..(FixedOrder - 1)
         /\ Same(FixedOrder, M4!Added(FixedHigh(b, a, x), M4!FixedSelected(b, 0, x + 1)), 2 * a + FixedColumn(b, x))
<1> DEFINE n == FixedOrder
           high == FixedHigh(b, a, x)
           hs == Place(1) * HighSigns(b, x)
           ls == LowSigns(b, x)
           d == 2 * a
           dh == d + hs
           low == M4!FixedSelected(b, 0, x + 1)
<1>1. n \in Nat /\ n > 0 /\ Columns \in Nat /\ a \in Int /\ d \in Int
  BY FixedSizes
<1>2. hs \in Int /\ ls \in Int /\ FixedColumn(b, x) = ls + hs
  <2>1. HighSigns(b, x) \in Int /\ ls \in Int /\ FixedColumn(b, x) = ls + hs
    BY FixedColumnSplit
  <2>2. Place(1) \in Nat
    BY Places, 1 \in Nat
  <2> QED
    BY <2>1, <2>2
<1> HIDE DEF hs
<1>3. low \in 1..(n - 1) /\ Same(n, low, ls)
  BY LowSelected
<1>4. high \in 0..(n - 1) /\ Same(n, high, dh)
  <2>1. CASE x = Columns - 1
    <3>1. high = M4!FixedEntry(1, M4!Mask(b, x + Columns + 1))
      BY <2>1, FixedPowers DEF FixedHigh
    <3>2. dh = hs
      <4>1. a = 0
        BY <2>1
      <4> QED
        BY <1>2, <4>1
    <3> HIDE DEF high, dh
    <3> QED
      BY <1>1, <2>1, <3>1, <3>2, HighFirst DEF hs
  <2>2. CASE x # Columns - 1
    <3> DEFINE dd == M4!Double(a)
               s == M4!FixedSelected(b, 1, x + Columns + 1)
    <3>1. high = M4!Added(dd, s)
      BY <2>2, FixedPowers DEF FixedHigh
    <3>2. dd \in 0..(n - 1) /\ Same(n, dd, d)
      BY FixedDoubles
    <3>3. s \in 1..(n - 1) /\ Same(n, s, hs)
      BY <2>2, HighSelected DEF hs
    <3> HIDE DEF high, dd, s, d
    <3> QED
      BY <1>1, <1>2, <3>1, <3>2, <3>3, FixedAdds
  <2> QED
    BY <2>1, <2>2
<1> HIDE DEF high, low, ls
<1>5. dh \in Int
  BY <1>1, <1>2
<1> HIDE DEF dh
<1>6. M4!Added(high, low) \in 0..(n - 1) /\ Same(n, M4!Added(high, low), dh + ls)
  BY <1>2, <1>3, <1>4, <1>5, FixedAdds
<1>7. dh + ls = 2 * a + FixedColumn(b, x)
  BY <1>1, <1>2 DEF dh
<1> QED
  BY <1>6, <1>7 DEF high, low, ls

LEMMA FixedSoFarStep ==
  ASSUME NEW z \in 1..(FixedOrder - 1), NEW x \in 0..(Columns - 1), NEW a \in Int, NEW c \in Int,
         FixedSoFar(z, a, x + 1), Same(FixedOrder, c, 2 * a + FixedColumn(FixedBitsOf(z), x))
  PROVE  FixedSoFar(z, c, x)
<1> DEFINE n == FixedOrder
           b == FixedBitsOf(z)
           p == PowerOf(2, x)
           u == FixedColumn(b, x)
           r == M4!FixedRead(b, x + 1)
           v == 2 * a + u
<1>1. n \in Nat /\ n > 0 /\ p \in Nat /\ PowerOf(2, x + 1) = 2 * p
  <2>1. x \in Nat
    BY FixedSizes
  <2> QED
    BY <2>1, FixedSizes, PowersOfTwo
<1>2. u \in Int /\ r \in Int /\ M4!FixedRead(b, x) = r + p * u
  <2>1. b \in FixedBits
    BY OddNumbers
  <2> HIDE DEF b
  <2> QED
    BY <2>1, FixedReadStep
<1>3. Same(n, a * (2 * p), r)
  BY <1>1 DEF FixedSoFar
<1>4. Same(n, c, v)
  OBVIOUS
<1> HIDE DEF b, p, u, r, n
<1>5. v \in Int /\ p \in Int /\ c \in Int
  BY <1>1, <1>2
<1> HIDE DEF v
<1>6. Same(n, c * p, v * p)
  BY <1>1, <1>4, <1>5, SameTimes
<1> DEFINE y == a * (2 * p)
           w == p * u
<1>7. y \in Int /\ w \in Int
  BY <1>1, <1>2
<1>8. v * p = y + w
  BY <1>1, <1>2 DEF v
<1> HIDE DEF y, w
<1>9. Same(n, y + w, r + w)
  BY <1>1, <1>2, <1>3, <1>7, SamePlus DEF y
<1>10. Same(n, c * p, r + w)
  BY <1>6, <1>8, <1>9 DEF Same
<1>11. Same(n, c * p, M4!FixedRead(b, x))
  BY <1>2, <1>10 DEF w
<1> QED
  BY <1>11 DEF FixedSoFar, n, b, p

LEMMA OddScalarBits ==
  ASSUME k \in Int
  PROVE  M4!OddScalar = FixedBitsOf(k)
BY DEF M4!OddScalar, M4!IsEven, FixedBitsOf, OddOf

LEMMA FixedTurns ==
  ASSUME FixedInv, M4!FixedTurn
  PROVE  FixedInv'
<1> DEFINE n == FixedOrder
           b == FixedBitsOf(k)
           c == M4!Added(FixedHigh(b, acc, i), M4!FixedSelected(b, 0, i + 1))
<1>1. /\ form = "fixed" /\ phase = "ladder" /\ i >= 0 /\ form' = form /\ k' = k /\ phase' = phase /\ i' = i - 1
      /\ k \in 0..(n - 1) /\ k # 0 /\ acc \in 0..(n - 1) /\ i \in -1..(Columns - 1) /\ FixedSoFar(k, acc, i + 1)
      /\ (i = Columns - 1 => acc = 0)
  BY DEF FixedInv, M4!FixedTurn
<1>2. n \in Nat /\ n > 0 /\ Columns \in Nat /\ Columns > 0
  BY FixedSizes
<1>3. k \in 1..(n - 1) /\ i \in 0..(Columns - 1) /\ k \in Int /\ acc \in Int
  BY <1>1, <1>2
<1>4. b \in FixedBits
  BY <1>3, OddNumbers
<1>5. acc' = c
  <2>1. M4!OddScalar = b
    BY <1>3, OddScalarBits
  <2> HIDE DEF b
  <2> QED
    BY <2>1 DEF M4!FixedTurn, FixedHigh
<1>6. c \in 0..(n - 1) /\ Same(n, c, 2 * acc + FixedColumn(b, i))
  <2> HIDE DEF b
  <2> QED
    BY <1>1, <1>3, <1>4, FixedTurnSum
<1>7. c \in Int
  BY <1>2, <1>6
<1> HIDE DEF c
<1>8. FixedSoFar(k, c, i)
  BY <1>1, <1>3, <1>6, <1>7, FixedSoFarStep
<1>9. i' + 1 = i /\ i' \in -1..(Columns - 1) /\ i' # Columns - 1
  BY <1>1, <1>2, <1>3
<1>10. FixedSoFar(k, acc, i + 1)'
  <2>1. FixedSoFar(k', acc', i' + 1)
    BY <1>1, <1>5, <1>8, <1>9
  <2> QED
    BY <2>1 DEF FixedSoFar, FixedBitsOf, OddOf
<1> QED
  BY <1>1, <1>5, <1>6, <1>9, <1>10 DEF FixedInv

(* With everything read, the accumulator is the odd scalar. *)
LEMMA FixedTotal ==
  ASSUME NEW z \in 1..(FixedOrder - 1), NEW a \in 0..(FixedOrder - 1), FixedSoFar(z, a, 0)
  PROVE  a = OddOf(z)
<1> DEFINE y == OddOf(z)
           n == FixedOrder
<1>1. y \in 1..(n - 1) /\ M4!FixedRead(FixedBitsOf(z), 0) = y
  BY OddNumbers
<1>2. n \in Nat /\ n > 0
  BY FixedSizes
<1>3. a * PowerOf(2, 0) = a
  BY <1>2, PowersOfTwo
<1>4. Same(n, a, y)
  BY <1>1, <1>3 DEF FixedSoFar
<1> HIDE DEF y
<1>5. y \in 0..(n - 1)
  BY <1>1, <1>2
<1> HIDE DEF n
<1>6. a = y
  BY <1>2, <1>4, <1>5, ReducedAreEqual DEF n
<1> QED
  BY <1>6 DEF y

LEMMA FixedEnds ==
  ASSUME FixedInv, M4!FixedEnd
  PROVE  FixedInv'
<1> DEFINE n == FixedOrder
<1>1. /\ form = "fixed" /\ phase = "ladder" /\ i < 0 /\ form' = form /\ k' = k /\ phase' = "done"
      /\ acc' = (IF k % 2 = 0 THEN M4!Negated(acc) ELSE acc)
      /\ k \in 0..(n - 1) /\ k # 0 /\ acc \in 0..(n - 1) /\ i \in -1..(Columns - 1) /\ FixedSoFar(k, acc, i + 1)
  BY DEF FixedInv, M4!FixedEnd, M4!IsEven
<1>2. n \in Nat /\ n > 0
  BY FixedSizes
<1>3. k \in 1..(n - 1) /\ i + 1 = 0
  BY <1>1, <1>2, FixedSizes
<1>4. acc = OddOf(k)
  BY <1>1, <1>3, FixedTotal
<1>5. acc' = k
  <2>1. CASE k % 2 = 0
    <3>1. acc = n - k /\ acc # M4!Broken
      BY <1>2, <1>3, <1>4, <2>1 DEF OddOf, M4!Broken
    <3>2. acc' = (n - acc) % n
      BY <1>1, <2>1, <3>1 DEF M4!Negated, M4!GroupOrder
    <3>3. n - acc = k
      BY <1>2, <1>3, <3>1
    <3>4. k \in 0..(n - 1)
      BY <1>1
    <3>5. k % n = k
      BY <1>2, <3>4, Remainder
    <3> QED
      BY <3>2, <3>3, <3>5
  <2>2. CASE k % 2 # 0
    BY <1>1, <1>4, <2>2 DEF OddOf
  <2> QED
    BY <2>1, <2>2
<1> QED
  BY <1>1, <1>5 DEF FixedInv

LEMMA FixedSteps ==
  ASSUME FixedInv, M4!Next
  PROVE  FixedInv'
<1>1. form = "fixed" /\ phase \in {"ladder", "done"}
  BY DEF FixedInv
<1>2. M4!FixedTurn \/ M4!FixedEnd
  BY <1>1 DEF M4!Next, M4!InverseRound, M4!InverseEnd, M4!Start, M4!RunSlide1, M4!RunSlide2, M4!ScanTop, M4!Ladder
<1> QED
  BY <1>2, FixedTurns, FixedEnds

LEMMA FixedGoals ==
  ASSUME FixedInv
  PROVE  M4!TypeOK /\ M4!ComputesMultiple
<1> DEFINE n == FixedOrder
<1>1. n \in Nat /\ n > 0 /\ form = "fixed" /\ k \in 0..(n - 1) /\ acc \in 0..(n - 1) /\ phase \in {"ladder", "done"}
  BY FixedSizes DEF FixedInv
<1>2. M4!TypeOK
  BY <1>1 DEF M4!TypeOK, M4!GroupOrder
<1>3. ASSUME phase = "ladder"
      PROVE  (acc * M4!Pow2(i + 1)) % n = M4!FixedRead(M4!OddScalar, i + 1) % n
  <2>1. i \in -1..(Columns - 1) /\ FixedSoFar(k, acc, i + 1)
    BY <1>3 DEF FixedInv
  <2>2. i + 1 \in Nat /\ k \in Int
    BY <1>1, <2>1, FixedSizes
  <2>3. M4!Pow2(i + 1) = PowerOf(2, i + 1) /\ M4!OddScalar = FixedBitsOf(k)
    BY <2>2, M4Powers, OddScalarBits
  <2> QED
    BY <2>1, <2>3 DEF FixedSoFar, Same
<1>4. ASSUME phase = "done" PROVE acc = k % n
  <2>1. acc = k
    BY <1>4 DEF FixedInv
  <2> QED
    BY <1>1, <2>1, Remainder
<1> QED
  BY <1>1, <1>2, <1>3, <1>4 DEF M4!ComputesMultiple
-------------------------------------------------------------------------------
(* The ladders this module is about: mul_scalar, lincomb, and all that Cortex-M4
   does in their place. *)
Ladders == {"mul_scalar", "lincomb", "cortex_m4"}

CortexInv == M4Inv \/ FixedInv \/ InverseInv

LaddersInv ==
  /\ routine = "mul_scalar" => MulInv
  /\ routine = "lincomb" => LinInv
  /\ routine = "cortex_m4" => CortexInv

LEMMA CortexInitial ==
  ASSUME Init, routine = "cortex_m4"
  PROVE  CortexInv
<1>1. M4!Init
  BY DEF Init
<1>2. form \in {"fixed", "variable", "joint", "inverse"}
  BY <1>1 DEF M4!Init, M4!FixedInit, M4!SlideInit, M4!InverseInit
<1> QED
  BY <1>1, <1>2, M4Initial, FixedInitial, InverseInitial DEF CortexInv

LEMMA LaddersStart == ASSUME Init PROVE LaddersInv
BY MulInitial, LinInitial, CortexInitial DEF Init, LaddersInv

LEMMA RestingLadders ==
  ASSUME LaddersInv, UNCHANGED vars
  PROVE  LaddersInv'
<1>1. /\ routine' = routine /\ form' = form /\ k' = k /\ k2' = k2 /\ s1' = s1 /\ s2' = s2 /\ p1' = p1
      /\ p2' = p2 /\ i' = i /\ acc' = acc /\ phase' = phase /\ kOdd' = kOdd /\ e' = e
  BY DEF vars
<1>2. MulInv => MulInv'
  BY <1>1 DEF MulInv, MulTyped, MulRecoding, MulOnLadder, MadeOdd, KeepsScalar
<1>3. LinInv => LinInv'
  <2> SUFFICES ASSUME LinInv PROVE LinInv'
    OBVIOUS
  <2>1. BothSlides'
    BY <1>1, SlidesRest DEF LinInv, LinTyped, BothSlides
  <2> QED
    BY <1>1, <2>1 DEF LinInv, LinTyped, LinCombination, LinScanned, BothDone
<1>4. M4Inv => M4Inv'
  <2> SUFFICES ASSUME M4Inv PROVE M4Inv'
    OBVIOUS
  <2>1. BothSlides257'
    BY <1>1, M4Rest DEF M4Inv, M4Typed, BothSlides257
  <2> QED
    BY <1>1, <2>1 DEF M4Inv, M4Typed, Alone, M4Recoded, M4Scanned, M4Combination, SomeBit
<1>5. InverseInv => InverseInv'
  BY <1>1 DEF InverseInv, InverseBooks, Exactly, ExactAfter, M4!ShouldNeg
<1>6. FixedInv => FixedInv'
  BY <1>1 DEF FixedInv, FixedSoFar, FixedBitsOf, OddOf
<1> QED
  BY <1>1, <1>2, <1>3, <1>4, <1>5, <1>6 DEF LaddersInv, CortexInv

LEMMA CortexSteps ==
  ASSUME CortexInv, M4!Next
  PROVE  CortexInv'
<1>1. form' = form
  BY DEF M4!Next, M4!FixedTurn, M4!FixedEnd, M4!Start, M4!RunSlide1, M4!RunSlide2, M4!ScanTop,
         M4!Ladder, M4!InverseRound, M4!InverseEnd
<1>2. CASE M4Inv
  <2>1. form' \in {"variable", "joint"}
    BY <1>1, <1>2 DEF M4Inv, M4Typed
  <2> QED
    BY <1>2, <2>1, M4Steps DEF CortexInv
<1>3. CASE FixedInv
  BY <1>3, FixedSteps DEF CortexInv
<1>4. CASE InverseInv
  BY <1>4, InverseSteps DEF CortexInv
<1> QED
  BY <1>2, <1>3, <1>4 DEF CortexInv

LEMMA LaddersStep ==
  ASSUME LaddersInv, Next
  PROVE  LaddersInv'
<1>1. routine' = routine
  BY DEF Next
<1>2. ASSUME routine = "mul_scalar" PROVE MulInv'
  BY <1>2, MulSteps DEF Next, LaddersInv
<1>3. ASSUME routine = "lincomb" PROVE LinInv'
  BY <1>3, LinSteps DEF Next, LaddersInv
<1>4. ASSUME routine = "cortex_m4" PROVE CortexInv'
  BY <1>4, CortexSteps DEF Next, LaddersInv
<1> QED
  BY <1>1, <1>2, <1>3, <1>4 DEF LaddersInv

LEMMA LaddersInvHolds == Spec => []LaddersInv
<1>1. Init => LaddersInv
  BY LaddersStart
<1>2. LaddersInv /\ [Next]_vars => LaddersInv'
  BY LaddersStep, RestingLadders
<1> QED
  BY <1>1, <1>2, PTL DEF Spec

(* What the parts of Cortex-M4's invariant say. *)
LEMMA CortexGoals ==
  ASSUME CortexInv
  PROVE  /\ M4!TypeOK /\ M4!RecodingPreservesValue /\ M4!ComputesMultiple /\ M4!Inverts
<1>1. CASE M4Inv
  <2>1. form \in {"variable", "joint"}
    BY <1>1 DEF M4Inv, M4Typed
  <2> QED
    BY <1>1, <2>1, M4Goals DEF M4!Inverts
<1>2. CASE FixedInv
  <2>1. form = "fixed"
    BY <1>2 DEF FixedInv
  <2> QED
    BY <1>2, <2>1, FixedGoals DEF M4!Inverts, M4!RecodingPreservesValue
<1>3. CASE InverseInv
  <2>1. form = "inverse"
    BY <1>3 DEF InverseInv
  <2> QED
    BY <1>3, <2>1, InverseGoals DEF M4!ComputesMultiple, M4!RecodingPreservesValue
<1> QED
  BY <1>1, <1>2, <1>3 DEF CortexInv

(* For scalars of every width and every order the parameters allow: no turn of a
   recoding of mul_scalar, slide or slide_257 changes the number that its digits stand for,
   a carry that is still travelling counted where it is. *)
THEOREM RecodingsKeepTheNumber == Spec => []RecodingPreservesValue
<1>1. LaddersInv => RecodingPreservesValue
  BY MulGoals, LinGoals, CortexGoals DEF LaddersInv, RecodingPreservesValue
<1> QED
  BY <1>1, LaddersInvHolds, PTL

(* For scalars of every width, every order the parameters allow and all points and
   scalars: at every turn of mul_scalar, of lincomb and of the three ladders of
   Cortex-M4 the accumulator is the multiple for the part of the scalars that was
   read, and at the end k P, k G, or k1 P1 + k2 P2, for even and zero scalars, n - 1
   and identity points too. *)
THEOREM LaddersComputeMultiples == Spec => [](routine \in Ladders => ComputesMultiples)
<1>1. LaddersInv => (routine \in Ladders => ComputesMultiples)
  <2>1. ASSUME LaddersInv, routine = "mul_scalar" PROVE ComputesMultiples
    <3>1. Mul!LadderComputesMultiple
      BY <2>1, MulGoals DEF LaddersInv
    <3> QED
      BY <2>1, <3>1 DEF ComputesMultiples
  <2>2. ASSUME LaddersInv, routine = "lincomb" PROVE ComputesMultiples
    <3>1. Lin!ComputesCombination
      BY <2>2, LinGoals DEF LaddersInv
    <3> QED
      BY <2>2, <3>1 DEF ComputesMultiples
  <2>3. ASSUME LaddersInv, routine = "cortex_m4" PROVE ComputesMultiples
    <3>1. M4!ComputesMultiple
      BY <2>3, CortexGoals DEF LaddersInv
    <3> QED
      BY <2>3, <3>1 DEF ComputesMultiples
  <2> QED
    BY <2>1, <2>2, <2>3 DEF Ladders
<1> QED
  BY <1>1, LaddersInvHolds, PTL

(* The same ladders never read a table past its eight entries nor an array of
   digits past its end, and Cortex-M4's addition never gets a second operand at
   infinity, which it would take for a point; the numbers of mod_n_inv stay in the
   words that hold them. *)
THEOREM LaddersStayInTheirTables == Spec => [](routine \in Ladders => TypeOK)
<1>1. LaddersInv => (routine \in Ladders => TypeOK)
  <2>1. ASSUME LaddersInv, routine = "mul_scalar" PROVE TypeOK
    <3>1. Mul!TypeOK
      BY <2>1, MulGoals DEF LaddersInv
    <3> QED
      BY <2>1, <3>1 DEF TypeOK
  <2>2. ASSUME LaddersInv, routine = "lincomb" PROVE TypeOK
    <3>1. Lin!TypeOK /\ Lin!Slide1!TypeOK /\ Lin!Slide2!TypeOK
      BY <2>2, LinGoals DEF LaddersInv
    <3> QED
      BY <2>2, <3>1 DEF TypeOK
  <2>3. ASSUME LaddersInv, routine = "cortex_m4" PROVE TypeOK
    <3>1. M4!TypeOK
      BY <2>3, CortexGoals DEF LaddersInv
    <3> QED
      BY <2>3, <3>1 DEF TypeOK
  <2> QED
    BY <2>1, <2>2, <2>3 DEF Ladders
<1> QED
  BY <1>1, LaddersInvHolds, PTL

(* For every odd prime order and every input below it: between any two rounds of
   division steps x is f over the input, up to the powers of two still to be divided
   out, although the rounds see the low words of f and g only; and what mod_n_inv
   returns is the inverse. *)
THEOREM InversesAreRight == Spec => []InvertsScalars
<1>1. LaddersInv => InvertsScalars
  BY CortexGoals DEF LaddersInv, InvertsScalars
<1> QED
  BY <1>1, LaddersInvHolds, PTL

===============================================================================
