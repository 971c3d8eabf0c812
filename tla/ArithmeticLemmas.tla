---------------------------- MODULE ArithmeticLemmas ----------------------------
(***************************************************************************)
(* What the proofs about the crate's arithmetic share: division by a       *)
(* positive number, congruence, induction over the natural numbers, the    *)
(* unfolding of a function defined by recursion from 0 to n, powers,       *)
(* numbers written in digits, and the inverse of an odd number modulo a    *)
(* power of two by Newton's iteration.  Induction is stated about a set of *)
(* numbers, so that it takes no operator as a parameter.                   *)
(***************************************************************************)
EXTENDS Integers, WellFoundedInduction, TLAPS

(* A division by a positive number, as its two results are used. *)
LEMMA Division ==
  ASSUME NEW x \in Int, NEW m \in Nat, m > 0
  PROVE  /\ x \div m \in Int /\ x % m \in 0..(m - 1)
         /\ x = m * (x \div m) + (x % m)
BY SMTT(30)

LEMMA NatDivision ==
  ASSUME NEW x \in Nat, NEW m \in Nat, m > 0
  PROVE  /\ x \div m \in Nat /\ x % m \in 0..(m - 1)
         /\ x = m * (x \div m) + (x % m)
<1> DEFINE d == x \div m
           r == x % m
<1>1. d \in Int /\ r \in 0..(m - 1) /\ x = m * d + r
  BY Division
<1> HIDE DEF d, r
<1>2. d >= 0
  BY <1>1, SMTT(30)
<1> QED
  BY <1>1, <1>2 DEF d, r

(* Quotient and remainder are the only numbers of their kind. *)
LEMMA DivisionUnique ==
  ASSUME NEW x \in Int, NEW m \in Nat, m > 0,
         NEW d \in Int, NEW r \in 0..(m - 1), x = m * d + r
  PROVE  x \div m = d /\ x % m = r
<1>1. \A e \in Int, s \in 0..(m - 1) : m * e + s = m * d + r => e = d /\ s = r
  BY SMTT(30)
<1> QED
  BY <1>1, Division

(* Numbers that differ by a multiple of m have the same remainder. *)
LEMMA SameRemainder ==
  ASSUME NEW x \in Int, NEW y \in Int, NEW m \in Nat, m > 0,
         NEW k \in Int, x = y + k * m
  PROVE  x % m = y % m
<1>1. /\ y \div m \in Int /\ y % m \in 0..(m - 1)
      /\ y = m * (y \div m) + (y % m)
  BY Division
<1>2. x = m * ((y \div m) + k) + (y % m) /\ (y \div m) + k \in Int
  BY <1>1, SMTT(30)
<1> QED
  BY <1>1, <1>2, DivisionUnique

(* A quotient of natural numbers is one, and is below any bound that the
   product of bound and divisor is above. *)
LEMMA QuotientBound ==
  ASSUME NEW x \in Nat, NEW m \in Nat, m > 0, NEW bound \in Nat, x < bound * m
  PROVE  x \div m \in 0..(bound - 1)
<1> DEFINE d == x \div m
           r == x % m
<1>1. d \in Int /\ r \in 0..(m - 1) /\ x = m * d + r
  BY Division
<1> HIDE DEF d, r
<1>2. d >= 0
  <2>1. CASE d <= -1
    <3>1. m * d <= m * (-1)
      BY <1>1, <2>1, SMTT(30)
    <3> QED
      BY <1>1, <3>1
  <2> QED
    BY <2>1, <1>1
<1>3. d < bound
  <2>1. CASE d >= bound
    <3>1. m * d >= bound * m
      BY <1>1, <2>1, SMTT(30)
    <3> QED
      BY <1>1, <3>1
  <2> QED
    BY <2>1, <1>1
<1> QED
  BY <1>1, <1>2, <1>3 DEF d
-------------------------------------------------------------------------------
(* Numbers with one remainder may replace each other in sums and products. *)
Same(m, a, b) == a % m = b % m

(* Numbers a multiple of m apart have one remainder. *)
Apart(m, x, y) == \E k \in Int : x = y + k * m

LEMMA ApartSame ==
  ASSUME NEW m \in Nat, m > 0, NEW x \in Int, NEW y \in Int, Apart(m, x, y)
  PROVE  Same(m, x, y)
<1>1. PICK k \in Int : x = y + k * m
  BY DEF Apart
<1> QED
  BY <1>1, SameRemainder DEF Same

(* A factor keeps numbers of one remainder of one remainder. *)
LEMMA SameTimes ==
  ASSUME NEW m \in Nat, m > 0, NEW a \in Int, NEW b \in Int, NEW c \in Int, Same(m, a, b)
  PROVE  Same(m, a * c, b * c)
<1> DEFINE p == a \div m
           q == b \div m
           r == a % m
<1>1. p \in Int /\ q \in Int /\ r \in Int /\ a = m * p + r /\ b = m * q + r
  BY Division DEF Same
<1> HIDE DEF p, q, r
<1> DEFINE k == (p - q) * c
           x == a * c
           y == b * c
<1>2. x = y + k * m /\ k \in Int /\ x \in Int /\ y \in Int
  BY <1>1, SMTT(30)
<1> HIDE DEF k, x, y
<1>3. x % m = y % m
  BY <1>2, SameRemainder
<1> QED
  BY <1>3 DEF x, y, Same

(* So does a summand. *)
LEMMA SamePlus ==
  ASSUME NEW m \in Nat, m > 0, NEW a \in Int, NEW b \in Int, NEW c \in Int, Same(m, a, b)
  PROVE  Same(m, a + c, b + c)
<1> DEFINE p == a \div m
           q == b \div m
           r == a % m
<1>1. p \in Int /\ q \in Int /\ r \in Int /\ a = m * p + r /\ b = m * q + r
  BY Division DEF Same
<1> HIDE DEF p, q, r
<1> DEFINE k == p - q
           x == a + c
           y == b + c
<1>2. x = y + k * m /\ k \in Int /\ x \in Int /\ y \in Int
  BY <1>1, SMTT(30)
<1> HIDE DEF k, x, y
<1>3. x % m = y % m
  BY <1>2, SameRemainder
<1> QED
  BY <1>3 DEF x, y, Same

(* Reduced numbers are their own remainders. *)
LEMMA Remainder ==
  ASSUME NEW m \in Nat, m > 0
  PROVE  /\ \A a \in Int : a % m \in 0..(m - 1) /\ Same(m, a % m, a)
         /\ \A a \in 0..(m - 1) : a % m = a
<1>1. \A a \in 0..(m - 1) : a % m = a
  <2> TAKE a \in 0..(m - 1)
  <2>1. a \in Int /\ 0 \in Int /\ a = m * 0 + a
    OBVIOUS
  <2> QED
    BY <2>1, DivisionUnique
<1>2. \A a \in Int : a % m \in 0..(m - 1)
  BY Division
<1> QED
  BY <1>1, <1>2 DEF Same

(* A factor with an inverse can be cancelled. *)
LEMMA CancelFactor ==
  ASSUME NEW m \in Nat, m > 0, NEW a \in 0..(m - 1), NEW b \in 0..(m - 1),
         NEW c \in Int, NEW i \in Int, Same(m, c * i, 1), Same(m, a * c, b * c)
  PROVE  a = b
<1> DEFINE u == a * c
           v == b * c
           w == c * i
           one == 1
<1>1. /\ u \in Int /\ v \in Int /\ w \in Int /\ one \in Int
      /\ Same(m, u, v) /\ Same(m, w, one) /\ a \in Int /\ b \in Int
  OBVIOUS
<1>2. u * i = w * a /\ v * i = w * b /\ one * a = a /\ one * b = b
  BY SMTT(30)
<1> HIDE DEF u, v, w, one
<1>3. Same(m, u * i, v * i)
  BY <1>1, SameTimes
<1>4. Same(m, w * a, one * a)
  BY <1>1, SameTimes
<1>5. Same(m, w * b, one * b)
  BY <1>1, SameTimes
<1>6. Same(m, a, b)
  BY <1>2, <1>3, <1>4, <1>5 DEF Same
<1> QED
  BY <1>6, Remainder DEF Same
-------------------------------------------------------------------------------
(* A set of natural numbers that has a member has a least one. *)
LEMMA SmallestMember ==
  ASSUME NEW T, T \subseteq Nat, T # {}
  PROVE  \E x \in T : \A y \in T : x <= y
<1> DEFINE R == {p \in Nat \X Nat : p[1] < p[2]}
<1>1. R = OpToRel(<, Nat)
  BY DEF OpToRel
<1>2. IsWellFoundedOn(R, Nat)
  BY <1>1, NatLessThanWellFounded, Zenon
<1>3. \A x, y \in Nat : x < y => <<x, y>> \in R
  OBVIOUS
<1> HIDE DEF R
<1>4. \E x \in T : \A y \in T : ~ (<<y, x>> \in R)
  BY <1>2, WFMin
<1>5. PICK x \in T : \A y \in T : ~ (<<y, x>> \in R)
  BY <1>4
<1>6. \A y \in T : ~ (y < x)
  BY <1>3, <1>5, Zenon
<1>7. QED
  BY <1>6

(* A set with 0 in it, and with every number its successor, has them all. *)
LEMMA Induction ==
  ASSUME NEW S, 0 \in S, \A n \in Nat : n \in S => n + 1 \in S
  PROVE  Nat \subseteq S
<1> DEFINE T == Nat \ S
<1>1. SUFFICES ASSUME T # {} PROVE FALSE  OBVIOUS
<1>2. PICK x \in T : \A y \in T : x <= y  BY <1>1, SmallestMember
<1>3. x # 0 /\ x - 1 \in Nat /\ x - 1 \notin T  BY <1>2
<1>4. QED  BY <1>2, <1>3

(* The same from 0 to n. *)
LEMMA UpTo ==
  ASSUME NEW n \in Nat, NEW S, 0 \in S, \A i \in 1..n : i - 1 \in S => i \in S
  PROVE  0..n \subseteq S
<1> DEFINE T == {i \in Nat : i <= n => i \in S}
<1>1. 0 \in T /\ \A i \in Nat : i \in T => i + 1 \in T
  <2>1. ASSUME NEW i \in Nat, i \in T, i + 1 <= n PROVE i + 1 \in S
    <3>1. i + 1 \in 1..n /\ (i + 1) - 1 = i /\ i \in S
      BY <2>1
    <3> QED
      BY <3>1
  <2> QED
    BY <2>1
<1> HIDE DEF T
<1>2. Nat \subseteq T
  BY <1>1, Induction
<1> QED
  BY <1>2 DEF T

(* The function on 0..n that starts at a and takes step i with F[i]: what a
   definition g[i \in 0..n] == IF i = 0 THEN a ELSE ... g[i - 1] ... denotes. *)
Unfolded(n, V, a, F) ==
  CHOOSE g \in [0..n -> V] : g[0] = a /\ \A i \in 1..n : g[i] = F[i][g[i - 1]]

(* There is one, so a recursive definition can be unfolded. *)
LEMMA Unfolding ==
  ASSUME NEW n \in Nat, NEW V, NEW a \in V, NEW F \in [1..n -> [V -> V]]
  PROVE  /\ Unfolded(n, V, a, F) \in [0..n -> V]
         /\ Unfolded(n, V, a, F)[0] = a
         /\ \A i \in 1..n :
              Unfolded(n, V, a, F)[i] = F[i][Unfolded(n, V, a, F)[i - 1]]
<1>1. \E g \in [0..n -> V] : g[0] = a /\ \A i \in 1..n : g[i] = F[i][g[i - 1]]
  <2> DEFINE Upto(g, m) == g[0] = a /\ \A i \in 1..m : g[i] = F[i][g[i - 1]]
             S == {m \in Nat : m <= n => \E g \in [0..n -> V] : Upto(g, m)}
  <2>1. 0 \in S
    <3>1. Upto([i \in 0..n |-> a], 0) /\ [i \in 0..n |-> a] \in [0..n -> V]
      OBVIOUS
    <3> QED
      BY <3>1
  <2>2. ASSUME NEW m \in Nat, m \in S PROVE m + 1 \in S
    <3>1. SUFFICES ASSUME m + 1 <= n PROVE \E g \in [0..n -> V] : Upto(g, m + 1)
      OBVIOUS
    <3>2. PICK g \in [0..n -> V] : Upto(g, m)
      BY <2>2, <3>1
    <3>3. g[m] \in V /\ F[m + 1][g[m]] \in V
      BY <3>1
    <3> DEFINE h == [g EXCEPT ![m + 1] = F[m + 1][g[m]]]
    <3>4. h \in [0..n -> V]
      BY <3>3
    <3>5. h[m + 1] = F[m + 1][g[m]] /\ \A i \in 0..m : h[i] = g[i]
      BY <3>1
    <3>6. Upto(h, m + 1)
      <4> HIDE DEF h
      <4>1. h[0] = a
        BY <3>2, <3>5
      <4>2. ASSUME NEW i \in 1..(m + 1) PROVE h[i] = F[i][h[i - 1]]
        <5>1. h[i - 1] = g[i - 1]
          BY <3>5
        <5>2. CASE i = m + 1
          BY <5>1, <5>2, <3>5
        <5>3. CASE i # m + 1
          BY <5>1, <5>3, <3>2, <3>5
        <5> QED
          BY <5>2, <5>3
      <4> QED
        BY <4>1, <4>2
    <3> QED
      BY <3>4, <3>6
  <2> HIDE DEF S
  <2>3. Nat \subseteq S
    BY <2>1, <2>2, Induction
  <2>4. PICK g \in [0..n -> V] : Upto(g, n)
    BY <2>3 DEF S
  <2> QED
    BY <2>4
<1> QED
  BY <1>1 DEF Unfolded

(* The same for a definition that recurs on half its argument:
   g[i \in 0..n] == IF i = 0 THEN a ELSE ... g[i \div 2] ... *)
HalvesOf(n, V, a, F) ==
  CHOOSE g \in [0..n -> V] : g[0] = a /\ \A i \in 1..n : g[i] = F[i][g[i \div 2]]

LEMMA Halving ==
  ASSUME NEW n \in Nat, NEW V, NEW a \in V, NEW F \in [1..n -> [V -> V]]
  PROVE  /\ HalvesOf(n, V, a, F) \in [0..n -> V]
         /\ HalvesOf(n, V, a, F)[0] = a
         /\ \A i \in 1..n :
              HalvesOf(n, V, a, F)[i] = F[i][HalvesOf(n, V, a, F)[i \div 2]]
<1> DEFINE Table == [0..n -> V]
           start == [i \in 0..n |-> a]
           Fill == [m \in 1..n |-> [h \in Table |-> [h EXCEPT ![m] = F[m][h[m \div 2]]]]]
           u == Unfolded(n, Table, start, Fill)
           Full(h, m) == h[0] = a /\ \A i \in 1..m : h[i] = F[i][h[i \div 2]]
<1>1. \A i \in 1..n : i \div 2 \in 0..n /\ i \div 2 < i
  OBVIOUS
<1>2. start \in Table
  OBVIOUS
<1>3. ASSUME NEW m \in 1..n, NEW h \in Table PROVE F[m][h[m \div 2]] \in V
  <2>1. m \div 2 \in 0..n
    BY <1>1
  <2>2. h[m \div 2] \in V
    BY <2>1
  <2> QED
    BY <2>2
<1>4. Fill \in [1..n -> [Table -> Table]]
  <2>1. ASSUME NEW m \in 1..n, NEW h \in Table PROVE [h EXCEPT ![m] = F[m][h[m \div 2]]] \in Table
    <3>1. F[m][h[m \div 2]] \in V
      BY <1>3
    <3> QED
      BY <3>1
  <2> HIDE DEF Table
  <2> QED
    BY <2>1
<1>5. /\ u \in [0..n -> Table] /\ u[0] = start
      /\ \A m \in 1..n : u[m] = Fill[m][u[m - 1]]
  <2> HIDE DEF Table, start, Fill
  <2> QED
    BY <1>2, <1>4, Unfolding
<1> HIDE DEF u
<1> DEFINE S == {m \in 0..n : Full(u[m], m)}
<1>6. 0 \in S
  BY <1>5
<1>7. ASSUME NEW m \in 1..n, m - 1 \in S PROVE m \in S
  <2> DEFINE g == u[m - 1]
             h == u[m]
  <2>1. g \in Table /\ h \in Table /\ Full(g, m - 1)
    BY <1>5, <1>7
  <2>2. h = [g EXCEPT ![m] = F[m][g[m \div 2]]]
    <3>1. h = Fill[m][g]
      BY <1>5
    <3> HIDE DEF g, h
    <3> QED
      BY <2>1, <3>1
  <2> HIDE DEF g, h
  <2>3. h[m] = F[m][g[m \div 2]] /\ \A i \in 0..(m - 1) : h[i] = g[i]
    BY <2>1, <2>2
  <2>4. h[0] = a
    BY <2>1, <2>3
  <2>5. ASSUME NEW i \in 1..m PROVE h[i] = F[i][h[i \div 2]]
    <3>1. i \div 2 \in 0..(m - 1)
      OBVIOUS
    <3>2. h[i \div 2] = g[i \div 2]
      BY <2>3, <3>1
    <3>3. CASE i = m
      BY <2>3, <3>2, <3>3
    <3>4. CASE i # m
      <4>1. i \in 1..(m - 1) /\ i \in 0..(m - 1)
        BY <3>4
      <4> QED
        BY <2>1, <2>3, <3>2, <4>1
    <3> QED
      BY <3>3, <3>4
  <2> QED
    BY <2>4, <2>5 DEF h
<1>8. n \in S
  <2> HIDE DEF S
  <2>1. 0..n \subseteq S
    BY <1>6, <1>7, UpTo
  <2> QED
    BY <2>1
<1>9. u[n] \in Table /\ Full(u[n], n)
  BY <1>5, <1>8
<1> QED
  BY <1>9 DEF HalvesOf

(* A property of what such a definition denotes: it holds of every value when it
   holds of the first and each step keeps it. *)
LEMMA HalvingKeeps ==
  ASSUME NEW n \in Nat, NEW S, 0 \in S, \A i \in 1..n : i \div 2 \in S => i \in S
  PROVE  0..n \subseteq S
<1> DEFINE T == {m \in 0..n : 0..m \subseteq S}
<1>1. 0 \in T
  OBVIOUS
<1>2. ASSUME NEW m \in 1..n, m - 1 \in T PROVE m \in T
  <2>1. m \div 2 \in 0..(m - 1) /\ 0..(m - 1) \subseteq S
    BY <1>2
  <2>2. m \in S
    BY <2>1
  <2>3. \A i \in 0..m : i = m \/ i \in 0..(m - 1)
    OBVIOUS
  <2> QED
    BY <2>1, <2>2, <2>3
<1> HIDE DEF T
<1>3. 0..n \subseteq T
  BY <1>1, <1>2, UpTo
<1>4. n \in T
  BY <1>3
<1> QED
  BY <1>4 DEF T
-------------------------------------------------------------------------------
(* The powers of a number, as the modules define them. *)
PowersOf(b, n) == CHOOSE p : p = [j \in 0..n |-> IF j = 0 THEN 1 ELSE b * p[j - 1]]

PowerOf(b, n) == LET p[j \in 0..n] == IF j = 0 THEN 1 ELSE b * p[j - 1] IN p[n]

LEMMA PowersUnfolded ==
  ASSUME NEW b \in Nat \ {0}, NEW n \in Nat
  PROVE  /\ PowersOf(b, n)[0] = 1
         /\ \A j \in 1..n : PowersOf(b, n)[j] = b * PowersOf(b, n)[j - 1]
         /\ \A j \in 0..n : PowersOf(b, n)[j] \in Nat \ {0}
<1> DEFINE V == Nat \ {0}
           Step(v) == b * v
           F == [j \in 1..n |-> [v \in V |-> Step(v)]]
           body(g) == [j \in 0..n |-> IF j = 0 THEN 1 ELSE Step(g[j - 1])]
           s == CHOOSE g : g = body(g)
           h == Unfolded(n, V, 1, F)
<1>1. PowersOf(b, n) = s
  BY DEF PowersOf
<1>2. 1 \in V /\ \A v \in V : Step(v) \in V
  <2> SUFFICES ASSUME NEW v \in V PROVE Step(v) \in V
    OBVIOUS
  <2>1. b * v \in Nat /\ b * v > 0
    BY SMTT(30)
  <2> QED
    BY <2>1
<1> HIDE DEF Step, V
<1>3. F \in [1..n -> [V -> V]]
  BY <1>2
<1>4. h \in [0..n -> V] /\ h[0] = 1 /\ \A j \in 1..n : h[j] = F[j][h[j - 1]]
  <2> HIDE DEF F
  <2> QED
    BY <1>2, <1>3, Unfolding
<1> HIDE DEF h
<1>5. \A j \in 1..n : h[j] = Step(h[j - 1])
  <2> TAKE j \in 1..n
  <2>1. h[j - 1] \in V /\ h[j] = F[j][h[j - 1]]
    BY <1>4
  <2>2. F[j] = [v \in V |-> Step(v)]
    OBVIOUS
  <2> QED
    BY <2>1, <2>2
<1>6. h = body(h)
  BY <1>4, <1>5
<1>7. s = body(s)
  <2> HIDE DEF body
  <2> QED
    BY <1>6
<1> HIDE DEF s
<1>8. s[0] = 1 /\ \A j \in 1..n : s[j] = Step(s[j - 1])
  <2>1. \A j \in 0..n : s[j] = IF j = 0 THEN 1 ELSE Step(s[j - 1])
    BY <1>7, Zenon
  <2> QED
    BY <2>1
<1> DEFINE S == {j \in 0..n : s[j] \in V}
<1>9. 0 \in S /\ \A j \in 1..n : j - 1 \in S => j \in S
  BY <1>2, <1>8
<1>10. 0..n \subseteq S
  <2> HIDE DEF S
  <2> QED
    BY <1>9, UpTo
<1> QED
  BY <1>1, <1>8, <1>10 DEF Step, V

(* A power is the one before it, times the base. *)
LEMMA PowerUnfolded ==
  ASSUME NEW b \in Nat \ {0}, NEW n \in Nat
  PROVE  /\ PowerOf(b, 0) = 1
         /\ PowerOf(b, n) \in Nat \ {0}
         /\ PowerOf(b, n + 1) = b * PowerOf(b, n)
<1> DEFINE T(m) == PowersOf(b, m)
           S == {j \in 0..n : T(n)[j] = T(n + 1)[j]}
<1>1. /\ T(n)[0] = 1
      /\ \A j \in 1..n : T(n)[j] = b * T(n)[j - 1]
      /\ \A j \in 0..n : T(n)[j] \in Nat \ {0}
  BY PowersUnfolded
<1>2. /\ T(n + 1)[0] = 1
      /\ \A j \in 1..(n + 1) : T(n + 1)[j] = b * T(n + 1)[j - 1]
  <2>1. n + 1 \in Nat
    OBVIOUS
  <2> QED
    BY <2>1, PowersUnfolded
<1>3. T(0)[0] = 1
  BY PowersUnfolded
<1> HIDE DEF T
<1>4. 0 \in S /\ \A j \in 1..n : j - 1 \in S => j \in S
  <2>1. ASSUME NEW j \in 1..n, j - 1 \in S PROVE j \in S
    <3>1. T(n)[j] = b * T(n)[j - 1] /\ T(n)[j - 1] = T(n + 1)[j - 1]
      BY <1>1, <2>1
    <3>2. j \in 1..(n + 1) /\ j \in 0..n
      OBVIOUS
    <3>3. T(n + 1)[j] = b * T(n + 1)[j - 1]
      BY <1>2, <3>2
    <3> QED
      BY <3>1, <3>2, <3>3
  <2> QED
    BY <1>1, <1>2, <2>1
<1>5. 0..n \subseteq S
  <2> HIDE DEF S
  <2> QED
    BY <1>4, UpTo
<1>6. T(n + 1)[n + 1] = b * T(n)[n]
  <2>1. n \in S /\ n + 1 \in 1..(n + 1) /\ (n + 1) - 1 = n
    BY <1>5
  <2>2. T(n + 1)[n + 1] = b * T(n + 1)[(n + 1) - 1]
    BY <1>2, <2>1
  <2> QED
    BY <2>1, <2>2
<1>7. \A m : PowerOf(b, m) = T(m)[m]
  BY DEF PowerOf, PowersOf, T
<1> QED
  BY <1>1, <1>3, <1>6, <1>7
-------------------------------------------------------------------------------
(* The number that the digits d[m], d[m + 1], ..., d[n - 1] stand for in base W,
   as the modules define it. *)
Horner(n, W, d) ==
  LET v[m \in 0..n] == IF m = n THEN 0 ELSE d[m] + W * v[m + 1] IN v

LEMMA HornerUnfolded ==
  ASSUME NEW n \in Nat, NEW W \in Int, NEW d, \A m \in 0..(n - 1) : d[m] \in Int
  PROVE  /\ Horner(n, W, d)[n] = 0
         /\ \A m \in 0..(n - 1) : Horner(n, W, d)[m] = d[m] + W * Horner(n, W, d)[m + 1]
         /\ \A m \in 0..n : Horner(n, W, d)[m] \in Int
<1> DEFINE Step(m, v) == d[m] + W * v
           F == [j \in 1..n |-> [v \in Int |-> Step(n - j, v)]]
           body(g) == [m \in 0..n |-> IF m = n THEN 0 ELSE Step(m, g[m + 1])]
           s == CHOOSE g : g = body(g)
           u == Unfolded(n, Int, 0, F)
           h == [m \in 0..n |-> u[n - m]]
<1>1. Horner(n, W, d) = s
  BY DEF Horner
<1>2. \A m \in 0..(n - 1), v \in Int : Step(m, v) \in Int
  <2> SUFFICES ASSUME NEW m \in 0..(n - 1), NEW v \in Int PROVE Step(m, v) \in Int
    OBVIOUS
  <2>1. W * v \in Int /\ d[m] \in Int
    OBVIOUS
  <2> QED
    BY <2>1
<1> HIDE DEF Step
<1>3. F \in [1..n -> [Int -> Int]]
  <2>1. \A j \in 1..n : n - j \in 0..(n - 1)
    OBVIOUS
  <2> QED
    BY <1>2, <2>1
<1>4. u \in [0..n -> Int] /\ u[0] = 0 /\ \A j \in 1..n : u[j] = F[j][u[j - 1]]
  <2> DEFINE V == Int
             a == 0
  <2>1. a \in V /\ F \in [1..n -> [V -> V]]
    BY <1>3
  <2> HIDE DEF F, V, a
  <2>2. /\ Unfolded(n, V, a, F) \in [0..n -> V] /\ Unfolded(n, V, a, F)[0] = a
        /\ \A j \in 1..n : Unfolded(n, V, a, F)[j] = F[j][Unfolded(n, V, a, F)[j - 1]]
    BY <2>1, Unfolding
  <2> QED
    BY <2>2 DEF V, a
<1> HIDE DEF u
<1>5. \A j \in 1..n : u[j] = Step(n - j, u[j - 1])
  <2> TAKE j \in 1..n
  <2>1. u[j - 1] \in Int /\ u[j] = F[j][u[j - 1]]
    BY <1>4
  <2>2. F[j] = [v \in Int |-> Step(n - j, v)]
    OBVIOUS
  <2> QED
    BY <2>1, <2>2
<1>6. h = body(h)
  <2>1. \A m \in 0..n : h[m] = IF m = n THEN 0 ELSE Step(m, h[m + 1])
    <3> SUFFICES ASSUME NEW m \in 0..n PROVE h[m] = IF m = n THEN 0 ELSE Step(m, h[m + 1])
      OBVIOUS
    <3>1. CASE m = n
      BY <1>4, <3>1
    <3>2. CASE m # n
      <4>1. n - m \in 1..n /\ m + 1 \in 0..n /\ n - (n - m) = m /\ (n - m) - 1 = n - (m + 1)
        BY <3>2
      <4> QED
        BY <1>5, <3>2, <4>1
    <3> QED
      BY <3>1, <3>2
  <2> HIDE DEF h
  <2> DEFINE bh == body(h)
  <2>2. \A m \in 0..n : bh[m] = IF m = n THEN 0 ELSE Step(m, h[m + 1])
    OBVIOUS
  <2> QED
    BY <2>1 DEF h
<1> HIDE DEF h
<1>7. s = body(s)
  <2> HIDE DEF body
  <2> QED
    BY <1>6
<1> HIDE DEF s
<1>8. s[n] = 0 /\ \A m \in 0..(n - 1) : s[m] = Step(m, s[m + 1])
  <2>1. \A m \in 0..n : s[m] = IF m = n THEN 0 ELSE Step(m, s[m + 1])
    BY <1>7, Zenon
  <2> QED
    BY <2>1
<1> DEFINE S == {j \in 0..n : s[n - j] \in Int}
<1>9. 0 \in S /\ \A j \in 1..n : j - 1 \in S => j \in S
  <2>1. ASSUME NEW j \in 1..n, j - 1 \in S PROVE j \in S
    <3>1. n - j \in 0..(n - 1) /\ (n - j) + 1 = n - (j - 1)
      OBVIOUS
    <3>2. s[n - j] = Step(n - j, s[n - (j - 1)]) /\ s[n - (j - 1)] \in Int
      BY <1>8, <2>1, <3>1
    <3> QED
      BY <1>2, <3>1, <3>2
  <2> QED
    BY <1>8, <2>1
<1>10. 0..n \subseteq S
  <2> HIDE DEF S
  <2> QED
    BY <1>9, UpTo
<1>11. \A m \in 0..n : s[m] \in Int
  <2> TAKE m \in 0..n
  <2>1. n - m \in S /\ n - (n - m) = m
    BY <1>10
  <2> QED
    BY <2>1
<1> QED
  BY <1>1, <1>8, <1>11 DEF Step

(* Two ways to write a number that differ in one digit at most. *)
DifferAt(n, d, e, j) ==
  /\ \A m \in 0..(n - 1) : d[m] \in Int /\ e[m] \in Int
  /\ \A m \in 0..(n - 1) : m # j => e[m] = d[m]

(* Values above a digit do not depend on it; those below change by what it
   counts for. *)
LEMMA HornerChange ==
  ASSUME NEW n \in Nat, NEW W \in Nat \ {0}, NEW d, NEW e, NEW j \in 0..(n - 1),
         DifferAt(n, d, e, j)
  PROVE  /\ \A m \in (j + 1)..n : Horner(n, W, e)[m] = Horner(n, W, d)[m]
         /\ Horner(n, W, e)[0] = Horner(n, W, d)[0] + (e[j] - d[j]) * PowerOf(W, j)
<1> DEFINE g == Horner(n, W, d)
           h == Horner(n, W, e)
           c == e[j] - d[j]
           Q(t) == PowerOf(W, t)
           S == {t \in 0..(n - (j + 1)) : h[n - t] = g[n - t]}
           U == {t \in 0..j : h[j - t] = g[j - t] + c * Q(t)}
<1>0. /\ W \in Int /\ n \in Nat /\ j \in Nat /\ j < n
      /\ \A m \in 0..(n - 1) : d[m] \in Int /\ e[m] \in Int
      /\ \A m \in 0..(n - 1) : m # j => e[m] = d[m]
  BY DEF DifferAt
<1>1. /\ g[n] = 0 /\ h[n] = 0
      /\ \A m \in 0..(n - 1) : g[m] = d[m] + W * g[m + 1] /\ h[m] = e[m] + W * h[m + 1]
      /\ \A m \in 0..n : g[m] \in Int /\ h[m] \in Int
  BY <1>0, HornerUnfolded
<1>2. \A t \in Nat : Q(t) \in Nat /\ Q(t + 1) = W * Q(t)
  BY PowerUnfolded
<1>3. Q(0) = 1
  BY PowerUnfolded, <1>0
<1>4. c \in Int /\ e[j] = d[j] + c
  BY <1>0
<1> HIDE DEF g, h, c, Q
<1>5. 0..(n - (j + 1)) \subseteq S
  <2>1. 0 \in S
    BY <1>0, <1>1
  <2>2. ASSUME NEW t \in 1..(n - (j + 1)), t - 1 \in S PROVE t \in S
    <3>1. n - t \in 0..(n - 1) /\ n - t # j /\ (n - t) + 1 = n - (t - 1)
      BY <1>0
    <3>2. e[n - t] = d[n - t] /\ h[n - (t - 1)] = g[n - (t - 1)]
      BY <1>0, <2>2, <3>1
    <3>3. h[n - t] = g[n - t]
      BY <1>1, <3>1, <3>2
    <3> QED
      BY <3>3
  <2>3. n - (j + 1) \in Nat
    BY <1>0
  <2> HIDE DEF S
  <2> QED
    BY <2>1, <2>2, <2>3, UpTo
<1>6. \A m \in (j + 1)..n : h[m] = g[m]
  <2> SUFFICES ASSUME NEW m \in (j + 1)..n PROVE h[m] = g[m]
    OBVIOUS
  <2>1. n - m \in 0..(n - (j + 1)) /\ n - (n - m) = m
    BY <1>0
  <2>2. n - m \in S
    BY <1>5, <2>1
  <2> QED
    BY <2>1, <2>2
<1>7. 0..j \subseteq U
  <2>1. 0 \in U
    <3>1. h[j] = e[j] + W * h[j + 1] /\ g[j] = d[j] + W * g[j + 1] /\ h[j + 1] = g[j + 1]
      BY <1>0, <1>1, <1>6
    <3>2. g[j] \in Int /\ g[j + 1] \in Int /\ W * g[j + 1] \in Int /\ d[j] \in Int
      BY <1>0, <1>1
    <3>3. h[j] = g[j] + c * Q(0)
      BY <1>3, <1>4, <3>1, <3>2
    <3> QED
      BY <1>0, <3>3
  <2>2. ASSUME NEW t \in 1..j, t - 1 \in U PROVE t \in U
    <3> DEFINE m == j - t
               y == g[m + 1]
               z == Q(t - 1)
    <3>1. m \in 0..(n - 1) /\ m # j /\ m + 1 = j - (t - 1) /\ t - 1 \in Nat /\ (t - 1) + 1 = t
          /\ m + 1 \in 0..n
      BY <1>0
    <3>2. h[m + 1] = y + c * z
      BY <2>2, <3>1
    <3>3. Q(t) = W * z /\ z \in Nat /\ y \in Int
      BY <1>1, <1>2, <3>1
    <3>4. h[m] = d[m] + W * h[m + 1] /\ g[m] = d[m] + W * y /\ d[m] \in Int
      BY <1>0, <1>1, <3>1
    <3> HIDE DEF m, y, z
    <3>5. W * (y + c * z) = W * y + c * (W * z) /\ W * y \in Int /\ c * (W * z) \in Int
      BY <1>0, <1>4, <3>3, SMTT(30)
    <3>6. h[m] = g[m] + c * Q(t)
      BY <3>2, <3>3, <3>4, <3>5
    <3> QED
      BY <3>6 DEF m
  <2> HIDE DEF U
  <2> QED
    BY <1>0, <2>1, <2>2, UpTo
<1>8. h[0] = g[0] + c * Q(j)
  <2>1. j \in U /\ j - j = 0
    BY <1>0, <1>7
  <2> QED
    BY <2>1
<1> QED
  BY <1>6, <1>8 DEF g, h, c, Q

(* Zeros above a digit stand for nothing. *)
LEMMA HornerOfZeros ==
  ASSUME NEW n \in Nat, NEW W \in Int, NEW d, \A m \in 0..(n - 1) : d[m] \in Int,
         NEW j \in 0..n, \A m \in j..(n - 1) : d[m] = 0
  PROVE  Horner(n, W, d)[j] = 0
<1> DEFINE g == Horner(n, W, d)
           S == {t \in 0..(n - j) : g[n - t] = 0}
<1>1. /\ g[n] = 0
      /\ \A m \in 0..(n - 1) : g[m] = d[m] + W * g[m + 1]
  BY HornerUnfolded
<1> HIDE DEF g
<1>2. 0..(n - j) \subseteq S
  <2>1. 0 \in S
    BY <1>1
  <2>2. ASSUME NEW t \in 1..(n - j), t - 1 \in S PROVE t \in S
    <3>1. n - t \in j..(n - 1) /\ n - t \in 0..(n - 1) /\ (n - t) + 1 = n - (t - 1)
      OBVIOUS
    <3>2. g[n - (t - 1)] = 0 /\ d[n - t] = 0 /\ g[n - t] = d[n - t] + W * g[n - (t - 1)]
      BY <1>1, <2>2, <3>1
    <3> QED
      BY <3>2
  <2>3. n - j \in Nat
    OBVIOUS
  <2> HIDE DEF S
  <2> QED
    BY <2>1, <2>2, <2>3, UpTo
<1>3. n - j \in S /\ n - (n - j) = j
  BY <1>2
<1> QED
  BY <1>3 DEF g

(* The remainders that dividing a number by W again and again leaves are its
   digits: from m up they stand for the m-th quotient. *)
LEMMA HornerOfNumber ==
  ASSUME NEW n \in Nat, NEW W \in Nat \ {0}, NEW x \in Nat, x < PowerOf(W, n), NEW d,
         \A m \in 0..(n - 1) : d[m] = (x \div PowerOf(W, m)) % W
  PROVE  /\ \A m \in 0..(n - 1) : d[m] \in 0..(W - 1)
         /\ Horner(n, W, d)[0] = x
<1> DEFINE Q(t) == PowerOf(W, t)
           z(t) == x \div Q(t)
           S == {t \in 0..n : Horner(n, W, d)[n - t] = z(n - t)}
<1>1. \A t \in Nat : Q(t) \in Nat /\ Q(t) > 0 /\ Q(t + 1) = W * Q(t)
  <2> SUFFICES ASSUME NEW t \in Nat PROVE Q(t) \in Nat /\ Q(t) > 0 /\ Q(t + 1) = W * Q(t)
    OBVIOUS
  <2>1. Q(t) \in Nat \ {0} /\ Q(t + 1) = W * Q(t)
    BY PowerUnfolded
  <2> HIDE DEF Q
  <2> QED
    BY <2>1
<1>2. Q(0) = 1 /\ x < Q(n) /\ W \in Nat /\ W > 0 /\ W \in Int
  BY PowerUnfolded
<1>3. \A m \in 0..(n - 1) : d[m] = z(m) % W
  OBVIOUS
<1> HIDE DEF Q
<1>4. \A t \in Nat : z(t) \in Nat
  BY <1>1, NatDivision
<1>5. \A t \in Nat : z(t + 1) = z(t) \div W
  <2> SUFFICES ASSUME NEW t \in Nat PROVE z(t + 1) = z(t) \div W
    OBVIOUS
  <2> DEFINE q == Q(t)
             y == x \div q
             r == x % q
             v == y \div W
             s == y % W
             p == Q(t + 1)
  <2>1. q \in Nat /\ q > 0 /\ p = W * q /\ p \in Nat /\ p > 0
    BY <1>1
  <2>2. y \in Nat /\ r \in 0..(q - 1) /\ x = q * y + r
    <3> HIDE DEF q
    <3> QED
      BY <2>1, NatDivision
  <2>3. v \in Nat /\ s \in 0..(W - 1) /\ y = W * v + s
    <3> HIDE DEF y
    <3> QED
      BY <1>2, <2>2, NatDivision
  <2> HIDE DEF q, y, r, v, s, p
  <2>4. x = p * v + (q * s + r) /\ q * s + r \in Int
    <3>1. q * (W * v + s) = (W * q) * v + q * s /\ q * s \in Int /\ (W * q) * v \in Int
      BY <1>2, <2>1, <2>3, SMTT(30)
    <3> QED
      BY <2>1, <2>2, <2>3, <3>1
  <2>5. q * s + r \in 0..(p - 1)
    <3>1. q * s >= 0 /\ q * s <= q * (W - 1) /\ q * (W - 1) = W * q - q
          /\ q * s \in Int /\ W * q \in Int
      BY <1>2, <2>1, <2>3, SMTT(30)
    <3> QED
      BY <2>1, <2>2, <3>1
  <2>6. x \div p = v
    BY <2>1, <2>3, <2>4, <2>5, DivisionUnique
  <2> QED
    BY <2>6 DEF p, v, y, q
<1>6. z(0) = x /\ z(n) = 0
  <2>1. x = 1 * x + 0 /\ 0 \in 0..(1 - 1) /\ x = Q(n) * 0 + x /\ x \in 0..(Q(n) - 1)
        /\ 1 \in Nat /\ 1 > 0 /\ 0 \in Int /\ x \in Int /\ Q(n) \in Nat /\ Q(n) > 0
    BY <1>1, <1>2
  <2>2. x \div 1 = x
    BY <2>1, DivisionUnique
  <2>3. x \div Q(n) = 0
    BY <2>1, DivisionUnique
  <2> QED
    BY <1>2, <2>2, <2>3
<1> HIDE DEF z
<1>7. \A t \in Nat : /\ z(t) % W \in 0..(W - 1)
                     /\ z(t) = W * z(t + 1) + (z(t) % W)
  BY <1>2, <1>4, <1>5, NatDivision
<1>8. \A m \in 0..(n - 1) : d[m] \in 0..(W - 1) /\ d[m] \in Int /\ z(m) = d[m] + W * z(m + 1)
  <2> SUFFICES ASSUME NEW m \in 0..(n - 1)
               PROVE  d[m] \in 0..(W - 1) /\ d[m] \in Int /\ z(m) = d[m] + W * z(m + 1)
    OBVIOUS
  <2> DEFINE b == z(m) % W
             w == W * z(m + 1)
  <2>1. m \in Nat /\ m + 1 \in Nat /\ d[m] = b
    BY <1>3
  <2>2. b \in 0..(W - 1) /\ z(m) = w + b
    BY <1>7, <2>1
  <2>3. w \in Int
    BY <1>2, <1>4, <2>1
  <2> HIDE DEF b, w
  <2>4. d[m] \in 0..(W - 1) /\ d[m] \in Int /\ z(m) = d[m] + w
    BY <1>2, <2>1, <2>2, <2>3
  <2> QED
    BY <2>4 DEF w
<1> DEFINE g == Horner(n, W, d)
<1>9. g[n] = 0 /\ \A m \in 0..(n - 1) : g[m] = d[m] + W * g[m + 1]
  BY <1>2, <1>8, HornerUnfolded
<1> HIDE DEF g
<1>10. 0..n \subseteq S
  <2>1. 0 \in S
    BY <1>6, <1>9 DEF g
  <2>2. ASSUME NEW t \in 1..n, t - 1 \in S PROVE t \in S
    <3>1. n - t \in 0..(n - 1) /\ (n - t) + 1 = n - (t - 1)
      OBVIOUS
    <3>2. g[n - (t - 1)] = z(n - (t - 1))
      BY <2>2 DEF g
    <3>3. g[n - t] = z(n - t)
      BY <1>8, <1>9, <3>1, <3>2
    <3> QED
      BY <3>3 DEF g
  <2> HIDE DEF S
  <2> QED
    BY <2>1, <2>2, UpTo
<1>11. n \in S /\ n - n = 0
  BY <1>10
<1> QED
  BY <1>6, <1>8, <1>11
-------------------------------------------------------------------------------
(* Odd numbers modulo powers of two, by Newton's iteration. *)

(* Factors may be taken in any order. *)
LEMMA Product3 ==
  ASSUME NEW u \in Int, NEW v \in Int, NEW z \in Int
  PROVE  /\ u * v \in Int /\ v * z \in Int /\ u * z \in Int /\ u * v = v * u
         /\ (u * v) * z = u * (v * z) /\ (u * v) * z = (u * z) * v
         /\ (u * v) * z \in Int
BY SMTT(30)

(* The powers of one base, as numbers. *)
LEMMA PowersStep ==
  ASSUME NEW b \in Nat \ {0}
  PROVE  /\ PowerOf(b, 0) = 1
         /\ \A n \in Nat : PowerOf(b, n) \in Nat /\ PowerOf(b, n) > 0
         /\ \A n \in Nat : PowerOf(b, n + 1) = b * PowerOf(b, n)
<1>1. PowerOf(b, 0) = 1
  BY PowerUnfolded
<1>2. ASSUME NEW n \in Nat
      PROVE  /\ PowerOf(b, n) \in Nat /\ PowerOf(b, n) > 0
             /\ PowerOf(b, n + 1) = b * PowerOf(b, n)
  <2> DEFINE y == PowerOf(b, n)
             z == PowerOf(b, n + 1)
  <2>1. y \in Nat \ {0} /\ z = b * y
    BY PowerUnfolded
  <2> HIDE DEF y, z
  <2>2. y \in Nat /\ y > 0 /\ z = b * y
    BY <2>1
  <2> QED
    BY <2>2 DEF y, z
<1> QED
  BY <1>1, <1>2

(* Exponents add up. *)
LEMMA PowersAdd ==
  ASSUME NEW b \in Nat \ {0}, NEW m \in Nat, NEW n \in Nat
  PROVE  PowerOf(b, m + n) = PowerOf(b, m) * PowerOf(b, n)
<1> DEFINE P(k) == PowerOf(b, k)
           S == {k \in Nat : P(m + k) = P(m) * P(k)}
<1>1. /\ P(0) = 1
      /\ \A k \in Nat : P(k) \in Nat /\ P(k + 1) = b * P(k)
  BY PowersStep
<1> HIDE DEF P
<1>2. 0 \in S
  <2>1. P(m) \in Nat /\ m + 0 = m
    BY <1>1
  <2>2. P(m + 0) = P(m) * P(0)
    BY <1>1, <2>1
  <2> QED
    BY <2>2
<1>3. ASSUME NEW k \in Nat, k \in S PROVE k + 1 \in S
  <2> DEFINE u == P(m)
             v == P(k)
  <2>1. u \in Nat /\ v \in Nat /\ m + k \in Nat /\ m + (k + 1) = (m + k) + 1 /\ k + 1 \in Nat
    BY <1>1
  <2>2. P(m + (k + 1)) = b * P(m + k) /\ P(k + 1) = b * v /\ P(m + k) = u * v
    BY <1>1, <1>3, <2>1
  <2> HIDE DEF u, v
  <2>3. b * (u * v) = u * (b * v)
    BY <2>1, SMTT(30)
  <2>4. P(m + (k + 1)) = u * P(k + 1)
    BY <2>2, <2>3
  <2> QED
    BY <2>1, <2>4 DEF u
<1>4. Nat \subseteq S
  <2> HIDE DEF S
  <2> QED
    BY <1>2, <1>3, Induction
<1> QED
  BY <1>4 DEF P

(* The powers of two. *)
LEMMA PowersOfTwo ==
  /\ PowerOf(2, 0) = 1
  /\ \A n \in Nat : PowerOf(2, n) \in Nat /\ PowerOf(2, n) > 0
  /\ \A n \in Nat : PowerOf(2, n + 1) = 2 * PowerOf(2, n)
  /\ \A m, n \in Nat : PowerOf(2, m + n) = PowerOf(2, m) * PowerOf(2, n)
<1> DEFINE b == 2
<1>1. b \in Nat \ {0}
  OBVIOUS
<1> HIDE DEF b
<1>2. /\ PowerOf(b, 0) = 1
      /\ \A n \in Nat : PowerOf(b, n) \in Nat /\ PowerOf(b, n) > 0
      /\ \A n \in Nat : PowerOf(b, n + 1) = b * PowerOf(b, n)
  BY <1>1, PowersStep
<1>3. \A m, n \in Nat : PowerOf(b, m + n) = PowerOf(b, m) * PowerOf(b, n)
  BY <1>1, PowersAdd
<1> QED
  BY <1>2, <1>3 DEF b

(* Exponents multiply. *)
LEMMA PowersTimes ==
  ASSUME NEW b \in Nat \ {0}, NEW m \in Nat, NEW n \in Nat
  PROVE  PowerOf(PowerOf(b, m), n) = PowerOf(b, m * n)
<1> DEFINE w == PowerOf(b, m)
           S == {k \in Nat : PowerOf(w, k) = PowerOf(b, m * k)}
<1>1. w \in Nat \ {0}
  BY PowerUnfolded
<1>2. 0 \in S
  <2>1. PowerOf(w, 0) = 1 /\ PowerOf(b, 0) = 1 /\ m * 0 = 0
    <3>1. PowerOf(b, 0) = 1 /\ m * 0 = 0
      BY PowersStep
    <3> HIDE DEF w
    <3>2. PowerOf(w, 0) = 1
      BY <1>1, PowersStep
    <3> QED
      BY <3>1, <3>2
  <2> QED
    BY <2>1
<1>3. ASSUME NEW k \in Nat, k \in S PROVE k + 1 \in S
  <2> DEFINE e == m * k
  <2>1. e \in Nat /\ m * (k + 1) = e + m /\ k + 1 \in Nat
    BY SMTT(30)
  <2>2. PowerOf(w, k + 1) = w * PowerOf(w, k)
    BY <1>1, PowerUnfolded
  <2>3. PowerOf(w, k) = PowerOf(b, e)
    BY <1>3
  <2> HIDE DEF e
  <2>4. PowerOf(b, e + m) = PowerOf(b, e) * w
    BY <2>1, PowersAdd
  <2>5. PowerOf(b, e) \in Nat
    BY <2>1, PowersStep
  <2> HIDE DEF w
  <2>6. w * PowerOf(b, e) = PowerOf(b, e) * w
    BY <1>1, <2>5
  <2>7. PowerOf(w, k + 1) = PowerOf(b, m * (k + 1))
    BY <2>1, <2>2, <2>3, <2>4, <2>6
  <2> QED
    BY <2>1, <2>7
<1>4. Nat \subseteq S
  <2> HIDE DEF S
  <2> QED
    BY <1>2, <1>3, Induction
<1> QED
  BY <1>4

(* Products of numbers of one remainder. *)
LEMMA SameProducts ==
  ASSUME NEW m \in Nat, m > 0, NEW u \in Int, NEW v \in Int, NEW x \in Int, NEW y \in Int,
         Same(m, u, v), Same(m, x, y)
  PROVE  Same(m, u * x, v * y)
<1>1. Same(m, u * x, v * x)
  BY SameTimes
<1>2. Same(m, x * v, y * v)
  BY SameTimes
<1>3. v * x = x * v /\ v * y = y * v
  BY Product3
<1> QED
  BY <1>1, <1>2, <1>3 DEF Same

(* The powers of a number with an inverse have inverses. *)
LEMMA PowersInvertible ==
  ASSUME NEW m \in Nat, m > 0, NEW b \in Nat \ {0}, NEW h \in Int, Same(m, b * h, 1), NEW n \in Nat
  PROVE  \E i \in Int : Same(m, PowerOf(b, n) * i, 1)
<1> DEFINE P(k) == PowerOf(b, k)
           one == 1
           bh == b * h
           Inverse(k, i) == Same(m, P(k) * i, one)
           S == {k \in Nat : \E i \in Int : Inverse(k, i)}
<1>1. /\ P(0) = 1 /\ one \in Int /\ one = 1
      /\ \A k \in Nat : P(k) \in Int /\ P(k + 1) = b * P(k)
      /\ bh \in Int /\ Same(m, bh, one)
  <2>1. P(0) = 1 /\ \A k \in Nat : P(k) \in Nat /\ P(k + 1) = b * P(k)
    BY PowersStep
  <2> HIDE DEF P
  <2>2. bh \in Int /\ Same(m, bh, one)
    OBVIOUS
  <2> QED
    BY <2>1, <2>2
<1> HIDE DEF P, one, bh
<1>2. 0 \in S
  <2>1. P(0) * one = one
    BY <1>1
  <2>2. Inverse(0, one)
    BY <2>1 DEF Same
  <2> QED
    BY <1>1, <2>2
<1>3. ASSUME NEW k \in Nat, k \in S PROVE k + 1 \in S
  <2>1. PICK i \in Int : Inverse(k, i)
    BY <1>3
  <2> DEFINE x == P(k) * i
             z == P(k + 1) * (i * h)
  <2>2. P(k) \in Int /\ P(k + 1) = b * P(k) /\ i * h \in Int /\ x \in Int
    BY <1>1, <2>1
  <2>3. z = x * bh
    <3>1. (b * P(k)) * (i * h) = (P(k) * i) * (b * h)
      <4> DEFINE u == P(k)
      <4>1. u \in Int
        BY <2>2
      <4> HIDE DEF u
      <4>2. (b * u) * (i * h) = (u * i) * (b * h)
        BY <2>1, <4>1, SMTT(30)
      <4> QED
        BY <4>2 DEF u
    <3> QED
      BY <2>2, <3>1 DEF bh
  <2>4. Same(m, x * bh, one * one)
    <3>1. Same(m, x, one)
      BY <2>1
    <3> HIDE DEF x
    <3> QED
      BY <1>1, <2>2, <3>1, SameProducts
  <2>5. Inverse(k + 1, i * h)
    <3>1. one * one = one
      BY <1>1
    <3> QED
      BY <2>3, <2>4, <3>1
  <2> HIDE DEF Inverse
  <2> QED
    BY <2>2, <2>5
<1>4. Nat \subseteq S
  <2> HIDE DEF S
  <2> QED
    BY <1>2, <1>3, Induction
<1> QED
  BY <1>4 DEF P, one

(* A power of two has an inverse modulo an odd number. *)
LEMMA OddInvertible ==
  ASSUME NEW m \in Nat, m % 2 = 1, NEW n \in Nat
  PROVE  \E i \in Int : Same(m, PowerOf(2, n) * i, 1)
<1> DEFINE h == (m \div 2) + 1
           two == 2
           one == 1
<1>1. m > 0 /\ h \in Int /\ two * h = m + 1
  <2>1. m \div 2 \in Int /\ m = 2 * (m \div 2) + (m % 2)
    BY Division
  <2> QED
    BY <2>1
<1>2. two \in Nat \ {0} /\ one \in Int
  OBVIOUS
<1>3. Same(m, two * h, one)
  <2> DEFINE x == two * h
  <2>1. Apart(m, x, one)
    <3>1. x = one + one * m
      BY <1>1
    <3> QED
      BY <1>2, <3>1 DEF Apart
  <2>2. x \in Int
    BY <1>1
  <2> HIDE DEF x, one
  <2>3. Same(m, x, one)
    BY <1>1, <1>2, <2>1, <2>2, ApartSame
  <2> QED
    BY <2>3 DEF x
<1> HIDE DEF h, two
<1>4. \E i \in Int : Same(m, PowerOf(two, n) * i, one)
  BY <1>1, <1>2, <1>3, PowersInvertible
<1> QED
  BY <1>4 DEF two

(* Newton's iteration on an approximate inverse x of n modulo a power of two:
   what it leaves of the error is the error's square. *)
LEMMA NewtonStep ==
  ASSUME NEW n \in Int, NEW x \in Int, NEW q \in Int, NEW d \in Int, NEW w \in Int, NEW k \in Int,
         n * x = 1 + q * d
  PROVE  n * (x * (2 - n * x) - w * k) = 1 - (q * q) * (d * d) - w * (k * n)
<1> DEFINE u == n * x
           e == q * d
<1>1. u \in Int /\ e \in Int /\ u = 1 + e
  OBVIOUS
<1>2. n * (x * (2 - n * x) - w * k) = u * (2 - u) - w * (k * n)
  BY SMTT(30)
<1>3. e * e = (q * q) * (d * d)
  BY SMTT(30)
<1> HIDE DEF u, e
<1>4. u * (2 - u) = 1 - e * e
  BY <1>1, SMTT(30)
<1> QED
  BY <1>2, <1>3, <1>4

(* An inverse of n up to a multiple of 2^j, where j is at least g or all bits. *)
InverseUpTo(n, x, g, bits) ==
  \E j \in 0..bits, q \in Int : /\ j = bits \/ j >= g
                               /\ n * x = 1 + q * PowerOf(2, j)

(* The number of good bits doubles until it is that of a word. *)
LEMMA NewtonDoubles ==
  ASSUME NEW n \in Int, NEW x \in Int, NEW y \in Int, NEW g \in Nat, NEW bits \in Nat,
         InverseUpTo(n, x, g, bits),
         y = (x * (2 - n * x)) % PowerOf(2, bits)
  PROVE  InverseUpTo(n, y, 2 * g, bits)
<1> DEFINE P(k) == PowerOf(2, k)
           w == P(bits)
           z == x * (2 - n * x)
           k == z \div w
<1>1. \A i \in Nat : P(i) \in Nat /\ P(i) > 0
  BY PowersOfTwo
<1>2. \A i, j \in Nat : P(i + j) = P(i) * P(j)
  BY PowersOfTwo
<1>3. PICK j \in 0..bits, q \in Int : (j = bits \/ j >= g) /\ n * x = 1 + q * P(j)
  BY DEF InverseUpTo
<1> HIDE DEF P
<1>4. z \in Int /\ w \in Nat /\ w > 0
  <2>1. n * x \in Int
    OBVIOUS
  <2>2. x * (2 - n * x) \in Int
    BY <2>1
  <2> QED
    BY <1>1, <2>2
<1>5. k \in Int /\ y = z - w * k
  <2>1. y = z % w
    BY DEF P
  <2> HIDE DEF z, w
  <2>2. z \div w \in Int /\ z = w * (z \div w) + (z % w) /\ z % w \in 0..(w - 1)
    BY <1>4, Division
  <2>3. w * (z \div w) \in Int
    BY <1>4, <2>2
  <2> QED
    BY <1>4, <2>1, <2>2, <2>3
<1> DEFINE d == P(j)
           i == IF 2 * j <= bits THEN 2 * j ELSE bits
           f == P(2 * j - i)
           h == P(bits - i)
           p == P(i)
<1>6. j \in Nat /\ i \in 0..bits /\ i \in Nat /\ 2 * j - i \in Nat /\ bits - i \in Nat
      /\ (2 * j - i) + i = j + j /\ (bits - i) + i = bits
      /\ (i = bits \/ i >= 2 * g)
  BY <1>3
<1>7. d \in Int /\ f \in Int /\ h \in Int /\ p \in Int /\ w \in Int /\ d * d = f * p /\ w = h * p
  <2>1. P(j + j) = d * d /\ P((2 * j - i) + i) = f * p /\ P((bits - i) + i) = h * p
    BY <1>2, <1>6
  <2> QED
    BY <1>1, <1>4, <1>6, <2>1
<1>8. n * (z - w * k) = 1 - (q * q) * (d * d) - w * (k * n)
  <2> HIDE DEF w, k, d
  <2> QED
    BY <1>3, <1>4, <1>5, <1>7, NewtonStep DEF d
<1> DEFINE r == 0 - (q * q) * f - h * (k * n)
<1>9. r \in Int /\ n * y = 1 + r * p
  <2> HIDE DEF z, w, k, d, f, h, p
  <2> DEFINE qq == q * q
             kn == k * n
  <2>1. qq \in Int /\ kn \in Int
    BY <1>3, <1>5
  <2>2. r = 0 - qq * f - h * kn
    OBVIOUS
  <2>3. n * y = 1 - qq * (f * p) - (h * p) * kn
    BY <1>5, <1>7, <1>8
  <2> HIDE DEF qq, kn
  <2>4. 1 - qq * (f * p) - (h * p) * kn = 1 + (0 - qq * f - h * kn) * p
    BY <1>7, <2>1, SMTT(30)
  <2>5. 0 - qq * f - h * kn \in Int
    BY <1>7, <2>1
  <2> HIDE DEF r
  <2> QED
    BY <2>2, <2>3, <2>4, <2>5
<1> HIDE DEF r, i, p
<1> QED
  BY <1>6, <1>9 DEF InverseUpTo, p, P

(* inv32: from 2 - n, as many steps as make 2^steps * 2 bits good give the
   inverse of an odd number modulo a word, so that what is returned, times the
   number, is one less than a word. *)
LEMMA NewtonInverse ==
  ASSUME NEW n \in Nat, n % 2 = 1, NEW bits \in Nat, bits > 0, NEW steps \in Nat,
         PowerOf(2, steps + 1) >= bits,
         NEW x \in [0..steps -> Nat],
         x[0] = (2 - n) % PowerOf(2, bits),
         \A s \in 1..steps : x[s] = (x[s - 1] * (2 - n * x[s - 1])) % PowerOf(2, bits)
  PROVE  \E q \in Int : n * x[steps] = 1 + q * PowerOf(2, bits)
<1> DEFINE P(k) == PowerOf(2, k)
           w == P(bits)
           S == {s \in 0..steps : InverseUpTo(n, x[s], P(s + 1), bits)}
<1>1. /\ P(0) = 1
      /\ \A i \in Nat : P(i) \in Nat /\ P(i) > 0
      /\ \A i \in Nat : P(i + 1) = 2 * P(i)
  BY PowersOfTwo
<1>2. \A i, j \in Nat : P(i + j) = P(i) * P(j)
  BY PowersOfTwo
<1>3. x[0] = (2 - n) % w
  OBVIOUS
<1>4. PowerOf(2, bits) = w /\ P(steps + 1) >= bits /\ \A i : PowerOf(2, i) = P(i)
  OBVIOUS
<1> HIDE DEF P
<1>5. w \in Nat /\ w > 0
  BY <1>1
<1>6. 0 \in S
  <2> DEFINE c == n \div 2
             k == (2 - n) \div w
  <2>1. c \in Int /\ n = 2 * c + 1
    BY Division
  <2>2. k \in Int /\ x[0] = (2 - n) - w * k
    <3> DEFINE z == 2 - n
    <3>1. z \in Int
      OBVIOUS
    <3> HIDE DEF z, w
    <3>2. z \div w \in Int /\ z = w * (z \div w) + (z % w) /\ z % w \in 0..(w - 1)
      BY <1>5, <3>1, Division
    <3>3. w * (z \div w) \in Int
      BY <1>5, <3>2
    <3>4. z \div w \in Int /\ x[0] = z - w * (z \div w)
      BY <1>3, <3>1, <3>2, <3>3 DEF z
    <3> QED
      BY <3>4 DEF z
  <2>3. n * x[0] = 1 - 4 * (c * c) - w * (k * n)
    <3> HIDE DEF c, k, w
    <3>1. n * ((2 - n) - w * k) = n * (2 - n) - w * (k * n)
      BY <1>5, <2>2, SMTT(30)
    <3>2. n * (2 - n) = 1 - 4 * (c * c)
      BY <2>1, SMTT(30)
    <3> QED
      BY <2>2, <3>1, <3>2
  <2>4. P(1) = 2
    <3>1. P(0 + 1) = 2 * P(0)
      BY <1>1
    <3> QED
      BY <1>1, <3>1
  <2>5. CASE bits = 1
    <3> DEFINE q == 0 - 2 * (c * c) - k * n
    <3>1. c * c \in Int /\ k * n \in Int
      BY <2>1, <2>2
    <3>2. q \in Int /\ n * x[0] = 1 + q * 2 /\ w = 2
      <4> HIDE DEF c, k
      <4>1. w = 2
        BY <2>4, <2>5
      <4> HIDE DEF w
      <4>2. n * x[0] = 1 - 4 * (c * c) - 2 * (k * n)
        BY <2>3, <4>1
      <4> DEFINE cc == c * c
                 kn == k * n
      <4>3. cc \in Int /\ kn \in Int /\ q = 0 - 2 * cc - kn
        BY <3>1
      <4>4. n * x[0] = 1 - 4 * cc - 2 * kn
        BY <4>2
      <4> HIDE DEF cc, kn
      <4>5. (0 - 2 * cc - kn) \in Int /\ 1 - 4 * cc - 2 * kn = 1 + (0 - 2 * cc - kn) * 2
        BY <4>3
      <4> HIDE DEF q
      <4> QED
        BY <4>1, <4>3, <4>4, <4>5
    <3> HIDE DEF q
    <3>3. InverseUpTo(n, x[0], P(0 + 1), bits)
      <4> DEFINE g == P(0 + 1)
      <4>1. bits \in 0..bits /\ n * x[0] = 1 + q * PowerOf(2, bits)
        BY <1>4, <3>2
      <4> HIDE DEF g
      <4>2. InverseUpTo(n, x[0], g, bits)
        BY <3>2, <4>1 DEF InverseUpTo
      <4> QED
        BY <4>2 DEF g
    <3> QED
      BY <3>3
  <2>6. CASE bits # 1
    <3> DEFINE v == P(bits - 2)
               q == 0 - c * c - v * (k * n)
    <3>1. w = 4 * v /\ v \in Nat /\ P(2) = 4
      <4>1. bits - 2 \in Nat /\ (bits - 2) + 2 = bits /\ 1 + 1 = 2 /\ 2 \in Nat
        BY <2>6
      <4>2. P(1 + 1) = 2 * P(1)
        BY <1>1
      <4>3. P((bits - 2) + 2) = P(bits - 2) * P(2)
        BY <1>2, <4>1
      <4> QED
        BY <1>1, <2>4, <4>1, <4>2, <4>3
    <3> HIDE DEF v, w, c, k
    <3> DEFINE cc == c * c
               kn == k * n
    <3>2. cc \in Int /\ kn \in Int /\ n * x[0] = 1 - 4 * cc - (4 * v) * kn /\ q = 0 - cc - v * kn
      BY <2>1, <2>2, <2>3, <3>1
    <3> HIDE DEF cc, kn
    <3>3. (0 - cc - v * kn) \in Int /\ 1 - 4 * cc - (4 * v) * kn = 1 + (0 - cc - v * kn) * 4
      BY <3>1, <3>2, SMTT(30)
    <3> HIDE DEF q
    <3>4. q \in Int /\ n * x[0] = 1 + q * P(2) /\ 2 \in 0..bits /\ 2 >= P(0 + 1)
      BY <2>4, <2>6, <3>1, <3>2, <3>3
    <3>5. InverseUpTo(n, x[0], P(0 + 1), bits)
      <4> DEFINE g == P(0 + 1)
      <4>1. n * x[0] = 1 + q * PowerOf(2, 2) /\ 2 >= g
        BY <3>4, <1>4
      <4> HIDE DEF g
      <4>2. InverseUpTo(n, x[0], g, bits)
        <5> DEFINE two == 2
        <5>1. two \in 0..bits /\ two >= g /\ n * x[0] = 1 + q * PowerOf(2, two)
          BY <3>4, <4>1
        <5> HIDE DEF two
        <5> QED
          BY <3>4, <5>1 DEF InverseUpTo
      <4> QED
        BY <4>2 DEF g
    <3> QED
      BY <3>5
  <2> QED
    BY <2>5, <2>6
<1>7. ASSUME NEW s \in 1..steps, s - 1 \in S PROVE s \in S
  <2> DEFINE g == P((s - 1) + 1)
             y == x[s - 1]
             z == x[s]
  <2>1. y \in Int /\ z \in Int /\ g \in Nat /\ s \in 0..steps /\ n \in Int
        /\ P(s + 1) = 2 * g /\ InverseUpTo(n, y, g, bits)
    <3>1. s - 1 \in 0..steps /\ s \in 0..steps /\ s \in Nat /\ (s - 1) + 1 = s
      OBVIOUS
    <3>2. P(s + 1) = 2 * P(s) /\ P(s) \in Nat
      BY <1>1, <3>1
    <3> QED
      BY <1>7, <3>1, <3>2
  <2>2. z = (y * (2 - n * y)) % PowerOf(2, bits)
    OBVIOUS
  <2> HIDE DEF g, y, z
  <2>3. InverseUpTo(n, z, 2 * g, bits)
    BY <2>1, <2>2, NewtonDoubles
  <2> QED
    BY <2>1, <2>3 DEF z
<1>8. steps \in S
  <2> HIDE DEF S
  <2>1. 0..steps \subseteq S
    BY <1>6, <1>7, UpTo
  <2> QED
    BY <2>1
<1>9. PICK j \in 0..bits, q \in Int : /\ j = bits \/ j >= P(steps + 1)
                                     /\ n * x[steps] = 1 + q * PowerOf(2, j)
  BY <1>8 DEF InverseUpTo
<1>10. j = bits
  <2> DEFINE top == P(steps + 1)
  <2>1. top \in Nat /\ top >= bits /\ (j = bits \/ j >= top)
    BY <1>1, <1>4, <1>9
  <2> HIDE DEF top
  <2> QED
    BY <2>1
<1> QED
  BY <1>9, <1>10

(* A quotient of a quotient. *)
LEMMA QuotientOfQuotient ==
  ASSUME NEW x \in Nat, NEW q \in Nat, q > 0, NEW w \in Nat, w > 0
  PROVE  x \div (w * q) = (x \div q) \div w
<1> DEFINE y == x \div q
           r == x % q
           v == y \div w
           s == y % w
           z == w * q
<1>1. y \in Nat /\ r \in 0..(q - 1) /\ x = q * y + r
  BY NatDivision
<1>2. v \in Nat /\ s \in 0..(w - 1) /\ y = w * v + s
  <2> HIDE DEF y
  <2> QED
    BY <1>1, NatDivision
<1>3. z \in Nat /\ z > 0
  BY SMTT(30)
<1> HIDE DEF y, r, v, s
<1>4. x = z * v + (q * s + r) /\ q * s + r \in 0..(z - 1)
  <2>1. q * (w * v + s) = z * v + q * s /\ q * s \in Int /\ z * v \in Int
    BY <1>1, <1>2, SMTT(30)
  <2>2. q * s >= 0 /\ q * s <= q * (w - 1) /\ q * (w - 1) = z - q
    BY <1>1, <1>2, SMTT(30)
  <2> DEFINE qs == q * s
             zv == z * v
  <2>3. x = zv + qs + r /\ qs \in Int /\ zv \in Int /\ qs >= 0 /\ qs <= z - q
    BY <1>1, <1>2, <2>1, <2>2
  <2> HIDE DEF qs, zv, z
  <2>4. x = zv + (qs + r) /\ qs + r \in 0..(z - 1)
    BY <1>1, <1>3, <2>3
  <2> QED
    BY <2>4 DEF qs, zv
<1> DEFINE u == q * s + r
<1>5. x = z * v + u /\ u \in 0..(z - 1)
  BY <1>4
<1> HIDE DEF u, z
<1>6. x \div z = v
  BY <1>2, <1>3, <1>5, DivisionUnique
<1> QED
  BY <1>6 DEF z, v, y

(* Sums and differences of numbers of one remainder. *)
LEMMA SameSums ==
  ASSUME NEW m \in Nat, m > 0, NEW u \in Int, NEW v \in Int, NEW x \in Int, NEW y \in Int,
         Same(m, u, v), Same(m, x, y)
  PROVE  Same(m, u + x, v + y) /\ Same(m, u - x, v - y)
<1> DEFINE nx == -x
           ny == -y
           minus == -1
<1>1. Same(m, u + x, v + x)
  BY SamePlus
<1>2. Same(m, x + v, y + v)
  BY SamePlus
<1>3. v + x = x + v /\ v + y = y + v
  OBVIOUS
<1>4. minus \in Int /\ nx \in Int /\ ny \in Int /\ x * minus = nx /\ y * minus = ny
  OBVIOUS
<1> HIDE DEF minus
<1>5. Same(m, nx, ny)
  <2>1. Same(m, x * minus, y * minus)
    BY <1>4, SameTimes
  <2> QED
    BY <1>4, <2>1
<1>6. u + nx = u - x /\ nx + v = v + nx /\ ny + v = v - y
  OBVIOUS
<1> HIDE DEF nx, ny
<1>7. Same(m, u + nx, v + nx)
  BY <1>4, SamePlus
<1>8. Same(m, nx + v, ny + v)
  BY <1>4, <1>5, SamePlus
<1> QED
  BY <1>1, <1>2, <1>3, <1>6, <1>7, <1>8 DEF Same

(* A factor with an inverse can be taken away. *)
LEMMA SameCancel ==
  ASSUME NEW m \in Nat, m > 0, NEW u \in Int, NEW v \in Int,
         NEW c \in Int, NEW inv \in Int, Same(m, c * inv, 1), Same(m, u * c, v * c)
  PROVE  Same(m, u, v)
<1> DEFINE x == u * c
           y == v * c
           w == c * inv
           one == 1
<1>1. /\ x \in Int /\ y \in Int /\ w \in Int /\ one \in Int
      /\ Same(m, x, y) /\ Same(m, w, one)
  OBVIOUS
<1>2. x * inv = w * u /\ y * inv = w * v /\ one * u = u /\ one * v = v
  <2>1. x * inv = u * (c * inv) /\ u * (c * inv) = (c * inv) * u
    BY Product3
  <2>2. y * inv = v * (c * inv) /\ v * (c * inv) = (c * inv) * v
    BY Product3
  <2> QED
    BY <2>1, <2>2
<1> HIDE DEF x, y, w, one
<1>3. Same(m, x * inv, y * inv)
  BY <1>1, SameTimes
<1>4. Same(m, w * u, one * u)
  BY <1>1, SameTimes
<1>5. Same(m, w * v, one * v)
  BY <1>1, SameTimes
<1> QED
  BY <1>2, <1>3, <1>4, <1>5 DEF Same

(* Reduced numbers of one remainder are one number. *)
LEMMA ReducedAreEqual ==
  ASSUME NEW m \in Nat, m > 0, NEW u \in 0..(m - 1), NEW v \in 0..(m - 1), Same(m, u, v)
  PROVE  u = v
<1>1. u % m = u /\ v % m = v
  BY Remainder
<1> QED
  BY <1>1 DEF Same

-------------------------------------------------------------------------------
(* Sums of terms, and numbers by their digits. *)

SumsOf(f, n) == CHOOSE s : s = [j \in 0..n |-> IF j = 0 THEN 0 ELSE s[j - 1] + f[j - 1]]

(* The sum of f[0], ..., f[n - 1], as the modules define it. *)
SumOf(f, n) == LET s[j \in 0..n] == IF j = 0 THEN 0 ELSE s[j - 1] + f[j - 1] IN s[n]

LEMMA TermsUnfolded ==
  ASSUME NEW n \in Nat, NEW f, \A j \in 0..(n - 1) : f[j] \in Int
  PROVE  /\ SumsOf(f, n)[0] = 0
         /\ \A j \in 1..n : SumsOf(f, n)[j] = SumsOf(f, n)[j - 1] + f[j - 1]
         /\ \A j \in 0..n : SumsOf(f, n)[j] \in Int
<1> DEFINE V == Int
           z == 0
           Step(j, v) == v + f[j - 1]
           F == [j \in 1..n |-> [v \in V |-> Step(j, v)]]
           body(g) == [j \in 0..n |-> IF j = 0 THEN 0 ELSE Step(j, g[j - 1])]
           s == CHOOSE g : g = body(g)
           h == Unfolded(n, V, z, F)
<1>1. SumsOf(f, n) = s
  BY DEF SumsOf
<1>2. z \in V /\ \A j \in 1..n, v \in V : Step(j, v) \in V
  <2> SUFFICES ASSUME NEW j \in 1..n, NEW v \in V PROVE Step(j, v) \in V
    OBVIOUS
  <2>1. j - 1 \in 0..(n - 1)
    OBVIOUS
  <2>2. f[j - 1] \in Int
    BY <2>1
  <2> QED
    BY <2>2
<1> HIDE DEF Step, V, z
<1>3. F \in [1..n -> [V -> V]]
  BY <1>2
<1>4. h \in [0..n -> V] /\ h[0] = z /\ \A j \in 1..n : h[j] = F[j][h[j - 1]]
  <2> HIDE DEF F
  <2> QED
    BY <1>2, <1>3, Unfolding
<1> HIDE DEF h
<1>5. \A j \in 1..n : h[j] = Step(j, h[j - 1])
  <2> TAKE j \in 1..n
  <2>1. h[j - 1] \in V /\ h[j] = F[j][h[j - 1]]
    BY <1>4
  <2>2. F[j] = [v \in V |-> Step(j, v)]
    OBVIOUS
  <2> QED
    BY <2>1, <2>2
<1>6. h = body(h)
  BY <1>4, <1>5 DEF z
<1>7. s = body(s)
  <2> HIDE DEF body
  <2> QED
    BY <1>6
<1> HIDE DEF s
<1>8. s[0] = 0 /\ \A j \in 1..n : s[j] = Step(j, s[j - 1])
  <2>1. \A j \in 0..n : s[j] = IF j = 0 THEN 0 ELSE Step(j, s[j - 1])
    BY <1>7, Zenon
  <2> QED
    BY <2>1
<1> DEFINE S == {j \in 0..n : s[j] \in V}
<1>9. 0 \in S /\ \A j \in 1..n : j - 1 \in S => j \in S
  BY <1>2, <1>8 DEF z
<1>10. 0..n \subseteq S
  <2> HIDE DEF S
  <2> QED
    BY <1>9, UpTo
<1> QED
  BY <1>1, <1>8, <1>10 DEF Step, V

(* A sum is the one before it and one term more. *)
LEMMA SumOfUnfolded ==
  ASSUME NEW n \in Nat, NEW f, \A j \in 0..n : f[j] \in Int
  PROVE  /\ SumOf(f, 0) = 0
         /\ SumOf(f, n) \in Int
         /\ SumOf(f, n + 1) = SumOf(f, n) + f[n]
<1> DEFINE T(m) == SumsOf(f, m)
           S == {j \in 0..n : T(n)[j] = T(n + 1)[j]}
<1>1. /\ T(n)[0] = 0
      /\ \A j \in 1..n : T(n)[j] = T(n)[j - 1] + f[j - 1]
      /\ \A j \in 0..n : T(n)[j] \in Int
  <2>1. \A j \in 0..(n - 1) : f[j] \in Int
    OBVIOUS
  <2> QED
    BY <2>1, TermsUnfolded
<1>2. /\ T(n + 1)[0] = 0
      /\ \A j \in 1..(n + 1) : T(n + 1)[j] = T(n + 1)[j - 1] + f[j - 1]
  <2>1. n + 1 \in Nat /\ (n + 1) - 1 = n
    OBVIOUS
  <2>2. \A j \in 0..((n + 1) - 1) : f[j] \in Int
    BY <2>1
  <2> QED
    BY <2>1, <2>2, TermsUnfolded
<1>3. T(0)[0] = 0
  <2>1. \A j \in 0..(0 - 1) : f[j] \in Int
    OBVIOUS
  <2> QED
    BY <2>1, TermsUnfolded
<1> HIDE DEF T
<1>4. 0 \in S /\ \A j \in 1..n : j - 1 \in S => j \in S
  <2>1. ASSUME NEW j \in 1..n, j - 1 \in S PROVE j \in S
    <3>1. T(n)[j] = T(n)[j - 1] + f[j - 1] /\ T(n)[j - 1] = T(n + 1)[j - 1]
      BY <1>1, <2>1
    <3>2. j \in 1..(n + 1) /\ j \in 0..n
      OBVIOUS
    <3>3. T(n + 1)[j] = T(n + 1)[j - 1] + f[j - 1]
      BY <1>2, <3>2
    <3> QED
      BY <3>1, <3>2, <3>3
  <2> QED
    BY <1>1, <1>2, <2>1
<1>5. 0..n \subseteq S
  <2> HIDE DEF S
  <2> QED
    BY <1>4, UpTo
<1>6. T(n + 1)[n + 1] = T(n)[n] + f[n]
  <2>1. n \in S /\ n + 1 \in 1..(n + 1) /\ (n + 1) - 1 = n
    BY <1>5
  <2>2. T(n + 1)[n + 1] = T(n + 1)[(n + 1) - 1] + f[(n + 1) - 1]
    BY <1>2, <2>1
  <2> QED
    BY <2>1, <2>2
<1>7. \A m : SumOf(f, m) = T(m)[m]
  BY DEF SumOf, SumsOf, T
<1> QED
  BY <1>1, <1>3, <1>6, <1>7

LEMMA SumsStep ==
  ASSUME NEW n \in Nat, NEW f, \A j \in 0..(n - 1) : f[j] \in Int
  PROVE  /\ SumOf(f, 0) = 0
         /\ \A k \in 0..(n - 1) : SumOf(f, k + 1) = SumOf(f, k) + f[k]
         /\ \A k \in 0..n : SumOf(f, k) \in Int
<1> DEFINE A(k) == SumOf(f, k)
<1>1. ASSUME NEW k \in 0..(n - 1) PROVE A(0) = 0 /\ A(k) \in Int /\ A(k + 1) = A(k) + f[k]
  <2>1. k \in Nat /\ \A j \in 0..k : f[j] \in Int
    OBVIOUS
  <2> QED
    BY <2>1, SumOfUnfolded
<1>2. A(0) = 0
  <2>1. CASE n = 0
    <3>1. SumOf(f, 0) = SumsOf(f, 0)[0]
      BY DEF SumOf, SumsOf
    <3>2. SumsOf(f, 0)[0] = 0
      BY <2>1, TermsUnfolded
    <3> QED
      BY <3>1, <3>2
  <2>2. CASE n # 0
    <3>1. 0 \in 0..(n - 1)
      BY <2>2
    <3> HIDE DEF A
    <3> QED
      BY <1>1, <3>1
  <2> QED
    BY <2>1, <2>2
<1> HIDE DEF A
<1>3. \A k \in 0..n : A(k) \in Int
  <2> TAKE k \in 0..n
  <2>1. CASE k = 0
    BY <1>2, <2>1
  <2>2. CASE k # 0
    <3>1. k - 1 \in 0..(n - 1) /\ (k - 1) + 1 = k
      BY <2>2
    <3>2. A(k - 1) \in Int /\ A((k - 1) + 1) = A(k - 1) + f[k - 1] /\ f[k - 1] \in Int
      BY <1>1, <3>1
    <3> QED
      BY <3>1, <3>2
  <2> QED
    BY <2>1, <2>2
<1>4. \A k \in 0..(n - 1) : A(k + 1) = A(k) + f[k]
  BY <1>1
<1> QED
  BY <1>2, <1>3, <1>4 DEF A

(* Equal terms give equal sums. *)
LEMMA SumsSame ==
  ASSUME NEW n \in Nat, NEW f, NEW g, \A j \in 0..(n - 1) : f[j] \in Int /\ f[j] = g[j]
  PROVE  SumOf(f, n) = SumOf(g, n)
<1> DEFINE A(k) == SumOf(f, k)
           B(k) == SumOf(g, k)
           S == {k \in 0..n : A(k) = B(k)}
<1>1. A(0) = 0 /\ \A k \in 0..(n - 1) : A(k + 1) = A(k) + f[k]
  BY SumsStep
<1>2. B(0) = 0 /\ \A k \in 0..(n - 1) : B(k + 1) = B(k) + g[k]
  BY SumsStep
<1> HIDE DEF A, B
<1>3. 0 \in S /\ \A k \in 1..n : k - 1 \in S => k \in S
  <2>1. ASSUME NEW k \in 1..n, k - 1 \in S PROVE k \in S
    <3>1. k - 1 \in 0..(n - 1) /\ (k - 1) + 1 = k /\ A(k - 1) = B(k - 1)
      BY <2>1
    <3>2. A((k - 1) + 1) = A(k - 1) + f[k - 1] /\ B((k - 1) + 1) = B(k - 1) + g[k - 1]
          /\ f[k - 1] = g[k - 1]
      BY <1>1, <1>2, <3>1
    <3> QED
      BY <3>1, <3>2
  <2> QED
    BY <1>1, <1>2, <2>1
<1>4. 0..n \subseteq S
  <2> HIDE DEF S
  <2> QED
    BY <1>3, UpTo
<1> QED
  BY <1>4 DEF A, B
-------------------------------------------------------------------------------
(* What the digits f[0], ..., f[n - 1] stand for in base m. *)
Weighted(f, m, n) == SumOf([j \in Nat |-> f[j] * PowerOf(m, j)], n)

LEMMA WeightedStep ==
  ASSUME NEW m \in Nat \ {0}, NEW n \in Nat, NEW f, \A j \in 0..(n - 1) : f[j] \in Int
  PROVE  /\ Weighted(f, m, 0) = 0
         /\ \A k \in 0..(n - 1) : Weighted(f, m, k + 1) = Weighted(f, m, k) + f[k] * PowerOf(m, k)
         /\ \A k \in 0..n : Weighted(f, m, k) \in Int
<1> DEFINE g == [j \in Nat |-> f[j] * PowerOf(m, j)]
<1>1. \A k : Weighted(f, m, k) = SumOf(g, k)
  BY DEF Weighted
<1>2. ASSUME NEW j \in 0..(n - 1) PROVE g[j] = f[j] * PowerOf(m, j) /\ g[j] \in Int
  <2>1. j \in Nat /\ g[j] = f[j] * PowerOf(m, j)
    OBVIOUS
  <2>2. PowerOf(m, j) \in Nat
    BY <2>1, PowersStep
  <2>3. f[j] * PowerOf(m, j) \in Int
    BY <2>2
  <2> QED
    BY <2>1, <2>3
<1> HIDE DEF g
<1>3. /\ SumOf(g, 0) = 0
      /\ \A k \in 0..(n - 1) : SumOf(g, k + 1) = SumOf(g, k) + g[k]
      /\ \A k \in 0..n : SumOf(g, k) \in Int
  BY <1>2, SumsStep
<1> QED
  BY <1>1, <1>2, <1>3

(* Weights are linear in the digits. *)
LEMMA WeightedLinear ==
  ASSUME NEW m \in Nat \ {0}, NEW n \in Nat, NEW f, NEW g, NEW h, NEW c \in Int,
         \A j \in 0..(n - 1) : f[j] \in Int /\ g[j] \in Int /\ h[j] = f[j] + c * g[j]
  PROVE  Weighted(h, m, n) = Weighted(f, m, n) + c * Weighted(g, m, n)
<1> DEFINE A(k) == Weighted(f, m, k)
           B(k) == Weighted(g, m, k)
           D(k) == Weighted(h, m, k)
           P(k) == PowerOf(m, k)
           S == {k \in 0..n : D(k) = A(k) + c * B(k)}
<1>0. \A j \in 0..(n - 1) : h[j] \in Int
  <2> TAKE j \in 0..(n - 1)
  <2>1. f[j] \in Int /\ g[j] \in Int /\ h[j] = f[j] + c * g[j]
    OBVIOUS
  <2> DEFINE u == f[j]
             v == g[j]
  <2> HIDE DEF u, v
  <2>2. u \in Int /\ v \in Int => u + c * v \in Int
    BY SMTT(30)
  <2> QED
    BY <2>1, <2>2 DEF u, v
<1>1. A(0) = 0 /\ \A k \in 0..(n - 1) : A(k + 1) = A(k) + f[k] * P(k) /\ A(k) \in Int
  BY WeightedStep
<1>2. B(0) = 0 /\ \A k \in 0..(n - 1) : B(k + 1) = B(k) + g[k] * P(k) /\ B(k) \in Int
  BY WeightedStep
<1>3. D(0) = 0 /\ \A k \in 0..(n - 1) : D(k + 1) = D(k) + h[k] * P(k) /\ D(k) \in Int
  BY <1>0, WeightedStep
<1>4. \A k \in Nat : P(k) \in Int
  BY PowersStep
<1> HIDE DEF A, B, D, P
<1>5. 0 \in S
  BY <1>1, <1>2, <1>3
<1>6. ASSUME NEW k \in 1..n, k - 1 \in S PROVE k \in S
  <2> DEFINE i == k - 1
             u == f[i]
             v == g[i]
             w == P(i)
             x == A(i)
             y == B(i)
  <2>1. i \in 0..(n - 1) /\ i + 1 = k /\ i \in Nat /\ D(i) = x + c * y
    BY <1>6
  <2> HIDE DEF i
  <2>2. u \in Int /\ v \in Int /\ h[i] = u + c * v /\ w \in Int /\ x \in Int /\ y \in Int
    BY <1>1, <1>2, <1>4, <2>1
  <2>3. D(k) = D(i) + h[i] * w /\ A(k) = x + u * w /\ B(k) = y + v * w
    BY <1>1, <1>2, <1>3, <2>1
  <2> HIDE DEF u, v, w, x, y
  <2>4. (x + c * y) + (u + c * v) * w = (x + u * w) + c * (y + v * w)
    BY <2>2, SMTT(30)
  <2>5. D(k) = A(k) + c * B(k)
    BY <2>1, <2>2, <2>3, <2>4
  <2> QED
    BY <2>5
<1>7. 0..n \subseteq S
  <2> HIDE DEF S
  <2> QED
    BY <1>5, <1>6, UpTo
<1> QED
  BY <1>7 DEF A, B, D

(* The two lowest digits changed. *)
LEMMA WeightedChange ==
  ASSUME NEW m \in Nat \ {0}, NEW n \in Nat, n >= 2, NEW f, NEW g,
         \A j \in 0..(n - 1) : f[j] \in Int /\ g[j] \in Int,
         \A j \in 2..(n - 1) : f[j] = g[j]
  PROVE  Weighted(g, m, n) = Weighted(f, m, n) + (g[0] - f[0]) + m * (g[1] - f[1])
<1> DEFINE A(k) == Weighted(f, m, k)
           B(k) == Weighted(g, m, k)
           P(k) == PowerOf(m, k)
           d == (g[0] - f[0]) + m * (g[1] - f[1])
           S == {k \in 0..(n - 2) : B(k + 2) = A(k + 2) + d}
<1>1. A(0) = 0 /\ \A k \in 0..(n - 1) : A(k + 1) = A(k) + f[k] * P(k) /\ A(k) \in Int
  BY WeightedStep
<1>2. B(0) = 0 /\ \A k \in 0..(n - 1) : B(k + 1) = B(k) + g[k] * P(k) /\ B(k) \in Int
  BY WeightedStep
<1>3. P(0) = 1 /\ P(1) = m /\ \A k \in Nat : P(k) \in Int
  <2>1. P(0) = 1 /\ P(0 + 1) = m * P(0) /\ \A k \in Nat : P(k) \in Int
    BY PowersStep
  <2> HIDE DEF P
  <2> QED
    BY <2>1
<1> HIDE DEF A, B, P
<1>4. f[0] \in Int /\ f[1] \in Int /\ g[0] \in Int /\ g[1] \in Int
  OBVIOUS
<1>5. A(2) = f[0] + f[1] * m /\ B(2) = g[0] + g[1] * m
  <2>1. 0 \in 0..(n - 1) /\ 1 \in 0..(n - 1) /\ 0 + 1 = 1 /\ 1 + 1 = 2
    OBVIOUS
  <2>2. A(1) = A(0) + f[0] * P(0) /\ A(2) = A(1) + f[1] * P(1)
    BY <1>1, <2>1
  <2>3. B(1) = B(0) + g[0] * P(0) /\ B(2) = B(1) + g[1] * P(1)
    BY <1>2, <2>1
  <2> QED
    BY <1>1, <1>2, <1>3, <1>4, <2>2, <2>3
<1>6. B(2) = A(2) + d /\ d \in Int
  <2> DEFINE u == f[0]
             v == f[1]
             x == g[0]
             y == g[1]
  <2>1. u \in Int /\ v \in Int /\ x \in Int /\ y \in Int
    BY <1>4
  <2> HIDE DEF u, v, x, y
  <2>2. x + y * m = (u + v * m) + ((x - u) + m * (y - v)) /\ (x - u) + m * (y - v) \in Int
    BY <2>1, SMTT(30)
  <2> QED
    BY <1>5, <2>2 DEF u, v, x, y
<1> HIDE DEF d
<1>7. 0 \in S
  BY <1>6
<1>8. ASSUME NEW k \in 1..(n - 2), k - 1 \in S PROVE k \in S
  <2> DEFINE i == k + 1
  <2>1. /\ i \in 0..(n - 1) /\ i + 1 = k + 2 /\ i \in 2..(n - 1) /\ (k - 1) + 2 = i /\ i \in Nat
        /\ k \in 0..(n - 2)
    OBVIOUS
  <2>2. B(i) = A(i) + d
    BY <1>8, <2>1
  <2> HIDE DEF i
  <2>3. A(k + 2) = A(i) + f[i] * P(i) /\ B(k + 2) = B(i) + g[i] * P(i) /\ f[i] = g[i]
        /\ A(i) \in Int /\ f[i] \in Int /\ P(i) \in Int
    BY <1>1, <1>2, <1>3, <2>1
  <2> DEFINE w == f[i] * P(i)
  <2>4. w \in Int /\ B(k + 2) = B(i) + w /\ A(k + 2) = A(i) + w
    BY <2>3
  <2> HIDE DEF w
  <2>5. B(k + 2) = A(k + 2) + d
    BY <1>6, <2>2, <2>3, <2>4
  <2> QED
    BY <2>1, <2>5
<1>9. n - 2 \in Nat /\ 0..(n - 2) \subseteq S
  <2> HIDE DEF S
  <2>1. n - 2 \in Nat
    OBVIOUS
  <2> QED
    BY <1>7, <1>8, <2>1, UpTo
<1>10. B(n) = A(n) + d
  <2>1. n - 2 \in S /\ (n - 2) + 2 = n
    BY <1>9
  <2> QED
    BY <2>1
<1>11. A(n) + d = A(n) + (g[0] - f[0]) + m * (g[1] - f[1])
  <2>1. A(n) \in Int
    BY WeightedStep DEF A
  <2> DEFINE y == m * (g[1] - f[1])
  <2>2. y \in Int
    BY <1>4
  <2> HIDE DEF y
  <2>3. d = (g[0] - f[0]) + y
    BY DEF d, y
  <2>4. A(n) + d = A(n) + (g[0] - f[0]) + y
    BY <1>4, <2>1, <2>2, <2>3
  <2> QED
    BY <2>4 DEF y
<1> QED
  BY <1>10, <1>11 DEF A, B

(* The digits moved up by one. *)
LEMMA WeightedShift ==
  ASSUME NEW m \in Nat \ {0}, NEW n \in Nat, NEW g, NEW h,
         \A j \in 0..(n - 1) : g[j] \in Int, h[0] \in Int,
         \A j \in 1..n : h[j] = g[j - 1]
  PROVE  Weighted(h, m, n + 1) = h[0] + m * Weighted(g, m, n)
<1> DEFINE A(k) == Weighted(g, m, k)
           B(k) == Weighted(h, m, k)
           P(k) == PowerOf(m, k)
           e == h[0]
           S == {k \in 0..n : B(k + 1) = e + m * A(k)}
<1>1. A(0) = 0 /\ \A k \in 0..(n - 1) : A(k + 1) = A(k) + g[k] * P(k) /\ A(k) \in Int
  BY WeightedStep
<1>2. B(0) = 0 /\ \A k \in 0..n : B(k + 1) = B(k) + h[k] * P(k) /\ B(k) \in Int
  <2>1. n + 1 \in Nat /\ (n + 1) - 1 = n
    OBVIOUS
  <2>2. ASSUME NEW j \in 0..n PROVE h[j] \in Int
    <3>1. CASE j = 0
      BY <3>1
    <3>2. CASE j # 0
      <4>1. j \in 1..n /\ j - 1 \in 0..(n - 1)
        BY <3>2
      <4> QED
        BY <4>1
    <3> QED
      BY <3>1, <3>2
  <2>3. \A j \in 0..((n + 1) - 1) : h[j] \in Int
    BY <2>1, <2>2
  <2>4. /\ B(0) = 0
        /\ \A k \in 0..((n + 1) - 1) : B(k + 1) = B(k) + h[k] * P(k)
        /\ \A k \in 0..(n + 1) : B(k) \in Int
    BY <2>1, <2>3, WeightedStep
  <2> HIDE DEF B, P
  <2> QED
    BY <2>1, <2>4
<1>3. P(0) = 1 /\ \A k \in Nat : P(k) \in Int /\ P(k + 1) = m * P(k)
  BY PowersStep
<1> HIDE DEF A, B, P
<1>4. 0 \in S
  <2>1. 0 \in 0..n /\ e \in Int
    OBVIOUS
  <2>2. B(0 + 1) = B(0) + e * P(0)
    BY <1>2, <2>1
  <2> QED
    BY <1>1, <1>2, <1>3, <2>1, <2>2
<1>5. ASSUME NEW k \in 1..n, k - 1 \in S PROVE k \in S
  <2> DEFINE i == k - 1
             u == g[i]
             w == P(i)
             x == A(i)
  <2>1. /\ i \in 0..(n - 1) /\ i \in Nat /\ i + 1 = k /\ k \in 0..n /\ h[k] = u /\ k \in 1..n
    OBVIOUS
  <2>2. B(k) = e + m * x
    BY <1>5, <2>1
  <2> HIDE DEF i
  <2>3. u \in Int /\ w \in Int /\ x \in Int /\ P(k) = m * w /\ A(k) = x + u * w
    BY <1>1, <1>3, <2>1
  <2>4. B(k + 1) = B(k) + u * P(k)
    BY <1>2, <2>1
  <2>5. e \in Int
    OBVIOUS
  <2> HIDE DEF u, w, x, e
  <2>6. (e + m * x) + u * (m * w) = e + m * (x + u * w)
    BY <2>3, <2>5, SMTT(30)
  <2> QED
    BY <2>1, <2>2, <2>3, <2>4, <2>6
<1>6. 0..n \subseteq S
  <2> HIDE DEF S
  <2> QED
    BY <1>4, <1>5, UpTo
<1>7. n \in S
  BY <1>6
<1> QED
  BY <1>7 DEF A, B

(* Carries c[0], c[1], ... move weight up, and lose none: d[j] is left of r[j]. *)
CarryRow(r, c, d, m, n) ==
  /\ r[0] = m * c[0] + d[0]
  /\ \A j \in 1..(n - 1) : r[j] + c[j - 1] = m * c[j] + d[j]

LEMMA WeightedCarries ==
  ASSUME NEW m \in Nat \ {0}, NEW n \in Nat \ {0}, NEW r, NEW c, NEW d,
         \A j \in 0..(n - 1) : r[j] \in Int /\ c[j] \in Int /\ d[j] \in Int,
         CarryRow(r, c, d, m, n)
  PROVE  Weighted(d, m, n) + c[n - 1] * PowerOf(m, n) = Weighted(r, m, n)
<1> DEFINE A(k) == Weighted(r, m, k)
           D(k) == Weighted(d, m, k)
           P(k) == PowerOf(m, k)
           S == {k \in 0..(n - 1) : D(k + 1) + c[k] * P(k + 1) = A(k + 1)}
<1>1. A(0) = 0 /\ \A k \in 0..(n - 1) : A(k + 1) = A(k) + r[k] * P(k) /\ A(k) \in Int
  BY WeightedStep
<1>2. D(0) = 0 /\ \A k \in 0..(n - 1) : D(k + 1) = D(k) + d[k] * P(k) /\ D(k) \in Int
  BY WeightedStep
<1>3. P(0) = 1 /\ \A k \in Nat : P(k) \in Nat /\ P(k) > 0 /\ P(k + 1) = m * P(k)
  BY PowersStep
<1> HIDE DEF A, D, P
<1>4. 0 \in S
  <2> DEFINE u == c[0]
             v == d[0]
             w == r[0]
  <2>1. 0 \in 0..(n - 1) /\ u \in Int /\ v \in Int /\ w \in Int /\ w = m * u + v
    BY DEF CarryRow
  <2>2. A(0 + 1) = A(0) + w * P(0) /\ D(0 + 1) = D(0) + v * P(0) /\ P(0 + 1) = m * P(0)
    BY <1>1, <1>2, <1>3, <2>1
  <2> HIDE DEF u, v, w
  <2>3. A(0 + 1) = w /\ D(0 + 1) = v /\ P(0 + 1) = m
    BY <1>1, <1>2, <1>3, <2>1, <2>2
  <2>4. v + u * m = w
    BY <2>1, SMTT(30)
  <2> QED
    BY <2>1, <2>3, <2>4 DEF u
<1>5. ASSUME NEW k \in 1..(n - 1), k - 1 \in S PROVE k \in S
  <2> DEFINE i == k - 1
             a1 == c[i]
             u == c[k]
             v == d[k]
             w == r[k]
             p1 == P(k)
  <2>1. /\ i \in 0..(n - 1) /\ i + 1 = k /\ k \in 0..(n - 1) /\ k \in Nat
        /\ a1 \in Int /\ u \in Int /\ v \in Int /\ w \in Int /\ w + a1 = m * u + v
    BY DEF CarryRow
  <2>2. D(k) + a1 * p1 = A(k)
    BY <1>5, <2>1
  <2>3. /\ A(k + 1) = A(k) + w * p1 /\ D(k + 1) = D(k) + v * p1 /\ P(k + 1) = m * p1
        /\ p1 \in Int /\ D(k) \in Int
    BY <1>1, <1>2, <1>3, <2>1
  <2> HIDE DEF i, a1, u, v, w, p1
  <2> DEFINE x == D(k)
  <2>4. (x + v * p1) + u * (m * p1) = x + (m * u + v) * p1
    BY <2>1, <2>3, SMTT(30)
  <2>5. x + (w + a1) * p1 = (x + a1 * p1) + w * p1
    BY <2>1, <2>3, SMTT(30)
  <2>6. D(k + 1) + u * P(k + 1) = A(k + 1)
    BY <2>1, <2>2, <2>3, <2>4, <2>5
  <2> QED
    BY <2>1, <2>6 DEF u
<1>6. n - 1 \in Nat /\ 0..(n - 1) \subseteq S
  <2> HIDE DEF S
  <2>1. n - 1 \in Nat
    OBVIOUS
  <2> QED
    BY <1>4, <1>5, <2>1, UpTo
<1>7. D(n) + c[n - 1] * P(n) = A(n)
  <2>1. n - 1 \in S /\ (n - 1) + 1 = n
    BY <1>6
  <2> QED
    BY <2>1
<1> QED
  BY <1>7 DEF A, D, P

(* Digits below the base stand for a number of their length. *)
LEMMA WeightedDigits ==
  ASSUME NEW m \in Nat \ {0}, NEW n \in Nat, NEW d, \A j \in 0..(n - 1) : d[j] \in 0..(m - 1)
  PROVE  Weighted(d, m, n) \in 0..(PowerOf(m, n) - 1)
<1> DEFINE D(k) == Weighted(d, m, k)
           P(k) == PowerOf(m, k)
           S == {k \in 0..n : D(k) \in 0..(P(k) - 1)}
<1>1. D(0) = 0 /\ \A k \in 0..(n - 1) : D(k + 1) = D(k) + d[k] * P(k) /\ D(k) \in Int
  BY WeightedStep
<1>2. P(0) = 1 /\ \A k \in Nat : P(k) \in Nat /\ P(k) > 0 /\ P(k + 1) = m * P(k)
  BY PowersStep
<1> HIDE DEF D, P
<1>3. 0 \in S
  BY <1>1, <1>2
<1>4. ASSUME NEW k \in 1..n, k - 1 \in S PROVE k \in S
  <2> DEFINE i == k - 1
             x == D(i)
             w == P(i)
             u == d[i]
  <2>1. i \in 0..(n - 1) /\ i + 1 = k /\ i \in Nat /\ u \in 0..(m - 1) /\ x \in 0..(w - 1)
    BY <1>4
  <2> HIDE DEF i
  <2>2. D(k) = x + u * w /\ P(k) = m * w /\ w \in Nat /\ w > 0
    BY <1>1, <1>2, <2>1
  <2> HIDE DEF x, w, u
  <2>3. x \in Int /\ u \in Int /\ 0 <= x /\ x <= w - 1 /\ 0 <= u /\ u <= m - 1
    BY <2>1, <2>2
  <2>4. 0 <= u * w /\ u * w <= (m - 1) * w
    BY <2>2, <2>3, SMTT(30)
  <2>5. (m - 1) * w = m * w - w /\ m * w \in Int /\ u * w \in Int
    BY <2>2, <2>3, SMTT(30)
  <2> DEFINE uw == u * w
             mw == m * w
  <2>6. uw \in Int /\ mw \in Int /\ 0 <= uw /\ uw <= mw - w
    BY <2>4, <2>5
  <2> HIDE DEF uw, mw
  <2>7. x + uw \in 0..(mw - 1)
    BY <2>2, <2>3, <2>6
  <2> QED
    BY <2>2, <2>7 DEF uw, mw
<1>5. 0..n \subseteq S
  <2> HIDE DEF S
  <2> QED
    BY <1>3, <1>4, UpTo
<1>6. n \in S
  BY <1>5
<1> QED
  BY <1>6 DEF D, P

(* The greatest digits, but for c in the lowest one. *)
LEMMA WeightedFull ==
  ASSUME NEW m \in Nat \ {0}, NEW n \in Nat \ {0}, NEW c \in Int, NEW d,
         d[0] = m - c, \A j \in 1..(n - 1) : d[j] = m - 1
  PROVE  Weighted(d, m, n) = PowerOf(m, n) - c
<1> DEFINE D(k) == Weighted(d, m, k)
           P(k) == PowerOf(m, k)
           S == {k \in 0..(n - 1) : D(k + 1) = P(k + 1) - c}
<1>0. \A j \in 0..(n - 1) : d[j] \in Int
  <2> TAKE j \in 0..(n - 1)
  <2>1. j = 0 \/ j \in 1..(n - 1)
    OBVIOUS
  <2> QED
    BY <2>1
<1>1. D(0) = 0 /\ \A k \in 0..(n - 1) : D(k + 1) = D(k) + d[k] * P(k) /\ D(k) \in Int
  BY <1>0, WeightedStep
<1>2. P(0) = 1 /\ \A k \in Nat : P(k) \in Nat /\ P(k) > 0 /\ P(k + 1) = m * P(k)
  BY PowersStep
<1> HIDE DEF D, P
<1>3. 0 \in S
  <2>1. 0 \in 0..(n - 1)
    OBVIOUS
  <2>2. D(0 + 1) = D(0) + d[0] * P(0) /\ P(0 + 1) = m * P(0)
    BY <1>1, <1>2, <2>1
  <2> QED
    BY <1>1, <1>2, <2>1, <2>2
<1>4. ASSUME NEW k \in 1..(n - 1), k - 1 \in S PROVE k \in S
  <2>1. k \in 0..(n - 1) /\ k \in Nat /\ (k - 1) + 1 = k /\ d[k] = m - 1
    OBVIOUS
  <2> DEFINE w == P(k)
             x == D(k)
  <2>2. x = w - c
    BY <1>4, <2>1
  <2>3. D(k + 1) = x + (m - 1) * w /\ P(k + 1) = m * w /\ w \in Int
    BY <1>1, <1>2, <2>1
  <2> HIDE DEF w, x
  <2>4. (w - c) + (m - 1) * w = m * w - c
    BY <2>3, SMTT(30)
  <2> QED
    BY <2>1, <2>2, <2>3, <2>4
<1>5. n - 1 \in Nat /\ 0..(n - 1) \subseteq S
  <2> HIDE DEF S
  <2>1. n - 1 \in Nat
    OBVIOUS
  <2> QED
    BY <1>3, <1>4, <2>1, UpTo
<1>6. n - 1 \in S /\ (n - 1) + 1 = n
  BY <1>5
<1> QED
  BY <1>6 DEF D, P

(* Two numbers that differ in the two lowest digits. *)
LowDigitsDiffer(f, g, n) ==
  /\ \A j \in 0..(n - 1) : f[j] \in Int /\ g[j] \in Int
  /\ \A j \in 2..(n - 1) : f[j] = g[j]

LEMMA WeightedDiffer ==
  ASSUME NEW m \in Nat \ {0}, NEW n \in Nat, n >= 2, NEW f, NEW g, LowDigitsDiffer(f, g, n)
  PROVE  Weighted(g, m, n) = Weighted(f, m, n) + (g[0] - f[0]) + m * (g[1] - f[1])
<1>1. \A j \in 0..(n - 1) : f[j] \in Int /\ g[j] \in Int
  BY DEF LowDigitsDiffer
<1>2. \A j \in 2..(n - 1) : f[j] = g[j]
  BY DEF LowDigitsDiffer
<1> QED
  BY <1>1, <1>2, WeightedChange

(* The terms h are those of f with c times those of g. *)
TermsLinear(f, g, h, c, n) ==
  \A j \in 0..(n - 1) : f[j] \in Int /\ g[j] \in Int /\ h[j] = f[j] + c * g[j]

LEMMA SumsLinear ==
  ASSUME NEW n \in Nat, NEW f, NEW g, NEW h, NEW c \in Int, TermsLinear(f, g, h, c, n)
  PROVE  SumOf(h, n) = SumOf(f, n) + c * SumOf(g, n)
<1> DEFINE A(k) == SumOf(f, k)
           B(k) == SumOf(g, k)
           D(k) == SumOf(h, k)
           S == {k \in 0..n : D(k) = A(k) + c * B(k)}
<1>1. \A j \in 0..(n - 1) : f[j] \in Int /\ g[j] \in Int /\ h[j] = f[j] + c * g[j]
  BY DEF TermsLinear
<1>2. \A j \in 0..(n - 1) : h[j] \in Int
  <2> TAKE j \in 0..(n - 1)
  <2> DEFINE u == f[j]
             v == g[j]
  <2>1. u \in Int /\ v \in Int /\ h[j] = u + c * v
    BY <1>1
  <2> HIDE DEF u, v
  <2>2. c * v \in Int
    BY <2>1
  <2> QED
    BY <2>1, <2>2
<1>3. A(0) = 0 /\ (\A k \in 0..(n - 1) : A(k + 1) = A(k) + f[k]) /\ \A k \in 0..n : A(k) \in Int
  BY <1>1, SumsStep
<1>4. B(0) = 0 /\ (\A k \in 0..(n - 1) : B(k + 1) = B(k) + g[k]) /\ \A k \in 0..n : B(k) \in Int
  BY <1>1, SumsStep
<1>5. D(0) = 0 /\ \A k \in 0..(n - 1) : D(k + 1) = D(k) + h[k]
  BY <1>2, SumsStep
<1> HIDE DEF A, B, D
<1>6. 0 \in S
  <2>1. A(0) + c * B(0) = 0
    BY <1>3, <1>4
  <2> QED
    BY <1>5, <2>1
<1>7. ASSUME NEW k \in 1..n, k - 1 \in S PROVE k \in S
  <2> DEFINE i0 == k - 1
             u == f[i0]
             v == g[i0]
             x == A(i0)
             y == B(i0)
  <2>1. i0 \in 0..(n - 1) /\ i0 \in 0..n /\ i0 + 1 = k /\ k \in 0..n
    OBVIOUS
  <2>2. D(i0) = x + c * y
    BY <1>7
  <2>3. /\ u \in Int /\ v \in Int /\ x \in Int /\ y \in Int /\ h[i0] = u + c * v
        /\ A(k) = x + u /\ B(k) = y + v /\ D(k) = D(i0) + h[i0]
    <3> HIDE DEF i0
    <3>1. u \in Int /\ v \in Int /\ h[i0] = u + c * v
      BY <1>1, <2>1
    <3>2. A(i0 + 1) = x + u /\ x \in Int
      BY <1>3, <2>1
    <3>3. B(i0 + 1) = y + v /\ y \in Int
      BY <1>4, <2>1
    <3>4. D(i0 + 1) = D(i0) + h[i0]
      BY <1>5, <2>1
    <3> QED
      BY <2>1, <3>1, <3>2, <3>3, <3>4
  <2> HIDE DEF i0, u, v, x, y
  <2>4. (x + c * y) + (u + c * v) = (x + u) + c * (y + v)
    BY <2>3, SMTT(30)
  <2>5. D(k) = A(k) + c * B(k)
    BY <2>2, <2>3, <2>4
  <2> QED
    BY <2>1, <2>5
<1>8. 0..n \subseteq S
  <2> HIDE DEF S
  <2> QED
    BY <1>6, <1>7, UpTo
<1>9. n \in S
  BY <1>8
<1> QED
  BY <1>9 DEF A, B, D

LEMMA SumsBounded ==
  ASSUME NEW n \in Nat, NEW e \in Nat, NEW f, \A j \in 0..(n - 1) : f[j] \in 0..e
  PROVE  SumOf(f, n) \in 0..(n * e)
<1> DEFINE A(k) == SumOf(f, k)
           S == {k \in 0..n : A(k) \in 0..(k * e)}
<1>1. \A j \in 0..(n - 1) : f[j] \in Int
  OBVIOUS
<1>2. A(0) = 0 /\ (\A k \in 0..(n - 1) : A(k + 1) = A(k) + f[k]) /\ \A k \in 0..n : A(k) \in Int
  BY <1>1, SumsStep
<1> HIDE DEF A
<1>3. 0 \in S
  <2>1. 0 * e = 0
    OBVIOUS
  <2> QED
    BY <1>2, <2>1
<1>4. ASSUME NEW k \in 1..n, k - 1 \in S PROVE k \in S
  <2> DEFINE i0 == k - 1
             u == f[i0]
             x == A(i0)
             y == i0 * e
  <2>1. i0 \in 0..(n - 1) /\ i0 \in 0..n /\ i0 + 1 = k /\ k \in 0..n
    OBVIOUS
  <2>2. u \in 0..e /\ A(k) = x + u
    <3> HIDE DEF i0
    <3> QED
      BY <1>2, <2>1
  <2>3. x \in 0..y
    BY <1>4
  <2>4. y \in Nat
    <3> HIDE DEF i0
    <3>1. i0 \in Nat
      BY <2>1
    <3> QED
      BY <3>1, SMTT(30)
  <2>5. k * e = y + e
    BY SMTT(30)
  <2> HIDE DEF u, x, y, i0
  <2>6. x + u \in 0..(y + e)
    BY <2>2, <2>3, <2>4
  <2> QED
    BY <2>1, <2>2, <2>5, <2>6
<1>5. 0..n \subseteq S
  <2> HIDE DEF S
  <2> QED
    BY <1>3, <1>4, UpTo
<1>6. n \in S
  BY <1>5
<1> QED
  BY <1>6 DEF A

LEMMA ProductRange ==
  ASSUME NEW e \in Nat, NEW h \in Nat, NEW u \in 0..e, NEW v \in 0..h
  PROVE  u * v \in 0..(e * h)
<1>1. u * v \in Nat /\ u * v <= u * h
  BY SMTT(30)
<1>2. u * h \in Nat /\ u * h <= e * h
  BY SMTT(30)
<1>3. e * h \in Nat
  BY SMTT(30)
<1> QED
  BY <1>1, <1>2, <1>3

(* Terms that are zero from m on add nothing. *)
LEMMA SumsTail ==
  ASSUME NEW n \in Nat, NEW f, \A j \in 0..(n - 1) : f[j] \in Int,
         NEW m \in 0..n, \A j \in m..(n - 1) : f[j] = 0
  PROVE  SumOf(f, n) = SumOf(f, m)
<1> DEFINE A(k) == SumOf(f, k)
           S == {k \in 0..(n - m) : A(m + k) = A(m)}
<1>1. (\A k \in 0..(n - 1) : A(k + 1) = A(k) + f[k]) /\ \A k \in 0..n : A(k) \in Int
  BY SumsStep
<1> HIDE DEF A
<1>2. 0 \in S /\ n - m \in Nat
  BY <1>1
<1>3. ASSUME NEW k \in 1..(n - m), k - 1 \in S PROVE k \in S
  <2> DEFINE i == m + (k - 1)
  <2>1. i \in 0..(n - 1) /\ i \in m..(n - 1) /\ i + 1 = m + k /\ i \in 0..n /\ k \in 0..(n - m)
    OBVIOUS
  <2>2. A(i) = A(m)
    BY <1>3
  <2> HIDE DEF i
  <2>3. A(i + 1) = A(i) + f[i] /\ f[i] = 0 /\ A(i) \in Int
    BY <1>1, <2>1
  <2>4. A(i + 1) = A(m)
    BY <2>2, <2>3
  <2> QED
    BY <2>1, <2>4
<1>4. 0..(n - m) \subseteq S
  <2> HIDE DEF S
  <2> QED
    BY <1>2, <1>3, UpTo
<1>5. n - m \in S /\ m + (n - m) = n
  BY <1>2, <1>4
<1> QED
  BY <1>5 DEF A

(* Sums whose terms differ in one place. *)
SumsDiffer(f, g, k, n) ==
  \A j \in 0..(n - 1) : f[j] \in Int /\ g[j] \in Int /\ (j # k => f[j] = g[j])

LEMMA SumsChange ==
  ASSUME NEW n \in Nat, NEW f, NEW g, NEW k \in 0..(n - 1), SumsDiffer(f, g, k, n)
  PROVE  SumOf(g, n) = SumOf(f, n) + (g[k] - f[k])
<1> DEFINE A(m) == SumOf(f, m)
           B(m) == SumOf(g, m)
           d == g[k] - f[k]
           S == {m \in 0..n : B(m) = A(m) + (IF m > k THEN d ELSE 0)}
<1>1. \A j \in 0..(n - 1) : f[j] \in Int /\ g[j] \in Int /\ (j # k => f[j] = g[j])
  BY DEF SumsDiffer
<1>2. A(0) = 0 /\ (\A m \in 0..(n - 1) : A(m + 1) = A(m) + f[m]) /\ \A m \in 0..n : A(m) \in Int
  BY <1>1, SumsStep
<1>3. B(0) = 0 /\ (\A m \in 0..(n - 1) : B(m + 1) = B(m) + g[m]) /\ \A m \in 0..n : B(m) \in Int
  BY <1>1, SumsStep
<1>4. d \in Int
  BY <1>1
<1> HIDE DEF A, B
<1>5. 0 \in S
  BY <1>2, <1>3
<1>6. ASSUME NEW m \in 1..n, m - 1 \in S PROVE m \in S
  <2> DEFINE i == m - 1
             u == f[i]
             v == g[i]
             x == A(i)
             y == B(i)
  <2>1. i \in 0..(n - 1) /\ i \in 0..n /\ i + 1 = m /\ m \in 0..n
    OBVIOUS
  <2>2. y = x + (IF i > k THEN d ELSE 0)
    BY <1>6
  <2>3. /\ u \in Int /\ v \in Int /\ x \in Int /\ y \in Int
        /\ A(m) = x + u /\ B(m) = y + v
        /\ i # k => u = v
        /\ i = k => v - u = d
    <3> HIDE DEF i
    <3> QED
      BY <1>1, <1>2, <1>3, <2>1
  <2> HIDE DEF i, u, v, x, y, d
  <2>4. CASE i = k
    <3>1. ~(i > k) /\ m > k
      BY <2>1, <2>4
    <3>2. y = x /\ v = u + d
      BY <1>4, <2>2, <2>3, <2>4, <3>1
    <3>3. B(m) = A(m) + d
      BY <1>4, <2>3, <3>2
    <3> QED
      BY <2>1, <3>1, <3>3
  <2>5. CASE i > k
    <3>1. m > k /\ i # k
      BY <2>1, <2>5
    <3>2. y = x + d /\ v = u
      BY <2>2, <2>3, <2>5, <3>1
    <3>3. B(m) = A(m) + d
      BY <1>4, <2>3, <3>2
    <3> QED
      BY <2>1, <3>1, <3>3
  <2>6. CASE i < k
    <3>1. ~(m > k) /\ i # k /\ ~(i > k)
      BY <2>1, <2>6
    <3>2. y = x /\ v = u
      BY <2>2, <2>3, <3>1
    <3>3. B(m) = A(m) + 0
      BY <2>3, <3>2
    <3> QED
      BY <2>1, <3>1, <3>3
  <2> QED
    BY <2>1, <2>4, <2>5, <2>6
<1>7. 0..n \subseteq S
  <2> HIDE DEF S
  <2> QED
    BY <1>5, <1>6, UpTo
<1>8. n \in S /\ n > k
  BY <1>7
<1> QED
  BY <1>8 DEF A, B

(* A sum read backwards. *)
Reversed(f, g, n) == \A j \in 0..(n - 1) : f[j] \in Int /\ g[j] = f[(n - 1) - j]

LEMMA SumsReversed ==
  ASSUME NEW n \in Nat, NEW f, NEW g, Reversed(f, g, n)
  PROVE  SumOf(g, n) = SumOf(f, n)
<1> DEFINE A(m) == SumOf(f, m)
           B(m) == SumOf(g, m)
           S == {m \in 0..n : A(n) = A(n - m) + B(m)}
<1>1. /\ \A j \in 0..(n - 1) : f[j] \in Int
      /\ \A j \in 0..(n - 1) : g[j] = f[(n - 1) - j]
  BY DEF Reversed
<1>2. \A j \in 0..(n - 1) : g[j] \in Int
  <2> TAKE j \in 0..(n - 1)
  <2>1. (n - 1) - j \in 0..(n - 1)
    OBVIOUS
  <2> QED
    BY <1>1, <2>1
<1>3. A(0) = 0 /\ (\A m \in 0..(n - 1) : A(m + 1) = A(m) + f[m]) /\ \A m \in 0..n : A(m) \in Int
  BY <1>1, SumsStep
<1>4. B(0) = 0 /\ (\A m \in 0..(n - 1) : B(m + 1) = B(m) + g[m]) /\ \A m \in 0..n : B(m) \in Int
  BY <1>2, SumsStep
<1> HIDE DEF A, B
<1>5. 0 \in S
  <2>1. n - 0 = n /\ n \in 0..n
    OBVIOUS
  <2> QED
    BY <1>3, <1>4, <2>1
<1>6. ASSUME NEW m \in 1..n, m - 1 \in S PROVE m \in S
  <2> DEFINE i == m - 1
             k == n - m
             u == f[k]
  <2>1. i \in 0..(n - 1) /\ i \in 0..n /\ i + 1 = m /\ m \in 0..n /\ k \in 0..(n - 1)
        /\ k \in 0..n /\ k + 1 = n - i /\ (n - 1) - i = k
    OBVIOUS
  <2>2. A(n) = A(n - i) + B(i)
    BY <1>6
  <2> HIDE DEF i, k
  <2>3. g[i] = u /\ u \in Int
    BY <1>1, <2>1
  <2>4. A(k + 1) = A(k) + u /\ A(k) \in Int
    BY <1>3, <2>1
  <2>5. B(i + 1) = B(i) + u /\ B(i) \in Int
    BY <1>4, <2>1, <2>3
  <2> HIDE DEF u
  <2>6. A(n) = A(k) + B(m)
    BY <2>1, <2>2, <2>3, <2>4, <2>5
  <2> QED
    BY <2>1, <2>6 DEF k
<1>7. 0..n \subseteq S
  <2> HIDE DEF S
  <2> QED
    BY <1>5, <1>6, UpTo
<1>8. n \in S /\ n - n = 0 /\ n \in 0..n
  BY <1>7
<1>9. A(n) = A(0) + B(n) /\ B(n) \in Int
  BY <1>4, <1>8
<1> QED
  BY <1>3, <1>9 DEF A, B

(* The digits of a number stand for it. *)
LEMMA WeightedOfNumber ==
  ASSUME NEW m \in Nat \ {0}, NEW n \in Nat, NEW x \in Nat, x < PowerOf(m, n), NEW d,
         \A j \in 0..(n - 1) : d[j] = (x \div PowerOf(m, j)) % m
  PROVE  /\ \A j \in 0..(n - 1) : d[j] \in 0..(m - 1)
         /\ Weighted(d, m, n) = x
<1> DEFINE P(k) == PowerOf(m, k)
           H(k) == x \div P(k)
           A(k) == Weighted(d, m, k)
           S == {k \in 0..n : x = A(k) + P(k) * H(k)}
<1>1. m \in Nat /\ m > 0
  OBVIOUS
<1>2. P(0) = 1 /\ \A k \in Nat : P(k) \in Nat /\ P(k) > 0 /\ P(k + 1) = m * P(k)
  BY PowersStep
<1> HIDE DEF P
<1>3. ASSUME NEW k \in Nat
      PROVE  /\ H(k) \in Nat /\ H(k) % m \in 0..(m - 1)
             /\ H(k) = m * H(k + 1) + (H(k) % m)
  <2> DEFINE w == P(k)
             y == H(k)
  <2>1. w \in Nat /\ w > 0 /\ P(k + 1) = m * w
    BY <1>2
  <2>2. H(k + 1) = x \div (m * w)
    BY <2>1
  <2>3. y \in Nat /\ y = x \div w
    <3> HIDE DEF w
    <3>1. x \div w \in Nat
      BY <2>1, NatDivision
    <3> QED
      BY <3>1 DEF w
  <2> HIDE DEF w, H
  <2>4. H(k + 1) = y \div m
    BY <1>1, <2>1, <2>2, <2>3, QuotientOfQuotient
  <2> HIDE DEF y
  <2>5. y = m * (y \div m) + (y % m) /\ y % m \in 0..(m - 1)
    BY <1>1, <2>3, NatDivision
  <2> QED
    BY <2>3, <2>4, <2>5 DEF y
<1>4. ASSUME NEW j \in 0..(n - 1) PROVE d[j] \in 0..(m - 1) /\ d[j] = H(j) % m
  <2>1. j \in Nat
    OBVIOUS
  <2>2. d[j] = H(j) % m
    BY DEF P
  <2> HIDE DEF H
  <2> QED
    BY <1>3, <2>1, <2>2
<1>5. A(0) = 0 /\ (\A k \in 0..(n - 1) : A(k + 1) = A(k) + d[k] * P(k)) /\ \A k \in 0..n : A(k) \in Int
  <2>1. \A j \in 0..(n - 1) : d[j] \in Int
    BY <1>1, <1>4
  <2> QED
    BY <2>1, WeightedStep DEF P
<1> DEFINE z == 0
           one == 1
<1>6. H(0) = x
  <2>1. one \in Nat /\ one > 0 /\ z \in 0..(one - 1) /\ x = one * x + z /\ P(0) = one /\ x \in Int
    BY <1>2
  <2> HIDE DEF one, z
  <2>2. x \div one = x
    BY <2>1, DivisionUnique
  <2> QED
    BY <2>1, <2>2
<1>7. H(n) = 0
  <2> DEFINE w == P(n)
  <2>1. w \in Nat /\ x < w /\ w > 0
    BY <1>2 DEF P
  <2> HIDE DEF w
  <2>2. x = w * z + x /\ x \in 0..(w - 1) /\ x \in Int /\ z \in Int /\ z = 0
    BY <2>1
  <2> HIDE DEF z
  <2>3. x \div w = z
    BY <2>1, <2>2, DivisionUnique
  <2> QED
    BY <2>2, <2>3 DEF w
<1> HIDE DEF A, H
<1>8. 0 \in S
  <2>1. 1 * x = x /\ 0 + x = x
    OBVIOUS
  <2> QED
    BY <1>2, <1>5, <1>6, <2>1
<1>9. ASSUME NEW k \in 1..n, k - 1 \in S PROVE k \in S
  <2> DEFINE i == k - 1
             y == A(i)
             w == P(i)
             h == H(i)
             g == H(k)
             u == d[i]
  <2>1. i \in 0..(n - 1) /\ i \in 0..n /\ i + 1 = k /\ k \in 0..n /\ i \in Nat /\ k \in Nat
    OBVIOUS
  <2>2. x = y + w * h
    BY <1>9
  <2>3. /\ y \in Int /\ w \in Int /\ h \in Int /\ g \in Int /\ u \in Int
        /\ A(k) = y + u * w /\ P(k) = m * w /\ h = m * g + u
    <3> HIDE DEF i
    <3>1. u \in 0..(m - 1) /\ u = h % m
      BY <1>4, <2>1
    <3>2. A(i + 1) = y + u * w /\ y \in Int
      BY <1>5, <2>1
    <3>3. P(i + 1) = m * w /\ w \in Nat
      BY <1>2, <2>1
    <3>4. h \in Nat /\ h = m * H(i + 1) + (h % m)
      BY <1>3, <2>1
    <3>5. g \in Nat
      BY <1>3, <2>1
    <3> QED
      BY <1>1, <2>1, <3>1, <3>2, <3>3, <3>4, <3>5
  <2> HIDE DEF i, y, w, h, g, u
  <2>4. y + w * (m * g + u) = (y + u * w) + (m * w) * g
    BY <2>3, SMTT(30)
  <2>5. x = A(k) + P(k) * g
    BY <2>2, <2>3, <2>4
  <2> QED
    BY <2>1, <2>5 DEF g
<1>10. 0..n \subseteq S
  <2> HIDE DEF S
  <2> QED
    BY <1>8, <1>9, UpTo
<1>11. x = A(n) + P(n) * 0 /\ n \in 0..n
  BY <1>7, <1>10
<1>12. x = A(n)
  <2>1. P(n) \in Nat /\ A(n) \in Int
    BY <1>2, <1>5, <1>11
  <2> QED
    BY <1>11, <2>1
<1> QED
  BY <1>4, <1>12 DEF A
===============================================================================
