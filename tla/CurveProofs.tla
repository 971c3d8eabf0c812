------------------------------ MODULE CurveProofs ------------------------------
(***************************************************************************)
(* Lemmas about Curve, for every curve that the assumptions admit: the     *)
(* multiples of the base point as a cyclic group; square roots and the two encodings, which decode inverts; the    *)
(* equation that ecdsa.rs's verify tests, in the coordinates it tests it   *)
(* in, against the standard's; and the nonce that a signature's equation   *)
(* gives back.  SchemeProofs uses them.                                    *)
(***************************************************************************)
EXTENDS Curve, ArithmeticLemmas

(* What the assumptions say of the sizes of the parameters. *)
LEMMA Sizes ==
  /\ P \in Nat /\ B \in Nat /\ Order \in Nat /\ Limit \in Nat
  /\ 3 <= Order /\ Order < P /\ P < Limit /\ Limit < 2 * Order /\ Order % 2 = 1
BY CurveAssumption

-------------------------------------------------------------------------------
(* The table of multiples is what its recursion says. *)
LEMMA MultipleUnfolded ==
  /\ Multiple[0] = None
  /\ \A m \in 1..(Order - 1) : Multiple[m] = GroupAdd(Multiple[m - 1], <<Gx, Gy>>)
  /\ \A m \in 0..(Order - 1) : Multiple[m] \in Group
<1> DEFINE n == Order - 1
           Step(v) == GroupAdd(v, <<Gx, Gy>>)
           F == [m \in 1..n |-> [v \in Group |-> Step(v)]]
           body(g) == [m \in 0..n |-> IF m = 0 THEN None ELSE Step(g[m - 1])]
           s == CHOOSE g : g = body(g)
           h == Unfolded(n, Group, None, F)
<1>1. Multiple = s
  BY DEF Multiple
<1>2. None \in Group /\ n \in Nat
  BY Sizes DEF Group
<1>3. \A v \in Group : Step(v) \in Group
  BY GroupAssumption DEF Group
<1> HIDE DEF n, Step
<1>4. F \in [1..n -> [Group -> Group]]
  BY <1>3
<1>5. h \in [0..n -> Group] /\ h[0] = None /\ \A m \in 1..n : h[m] = F[m][h[m - 1]]
  <2> HIDE DEF F
  <2> QED
    BY <1>2, <1>4, Unfolding
<1> HIDE DEF h
<1>6. \A m \in 1..n : h[m] = Step(h[m - 1])
  <2> TAKE m \in 1..n
  <2>1. h[m - 1] \in Group /\ h[m] = F[m][h[m - 1]]
    BY <1>2, <1>5
  <2>2. F[m] = [v \in Group |-> Step(v)]
    OBVIOUS
  <2> QED
    BY <2>1, <2>2
<1>7. h = body(h)
  BY <1>5, <1>6
<1>8. s = body(s)
  <2> HIDE DEF body
  <2> QED
    BY <1>7
<1> HIDE DEF s
<1>9. s[0] = None /\ \A m \in 1..n : s[m] = Step(s[m - 1])
  <2>1. \A m \in 0..n : s[m] = IF m = 0 THEN None ELSE Step(s[m - 1])
    BY <1>8, Zenon
  <2> QED
    BY <1>2, <2>1
<1> DEFINE S == {m \in 0..n : s[m] \in Group}
<1>10. 0 \in S /\ \A m \in 1..n : m - 1 \in S => m \in S
  BY <1>2, <1>3, <1>9
<1>11. 0..n \subseteq S
  <2> HIDE DEF S
  <2> QED
    BY <1>2, <1>10, UpTo
<1> QED
  BY <1>1, <1>9, <1>11 DEF n, Step

(* The points of the curve are pairs of field elements, which None is not. *)
LEMMA PointFacts ==
  /\ None \notin CurvePoints
  /\ \A pt \in CurvePoints : /\ pt[1] \in Field /\ pt[2] \in Field
                             /\ pt = <<pt[1], pt[2]>> /\ IsOnCurve(pt[1], pt[2])
  /\ \A x, y \in Field : IsOnCurve(x, y) => <<x, y>> \in CurvePoints
<1>1. CurvePoints = {pt \in Field \X Field : IsOnCurve(pt[1], pt[2])}
  BY GroupAssumption
<1>2. None \notin Field \X Field
  BY DEF None
<1> QED
  BY <1>1, <1>2

(* Multiples add like numbers modulo the order: by induction on the second. *)
LEMMA MultiplesAdd ==
  ASSUME NEW a \in 0..(Order - 1), NEW b \in 0..(Order - 1)
  PROVE  GroupAdd(Multiple[a], Multiple[b]) = Multiple[(a + b) % Order]
<1> DEFINE G == <<Gx, Gy>>
           S == {c \in 0..(Order - 1) :
                   GroupAdd(Multiple[a], Multiple[c]) = Multiple[(a + c) % Order]}
<1>1. 0 \in S
  <2>1. GroupAdd(Multiple[a], None) = Multiple[a]
    BY DEF GroupAdd
  <2>2. (a + 0) % Order = a
    BY Sizes
  <2> QED
    BY <2>1, <2>2, MultipleUnfolded, Sizes
<1>2. ASSUME NEW c \in 1..(Order - 1), c - 1 \in S PROVE c \in S
  <2> DEFINE d == (a + (c - 1)) % Order
  <2>1. /\ Multiple[c] = GroupAdd(Multiple[c - 1], G)
        /\ Multiple[a] \in Group /\ Multiple[c - 1] \in Group /\ G \in Group
    <3>1. c - 1 \in 0..(Order - 1)
      BY Sizes
    <3>2. G \in Group
      BY GroupAssumption DEF Group
    <3> QED
      BY <3>1, <3>2, MultipleUnfolded
  <2>2. GroupAdd(Multiple[a], Multiple[c]) = GroupAdd(GroupAdd(Multiple[a], Multiple[c - 1]), G)
    <3>1. \A p, q \in Group : GroupAdd(GroupAdd(p, q), G) = GroupAdd(p, GroupAdd(q, G))
      BY GroupAssumption
    <3> HIDE DEF G
    <3> QED
      BY <2>1, <3>1
  <2>3. GroupAdd(Multiple[a], Multiple[c]) = GroupAdd(Multiple[d], G)
    BY <1>2, <2>2
  <2>4. d \in 0..(Order - 1) /\ (a + c) % Order = IF d = Order - 1 THEN 0 ELSE d + 1
    BY Sizes
  <2> HIDE DEF d
  <2>5. CASE d = Order - 1
    BY <2>3, <2>4, <2>5, GroupAssumption, MultipleUnfolded
  <2>6. CASE d # Order - 1
    <3>1. d + 1 \in 1..(Order - 1) /\ (d + 1) - 1 = d
      BY <2>4, <2>6, Sizes
    <3>2. Multiple[d + 1] = GroupAdd(Multiple[d], G)
      BY <3>1, MultipleUnfolded
    <3> QED
      BY <2>3, <2>4, <2>6, <3>2
  <2> QED
    BY <2>5, <2>6
<1>3. 0..(Order - 1) \subseteq S
  <2>1. Order - 1 \in Nat
    BY Sizes
  <2> HIDE DEF S
  <2> QED
    BY <1>1, <1>2, <2>1, UpTo
<1> QED
  BY <1>3

(* No two multiples below the order are the same point, so that a point has one
   logarithm. *)
LEMMA MultiplesDiffer ==
  ASSUME NEW a \in 0..(Order - 1), NEW b \in 0..(Order - 1), Multiple[a] = Multiple[b]
  PROVE  a = b
<1>1. SUFFICES ASSUME NEW c \in 0..(Order - 1), NEW d \in 0..(Order - 1),
                      Multiple[c] = Multiple[d], c < d
               PROVE  FALSE
  BY Sizes
<1>2. CASE c = 0
  BY <1>1, <1>2, MultipleUnfolded, PointFacts, Sizes DEF CurvePoints
<1>3. CASE c # 0
  <2> DEFINE e == Order - c
  <2>1. e \in 0..(Order - 1) /\ (c + e) % Order = 0
        /\ (d + e) % Order = d - c /\ d - c \in 1..(Order - 1)
    BY <1>1, <1>3, Sizes
  <2> HIDE DEF e
  <2>2. Multiple[0] = Multiple[d - c]
    BY <1>1, <2>1, MultiplesAdd
  <2> QED
    BY <2>1, <2>2, MultipleUnfolded, PointFacts DEF CurvePoints
<1> QED
  BY <1>2, <1>3

(* A multiple of the base point is a point of the curve, and Log finds its scalar. *)
LEMMA Logarithm ==
  ASSUME NEW m \in 1..(Order - 1)
  PROVE  Multiple[m] \in CurvePoints /\ Log[Multiple[m]] = m
<1>1. Multiple[m] \in CurvePoints
  BY DEF CurvePoints
<1>2. Log[Multiple[m]] = CHOOSE l \in 1..(Order - 1) : Multiple[l] = Multiple[m]
  BY <1>1 DEF Log
<1>3. \A l \in 1..(Order - 1) : Multiple[l] = Multiple[m] => l = m
  BY MultiplesDiffer, Sizes
<1> QED
  BY <1>1, <1>2, <1>3

(* The opposite of a multiple: the same x, and y negated. *)
LEMMA OppositeMultiple ==
  ASSUME NEW m \in 1..(Order - 1)
  PROVE  /\ Order - m \in 1..(Order - 1)
         /\ Multiple[Order - m][1] = Multiple[m][1]
         /\ Multiple[Order - m][2] = FNeg(Multiple[m][2])
<1>1. /\ Order - m \in 1..(Order - 1) /\ ((Order - m) + m) % Order = 0
      /\ Order - m \in 0..(Order - 1) /\ m \in 0..(Order - 1)
  BY Sizes
<1>2. GroupAdd(Multiple[Order - m], Multiple[m]) = None
  BY <1>1, MultiplesAdd, MultipleUnfolded
<1>3. Multiple[m] # None /\ Multiple[Order - m] # None
  BY <1>1, PointFacts DEF CurvePoints
<1>4. \A x, y : <<x, y>> # None
  BY DEF None
<1> QED
  BY <1>1, <1>2, <1>3, <1>4 DEF GroupAdd
-------------------------------------------------------------------------------
(* Residues modulo p, in the operations of all the fields: results are residues, and
   the negative of a, which is p - a unless a is zero, has the square of a. *)
LEMMA Residues ==
  ASSUME NEW p \in Nat, p > 0
  PROVE  /\ \A a, b \in 0..(p - 1) : /\ (a + b) % p \in 0..(p - 1)
                                     /\ (a + (p - b)) % p \in 0..(p - 1)
                                     /\ (a * b) % p \in 0..(p - 1)
         /\ \A a \in 0..(p - 1) : (0 + (p - a)) % p = IF a = 0 THEN 0 ELSE p - a
<1>1. \A x \in Int : x % p \in 0..(p - 1)
  BY Division
<1>2. ASSUME NEW a \in 0..(p - 1), NEW b \in 0..(p - 1)
      PROVE  a * b \in Int /\ a + b \in Int /\ a + (p - b) \in Int
  OBVIOUS
<1>3. ASSUME NEW a \in 0..(p - 1) PROVE (0 + (p - a)) % p = IF a = 0 THEN 0 ELSE p - a
  <2> DEFINE c == 0 + (p - a)
  <2>1. c \in Int /\ c = p - a
    OBVIOUS
  <2>2. CASE a = 0
    <3>1. c = p * 1 + 0 /\ 0 \in 0..(p - 1)
      BY <2>2
    <3> HIDE DEF c
    <3>2. c % p = 0
      BY <2>1, <3>1, DivisionUnique
    <3> QED
      BY <2>2, <3>2 DEF c
  <2>3. CASE a # 0
    <3>1. c \in 0..(p - 1)
      BY <2>3
    <3> HIDE DEF c
    <3>2. c % p = c
      BY <3>1, Remainder
    <3> QED
      BY <2>1, <2>3, <3>2 DEF c
  <2> QED
    BY <2>2, <2>3
<1> QED
  BY <1>1, <1>2, <1>3

(* p - a has the square of a modulo p. *)
LEMMA SquareOfOpposite ==
  ASSUME NEW p \in Nat, p > 0, NEW a \in 0..(p - 1)
  PROVE  ((p - a) * (p - a)) % p = (a * a) % p
<1> DEFINE c == (p - a) * (p - a)
           d == a * a
           k == p - 2 * a
<1>1. c = d + k * p /\ c \in Int /\ d \in Int /\ k \in Int
  BY SMTT(30)
<1> HIDE DEF c, d, k
<1>2. c % p = d % p
  BY <1>1, SameRemainder
<1> QED
  BY <1>2 DEF c, d

(* The operations of the field answer with field elements. *)
LEMMA FieldClosed ==
  /\ \A a, b \in Field : /\ FAdd(a, b) \in Field /\ FSub(a, b) \in Field
                         /\ FMul(a, b) \in Field /\ FSqr(a) \in Field
  /\ \A a \in Field : FNeg(a) = IF a = 0 THEN 0 ELSE P - a
<1>1. P \in Nat /\ P > 0
  BY Sizes
<1> QED
  BY <1>1, Residues DEF Field, FAdd, FSub, FMul, FSqr, FNeg

(* So does the right side of the curve equation. *)
LEMMA RhsInField ==
  ASSUME NEW x \in Field
  PROVE  CurveRhs(x) \in Field
<1> DEFINE u == FSub(FMul(FSqr(x), x), FAdd(FAdd(x, x), x))
<1>1. u \in Field
  BY FieldClosed
<1>2. CurveRhs(x) = (u + B) % P
  BY DEF CurveRhs, FAdd
<1> HIDE DEF u
<1>3. u + B \in Int /\ P \in Nat /\ P > 0
  BY <1>1, Sizes DEF Field
<1> QED
  BY <1>2, <1>3, Division DEF Field

(* Every power in the table is a field element. *)
LEMMA PowerInField ==
  ASSUME NEW a \in Field
  PROVE  Power[a][P - 2] \in Field /\ Power[a][(P + 1) \div 4] \in Field
<1> DEFINE F == [e \in 1..P |-> [v \in Field |-> FMul(a, v)]]
           body(g) == [e \in 0..P |-> IF e = 0 THEN 1 ELSE FMul(a, g[e - 1])]
           s == CHOOSE g : g = body(g)
           h == Unfolded(P, Field, 1, F)
<1>1. Power[a] = [e \in {P - 2, (P + 1) \div 4} |-> s[e]]
  BY DEF Power
<1>2. 1 \in Field /\ P \in Nat
  BY Sizes DEF Field
<1>3. F \in [1..P -> [Field -> Field]]
  BY FieldClosed
<1>4. h \in [0..P -> Field] /\ h[0] = 1 /\ \A e \in 1..P : h[e] = F[e][h[e - 1]]
  <2> HIDE DEF F
  <2> QED
    BY <1>2, <1>3, Unfolding
<1> HIDE DEF h
<1>5. \A e \in 1..P : h[e] = FMul(a, h[e - 1])
  <2> TAKE e \in 1..P
  <2>1. h[e - 1] \in Field /\ h[e] = F[e][h[e - 1]]
    BY <1>2, <1>4
  <2>2. F[e] = [v \in Field |-> FMul(a, v)]
    OBVIOUS
  <2> QED
    BY <2>1, <2>2
<1>6. h = body(h)
  BY <1>4, <1>5
<1>7. s = body(s)
  <2> HIDE DEF body
  <2> QED
    BY <1>6
<1> HIDE DEF s
<1>8. s[0] = 1 /\ \A e \in 1..P : s[e] = FMul(a, s[e - 1])
  <2>1. \A e \in 0..P : s[e] = IF e = 0 THEN 1 ELSE FMul(a, s[e - 1])
    BY <1>7, Zenon
  <2> QED
    BY <1>2, <2>1
<1> DEFINE S == {e \in 0..P : s[e] \in Field}
<1>9. 0 \in S /\ \A e \in 1..P : e - 1 \in S => e \in S
  BY <1>2, <1>8, FieldClosed
<1>10. 0..P \subseteq S
  <2> HIDE DEF S
  <2> QED
    BY <1>2, <1>9, UpTo
<1>11. P - 2 \in 0..P /\ (P + 1) \div 4 \in 0..P
  BY Sizes
<1> QED
  BY <1>1, <1>10, <1>11

(* A number and its negative have one square. *)
LEMMA SquareOfNegative ==
  ASSUME NEW a \in Field
  PROVE  FNeg(a) \in Field /\ FSqr(FNeg(a)) = FSqr(a)
<1>1. a \in 0..(P - 1) /\ P \in Nat /\ P > 0 /\ FNeg(a) = IF a = 0 THEN 0 ELSE P - a
  BY FieldClosed, Sizes DEF Field
<1>2. ((P - a) * (P - a)) % P = (a * a) % P
  BY <1>1, SquareOfOpposite
<1> QED
  BY <1>1, <1>2 DEF FSqr, FMul, Field

(* FSqrt answers with a root, or with P. *)
LEMMA RootFacts ==
  ASSUME NEW a \in Field, FSqrt(a) # P
  PROVE  FSqrt(a) \in Field /\ FSqr(FSqrt(a)) = a
<1>1. CASE a = 0
  <2>1. (0 * 0) % P = 0
    BY Sizes
  <2> QED
    BY <1>1, <2>1, Sizes DEF FSqrt, FSqr, FMul, Field
<1>2. CASE a # 0
  BY <1>2, PowerInField DEF FSqrt
<1> QED
  BY <1>1, <1>2

(* The order is odd: no point is its own opposite. *)
LEMMA NoHalves ==
  ASSUME NEW pt \in CurvePoints
  PROVE  pt[2] # 0
<1>1. SUFFICES ASSUME pt[2] = 0 PROVE FALSE
  OBVIOUS
<1>2. PICK m \in 1..(Order - 1) : pt = Multiple[m]
  BY DEF CurvePoints
<1>3. /\ Order - m \in 1..(Order - 1)
      /\ Multiple[Order - m][1] = pt[1] /\ Multiple[Order - m][2] = FNeg(pt[2])
  BY <1>2, OppositeMultiple
<1>4. FNeg(pt[2]) = 0
  BY <1>1, FieldClosed, Sizes DEF Field
<1>5. Multiple[Order - m] = Multiple[m]
  <2>1. Multiple[Order - m] \in CurvePoints
    BY <1>3 DEF CurvePoints
  <2> QED
    BY <1>1, <1>2, <1>3, <1>4, <2>1, PointFacts
<1>6. Order - m = m
  <2>1. Order - m \in 0..(Order - 1) /\ m \in 0..(Order - 1)
    BY <1>3
  <2> QED
    BY <1>5, <2>1, MultiplesDiffer
<1> QED
  BY <1>6, Sizes
-------------------------------------------------------------------------------
(* P is odd: of a number and its opposite one is odd. *)
LEMMA Opposites ==
  ASSUME NEW y \in Int
  PROVE  (P - y) % 2 = 1 <=> ~(y % 2 = 1)
<1>1. P % 2 = 1 /\ P \in Int
  BY CurveAssumption, Sizes
<1> QED
  BY <1>1

(* What Decompress finds is a point of the curve whose y has the parity asked for... *)
LEMMA DecompressFinds ==
  ASSUME NEW x \in Nat, NEW odd \in BOOLEAN, Decompress(x, odd) # None
  PROVE  /\ Decompress(x, odd) \in CurvePoints
         /\ Decompress(x, odd)[1] = x
         /\ (Decompress(x, odd)[2] % 2 = 1) <=> odd
<1> DEFINE y == FSqrt(CurveRhs(x))
           v == IF (y % 2 = 1) # odd THEN FNeg(y) ELSE y
<1>1. x \in Field /\ y # P /\ Decompress(x, odd) = <<x, v>>
  <2>1. ~(x >= P) /\ y # P /\ Decompress(x, odd) = <<x, v>>
    BY Zenon DEF Decompress
  <2> QED
    BY <2>1, Sizes DEF Field
<1>2. y \in Field /\ FSqr(y) = CurveRhs(x)
  BY <1>1, RhsInField, RootFacts
<1>3. FNeg(y) \in Field /\ FSqr(FNeg(y)) = FSqr(y) /\ FNeg(y) = IF y = 0 THEN 0 ELSE P - y
  BY <1>2, SquareOfNegative, FieldClosed
<1> HIDE DEF y
<1>4. v \in Field /\ IsOnCurve(x, v)
  BY <1>2, <1>3 DEF IsOnCurve
<1>5. <<x, v>> \in CurvePoints
  <2> HIDE DEF v
  <2> QED
    BY <1>1, <1>4, PointFacts
<1>6. y # 0
  <2>1. SUFFICES ASSUME y = 0 PROVE FALSE
    OBVIOUS
  <2>2. v = 0
    BY <1>3, <2>1
  <2>3. <<x, v>>[2] # 0
    BY <1>5, NoHalves
  <2> QED
    BY <2>2, <2>3
<1>7. P % 2 = 1 /\ y \in Int /\ 0 < y /\ y < P
  BY <1>2, <1>6, CurveAssumption, Sizes DEF Field
<1>8. (v % 2 = 1) <=> odd
  <2>1. FNeg(y) = P - y /\ ((P - y) % 2 = 1 <=> ~(y % 2 = 1))
    BY <1>3, <1>6, <1>7, Opposites
  <2>2. CASE (y % 2 = 1) # odd
    <3>1. v = P - y
      BY <2>1, <2>2
    <3>2. (y % 2 = 1) <=> ~odd
      BY <2>2
    <3> HIDE DEF v
    <3> QED
      BY <2>1, <3>1, <3>2
  <2>3. CASE (y % 2 = 1) = odd
    BY <2>3
  <2> QED
    BY <2>2, <2>3
<1> QED
  BY <1>1, <1>5, <1>8

(* ... and it finds every point of the curve. *)
LEMMA DecompressComplete ==
  ASSUME NEW pt \in CurvePoints
  PROVE  Decompress(pt[1], pt[2] % 2 = 1) = pt
<1> DEFINE y == FSqrt(CurveRhs(pt[1]))
<1>1. /\ pt[1] \in Field /\ pt[2] \in Field /\ pt = <<pt[1], pt[2]>>
      /\ FSqr(pt[2]) = CurveRhs(pt[1]) /\ pt[2] # 0
  BY PointFacts, NoHalves DEF IsOnCurve
<1>2. y \in {pt[2], FNeg(pt[2])}
  BY <1>1, FieldAssumption
<1>3. FNeg(pt[2]) = P - pt[2]
  BY <1>1, FieldClosed
<1>4. P % 2 = 1 /\ pt[2] \in Int /\ 0 < pt[2] /\ pt[2] < P /\ pt[1] < P
  BY <1>1, CurveAssumption, Sizes DEF Field
<1>5. FNeg(P - pt[2]) = pt[2]
  <2>1. P - pt[2] \in Field /\ P - pt[2] # 0 /\ P - (P - pt[2]) = pt[2]
    BY <1>4, Sizes DEF Field
  <2> DEFINE c == P - pt[2]
  <2>2. c \in Field /\ c # 0 /\ P - c = pt[2]
    BY <2>1
  <2> HIDE DEF c
  <2>3. FNeg(c) = pt[2]
    BY <2>2, FieldClosed
  <2> QED
    BY <2>3 DEF c
<1> DEFINE odd == pt[2] % 2 = 1
<1>6. Decompress(pt[1], odd)
        = IF pt[1] >= P \/ y = P THEN None
          ELSE <<pt[1], IF (y % 2 = 1) # odd THEN FNeg(y) ELSE y>>
  BY DEF Decompress
<1> HIDE DEF y
<1>7. CASE y = pt[2]
  <2>1. (y % 2 = 1) = odd /\ y # P /\ ~(pt[1] >= P)
    BY <1>4, <1>7, <1>1, Sizes DEF Field
  <2> HIDE DEF odd
  <2>2. Decompress(pt[1], odd) = <<pt[1], y>>
    BY <1>6, <2>1
  <2> QED
    BY <1>1, <1>7, <2>2 DEF odd
<1>8. CASE y = P - pt[2]
  <2>1. (y % 2 = 1) # odd /\ y # P /\ ~(pt[1] >= P)
    <3>1. y # P /\ ~(pt[1] >= P)
      BY <1>1, <1>4, <1>8, Sizes DEF Field
    <3>2. (P - pt[2]) % 2 = 1 <=> ~(pt[2] % 2 = 1)
      BY <1>4, Opposites
    <3>3. odd = (pt[2] % 2 = 1)
      OBVIOUS
    <3> HIDE DEF odd
    <3> QED
      BY <1>8, <3>1, <3>2, <3>3
  <2>2. FNeg(y) = pt[2]
    BY <1>5, <1>8
  <2> QED
    BY <1>1, <1>6, <2>1, <2>2
<1> QED
  BY <1>2, <1>3, <1>7, <1>8

(* The encodings of a point, in either form, decode to it, on both builds. *)
LEMMA EncodedDecodes ==
  ASSUME NEW pt \in CurvePoints, NEW e \in {EncodeFull(pt), EncodeHalf(pt)}
  PROVE  Decode(e) = Decoded(pt) /\ M4Decode(e) = Decoded(pt) /\ e \in Encoding
<1>1. /\ pt[1] \in Nat /\ pt[2] \in Nat /\ pt[1] < P /\ pt[2] < P
      /\ pt = <<pt[1], pt[2]>> /\ IsOnCurve(pt[1], pt[2]) /\ pt # None
  BY PointFacts, Sizes DEF Field
<1>2. CASE e = EncodeFull(pt)
  <2>1. /\ e.len = "full" /\ e.tag = 4 /\ e.x = pt[1] /\ e.y = pt[2]
        /\ e \in [len : {"full", "half", "other"}, tag : 0..7, x : Nat, y : Nat]
    BY <1>1, <1>2 DEF EncodeFull
  <2>2. e \in Encoding
    BY <1>1, <2>1, Sizes DEF Encoding
  <2> QED
    BY <1>1, <2>1, <2>2 DEF Decode, M4Decode
<1>3. CASE e = EncodeHalf(pt)
  <2>1. /\ e.len = "half" /\ e.tag = (IF pt[2] % 2 = 1 THEN 3 ELSE 2)
        /\ e.x = pt[1] /\ e.y = 0
        /\ e \in [len : {"full", "half", "other"}, tag : 0..7, x : Nat, y : Nat]
    BY <1>1, <1>3 DEF EncodeHalf
  <2>2. e \in Encoding
    BY <1>1, <2>1, Sizes DEF Encoding
  <2>3. (e.tag = 3) = (pt[2] % 2 = 1) /\ e.tag \in {2, 3}
    BY <2>1
  <2>4. Decompress(e.x, e.tag = 3) = pt
    BY <2>1, <2>3, DecompressComplete
  <2> QED
    BY <1>1, <2>1, <2>2, <2>3, <2>4 DEF Decode, M4Decode
<1> QED
  BY <1>2, <1>3

(* Nothing else decodes. *)
LEMMA DecodedIsEncoded ==
  ASSUME NEW e \in Encoding, Decode(e).ok
  PROVE  /\ Decode(e).pt \in CurvePoints
         /\ e \in {EncodeFull(Decode(e).pt), EncodeHalf(Decode(e).pt)}
<1>1. /\ e.len \in {"full", "half", "other"} /\ e.tag \in 0..7 /\ e.x \in Nat /\ e.y \in Nat
      /\ e.len = "half" => e.y = 0
      /\ e = [len |-> e.len, tag |-> e.tag, x |-> e.x, y |-> e.y]
  BY Sizes DEF Encoding
<1>2. CASE e.len = "full"
  <2>1. /\ e.tag = 4 /\ e.x < P /\ e.y < P /\ IsOnCurve(e.x, e.y)
        /\ Decode(e).pt = <<e.x, e.y>>
    BY <1>2 DEF Decode, Decoded, Refused
  <2>2. e.x \in Field /\ e.y \in Field
    BY <1>1, <2>1, Sizes DEF Field
  <2>3. <<e.x, e.y>> \in CurvePoints
    BY <2>1, <2>2, PointFacts
  <2>4. e = EncodeFull(<<e.x, e.y>>)
    BY <1>1, <1>2, <2>1 DEF EncodeFull
  <2> QED
    BY <2>1, <2>3, <2>4
<1>3. CASE e.len = "half"
  <2> DEFINE half == Decompress(e.x, e.tag = 3)
  <2>1. e.tag \in {2, 3} /\ half # None /\ Decode(e).pt = half
    BY <1>3 DEF Decode, Decoded, Refused
  <2>2. half \in CurvePoints /\ half[1] = e.x /\ ((half[2] % 2 = 1) <=> (e.tag = 3))
    BY <1>1, <2>1, DecompressFinds
  <2> HIDE DEF half
  <2>3. e.tag = IF half[2] % 2 = 1 THEN 3 ELSE 2
    BY <2>1, <2>2
  <2>4. e = EncodeHalf(half)
    BY <1>1, <1>3, <2>2, <2>3 DEF EncodeHalf
  <2> QED
    BY <2>1, <2>2, <2>4
<1>4. CASE e.len = "other"
  BY <1>4 DEF Decode, Refused
<1> QED
  BY <1>1, <1>2, <1>3, <1>4

(* The two builds accept the same encodings, and refuse with one error or another. *)
LEMMA BuildsDecodeAlike ==
  ASSUME NEW e \in Encoding
  PROVE  /\ M4Decode(e).ok = Decode(e).ok
         /\ Decode(e).ok => M4Decode(e).pt = Decode(e).pt
         /\ ~Decode(e).ok => {Decode(e).err, M4Decode(e).err} \subseteq {"BadLength", "BadPoint"}
<1>1. e.len \in {"full", "half", "other"}
  BY DEF Encoding
<1>2. CASE e.len = "full"
  BY <1>2 DEF Decode, M4Decode, Decoded, Refused
<1>3. CASE e.len = "half"
  BY <1>3 DEF Decode, M4Decode, Decoded, Refused
<1>4. CASE e.len = "other"
  BY <1>4 DEF Decode, M4Decode, Decoded, Refused
<1> QED
  BY <1>1, <1>2, <1>3, <1>4
-------------------------------------------------------------------------------
(* The pair that FIPS 186-4 accepts for the key m G. *)
Valid(m, hash, r, s) ==
  LET pt == Multiple[(SInvert(s) * (hash + r * m)) % Order]
  IN  pt # None /\ pt[1] % Order = r

(* Over every encoding of one key the standard says the same: its points of the curve are
   multiples of the base point, and a key has one logarithm. *)
LEMMA StandardIsValid ==
  ASSUME NEW m \in 1..(Order - 1), NEW e \in KeyEncodings(m), NEW hash \in Nat,
         NEW r \in 1..(Order - 1), NEW s \in 1..(Order - 1)
  PROVE  Standard(e, hash, r, s) <=> Valid(m, hash, r, s)
<1> DEFINE n == Order - 1
           Point(l, w) == Multiple[(w * (hash + r * l)) % Order]
<1>1. SInvert(s) \in 1..n /\ (SInvert(s) * s) % Order = 1
  <2>1. SInvert(s) \in 1..n /\ (s * SInvert(s)) % Order = 1
    BY ScalarAssumption DEF SMul
  <2>2. s * SInvert(s) = SInvert(s) * s
    BY <2>1
  <2> QED
    BY <2>1, <2>2
<1>2. ASSUME NEW w \in 1..n, (w * s) % Order = 1 PROVE w = SInvert(s)
  <2>1. (s * SInvert(s)) % Order = 1 /\ s \in Int /\ SInvert(s) \in Int
    BY <1>1, ScalarAssumption DEF SMul
  <2>2. Same(Order, w * s, SInvert(s) * s) /\ Same(Order, s * SInvert(s), 1)
    BY <1>1, <1>2, <2>1, Sizes DEF Same
  <2>3. w \in 0..(Order - 1) /\ SInvert(s) \in 0..(Order - 1) /\ Order \in Nat /\ Order > 0
    BY <1>1, Sizes
  <2> QED
    BY <2>1, <2>2, <2>3, CancelFactor
<1>3. ASSUME NEW l \in 1..n, e \in KeyEncodings(l) PROVE l = m
  <2>1. Multiple[l] \in CurvePoints /\ Multiple[m] \in CurvePoints
    BY DEF CurvePoints
  <2>2. Decode(e) = Decoded(Multiple[l]) /\ Decode(e) = Decoded(Multiple[m])
    BY <1>3, <2>1, EncodedDecodes DEF KeyEncodings
  <2>3. Multiple[l] = Multiple[m]
    BY <2>2 DEF Decoded
  <2>4. l \in 0..(Order - 1) /\ m \in 0..(Order - 1)
    BY Sizes
  <2> QED
    BY <2>3, <2>4, MultiplesDiffer
<1>4. Standard(e, hash, r, s)
        <=> \E l \in 1..n : e \in KeyEncodings(l)
              /\ \E w \in 1..n : (w * s) % Order = 1
                                 /\ Point(l, w) # None /\ Point(l, w)[1] % Order = r
  BY DEF Standard
<1>5. Valid(m, hash, r, s)
        <=> Point(m, SInvert(s)) # None /\ Point(m, SInvert(s))[1] % Order = r
  BY DEF Valid
<1> HIDE DEF Point
<1> QED
  BY <1>1, <1>2, <1>3, <1>4, <1>5

(* The point verify compares, from either build's scalars, is that of the standard. *)
LEMMA Combined ==
  ASSUME NEW hash \in Nat, NEW h \in Int, Same(Order, h, hash), NEW w \in Nat,
         NEW r \in Nat, NEW l \in Nat
  PROVE  (SMul(h, w) + SMul(r, w) * l) % Order = (w * (hash + r * l)) % Order
<1> DEFINE n == Order
           a == h * w
           b == r * w
           c == hash * w
           d == b * l
           e == a % n
           f == b % n
           g == f * l
<1>1. /\ n \in Nat /\ n > 0 /\ a \in Int /\ b \in Int /\ c \in Int /\ d \in Int
      /\ e \in Int /\ f \in Int /\ g \in Int
  BY Sizes, Division
<1>2. Same(n, a, c)
  <2>1. n \in Nat /\ n > 0 /\ h \in Int /\ hash \in Int /\ w \in Int /\ Same(n, h, hash)
    BY Sizes
  <2> HIDE DEF n
  <2>2. Same(n, h * w, hash * w)
    BY <2>1, SameTimes, Zenon
  <2> QED
    BY <2>2 DEF a, c
<1>3. w * (hash + r * l) = d + c
  BY SMTT(30)
<1>4. SMul(h, w) + SMul(r, w) * l = e + g
  BY DEF SMul
<1>5. Same(n, e, a) /\ Same(n, f, b)
  BY <1>1, Remainder
<1> HIDE DEF e, f, a, b, c, n
<1>6. Same(n, g, d)
  <2>1. l \in Int
    OBVIOUS
  <2>2. Same(n, f * l, b * l)
    BY <1>1, <1>5, <2>1, SameTimes, Zenon
  <2> QED
    BY <2>2 DEF g, d
<1> HIDE DEF g, d
<1>7. Same(n, e, c)
  BY <1>2, <1>5 DEF Same
<1>8. Same(n, e + g, c + g)
  BY <1>1, <1>7, SamePlus
<1>9. Same(n, g + c, d + c)
  BY <1>1, <1>6, SamePlus
<1>10. c + g = g + c
  BY <1>1
<1>11. Same(n, e + g, d + c)
  BY <1>8, <1>9, <1>10 DEF Same
<1> QED
  BY <1>3, <1>4, <1>11 DEF Same, n

(* The test without inversion, with its second candidate, finds r in the
   x-coordinate reduced modulo the order, whatever the Z. *)
LEMMA MatchesAnyZ ==
  ASSUME NEW t \in 1..(Order - 1), NEW r \in 1..(Order - 1), NEW z \in 1..(P - 1)
  PROVE  /\ ~IsIdentity(JacRep(t, z))
         /\ MatchesR(JacRep(t, z), r) <=> Multiple[t][1] % Order = r
<1> DEFINE x == Multiple[t][1]
           zz == FSqr(z)
           pt == JacRep(t, z)
<1>1. Multiple[t] \in CurvePoints
  BY DEF CurvePoints
<1>2. x \in Field /\ z \in Field /\ zz \in Field
  BY <1>1, PointFacts, FieldClosed DEF Field
<1>3. pt.x = FMul(x, zz) /\ pt.z = z /\ z # 0
  BY Sizes DEF JacRep, Pt
<1>4. ASSUME NEW c \in Field, FMul(c, zz) = FMul(x, zz) PROVE c = x
  <2> DEFINE i == FInvert(z)
             j == i * i
  <2>1. i \in Int /\ (z * i) % P = 1 /\ zz \in Int /\ P \in Nat /\ P > 1 /\ z \in Int
    BY <1>2, PowerInField, FieldAssumption, Sizes DEF FInvert, FMul, Field
  <2> HIDE DEF i
  <2>2. Same(P, zz * j, 1)
    <3> DEFINE u == z * z
               v == z * i
               one == 1
    <3>1. /\ u \in Int /\ v \in Int /\ zz = u % P /\ u * j = v * v /\ j \in Int /\ P > 0
          /\ one \in Int /\ one * v = v
      BY <2>1 DEF FSqr, FMul
    <3>2. Same(P, zz, u)
      BY <2>1, <3>1, Remainder
    <3>3. Same(P, v, one)
      BY <2>1, Remainder DEF Same
    <3> HIDE DEF u, v, zz, j, one
    <3>4. Same(P, zz * j, u * j)
      BY <2>1, <3>1, <3>2, SameTimes, Zenon
    <3>5. Same(P, v * v, one * v)
      BY <2>1, <3>1, <3>3, SameTimes, Zenon
    <3>6. Same(P, zz * j, one)
      BY <3>1, <3>3, <3>4, <3>5 DEF Same
    <3> QED
      BY <3>6 DEF one
  <2>3. c \in 0..(P - 1) /\ x \in 0..(P - 1) /\ j \in Int /\ P > 0 /\ Same(P, c * zz, x * zz)
    BY <1>2, <1>4, <2>1 DEF Field, FMul, Same
  <2> HIDE DEF j, zz, x
  <2> QED
    BY <2>1, <2>2, <2>3, CancelFactor
<1> HIDE DEF zz, x
<1>5. r \in Field /\ (r + Order < P => r + Order \in Field) /\ r + Order \in Int
  BY Sizes DEF Field
<1>6. (x % Order = r) <=> (x = r \/ x = r + Order)
  <2>1. x \in 0..(P - 1) /\ P < 2 * Order
    BY <1>2, Sizes DEF Field
  <2>2. CASE x < Order
    <3>1. x % Order = x
      BY <2>1, <2>2, Sizes, Remainder
    <3> QED
      BY <2>1, <2>2, <3>1, Sizes
  <2>3. CASE x >= Order
    <3>1. x = Order * 1 + (x - Order) /\ x - Order \in 0..(Order - 1) /\ x \in Int
      BY <2>1, <2>3, Sizes
    <3>2. x % Order = x - Order
      BY <3>1, Sizes, DivisionUnique
    <3> QED
      BY <2>1, <3>1, <3>2, Sizes
  <2> QED
    BY <2>1, <2>2, <2>3, Sizes
<1>7. FMul(r, zz) = FMul(x, zz) <=> x = r
  BY <1>4, <1>5
<1>8. /\ r + Order < Limit /\ r + Order < P
      /\ FMul(r + Order, zz) = FMul(x, zz)
      <=> x = r + Order
  <2>1. x = r + Order => r + Order < P /\ r + Order < Limit
    BY <1>2, Sizes DEF Field
  <2> QED
    BY <1>4, <1>5, <2>1
<1>9. MatchesR(pt, r) <=> \/ FMul(r, zz) = FMul(x, zz)
                          \/ /\ r + Order < Limit /\ r + Order < P
                             /\ FMul(r + Order, zz) = FMul(x, zz)
  BY <1>3 DEF MatchesR, zz
<1> HIDE DEF pt
<1>10. ~IsIdentity(pt)
  BY <1>3 DEF IsIdentity
<1>11. MatchesR(pt, r) <=> x % Order = r
  BY <1>6, <1>7, <1>8, <1>9
<1> QED
  BY <1>10, <1>11 DEF pt, x

(* One conditional subtraction reduces what is less than twice the order. *)
LEMMA ReducedOnce ==
  ASSUME NEW v \in 0..(2 * Order - 1)
  PROVE  ReduceOnce(v) = v % Order
<1>1. CASE v < Order
  BY <1>1, Sizes, Remainder DEF ReduceOnce
<1>2. CASE v >= Order
  <2>1. v = Order * 1 + (v - Order) /\ v - Order \in 0..(Order - 1) /\ v \in Int
    BY <1>2, Sizes
  <2>2. v % Order = v - Order
    BY <2>1, Sizes, DivisionUnique
  <2> QED
    BY <1>2, <2>2, Sizes DEF ReduceOnce
<1> QED
  BY <1>1, <1>2, Sizes

(* verify, on either build, accepts exactly what the standard accepts, whatever the
   Z its point ends with. *)
LEMMA VerifyAccepts ==
  ASSUME NEW e \in Encoding, NEW hash \in Bytes, NEW r \in Bytes, NEW s \in Bytes,
         NEW z \in 1..(P - 1)
  PROVE  /\ VerifyOutcome(e, hash, r, s, z).res = "Ok" <=> Standard(e, hash, r, s)
         /\ M4VerifyOutcome(e, hash, r, s, z).res = "Ok" <=> Standard(e, hash, r, s)
<1>1. CASE ~(InRange(r) /\ InRange(s))
  <2>1. ~(r \in 1..(Order - 1) /\ s \in 1..(Order - 1))
    BY <1>1, Sizes DEF InRange
  <2> QED
    BY <1>1, <2>1 DEF VerifyOutcome, M4VerifyOutcome, Standard
<1>2. CASE ~Decode(e).ok
  <2>1. /\ VerifyOutcome(e, hash, r, s, z).res # "Ok"
        /\ M4VerifyOutcome(e, hash, r, s, z).res # "Ok"
    BY <1>2, BuildsDecodeAlike DEF VerifyOutcome, M4VerifyOutcome
  <2>2. ASSUME NEW m \in 1..(Order - 1), e \in KeyEncodings(m) PROVE FALSE
    <3>1. Multiple[m] \in CurvePoints
      BY DEF CurvePoints
    <3>2. Decode(e) = Decoded(Multiple[m])
      BY <2>2, <3>1, EncodedDecodes DEF KeyEncodings
    <3> QED
      BY <1>2, <3>2 DEF Decoded
  <2> QED
    BY <2>1, <2>2 DEF Standard
<1>3. CASE InRange(r) /\ InRange(s) /\ Decode(e).ok
  <2> DEFINE pt == Decode(e).pt
             w == SInvert(s)
  <2>1. r \in 1..(Order - 1) /\ s \in 1..(Order - 1) /\ hash \in Nat /\ hash < 2 * Order
    BY <1>3, Sizes DEF InRange, Bytes
  <2>2. PICK m \in 1..(Order - 1) : pt = Multiple[m] /\ e \in KeyEncodings(m)
    <3>1. pt \in CurvePoints /\ e \in {EncodeFull(pt), EncodeHalf(pt)}
      BY <1>3, DecodedIsEncoded
    <3> QED
      BY <3>1 DEF CurvePoints, KeyEncodings
  <2>3. Log[pt] = m /\ M4Decode(e).ok /\ M4Decode(e).pt = pt
    BY <1>3, <2>2, Logarithm, BuildsDecodeAlike
  <2>4. w \in Nat /\ r \in Nat /\ m \in Nat
    BY <2>1, ScalarAssumption
  <2> DEFINE t == (w * (hash + r * m)) % Order
  <2>5. t \in 0..(Order - 1)
    <3> DEFINE u == w * (hash + r * m)
    <3>1. u \in Int
      BY <2>1, <2>4
    <3> HIDE DEF u
    <3>2. u % Order \in 0..(Order - 1)
      BY <3>1, Sizes, Remainder
    <3> QED
      BY <3>2 DEF u
  <2>6. Combination(hash, r, s, pt, z) = JacRep(t, z)
    <3>1. ReduceOnce(hash) = hash % Order /\ hash % Order \in Int /\ Same(Order, hash % Order, hash)
      BY <2>1, ReducedOnce, Remainder, Sizes
    <3> DEFINE h == ReduceOnce(hash)
    <3>2. h \in Int /\ Same(Order, h, hash)
      BY <3>1
    <3> HIDE DEF h, w
    <3>3. (SMul(h, w) + SMul(r, w) * m) % Order = (w * (hash + r * m)) % Order
      BY <2>1, <2>4, <3>2, Combined
    <3> QED
      BY <2>3, <3>3 DEF Combination, h, w
  <2>7. JacRep((SMul(hash, w) + SMul(r, w) * Log[pt]) % Order, z) = JacRep(t, z)
    <3>1. hash \in Int /\ Same(Order, hash, hash)
      BY <2>1 DEF Same
    <3> HIDE DEF w
    <3>2. (SMul(hash, w) + SMul(r, w) * m) % Order = (w * (hash + r * m)) % Order
      BY <2>1, <2>4, <3>1, Combined
    <3> QED
      BY <2>3, <3>2
  <2> DEFINE good == ~IsIdentity(JacRep(t, z)) /\ MatchesR(JacRep(t, z), r)
  <2>8. VerifyOutcome(e, hash, r, s, z).res = "Ok" <=> good
    <3> DEFINE c == Combination(hash, r, s, pt, z)
    <3>1. VerifyOutcome(e, hash, r, s, z).res = "Ok" <=> ~IsIdentity(c) /\ MatchesR(c, r)
      BY <1>3 DEF VerifyOutcome
    <3> HIDE DEF c, t
    <3>2. c = JacRep(t, z)
      BY <2>6 DEF c
    <3> QED
      BY <3>1, <3>2
  <2>9. M4VerifyOutcome(e, hash, r, s, z).res = "Ok" <=> good
    <3> DEFINE c == JacRep((SMul(hash, w) + SMul(r, w) * Log[pt]) % Order, z)
    <3>1. M4VerifyOutcome(e, hash, r, s, z).res = "Ok" <=> M4LastStep(c, r)
      BY <1>3, <2>3 DEF M4VerifyOutcome
    <3>2. c = JacRep(t, z)
      BY <2>7
    <3> HIDE DEF c, t
    <3> QED
      BY <3>1, <3>2 DEF M4LastStep
  <2>10. good <=> Valid(m, hash, r, s)
    <3>1. Valid(m, hash, r, s) <=> Multiple[t] # None /\ Multiple[t][1] % Order = r
      BY DEF Valid
    <3> HIDE DEF t
    <3>2. CASE t = 0
      <4>1. IsIdentity(JacRep(t, z))
        BY <3>2 DEF JacRep, IsIdentity, Identity, Pt
      <4>2. Multiple[t] = None
        BY <3>2, MultipleUnfolded
      <4> QED
        BY <3>1, <4>1, <4>2
    <3>3. CASE t # 0
      <4>1. t \in 1..(Order - 1)
        BY <2>5, <3>3, Sizes
      <4>2. Multiple[t] # None
        BY <4>1, PointFacts DEF CurvePoints
      <4>3. ~IsIdentity(JacRep(t, z)) /\ (MatchesR(JacRep(t, z), r) <=> Multiple[t][1] % Order = r)
        BY <2>1, <4>1, MatchesAnyZ
      <4> QED
        BY <3>1, <4>2, <4>3
    <3> QED
      BY <3>2, <3>3
  <2>11. Standard(e, hash, r, s) <=> Valid(m, hash, r, s)
    BY <2>1, <2>2, StandardIsValid
  <2> HIDE DEF good
  <2> QED
    BY <2>8, <2>9, <2>10, <2>11
<1> QED
  BY <1>1, <1>2, <1>3

(* A representation of a point has field elements as coordinates. *)
Coordinates == [x : Field, y : Field, z : Field]

(* A representative of a multiple has reduced coordinates. *)
LEMMA JacRepTyped ==
  ASSUME NEW t \in 0..(Order - 1), NEW z \in 1..(P - 1)
  PROVE  JacRep(t, z) \in Coordinates
<1>1. 0 \in Field /\ 1 \in Field /\ z \in Field
  BY Sizes DEF Field
<1>2. CASE t = 0
  BY <1>1, <1>2 DEF JacRep, Identity, Pt, Coordinates
<1>3. CASE t # 0
  <2>1. Multiple[t] \in CurvePoints
    BY <1>3, Sizes DEF CurvePoints
  <2>2. Multiple[t][1] \in Field /\ Multiple[t][2] \in Field
    BY <2>1, PointFacts
  <2>3. FSqr(z) \in Field /\ FMul(FSqr(z), z) \in Field
    BY <1>1, FieldClosed
  <2>4. FMul(Multiple[t][1], FSqr(z)) \in Field /\ FMul(Multiple[t][2], FMul(FSqr(z), z)) \in Field
    BY <2>2, <2>3, FieldClosed
  <2> QED
    BY <1>1, <1>3, <2>4 DEF JacRep, Pt, Coordinates
<1> QED
  BY <1>2, <1>3

(* What verify compares and answers, on either build. *)
LEMMA VerifyTyped ==
  ASSUME NEW e \in Encoding, NEW hash \in Bytes, NEW r \in Bytes, NEW s \in Bytes,
         NEW z \in 1..(P - 1),
         NEW o \in {VerifyOutcome(e, hash, r, s, z), M4VerifyOutcome(e, hash, r, s, z)}
  PROVE  o.pt \in Coordinates /\ o.res \in {"Ok", "BadLength", "BadPoint", "BadSignature"}
<1>1. Identity \in Coordinates
  BY Sizes DEF Identity, Pt, Coordinates, Field
<1>2. CASE ~(InRange(r) /\ InRange(s))
  BY <1>1, <1>2 DEF VerifyOutcome, M4VerifyOutcome
<1>3. CASE InRange(r) /\ InRange(s) /\ ~Decode(e).ok
  <2>1. ~M4Decode(e).ok /\ {Decode(e).err, M4Decode(e).err} \subseteq {"BadLength", "BadPoint"}
    BY <1>3, BuildsDecodeAlike
  <2> QED
    BY <1>1, <1>3, <2>1 DEF VerifyOutcome, M4VerifyOutcome
<1>4. CASE InRange(r) /\ InRange(s) /\ Decode(e).ok
  <2> DEFINE l == Log[Decode(e).pt]
             w == SInvert(s)
             f == SMul(ReduceOnce(hash), w)
             g == SMul(hash, w)
             h == SMul(r, w)
             c == f + h * l
             d == g + h * l
  <2>1. M4Decode(e).ok /\ M4Decode(e).pt = Decode(e).pt
    BY <1>4, BuildsDecodeAlike
  <2>2. l \in Int
    <3>1. PICK m \in 1..(Order - 1) : Decode(e).pt = Multiple[m]
      BY <1>4, DecodedIsEncoded DEF CurvePoints
    <3> QED
      BY <3>1, Logarithm
  <2>3. w \in Int /\ hash \in Int /\ r \in Int /\ ReduceOnce(hash) \in Int
        /\ Order \in Nat /\ Order > 0
    BY <1>4, ScalarAssumption, Sizes DEF InRange, Bytes, ReduceOnce
  <2>4. \A v \in Int : SMul(v, w) \in Int
    <3>1. \A v \in Int : v * w \in Int
      BY <2>3
    <3> HIDE DEF w
    <3>2. ASSUME NEW v \in Int PROVE (v * w) % Order \in Int
      <4> DEFINE u == v * w
      <4>1. u \in Int
        BY <3>1
      <4> HIDE DEF u
      <4>2. u % Order \in 0..(Order - 1)
        BY <2>3, <4>1, Division
      <4> QED
        BY <2>3, <4>2 DEF u
    <3> QED
      BY <3>2 DEF SMul
  <2>5. c \in Int /\ d \in Int
    <3>1. f \in Int /\ g \in Int /\ h \in Int
      BY <2>3, <2>4
    <3> HIDE DEF f, g, h, l
    <3> QED
      BY <2>2, <3>1
  <2> HIDE DEF c, d
  <2>6. JacRep(c % Order, z) \in Coordinates /\ JacRep(d % Order, z) \in Coordinates
    BY <2>3, <2>5, Division, JacRepTyped
  <2>7. CASE o = VerifyOutcome(e, hash, r, s, z)
    BY <1>4, <2>6, <2>7 DEF VerifyOutcome, Combination, c, l, w
  <2>8. CASE o = M4VerifyOutcome(e, hash, r, s, z)
    BY <1>4, <2>1, <2>6, <2>8 DEF M4VerifyOutcome, d, l, w
  <2> QED
    BY <2>7, <2>8
<1> QED
  BY <1>2, <1>3, <1>4
-------------------------------------------------------------------------------
(* What a signature is: s k = z + r d modulo the order. *)
Signs(d, hash, k, r, s) ==
  /\ d \in 1..(Order - 1) /\ k \in 1..(Order - 1)
  /\ r \in 1..(Order - 1) /\ s \in 1..(Order - 1)
  /\ Multiple[k][1] % Order = r
  /\ Same(Order, s * k, hash + r * d)

(* The nonce comes back when the verifier multiplies. *)
LEMMA NonceRecovered ==
  ASSUME NEW d, NEW hash \in Nat, NEW k, NEW r, NEW s, Signs(d, hash, k, r, s)
  PROVE  /\ (SInvert(s) * (hash + r * d)) % Order = k
         /\ (SInvert(Order - s) * (hash + r * d)) % Order = Order - k
         /\ Order - s \in 1..(Order - 1)
<1> DEFINE n == Order
           u == hash + r * d
           w == SInvert(s)
           sk == s * k
           sw == s * w
           one == 1
           t == n - s
           v == SInvert(t)
           tv == t * v
           nk == n - k
           sv == s * v
           negu == -u
           svk == sv * k
<1>1. /\ d \in Int /\ k \in Int /\ r \in Int /\ s \in Int /\ n \in Nat /\ n > 0 /\ u \in Int
      /\ k \in 0..(n - 1) /\ nk \in 0..(n - 1) /\ t \in 1..(n - 1) /\ sk \in Int
      /\ Same(n, sk, u) /\ one \in Int
  BY Sizes DEF Signs
<1>2. w \in Int /\ Same(n, sw, one) /\ sw \in Int
  <2>1. w \in 1..(n - 1) /\ sw % n = 1
    BY ScalarAssumption DEF SMul, Signs
  <2> QED
    BY <1>1, <2>1, Sizes, Remainder DEF Same
<1>3. v \in Int /\ Same(n, tv, one) /\ tv \in Int
  <2> HIDE DEF t
  <2>1. v \in 1..(n - 1) /\ tv % n = 1
    BY <1>1, ScalarAssumption DEF SMul
  <2> QED
    BY <1>1, <2>1, Sizes, Remainder DEF Same
<1>4. (w * u) % n = k
  <2>1. w * u = u * w /\ sk * w = sw * k /\ one * k = k
    BY <1>1, <1>2, SMTT(30)
  <2> HIDE DEF n, u, w, sk, sw, one
  <2>2. Same(n, sk * w, u * w)
    BY <1>1, <1>2, SameTimes, Zenon
  <2>3. Same(n, sw * k, one * k)
    BY <1>1, <1>2, SameTimes, Zenon
  <2>4. (w * u) % n = k % n
    BY <2>1, <2>2, <2>3 DEF Same
  <2> QED
    BY <1>1, <2>4, Remainder
<1>5. (v * u) % n = nk
  <2> DEFINE tvk == tv * nk
  <2>1. v * u = u * v /\ one * nk = nk
    BY <1>1, <1>3, SMTT(30)
  <2>2. tv * nk = sk * v + (n * v - v * s - v * k) * n
    <3>1. n \in Int /\ s \in Int /\ k \in Int /\ v \in Int
      BY <1>1, <1>3
    <3> HIDE DEF n, v
    <3>2. ((n - s) * v) * (n - k) = (s * k) * v + (n * v - v * s - v * k) * n
      BY <3>1, SMTT(30)
    <3> QED
      BY <3>2
  <2>3. n * v - v * s - v * k \in Int
    BY <1>1, <1>3
  <2> DEFINE q == n * v - v * s - v * k
             skv == sk * v
  <2>4. tvk = skv + q * n /\ q \in Int /\ skv \in Int /\ tvk \in Int
    BY <1>1, <1>3, <2>2, <2>3
  <2> HIDE DEF n, u, v, sk, tv, one, nk, q, skv, tvk
  <2>5. Same(n, tvk, skv)
    BY <1>1, <2>4, SameRemainder DEF Same
  <2>6. Same(n, sk * v, u * v)
    BY <1>1, <1>3, SameTimes, Zenon
  <2>7. Same(n, tv * nk, one * nk)
    <3>1. nk \in Int
      BY <1>1
    <3> QED
      BY <1>1, <1>3, <3>1, SameTimes, Zenon
  <2>8. (v * u) % n = nk % n
    BY <2>1, <2>5, <2>6, <2>7 DEF Same, tvk, skv
  <2> QED
    BY <1>1, <2>8, Remainder
<1> QED
  BY <1>1, <1>4, <1>5

(* A signature is one of the standard's, and so is the pair with the opposite s. *)
LEMMA SignedIsStandard ==
  ASSUME NEW d, NEW hash \in Nat, NEW k, NEW r, NEW s, Signs(d, hash, k, r, s),
         NEW e \in KeyEncodings(d)
  PROVE  Standard(e, hash, r, s) /\ Standard(e, hash, r, Order - s)
<1>1. /\ d \in 1..(Order - 1) /\ k \in 1..(Order - 1) /\ r \in 1..(Order - 1)
      /\ s \in 1..(Order - 1) /\ Multiple[k][1] % Order = r
  BY DEF Signs
<1>2. Multiple[k] # None /\ Multiple[Order - k] # None /\ Multiple[Order - k][1] = Multiple[k][1]
  BY <1>1, OppositeMultiple, PointFacts DEF CurvePoints
<1>3. /\ (SInvert(s) * (hash + r * d)) % Order = k
      /\ (SInvert(Order - s) * (hash + r * d)) % Order = Order - k
      /\ Order - s \in 1..(Order - 1)
  BY NonceRecovered
<1>4. Valid(d, hash, r, s) /\ Valid(d, hash, r, Order - s)
  BY <1>1, <1>2, <1>3 DEF Valid
<1> QED
  BY <1>1, <1>3, <1>4, StandardIsValid

(* The s that sign computes satisfies the equation of a signature. *)
LEMMA EquationOfS ==
  ASSUME NEW k \in 1..(Order - 1), NEW v \in Int, NEW u \in Int, Same(Order, v, u)
  PROVE  Same(Order, SMul(SInvert(k), v) * k, u)
<1> DEFINE n == Order
           i == SInvert(k)
           iv == i * v
           s == iv % n
           ki == k * i
           one == 1
<1>1. /\ n \in Nat /\ n > 0 /\ k \in Int /\ i \in Int /\ iv \in Int /\ ki \in Int /\ one \in Int
      /\ SMul(i, v) = s /\ ki % n = 1
  <2>1. i \in 1..(n - 1) /\ ki % n = 1
    BY ScalarAssumption DEF SMul
  <2> QED
    BY <2>1, Sizes DEF SMul
<1>2. Same(n, s, iv) /\ s \in Int /\ Same(n, ki, one)
  <2>1. Same(n, s, iv) /\ s \in Int
    <3>1. n \in Nat /\ n > 0 /\ iv \in Int
      BY <1>1
    <3> HIDE DEF iv, n
    <3>2. iv % n \in 0..(n - 1) /\ Same(n, iv % n, iv)
      BY <3>1, Remainder
    <3> QED
      BY <3>1, <3>2
  <2>2. one % n = 1
    <3>1. 1 \in 0..(n - 1) /\ n \in Nat /\ n > 0
      BY Sizes
    <3> HIDE DEF n
    <3> QED
      BY <3>1, Remainder
  <2> QED
    BY <1>1, <2>1, <2>2 DEF Same
<1>3. iv * k = ki * v /\ one * v = v
  BY <1>1, SMTT(30)
<1>4. Same(n, v, u)
  OBVIOUS
<1> HIDE DEF n, i, iv, s, ki, one
<1>5. Same(n, s * k, iv * k)
  BY <1>1, <1>2, SameTimes, Zenon
<1>6. Same(n, ki * v, one * v)
  BY <1>1, <1>2, SameTimes, Zenon
<1>7. Same(n, s * k, u)
  BY <1>3, <1>4, <1>5, <1>6 DEF Same
<1>8. SMul(SInvert(k), v) = s
  BY <1>1 DEF i
<1> QED
  BY <1>7, <1>8 DEF n

(* sign, on either build, writes a signature when it writes anything. *)
LEMMA SignSigns ==
  ASSUME NEW d, NEW hash \in Bytes, NEW k,
         d \in Nat, k \in Nat,
         NEW o \in {SignOutcome(d, hash, k), M4SignOutcome(d, hash, k)}, o.ok
  PROVE  Signs(d, hash, k, o.r, o.s)
<1> DEFINE n == Order
           x == Multiple[k][1]
           r == x % n
           rd == r * d
           u == hash + rd
           v1 == SAdd(ReduceOnce(hash), SMul(r, d))
           v2 == (hash + SMul(r, d)) % n
           s1 == SMul(SInvert(k), v1)
           s2 == SMul(SInvert(k), v2)
<1>1. InRange(d) /\ InRange(k)
  BY DEF SignOutcome, M4SignOutcome
<1>2. d \in 1..(n - 1) /\ k \in 1..(n - 1) /\ n \in Nat /\ n > 0 /\ hash \in Nat /\ hash < 2 * n
  BY <1>1, Sizes DEF InRange, Bytes
<1>3. x \in Field /\ x \in 0..(2 * n - 1)
  <2>1. Multiple[k] \in CurvePoints
    BY <1>2 DEF CurvePoints
  <2> QED
    BY <2>1, PointFacts, Sizes DEF Field
<1>4. ReduceOnce(x) = r /\ r \in 0..(n - 1)
  <2> HIDE DEF x
  <2>1. ReduceOnce(x) = r
    BY <1>3, ReducedOnce
  <2>2. x \in Int
    BY <1>2, <1>3
  <2>3. r \in 0..(n - 1)
    BY <1>2, <2>2, Remainder
  <2> QED
    BY <2>1, <2>3
<1>5. o.r = r /\ r # 0 /\ o.s \in {s1, s2} /\ o.s # 0
  <2>1. CASE o = SignOutcome(d, hash, k)
    <3>1. o = IF ~InRange(d) \/ ~InRange(k) \/ r = 0 \/ s1 = 0
              THEN [ok |-> FALSE, err |-> "BadScalar"] ELSE [ok |-> TRUE, r |-> r, s |-> s1]
      BY <1>4, <2>1 DEF SignOutcome
    <3> HIDE DEF r, s1, s2
    <3> QED
      BY <3>1
  <2>2. CASE o = M4SignOutcome(d, hash, k)
    <3>1. o = IF ~InRange(d) \/ ~InRange(k) \/ r = 0 \/ s2 = 0
              THEN [ok |-> FALSE, err |-> "BadScalar"] ELSE [ok |-> TRUE, r |-> r, s |-> s2]
      BY <2>2 DEF M4SignOutcome
    <3> HIDE DEF r, s1, s2
    <3> QED
      BY <3>1
  <2> QED
    BY <2>1, <2>2
<1> HIDE DEF r
<1>6. rd \in Int /\ u \in Int /\ rd % n \in Int /\ Same(n, rd % n, rd) /\ SMul(r, d) = rd % n
  BY <1>2, <1>4, Remainder DEF SMul
<1>7. Same(n, v2, u) /\ v2 \in Int
  <2> DEFINE g == rd % n
             c == hash + g
  <2>1. c \in Int /\ v2 = c % n /\ g \in Int /\ Same(n, g, rd) /\ hash \in Int
    BY <1>2, <1>6
  <2>2. c = g + hash /\ u = rd + hash
    BY <1>2, <1>6
  <2> HIDE DEF g, c, u, rd, n
  <2>3. Same(n, g + hash, rd + hash)
    BY <1>2, <1>6, <2>1, SamePlus, Zenon
  <2>4. Same(n, c % n, c) /\ c % n \in Int
    BY <1>2, <2>1, Remainder
  <2> QED
    BY <2>1, <2>2, <2>3, <2>4 DEF Same
<1>8. Same(n, v1, u) /\ v1 \in Int
  <2> DEFINE h == ReduceOnce(hash)
             g == rd % n
             c == h + g
  <2>1. h = hash % n /\ h \in Int /\ Same(n, h, hash)
    <3>1. hash \in 0..(2 * Order - 1) /\ hash \in Int
      BY <1>2
    <3>2. h = hash % n
      BY <3>1, ReducedOnce
    <3>3. hash % n \in 0..(n - 1) /\ Same(n, hash % n, hash)
      BY <1>2, <3>1, Remainder
    <3> QED
      BY <1>2, <3>2, <3>3
  <2>2. c \in Int /\ v1 = c % n /\ g \in Int /\ Same(n, g, rd) /\ hash \in Int
    BY <1>2, <1>6, <2>1 DEF SAdd
  <2>3. h + g = c /\ g + hash = hash + g /\ u = rd + hash
    BY <1>2, <1>6, <2>2
  <2> HIDE DEF g, c, u, rd, n, h
  <2>4. Same(n, h + g, hash + g)
    BY <1>2, <2>1, <2>2, SamePlus, Zenon
  <2>5. Same(n, g + hash, rd + hash)
    BY <1>2, <1>6, <2>2, SamePlus, Zenon
  <2>6. Same(n, c % n, c) /\ c % n \in Int
    BY <1>2, <2>2, Remainder
  <2> QED
    BY <2>2, <2>3, <2>4, <2>5, <2>6 DEF Same
<1>9. PICK v \in {v1, v2} : o.s = SMul(SInvert(k), v)
  BY <1>5
<1>10. v \in Int /\ Same(n, v, u)
  BY <1>7, <1>8, <1>9
<1>11. Same(n, o.s * k, u)
  <2> HIDE DEF u, v1, v2
  <2>1. Same(Order, SMul(SInvert(k), v) * k, u)
    BY <1>2, <1>6, <1>10, EquationOfS
  <2> QED
    BY <1>9, <2>1
<1>12. o.s \in 1..(n - 1)
  <2>1. SInvert(k) \in Int
    BY <1>2, ScalarAssumption
  <2> DEFINE p == SInvert(k) * v
  <2>2. p \in Int /\ o.s = p % n
    BY <1>9, <1>10, <2>1 DEF SMul
  <2> HIDE DEF p
  <2>3. p % n \in 0..(n - 1)
    BY <1>2, <2>2, Remainder
  <2> QED
    BY <1>2, <1>5, <2>2, <2>3
<1> QED
  BY <1>2, <1>4, <1>5, <1>11, <1>12 DEF Signs, r
===============================================================================
