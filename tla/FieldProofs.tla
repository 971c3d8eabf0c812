------------------------------ MODULE FieldProofs ------------------------------
(***************************************************************************)
(* More theorems about MCModular, for every size of limbs and words: the   *)
(* limbs of Curve25519's field stand for their residues from sums and      *)
(* differences through products to packed words, and comba_mul_8 and       *)
(* comba_sqr_8 return the product, column by column.  The last two         *)
(* theorems join these parts and those of ModularProofs.                   *)
(***************************************************************************)
EXTENDS ModularProofs

(* The limbs of Curve25519's field. *)

LimbIndex == 0..(LimbK - 1)

LEMMA LimbSizes ==
  ASSUME Limb!Fe51Parameters
  PROVE  /\ LimbM \in Nat \ {0} /\ LimbK \in Nat \ {0} /\ LimbC \in Nat
         /\ LimbK >= 2 /\ LimbC >= 2 /\ 9 * LimbK * LimbC * LimbC < LimbM
         /\ LimbCorners \subseteq 0..(LimbM - 1)
<1>1. /\ LimbM \in Nat /\ LimbK \in Nat /\ LimbC \in Nat /\ LimbK > 1 /\ LimbC > 1
      /\ 9 * LimbK * LimbC * LimbC < LimbM
      /\ LimbCorners \subseteq 0..(LimbM - 1)
  BY DEF Limb!Fe51Parameters
<1> DEFINE x == 9 * LimbK * LimbC * LimbC
<1>2. x >= 0 /\ x \in Int
  BY <1>1, SMTT(30)
<1>3. x < LimbM
  BY <1>1
<1> HIDE DEF x
<1>4. LimbM # 0
  BY <1>1, <1>2, <1>3
<1> QED
  BY <1>1, <1>4

(* 36 limbs' worth of products fit: what the carries need of the sizes. *)
LEMMA LimbRoom ==
  ASSUME Limb!Fe51Parameters
  PROVE  \E kc, kcc \in Nat : /\ kc = LimbK * LimbC /\ kcc = kc * LimbC
                              /\ kc >= 4 /\ kcc >= 2 * kc /\ kc >= 2 * LimbC
                              /\ 9 * kcc < LimbM
<1> DEFINE kc == LimbK * LimbC
           kcc == kc * LimbC
<1>1. /\ LimbM \in Nat /\ LimbK \in Nat /\ LimbC \in Nat /\ LimbK >= 2 /\ LimbC >= 2
      /\ 9 * LimbK * LimbC * LimbC < LimbM
  BY LimbSizes
<1>2. kc \in Nat /\ kc >= 2 * LimbC
  BY <1>1, SMTT(30)
<1>3. 9 * LimbK * LimbC * LimbC = 9 * kcc
  BY <1>1, SMTT(30)
<1>4. kcc \in Nat /\ kcc >= 2 * kc
  <2> HIDE DEF kc
  <2> QED
    BY <1>1, <1>2, SMTT(30)
<1>5. kc >= 4
  <2> HIDE DEF kc
  <2> QED
    BY <1>1, <1>2
<1>6. 9 * kcc < LimbM
  BY <1>1, <1>3
<1> QED
  BY <1>2, <1>4, <1>5, <1>6

LEMMA LimbWeights == \A n : Limb!Weight(n) = PowerOf(LimbM, n)
BY DEF Limb!Weight, PowerOf

LEMMA LimbTotals == \A f, n : Limb!Total(f, n) = SumOf(f, n)
BY DEF Limb!Total, SumOf

(* The number that limbs stand for. *)
LEMMA LimbValues ==
  ASSUME Limb!Fe51Parameters, NEW f, \A j \in LimbIndex : f[j] \in Int
  PROVE  Limb!Value(f) = Weighted(f, LimbM, LimbK) /\ Limb!Value(f) \in Int
<1> DEFINE u == [j \in LimbIndex |-> f[j] * PowerOf(LimbM, j)]
           v == [j \in Nat |-> f[j] * PowerOf(LimbM, j)]
<1>1. LimbM \in Nat \ {0} /\ LimbK \in Nat
  BY LimbSizes
<1>2. Limb!Value(f) = SumOf(u, LimbK)
  <2>1. u = [j \in LimbIndex |-> f[j] * Limb!Weight(j)]
    BY LimbWeights
  <2> HIDE DEF u
  <2> QED
    BY <2>1, LimbTotals DEF Limb!Value, Limb!Index, LimbIndex
<1>3. Weighted(f, LimbM, LimbK) = SumOf(v, LimbK)
  BY DEF Weighted
<1>4. ASSUME NEW j \in 0..(LimbK - 1) PROVE u[j] \in Int /\ u[j] = v[j]
  <2>1. j \in Nat /\ j \in LimbIndex /\ u[j] = f[j] * PowerOf(LimbM, j) /\ v[j] = u[j]
    BY <1>1 DEF LimbIndex
  <2>2. PowerOf(LimbM, j) \in Int /\ f[j] \in Int
    BY <1>1, <2>1, PowersStep
  <2> QED
    BY <2>1, <2>2
<1> HIDE DEF u, v
<1>5. SumOf(u, LimbK) = SumOf(v, LimbK)
  BY <1>1, <1>4, SumsSame
<1>6. Weighted(f, LimbM, LimbK) \in Int
  <2>1. \A j \in 0..(LimbK - 1) : f[j] \in Int
    BY DEF LimbIndex
  <2>2. \A k \in 0..LimbK : Weighted(f, LimbM, k) \in Int
    BY <1>1, <2>1, WeightedStep
  <2> QED
    BY <1>1, <2>2
<1> QED
  BY <1>2, <1>3, <1>5, <1>6

(* The prime, or whatever the modulus is. *)
LEMMA LimbModulus ==
  ASSUME Limb!Fe51Parameters
  PROVE  /\ Limb!P = PowerOf(LimbM, LimbK) - LimbC
         /\ PowerOf(LimbM, LimbK) \in Nat /\ PowerOf(LimbM, LimbK) >= LimbM
         /\ Limb!P \in Nat /\ Limb!P >= LimbM - LimbC /\ Limb!P > 0
         /\ LimbM > 2 * LimbC
<1>1. /\ LimbM \in Nat \ {0} /\ LimbK \in Nat /\ LimbK >= 2 /\ LimbC \in Nat
  BY LimbSizes
<1>2. PICK kc, kcc \in Nat : kc >= 4 /\ kcc >= 2 * kc /\ kc >= 2 * LimbC /\ 9 * kcc < LimbM
  BY LimbRoom
<1>3. LimbM > 2 * LimbC
  BY <1>1, <1>2
<1> DEFINE k1 == LimbK - 1
           w == PowerOf(LimbM, k1)
<1>4. PowerOf(LimbM, LimbK) = LimbM * w /\ w \in Nat /\ w > 0
  <2>1. k1 \in Nat /\ k1 + 1 = LimbK
    BY <1>1
  <2> HIDE DEF k1
  <2> QED
    BY <1>1, <2>1, PowersStep
<1> HIDE DEF w
<1>5. LimbM * w \in Nat /\ LimbM * w >= LimbM
  BY <1>1, <1>4, SMTT(30)
<1>6. Limb!P = PowerOf(LimbM, LimbK) - LimbC
  BY LimbWeights DEF Limb!P
<1> QED
  BY <1>1, <1>3, <1>4, <1>5, <1>6

(* A row of carries is there, and its equations hold. *)
LEMMA CarriesUnfolded ==
  ASSUME Limb!Fe51Parameters, NEW r, \A j \in LimbIndex : r[j] \in Nat
  PROVE  /\ \A j \in LimbIndex : Limb!CarryOut(r)[j] \in Nat
         /\ Limb!CarryOut(r)[0] = r[0] \div LimbM
         /\ \A j \in 1..(LimbK - 1) :
              Limb!CarryOut(r)[j] = (r[j] + Limb!CarryOut(r)[j - 1]) \div LimbM
<1> DEFINE n == LimbK - 1
           V == Nat
           z == r[0] \div LimbM
           Step(j, v) == (r[j] + v) \div LimbM
           F == [j \in 1..n |-> [v \in V |-> Step(j, v)]]
           body(g) == [j \in 0..n |-> (r[j] + (IF j = 0 THEN 0 ELSE g[j - 1])) \div LimbM]
           s == CHOOSE g : g = body(g)
           h == Unfolded(n, V, z, F)
<1>1. n \in Nat /\ LimbM \in Nat /\ LimbM > 0 /\ LimbIndex = 0..n
  BY LimbSizes DEF LimbIndex
<1>2. Limb!CarryOut(r) = s
  BY DEF Limb!CarryOut, Limb!Index
<1>3. \A j \in 0..n : r[j] \in Nat
  BY <1>1
<1> HIDE DEF n
<1>4. z \in V
  <2>1. r[0] \in Nat
    BY <1>1, <1>3
  <2> QED
    BY <1>1, <2>1, NatDivision
<1>5. \A j \in 1..n, v \in V : Step(j, v) \in V
  <2> SUFFICES ASSUME NEW j \in 1..n, NEW v \in V PROVE Step(j, v) \in V
    OBVIOUS
  <2>1. r[j] + v \in Nat
    BY <1>1, <1>3
  <2> QED
    BY <1>1, <2>1, NatDivision
<1>6. \A g : body(g)[0] = z
  <2>1. r[0] \in Nat /\ 0 \in 0..n
    BY <1>1, <1>3
  <2>2. r[0] + 0 = r[0]
    BY <2>1
  <2> QED
    BY <2>1, <2>2
<1>7. \A g : \A j \in 1..n : body(g)[j] = Step(j, g[j - 1])
  BY <1>1
<1>8. \A g : body(g) = [j \in 0..n |-> IF j = 0 THEN z ELSE Step(j, g[j - 1])]
  <2> TAKE g
  <2>1. \A j \in 0..n : j = 0 \/ j \in 1..n
    BY <1>1
  <2>2. \A j \in 0..n : body(g)[j] = IF j = 0 THEN z ELSE Step(j, g[j - 1])
    <3> HIDE DEF body, z, Step
    <3> QED
      BY <1>1, <1>6, <1>7, <2>1
  <2>3. body(g) = [j \in 0..n |-> body(g)[j]]
    OBVIOUS
  <2> HIDE DEF body, z, Step
  <2> QED
    BY <2>2, <2>3
<1> HIDE DEF body, z, Step, V
<1>9. F \in [1..n -> [V -> V]]
  BY <1>5
<1>10. h \in [0..n -> V] /\ h[0] = z /\ \A j \in 1..n : h[j] = F[j][h[j - 1]]
  <2> HIDE DEF F
  <2> QED
    BY <1>1, <1>4, <1>9, Unfolding
<1> HIDE DEF h
<1>11. \A j \in 1..n : h[j] = Step(j, h[j - 1])
  <2> TAKE j \in 1..n
  <2>1. h[j - 1] \in V /\ h[j] = F[j][h[j - 1]]
    BY <1>1, <1>10
  <2>2. F[j] = [v \in V |-> Step(j, v)]
    OBVIOUS
  <2> QED
    BY <2>1, <2>2
<1>12. h = body(h)
  <2>1. h = [j \in 0..n |-> IF j = 0 THEN z ELSE Step(j, h[j - 1])]
    BY <1>1, <1>10, <1>11
  <2> QED
    BY <1>8, <2>1
<1>13. s = body(s)
  BY <1>12
<1> HIDE DEF s
<1>14. s[0] = z /\ \A j \in 1..n : s[j] = Step(j, s[j - 1])
  BY <1>6, <1>7, <1>13
<1> DEFINE S == {j \in 0..n : s[j] \in V}
<1>15. 0 \in S /\ \A j \in 1..n : j - 1 \in S => j \in S
  BY <1>1, <1>4, <1>5, <1>14
<1>16. 0..n \subseteq S
  <2> HIDE DEF S
  <2> QED
    BY <1>1, <1>15, UpTo
<1> QED
  BY <1>1, <1>2, <1>14, <1>16 DEF n, Step, z, V

(* What the carries leave in the limbs. *)
LimbDigits(r) ==
  [j \in LimbIndex |-> (r[j] + (IF j = 0 THEN 0 ELSE Limb!CarryOut(r)[j - 1])) % LimbM]

LEMMA LimbCarries ==
  ASSUME Limb!Fe51Parameters, NEW r, \A j \in LimbIndex : r[j] \in Nat
  PROVE  /\ \A j \in LimbIndex : LimbDigits(r)[j] \in 0..(LimbM - 1)
         /\ LimbDigits(r)[0] = r[0] % LimbM
         /\ \A j \in 1..(LimbK - 1) :
              LimbDigits(r)[j] = (r[j] + Limb!CarryOut(r)[j - 1]) % LimbM
         /\ CarryRow(r, Limb!CarryOut(r), LimbDigits(r), LimbM, LimbK)
<1> DEFINE c == Limb!CarryOut(r)
           d == LimbDigits(r)
<1>1. LimbM \in Nat /\ LimbM > 0 /\ LimbK \in Nat /\ LimbK >= 2 /\ LimbIndex = 0..(LimbK - 1)
  BY LimbSizes DEF LimbIndex
<1>2. /\ \A j \in LimbIndex : c[j] \in Nat
      /\ c[0] = r[0] \div LimbM
      /\ \A j \in 1..(LimbK - 1) : c[j] = (r[j] + c[j - 1]) \div LimbM
  BY CarriesUnfolded
<1>3. d[0] = r[0] % LimbM
  <2>1. 0 \in LimbIndex /\ r[0] \in Nat
    BY <1>1
  <2>2. r[0] + 0 = r[0]
    BY <2>1
  <2> QED
    BY <2>1, <2>2 DEF LimbDigits
<1>4. \A j \in 1..(LimbK - 1) : d[j] = (r[j] + c[j - 1]) % LimbM
  BY <1>1 DEF LimbDigits
<1> HIDE DEF c, d
<1>5. d[0] \in 0..(LimbM - 1) /\ r[0] = LimbM * c[0] + d[0]
  <2>1. r[0] \in Nat
    BY <1>1
  <2> QED
    BY <1>1, <1>2, <1>3, <2>1, NatDivision
<1>6. ASSUME NEW j \in 1..(LimbK - 1)
      PROVE  d[j] \in 0..(LimbM - 1) /\ r[j] + c[j - 1] = LimbM * c[j] + d[j]
  <2>1. r[j] \in Nat /\ c[j - 1] \in Nat
    BY <1>1, <1>2
  <2> DEFINE x == r[j] + c[j - 1]
  <2>2. x \in Nat
    BY <2>1
  <2>3. c[j] = x \div LimbM /\ d[j] = x % LimbM
    BY <1>2, <1>4
  <2> HIDE DEF x
  <2>4. d[j] \in 0..(LimbM - 1) /\ x = LimbM * c[j] + d[j]
    BY <1>1, <2>2, <2>3, NatDivision
  <2> QED
    BY <2>4 DEF x
<1>7. \A j \in LimbIndex : d[j] \in 0..(LimbM - 1)
  <2>1. \A j \in LimbIndex : j = 0 \/ j \in 1..(LimbK - 1)
    BY <1>1
  <2> QED
    BY <1>5, <1>6, <2>1
<1>8. CarryRow(r, c, d, LimbM, LimbK)
  BY <1>5, <1>6 DEF CarryRow
<1> QED
  BY <1>3, <1>4, <1>7, <1>8 DEF c, d

(* Carries stay below a bound that they and a limb fit. *)
LEMMA LimbCarryBound ==
  ASSUME Limb!Fe51Parameters, NEW r, NEW e \in Nat, NEW q \in Nat, e + q < (q + 1) * LimbM,
         \A j \in LimbIndex : r[j] \in 0..e
  PROVE  \A j \in LimbIndex : Limb!CarryOut(r)[j] \in 0..q
<1> DEFINE c == Limb!CarryOut(r)
           n == LimbK - 1
           S == {j \in 0..n : c[j] \in 0..q}
<1>1. LimbM \in Nat /\ LimbM > 0 /\ n \in Nat /\ LimbIndex = 0..n
  BY LimbSizes DEF LimbIndex
<1>2. /\ \A j \in LimbIndex : c[j] \in Nat
      /\ c[0] = r[0] \div LimbM
      /\ \A j \in 1..n : c[j] = (r[j] + c[j - 1]) \div LimbM
  <2>1. \A j \in LimbIndex : r[j] \in Nat
    OBVIOUS
  <2> QED
    BY <2>1, CarriesUnfolded
<1> HIDE DEF c, n
<1> DEFINE q1 == q + 1
<1>3. q1 \in Nat /\ q1 - 1 = q /\ e + q < q1 * LimbM
  OBVIOUS
<1> HIDE DEF q1
<1>4. ASSUME NEW x \in Nat, x <= e + q PROVE x \div LimbM \in 0..q
  <2>1. q1 * LimbM \in Int
    BY <1>1, <1>3
  <2>2. x < q1 * LimbM
    BY <1>3, <1>4, <2>1
  <2> QED
    BY <1>1, <1>3, <2>2, QuotientBound
<1>5. 0 \in S
  <2> DEFINE x == r[0]
  <2>1. 0 \in LimbIndex
    BY <1>1
  <2>2. x \in 0..e
    BY <2>1, Zenon
  <2> HIDE DEF x
  <2>3. x \in Nat /\ x <= e + q
    BY <2>2
  <2>4. c[0] = x \div LimbM
    BY <1>2 DEF x
  <2> QED
    BY <1>1, <1>4, <2>3, <2>4
<1>6. ASSUME NEW j \in 1..n, j - 1 \in S PROVE j \in S
  <2>1. r[j] \in 0..e /\ c[j - 1] \in 0..q /\ j \in 0..n
    BY <1>1, <1>6
  <2> DEFINE x == r[j] + c[j - 1]
  <2>2. x \in Nat /\ x <= e + q
    BY <2>1
  <2>3. c[j] = x \div LimbM
    BY <1>2
  <2> HIDE DEF x
  <2> QED
    BY <1>4, <2>1, <2>2, <2>3
<1>7. 0..n \subseteq S
  <2> HIDE DEF S
  <2> QED
    BY <1>1, <1>5, <1>6, UpTo
<1> QED
  BY <1>1, <1>7 DEF c

(* A pass of carries takes a multiple of the modulus off. *)
LEMMA PassValue ==
  ASSUME Limb!Fe51Parameters, NEW r, \A j \in LimbIndex : r[j] \in Nat
  PROVE  /\ Limb!CarryOut(r)[LimbK - 1] \in Nat
         /\ Limb!Pass(r)[0] = LimbDigits(r)[0] + Limb!CarryOut(r)[LimbK - 1] * LimbC
         /\ \A j \in 1..(LimbK - 1) : Limb!Pass(r)[j] = LimbDigits(r)[j]
         /\ \A j \in LimbIndex : Limb!Pass(r)[j] \in Nat
         /\ Limb!Value(Limb!Pass(r)) = Limb!Value(r) - Limb!CarryOut(r)[LimbK - 1] * Limb!P
<1> DEFINE c == Limb!CarryOut(r)
           d == LimbDigits(r)
           s == Limb!Pass(r)
           n == LimbK - 1
           u == c[n]
<1>1. /\ LimbM \in Nat \ {0} /\ LimbM \in Int /\ LimbM > 0 /\ LimbC \in Nat
      /\ LimbK \in Nat \ {0} /\ LimbK \in Nat /\ LimbK >= 2 /\ n \in Nat /\ n >= 1 /\ LimbIndex = 0..n
      /\ 0 \in LimbIndex /\ n \in LimbIndex
  BY LimbSizes DEF LimbIndex
<1>2. \A j \in LimbIndex : c[j] \in Nat
  BY CarriesUnfolded
<1>3. /\ \A j \in LimbIndex : d[j] \in 0..(LimbM - 1)
      /\ d[0] = r[0] % LimbM
      /\ \A j \in 1..n : d[j] = (r[j] + c[j - 1]) % LimbM
      /\ CarryRow(r, c, d, LimbM, LimbK)
  BY LimbCarries
<1>4. s[0] = d[0] + u * LimbC /\ \A j \in 1..n : s[j] = d[j]
  <2>1. s = [j \in LimbIndex |-> IF j = 0 THEN (r[0] % LimbM) + u * LimbC
                                 ELSE (r[j] + c[j - 1]) % LimbM]
    BY DEF Limb!Pass, Limb!Index, LimbIndex
  <2> HIDE DEF s, c, d, u
  <2>2. s[0] = (r[0] % LimbM) + u * LimbC
    BY <1>1, <2>1
  <2>3. ASSUME NEW j \in 1..n PROVE s[j] = (r[j] + c[j - 1]) % LimbM
    <3>1. j \in LimbIndex /\ j # 0
      BY <1>1
    <3> QED
      BY <2>1, <3>1
  <2> QED
    BY <1>3, <2>2, <2>3
<1>5. u \in Nat
  BY <1>1, <1>2
<1> HIDE DEF c, d, s, u
<1>6. u * LimbC \in Nat
  BY <1>1, <1>5, SMTT(30)
<1> DEFINE x == u * LimbC
<1>7. x \in Nat /\ s[0] = d[0] + x
  BY <1>4, <1>6
<1> HIDE DEF x
<1>8. \A j \in LimbIndex : d[j] \in Nat
  BY <1>1, <1>3
<1>9. \A j \in LimbIndex : s[j] \in Nat
  <2> SUFFICES ASSUME NEW j \in LimbIndex PROVE s[j] \in Nat
    OBVIOUS
  <2>1. CASE j = 0
    <3>1. d[0] \in Nat
      BY <1>1, <1>8
    <3> QED
      BY <1>7, <2>1, <3>1
  <2>2. CASE j # 0
    <3>1. j \in 1..n
      BY <1>1, <2>2
    <3> QED
      BY <1>4, <1>8, <3>1
  <2> QED
    BY <2>1, <2>2
<1>10. Weighted(d, LimbM, LimbK) + u * PowerOf(LimbM, LimbK) = Weighted(r, LimbM, LimbK)
  <2>1. \A j \in 0..(LimbK - 1) : r[j] \in Int /\ c[j] \in Int /\ d[j] \in Int
    BY <1>1, <1>2, <1>8 DEF LimbIndex
  <2> QED
    BY <1>1, <1>3, <2>1, WeightedCarries DEF u, n
<1>11. Weighted(s, LimbM, LimbK) = Weighted(d, LimbM, LimbK) + x
  <2>1. \A j \in 0..(LimbK - 1) : d[j] \in Int /\ s[j] \in Int
    BY <1>8, <1>9 DEF LimbIndex
  <2>2. \A j \in 2..(LimbK - 1) : d[j] = s[j]
    BY <1>1, <1>4 DEF n
  <2>3. Weighted(s, LimbM, LimbK) = Weighted(d, LimbM, LimbK) + (s[0] - d[0]) + LimbM * (s[1] - d[1])
    <3>1. LowDigitsDiffer(d, s, LimbK)
      BY <2>1, <2>2 DEF LowDigitsDiffer
    <3> QED
      BY <1>1, <3>1, WeightedDiffer
  <2>4. s[1] = d[1] /\ d[1] \in Int /\ d[0] \in Int /\ s[1] - d[1] = 0 /\ s[0] - d[0] = x
    <3>1. 1 \in 1..n /\ 1 \in LimbIndex
      BY <1>1
    <3> QED
      BY <1>1, <1>4, <1>7, <1>8, <3>1
  <2>5. LimbM * (s[1] - d[1]) = 0
    BY <1>1, <2>4
  <2>6. \A k \in 0..LimbK : Weighted(d, LimbM, k) \in Int
    BY <1>1, <2>1, WeightedStep
  <2>7. Weighted(d, LimbM, LimbK) \in Int
    BY <1>1, <2>6
  <2> QED
    BY <1>7, <2>3, <2>4, <2>5, <2>7
<1>12. Limb!Value(s) = Weighted(s, LimbM, LimbK) /\ Limb!Value(s) \in Int
  <2>1. \A j \in LimbIndex : s[j] \in Int
    BY <1>9
  <2> QED
    BY <2>1, LimbValues
<1>13. Limb!Value(r) = Weighted(r, LimbM, LimbK) /\ Limb!Value(r) \in Int
  <2>1. \A j \in LimbIndex : r[j] \in Int
    OBVIOUS
  <2> QED
    BY <2>1, LimbValues
<1>14. Limb!P = PowerOf(LimbM, LimbK) - LimbC /\ PowerOf(LimbM, LimbK) \in Nat
  BY LimbModulus
<1>15. Limb!Value(s) = Limb!Value(r) - u * Limb!P
  <2> DEFINE w == PowerOf(LimbM, LimbK)
             e == Limb!Value(r)
             g == Weighted(d, LimbM, LimbK)
  <2>1. w \in Int /\ e \in Int /\ u \in Int /\ LimbC \in Int /\ g + u * w = e /\ Limb!Value(s) = g + x
    BY <1>1, <1>5, <1>10, <1>11, <1>12, <1>13, <1>14
  <2>2. x = u * LimbC /\ Limb!P = w - LimbC
    BY <1>14 DEF x
  <2>3. g \in Int
    <3>1. \A j \in 0..(LimbK - 1) : d[j] \in Int
      BY <1>8 DEF LimbIndex
    <3>2. \A k \in 0..LimbK : Weighted(d, LimbM, k) \in Int
      BY <1>1, <3>1, WeightedStep
    <3> QED
      BY <1>1, <3>2
  <2> HIDE DEF w, e, g
  <2>4. u * (w - LimbC) = u * w - u * LimbC
    BY <2>1, SMTT(30)
  <2>5. u * w \in Int /\ u * LimbC \in Int
    BY <2>1
  <2> QED
    BY <2>1, <2>2, <2>3, <2>4, <2>5 DEF e
<1> QED
  BY <1>4, <1>5, <1>9, <1>15 DEF c, d, s, u, n

(* So does the pass that a product ends with, which carries once more into limb 1. *)
LEMMA CarriedValue ==
  ASSUME Limb!Fe51Parameters, NEW r, \A j \in LimbIndex : r[j] \in Nat,
         NEW low, low = Limb!Pass(r)[0]
  PROVE  /\ low \in Nat
         /\ Limb!Carried(r)[0] = low % LimbM
         /\ Limb!Carried(r)[1] = LimbDigits(r)[1] + (low \div LimbM)
         /\ \A j \in 2..(LimbK - 1) : Limb!Carried(r)[j] = LimbDigits(r)[j]
         /\ \A j \in LimbIndex : Limb!Carried(r)[j] \in Nat
         /\ Limb!Value(Limb!Carried(r)) = Limb!Value(Limb!Pass(r))
<1> DEFINE c == Limb!CarryOut(r)
           d == LimbDigits(r)
           s == Limb!Pass(r)
           g == Limb!Carried(r)
           n == LimbK - 1
           u == c[n]
           q == low \div LimbM
           e == low % LimbM
<1>1. /\ LimbM \in Nat \ {0} /\ LimbM \in Int /\ LimbM > 0 /\ LimbC \in Nat
      /\ LimbK \in Nat \ {0} /\ LimbK \in Nat /\ LimbK >= 2 /\ n \in Nat /\ n >= 1 /\ LimbIndex = 0..n
      /\ 0 \in LimbIndex /\ 1 \in LimbIndex /\ n \in LimbIndex
  BY LimbSizes DEF LimbIndex
<1>2. /\ \A j \in LimbIndex : d[j] \in 0..(LimbM - 1)
      /\ d[0] = r[0] % LimbM
      /\ \A j \in 1..n : d[j] = (r[j] + c[j - 1]) % LimbM
  BY LimbCarries
<1>3. /\ s[0] = d[0] + u * LimbC
      /\ \A j \in 1..n : s[j] = d[j]
      /\ \A j \in LimbIndex : s[j] \in Nat
  BY PassValue
<1>4. /\ g[0] = e /\ g[1] = d[1] + q
      /\ \A j \in 2..n : g[j] = d[j]
  <2>1. low = (r[0] % LimbM) + u * LimbC
    BY <1>2, <1>3
  <2>2. g = [j \in LimbIndex |-> IF j = 0 THEN e
                                 ELSE ((r[j] + c[j - 1]) % LimbM) + (IF j = 1 THEN q ELSE 0)]
    <3> HIDE DEF e, q
    <3>1. ((r[0] % LimbM) + Limb!CarryOut(r)[LimbK - 1] * LimbC) % LimbM = e
      BY <2>1 DEF e, c, u, n
    <3>2. ((r[0] % LimbM) + Limb!CarryOut(r)[LimbK - 1] * LimbC) \div LimbM = q
      BY <2>1 DEF q, c, u, n
    <3> QED
      BY <3>1, <3>2 DEF Limb!Carried, Limb!Index, LimbIndex
  <2> HIDE DEF g, c, d, u, q, e
  <2>3. g[0] = e
    BY <1>1, <2>2
  <2>4. g[1] = ((r[1] + c[1 - 1]) % LimbM) + q
    BY <1>1, <2>2
  <2>5. d[1] = (r[1] + c[1 - 1]) % LimbM
    <3>1. 1 \in 1..n
      BY <1>1
    <3> QED
      BY <1>2, <3>1
  <2>6. ASSUME NEW j \in 2..n PROVE g[j] = d[j]
    <3>1. j \in LimbIndex /\ j # 0 /\ j # 1 /\ j \in 1..n
      BY <1>1
    <3>2. g[j] = ((r[j] + c[j - 1]) % LimbM) + 0
      BY <2>2, <3>1
    <3>3. d[j] = (r[j] + c[j - 1]) % LimbM /\ d[j] \in 0..(LimbM - 1)
      BY <1>2, <3>1
    <3>4. d[j] + 0 = d[j]
      BY <1>1, <3>3
    <3> QED
      BY <3>2, <3>3, <3>4
  <2> QED
    BY <2>3, <2>4, <2>5, <2>6
<1>5. low \in Nat
  BY <1>1, <1>3
<1>6. q \in Nat /\ e \in 0..(LimbM - 1) /\ low = LimbM * q + e
  BY <1>1, <1>5, NatDivision
<1> HIDE DEF c, d, s, g, u, q, e
<1>7. \A j \in LimbIndex : d[j] \in Nat
  BY <1>1, <1>2
<1>8. \A j \in LimbIndex : g[j] \in Nat
  <2> SUFFICES ASSUME NEW j \in LimbIndex PROVE g[j] \in Nat
    OBVIOUS
  <2>1. CASE j = 0
    BY <1>1, <1>4, <1>6, <2>1
  <2>2. CASE j = 1
    <3>1. d[1] \in Nat
      BY <1>1, <1>7
    <3> QED
      BY <1>4, <1>6, <2>2, <3>1
  <2>3. CASE j # 0 /\ j # 1
    <3>1. j \in 2..n
      BY <1>1, <2>3
    <3> QED
      BY <1>4, <1>7, <3>1
  <2> QED
    BY <2>1, <2>2, <2>3
<1>9. Weighted(g, LimbM, LimbK) = Weighted(s, LimbM, LimbK)
  <2>1. \A j \in 0..(LimbK - 1) : s[j] \in Int /\ g[j] \in Int
    BY <1>3, <1>8 DEF LimbIndex
  <2>2. \A j \in 2..(LimbK - 1) : s[j] = g[j]
    <3> TAKE j \in 2..(LimbK - 1)
    <3>1. j \in 2..n /\ j \in 1..n
      BY <1>1 DEF n
    <3> QED
      BY <1>3, <1>4, <3>1
  <2>3. Weighted(g, LimbM, LimbK) = Weighted(s, LimbM, LimbK) + (g[0] - s[0]) + LimbM * (g[1] - s[1])
    <3>1. LowDigitsDiffer(s, g, LimbK)
      BY <2>1, <2>2 DEF LowDigitsDiffer
    <3> QED
      BY <1>1, <3>1, WeightedDiffer
  <2> DEFINE d1 == d[1]
  <2>4. g[1] = d1 + q /\ s[1] = d1 /\ d1 \in Nat /\ g[0] = e /\ s[0] = low
    <3>1. 1 \in 1..n
      BY <1>1
    <3> QED
      BY <1>1, <1>3, <1>4, <1>7, <3>1 DEF s
  <2> HIDE DEF d1
  <2>5. g[1] - s[1] = q
    BY <1>6, <2>4
  <2>6. LimbM * q \in Int
    BY <1>1, <1>6
  <2>7. g[0] - s[0] = 0 - LimbM * q
    BY <1>1, <1>5, <1>6, <2>4, <2>6
  <2>8. \A k \in 0..LimbK : Weighted(s, LimbM, k) \in Int
    BY <1>1, <2>1, WeightedStep
  <2>9. Weighted(s, LimbM, LimbK) \in Int
    BY <1>1, <2>8
  <2> QED
    BY <2>3, <2>5, <2>6, <2>7, <2>9
<1>10. Limb!Value(g) = Limb!Value(s)
  <2>1. \A j \in LimbIndex : s[j] \in Int
    BY <1>3
  <2>2. \A j \in LimbIndex : g[j] \in Int
    BY <1>8
  <2> QED
    BY <1>9, <2>1, <2>2, LimbValues
<1> QED
  BY <1>4, <1>5, <1>8, <1>10 DEF d, s, g, n, q, e

(* The limbs h are those of f with c times those of g. *)
LimbsLinear(f, g, h, c) ==
  \A j \in LimbIndex : f[j] \in Int /\ g[j] \in Int /\ h[j] = f[j] + c * g[j]

LEMMA LimbsAddUp ==
  ASSUME Limb!Fe51Parameters, NEW f, NEW g, NEW h, NEW c \in Int, LimbsLinear(f, g, h, c)
  PROVE  /\ Limb!Value(f) \in Int /\ Limb!Value(g) \in Int
         /\ Limb!Value(h) = Limb!Value(f) + c * Limb!Value(g)
<1>1. LimbM \in Nat \ {0} /\ LimbK \in Nat
  BY LimbSizes
<1>2. \A j \in 0..(LimbK - 1) : f[j] \in Int /\ g[j] \in Int /\ h[j] = f[j] + c * g[j]
  BY DEF LimbsLinear, LimbIndex
<1>3. Weighted(h, LimbM, LimbK) = Weighted(f, LimbM, LimbK) + c * Weighted(g, LimbM, LimbK)
  BY <1>1, <1>2, WeightedLinear
<1>4. /\ \A j \in LimbIndex : f[j] \in Int
      /\ \A j \in LimbIndex : g[j] \in Int
  BY DEF LimbsLinear
<1>5. \A j \in LimbIndex : h[j] \in Int
  <2> TAKE j \in LimbIndex
  <2> DEFINE u == f[j]
             v == g[j]
  <2>1. u \in Int /\ v \in Int /\ h[j] = u + c * v
    BY DEF LimbsLinear
  <2> HIDE DEF u, v
  <2>2. c * v \in Int
    BY <2>1
  <2> QED
    BY <2>1, <2>2
<1>6. /\ Limb!Value(f) = Weighted(f, LimbM, LimbK) /\ Limb!Value(f) \in Int
      /\ Limb!Value(g) = Weighted(g, LimbM, LimbK) /\ Limb!Value(g) \in Int
  BY <1>4, LimbValues
<1>7. Limb!Value(h) = Weighted(h, LimbM, LimbK)
  BY <1>5, LimbValues
<1> QED
  BY <1>3, <1>6, <1>7

LEMMA AddValue ==
  ASSUME Limb!Fe51Parameters, NEW f, NEW g, \A j \in LimbIndex : f[j] \in Int /\ g[j] \in Int
  PROVE  Limb!Value(Limb!Add(f, g)) = Limb!Value(f) + Limb!Value(g)
<1> DEFINE h == Limb!Add(f, g)
<1>1. ASSUME NEW j \in LimbIndex PROVE h[j] = f[j] + 1 * g[j]
  <2> DEFINE u == f[j]
             v == g[j]
  <2>1. u \in Int /\ v \in Int /\ h[j] = u + v
    BY DEF Limb!Add, Limb!Index, LimbIndex
  <2> HIDE DEF u, v, h
  <2>2. u + 1 * v = u + v
    BY <2>1
  <2> QED
    BY <2>1, <2>2 DEF u, v
<1> HIDE DEF h
<1> DEFINE c == 1
<1>2. c \in Int /\ LimbsLinear(f, g, h, c)
  BY <1>1 DEF LimbsLinear
<1> HIDE DEF c
<1>3. /\ Limb!Value(f) \in Int /\ Limb!Value(g) \in Int
      /\ Limb!Value(h) = Limb!Value(f) + c * Limb!Value(g)
  BY <1>2, LimbsAddUp
<1> QED
  BY <1>3 DEF h, c

LEMMA SubValue ==
  ASSUME Limb!Fe51Parameters, NEW f, NEW g, \A j \in LimbIndex : f[j] \in Int /\ g[j] \in Int
  PROVE  Limb!Value(Limb!Sub(f, g)) = (Limb!Value(f) - Limb!Value(g)) + 2 * Limb!P
<1> DEFINE h == Limb!Sub(f, g)
           full == [j \in LimbIndex |-> LimbM - (IF j = 0 THEN LimbC ELSE 1)]
           e == [j \in LimbIndex |-> f[j] + 2 * full[j]]
           c == 2
           m1 == -1
<1>1. /\ LimbM \in Nat \ {0} /\ LimbM \in Int /\ LimbC \in Int
      /\ LimbK \in Nat \ {0} /\ LimbK >= 2 /\ LimbIndex = 0..(LimbK - 1)
  BY LimbSizes DEF LimbIndex
<1>2. \A j \in LimbIndex : full[j] \in Int
  BY <1>1
<1>3. Limb!Value(full) = Limb!P
  <2>1. full[0] = LimbM - LimbC /\ \A j \in 1..(LimbK - 1) : full[j] = LimbM - 1
    BY <1>1
  <2> HIDE DEF full
  <2>2. Weighted(full, LimbM, LimbK) = PowerOf(LimbM, LimbK) - LimbC
    BY <1>1, <2>1, WeightedFull
  <2>3. Limb!P = PowerOf(LimbM, LimbK) - LimbC
    BY LimbModulus
  <2> QED
    BY <1>2, <2>2, <2>3, LimbValues
<1>4. LimbsLinear(f, full, e, c)
  <2> HIDE DEF full
  <2> QED
    BY <1>2 DEF LimbsLinear
<1>5. \A j \in LimbIndex : e[j] \in Int
  <2> HIDE DEF full
  <2> QED
    BY <1>2
<1>6. LimbsLinear(e, g, h, m1)
  <2>1. \A j \in LimbIndex : h[j] = e[j] - g[j]
    <3> TAKE j \in LimbIndex
    <3> DEFINE v == LimbM - (IF j = 0 THEN LimbC ELSE 1)
    <3>1. h[j] = f[j] + (2 * v - g[j])
      BY DEF Limb!Sub, Limb!Index, LimbIndex
    <3>4. v \in Int /\ f[j] \in Int /\ g[j] \in Int
      BY <1>1
    <3>2. full[j] = v
      OBVIOUS
    <3> HIDE DEF v, full, h
    <3>3. e[j] = f[j] + 2 * v
      BY <3>2
    <3> HIDE DEF e
    <3> QED
      BY <3>1, <3>3, <3>4
  <2> HIDE DEF e, h
  <2>2. ASSUME NEW j \in LimbIndex PROVE e[j] \in Int /\ g[j] \in Int /\ h[j] = e[j] + m1 * g[j]
    <3> DEFINE u == e[j]
               v == g[j]
    <3>1. u \in Int /\ v \in Int /\ h[j] = u - v
      BY <1>5, <2>1
    <3> HIDE DEF u, v
    <3>2. u + m1 * v = u - v
      BY <3>1
    <3> QED
      BY <3>1, <3>2 DEF u, v
  <2> HIDE DEF m1
  <2> QED
    BY <2>2 DEF LimbsLinear
<1>7. c \in Int /\ m1 \in Int
  OBVIOUS
<1> HIDE DEF full, e, h, c, m1
<1>8. /\ Limb!Value(f) \in Int /\ Limb!Value(full) \in Int
      /\ Limb!Value(e) = Limb!Value(f) + c * Limb!Value(full)
  BY <1>4, <1>7, LimbsAddUp
<1>9. /\ Limb!Value(e) \in Int /\ Limb!Value(g) \in Int
      /\ Limb!Value(h) = Limb!Value(e) + m1 * Limb!Value(g)
  BY <1>6, <1>7, LimbsAddUp
<1>10. Limb!Value(h) = (Limb!Value(f) - Limb!Value(g)) + 2 * Limb!P
  <2> DEFINE x == Limb!Value(f)
             y == Limb!Value(g)
             w == Limb!Value(e)
             q == Limb!P
             z == Limb!Value(h)
  <2>1. x \in Int /\ y \in Int /\ w \in Int /\ q \in Int
    BY <1>3, <1>8, <1>9
  <2>2. w = x + 2 * q /\ z = w + m1 * y
    BY <1>3, <1>8, <1>9 DEF c
  <2> HIDE DEF x, y, w, q, z
  <2>3. m1 * y = 0 - y
    BY <2>1 DEF m1
  <2>4. z = (x - y) + 2 * q
    BY <2>1, <2>2, <2>3
  <2> QED
    BY <2>4 DEF x, y, z, q
<1> QED
  BY <1>10 DEF h

(* MulScalar before it carries. *)
LimbsScaled(f, s) == [j \in LimbIndex |-> f[j] * s]

LEMMA ScaledValue ==
  ASSUME Limb!Fe51Parameters, NEW f, \A j \in LimbIndex : f[j] \in Int, NEW s \in Int
  PROVE  /\ Limb!MulScalar(f, s) = Limb!Carried(LimbsScaled(f, s))
         /\ Limb!Value(LimbsScaled(f, s)) = Limb!Value(f) * s
<1> DEFINE h == LimbsScaled(f, s)
           c == s - 1
<1>1. Limb!MulScalar(f, s) = Limb!Carried(LimbsScaled(f, s))
  BY DEF Limb!MulScalar, Limb!Index, LimbsScaled, LimbIndex
<1>2. ASSUME NEW j \in LimbIndex PROVE f[j] \in Int /\ h[j] = f[j] + c * f[j]
  <2> DEFINE u == f[j]
  <2>1. u \in Int /\ h[j] = u * s
    BY DEF LimbsScaled
  <2> HIDE DEF u, h
  <2>2. u + (s - 1) * u = u * s
    BY <2>1, SMTT(30)
  <2> QED
    BY <2>1, <2>2 DEF u
<1>3. LimbsLinear(f, f, h, c)
  <2> HIDE DEF h, c
  <2> QED
    BY <1>2 DEF LimbsLinear
<1>4. c \in Int /\ c = s - 1
  OBVIOUS
<1> HIDE DEF c, h
<1> DEFINE x == Limb!Value(f)
<1>5. x \in Int /\ Limb!Value(h) = x + c * x
  BY <1>3, <1>4, LimbsAddUp
<1> HIDE DEF x
<1>6. x + (s - 1) * x = x * s
  BY <1>5, SMTT(30)
<1> QED
  BY <1>1, <1>4, <1>5, <1>6 DEF x, h

-------------------------------------------------------------------------------
(* A column's products, from the row of f[j] in position j. *)
LimbTerms(f, g, n) == [j \in LimbIndex |-> IF n - j \in LimbIndex THEN f[j] * g[n - j] ELSE 0]

(* Mul before it carries. *)
LimbColumns(f, g) ==
  [n \in LimbIndex |-> SumOf(LimbTerms(f, g, n), LimbK) + LimbC * SumOf(LimbTerms(f, g, n + LimbK), LimbK)]

LEMMA MulColumns ==
  ASSUME NEW f, NEW g
  PROVE  Limb!Mul(f, g) = Limb!Carried(LimbColumns(f, g))
<1>1. \A n : [j \in LimbIndex |-> LET l == n - j IN IF l \in LimbIndex THEN f[j] * g[l] ELSE 0]
             = LimbTerms(f, g, n)
  BY DEF LimbTerms
<1> DEFINE Column(n) == Limb!Total([j \in LimbIndex |-> LET l == n - j
                                     IN IF l \in LimbIndex THEN f[j] * g[l] ELSE 0], LimbK)
<1>2. \A n : Column(n) = SumOf(LimbTerms(f, g, n), LimbK)
  BY <1>1, LimbTotals
<1>3. Limb!Mul(f, g) = Limb!Carried([n \in LimbIndex |-> Column(n) + LimbC * Column(n + LimbK)])
  BY DEF Limb!Mul, Limb!Index, LimbIndex
<1> HIDE DEF Column
<1>4. [n \in LimbIndex |-> Column(n) + LimbC * Column(n + LimbK)] = LimbColumns(f, g)
  BY <1>2 DEF LimbColumns
<1> QED
  BY <1>3, <1>4

(* g times M^m, the limbs above the top one down times C. *)
LimbRow(g, m) == [n \in LimbIndex |-> IF n >= m THEN g[n - m] ELSE LimbC * g[n + (LimbK - m)]]

LimbRowTerms(f, g, n) == [j \in LimbIndex |-> f[j] * LimbRow(g, j)[n]]

LEMMA RowLimbs ==
  ASSUME Limb!Fe51Parameters, NEW g, \A j \in LimbIndex : g[j] \in Int, NEW m \in LimbIndex
  PROVE  /\ \A n \in LimbIndex : LimbRow(g, m)[n] \in Int
         /\ \A n \in LimbIndex : n >= m => n - m \in LimbIndex /\ LimbRow(g, m)[n] = g[n - m]
         /\ \A n \in LimbIndex :
              n < m => /\ n + (LimbK - m) \in LimbIndex
                       /\ LimbRow(g, m)[n] = LimbC * g[n + (LimbK - m)]
<1>1. LimbK \in Nat /\ LimbC \in Int /\ LimbIndex = 0..(LimbK - 1)
  BY LimbSizes DEF LimbIndex
<1>2. ASSUME NEW n \in LimbIndex, n >= m
      PROVE  n - m \in LimbIndex /\ LimbRow(g, m)[n] = g[n - m] /\ LimbRow(g, m)[n] \in Int
  <2>1. n - m \in LimbIndex
    BY <1>1, <1>2
  <2>2. LimbRow(g, m)[n] = g[n - m]
    BY <1>2 DEF LimbRow
  <2> QED
    BY <2>1, <2>2
<1>3. ASSUME NEW n \in LimbIndex, n < m
      PROVE  /\ n + (LimbK - m) \in LimbIndex
             /\ LimbRow(g, m)[n] = LimbC * g[n + (LimbK - m)]
             /\ LimbRow(g, m)[n] \in Int
  <2>1. n + (LimbK - m) \in LimbIndex /\ ~(n >= m)
    BY <1>1, <1>3
  <2>2. LimbRow(g, m)[n] = LimbC * g[n + (LimbK - m)]
    BY <2>1 DEF LimbRow
  <2> DEFINE v == g[n + (LimbK - m)]
  <2>3. v \in Int
    BY <2>1
  <2> HIDE DEF v
  <2>4. LimbC * v \in Int
    BY <1>1, <2>3
  <2> QED
    BY <2>1, <2>2, <2>4 DEF v
<1>4. \A n \in LimbIndex : n >= m \/ n < m
  BY <1>1
<1> QED
  BY <1>2, <1>3, <1>4

LEMMA ColumnsAreRows ==
  ASSUME Limb!Fe51Parameters, NEW f, NEW g, \A j \in LimbIndex : f[j] \in Int /\ g[j] \in Int,
         NEW n \in LimbIndex
  PROVE  /\ \A j \in LimbIndex : LimbRowTerms(f, g, n)[j] \in Int
         /\ LimbColumns(f, g)[n] = SumOf(LimbRowTerms(f, g, n), LimbK)
<1> DEFINE t1 == LimbTerms(f, g, n)
           t2 == LimbTerms(f, g, n + LimbK)
           h == LimbRowTerms(f, g, n)
<1>1. LimbK \in Nat /\ LimbC \in Int /\ LimbIndex = 0..(LimbK - 1) /\ n \in Int
  BY LimbSizes DEF LimbIndex
<1>2. ASSUME NEW j \in LimbIndex
      PROVE  t1[j] \in Int /\ t2[j] \in Int /\ h[j] = t1[j] + LimbC * t2[j] /\ h[j] \in Int
  <2> DEFINE u == f[j]
             w == LimbRow(g, j)[n]
  <2>1. /\ \A k \in LimbIndex : LimbRow(g, j)[k] \in Int
        /\ \A k \in LimbIndex : k >= j => k - j \in LimbIndex /\ LimbRow(g, j)[k] = g[k - j]
        /\ \A k \in LimbIndex :
              k < j => /\ k + (LimbK - j) \in LimbIndex
                       /\ LimbRow(g, j)[k] = LimbC * g[k + (LimbK - j)]
    BY RowLimbs
  <2>2. u \in Int /\ w \in Int /\ h[j] = u * w /\ j \in Int
    BY <1>1, <2>1 DEF LimbRowTerms
  <2>3. t1[j] = (IF n - j \in LimbIndex THEN u * g[n - j] ELSE 0)
    BY DEF LimbTerms
  <2>4. t2[j] = (IF (n + LimbK) - j \in LimbIndex THEN u * g[(n + LimbK) - j] ELSE 0)
    BY DEF LimbTerms
  <2>5. CASE n >= j
    <3> DEFINE v == g[n - j]
    <3>1. n - j \in LimbIndex /\ w = v
      BY <2>1, <2>5
    <3>2. v \in Int
      BY <3>1
    <3>3. ~((n + LimbK) - j \in LimbIndex)
      BY <1>1, <2>2, <2>5
    <3>4. t1[j] = u * v /\ t2[j] = 0
      BY <2>3, <2>4, <3>1, <3>3
    <3> HIDE DEF u, v, w, t1, t2, h
    <3>5. u * v \in Int /\ LimbC * 0 = 0
      BY <1>1, <2>2, <3>2
    <3> QED
      BY <2>2, <3>1, <3>4, <3>5
  <2>6. CASE n < j
    <3> DEFINE l == n + (LimbK - j)
               v == g[l]
    <3>1. l \in LimbIndex /\ w = LimbC * v
      BY <2>1, <2>6
    <3>2. v \in Int
      BY <3>1
    <3>3. ~(n - j \in LimbIndex) /\ (n + LimbK) - j = l
      BY <1>1, <2>2, <2>6
    <3>4. t1[j] = 0 /\ t2[j] = u * v
      <4> HIDE DEF l
      <4> QED
        BY <2>3, <2>4, <3>1, <3>3
    <3> HIDE DEF u, v, w, t1, t2, h, l
    <3>5. u * v \in Int /\ u * (LimbC * v) = LimbC * (u * v) /\ LimbC * (u * v) \in Int
      BY <1>1, <2>2, <3>2, Product3
    <3> QED
      BY <2>2, <3>1, <3>4, <3>5
  <2>7. n >= j \/ n < j
    BY <1>1, <2>2
  <2> QED
    BY <2>5, <2>6, <2>7
<1> HIDE DEF t1, t2, h
<1>3. TermsLinear(t1, t2, h, LimbC, LimbK)
  BY <1>1, <1>2 DEF TermsLinear
<1>4. SumOf(h, LimbK) = SumOf(t1, LimbK) + LimbC * SumOf(t2, LimbK)
  BY <1>1, <1>3, SumsLinear
<1>5. LimbColumns(f, g)[n] = SumOf(t1, LimbK) + LimbC * SumOf(t2, LimbK)
  BY DEF LimbColumns, t1, t2
<1> QED
  BY <1>2, <1>4, <1>5 DEF h

(* Each limb moves up by one, the top one down to limb 0 times C. *)
LEMMA RowShift ==
  ASSUME Limb!Fe51Parameters, NEW g, \A j \in LimbIndex : g[j] \in Int,
         NEW m \in 0..(LimbK - 2)
  PROVE  /\ LimbRow(g, m)[LimbK - 1] \in Int
         /\ Limb!Value(LimbRow(g, m)) \in Int
         /\ Limb!Value(LimbRow(g, m + 1)) =
              LimbM * Limb!Value(LimbRow(g, m)) - LimbRow(g, m)[LimbK - 1] * Limb!P
<1> DEFINE n == LimbK - 1
           m1 == m + 1
           r == LimbRow(g, m)
           s == LimbRow(g, m1)
           x == r[n]
           w == PowerOf(LimbM, n)
<1>1. /\ LimbM \in Nat \ {0} /\ LimbM \in Int /\ LimbK \in Nat /\ LimbK >= 2 /\ LimbC \in Int
      /\ LimbIndex = 0..(LimbK - 1) /\ n \in Nat /\ n + 1 = LimbK /\ n \in LimbIndex
      /\ m \in Nat /\ m \in LimbIndex /\ m1 \in LimbIndex /\ n >= m /\ m1 \in Nat /\ 0 \in LimbIndex
      /\ m1 > 0
  BY LimbSizes DEF LimbIndex
<1>2. /\ \A j \in LimbIndex : r[j] \in Int
      /\ \A j \in LimbIndex : j >= m => j - m \in LimbIndex /\ r[j] = g[j - m]
      /\ \A j \in LimbIndex : j < m => /\ j + (LimbK - m) \in LimbIndex
                                       /\ r[j] = LimbC * g[j + (LimbK - m)]
  BY <1>1, RowLimbs
<1>3. /\ \A j \in LimbIndex : s[j] \in Int
      /\ \A j \in LimbIndex : j >= m1 => j - m1 \in LimbIndex /\ s[j] = g[j - m1]
      /\ \A j \in LimbIndex : j < m1 => /\ j + (LimbK - m1) \in LimbIndex
                                        /\ s[j] = LimbC * g[j + (LimbK - m1)]
  <2> HIDE DEF m1
  <2>1. m1 \in LimbIndex
    BY <1>1
  <2> QED
    BY <2>1, RowLimbs
<1> HIDE DEF r, s
<1>4. s[0] = LimbC * x
  <2>1. s[0] = LimbC * g[0 + (LimbK - m1)]
    <3>1. 0 < m1
      BY <1>1
    <3> HIDE DEF m1
    <3> QED
      BY <1>1, <1>3, <3>1
  <2>2. x = g[n - m]
    BY <1>1, <1>2
  <2>3. 0 + (LimbK - m1) = n - m
    BY <1>1
  <2> QED
    BY <2>1, <2>2, <2>3
<1>5. ASSUME NEW j \in 1..n PROVE s[j] = r[j - 1]
  <2> DEFINE k == j - 1
  <2>1. k \in LimbIndex /\ j \in LimbIndex
    BY <1>1
  <2>2. CASE j >= m1
    <3>1. k >= m /\ j - m1 = k - m
      BY <1>1, <2>2
    <3>2. s[j] = g[j - m1]
      BY <1>3, <2>1, <2>2
    <3>3. r[k] = g[k - m]
      <4> HIDE DEF k
      <4> QED
        BY <1>2, <2>1, <3>1
    <3> QED
      BY <3>1, <3>2, <3>3
  <2>3. CASE j < m1
    <3>1. k < m /\ j + (LimbK - m1) = k + (LimbK - m)
      BY <1>1, <2>3
    <3>2. s[j] = LimbC * g[j + (LimbK - m1)]
      BY <1>3, <2>1, <2>3
    <3>3. r[k] = LimbC * g[k + (LimbK - m)]
      <4> HIDE DEF k
      <4> QED
        BY <1>2, <2>1, <3>1
    <3> QED
      BY <3>1, <3>2, <3>3
  <2>4. j >= m1 \/ j < m1
    BY <1>1
  <2> QED
    BY <2>2, <2>3, <2>4
<1>6. x \in Int /\ s[0] \in Int
  BY <1>1, <1>2, <1>3
<1> HIDE DEF x, w, m1
<1>7. Weighted(s, LimbM, LimbK) = s[0] + LimbM * Weighted(r, LimbM, n)
  <2>1. \A j \in 0..(n - 1) : r[j] \in Int
    BY <1>1, <1>2
  <2> HIDE DEF n
  <2>2. Weighted(s, LimbM, n + 1) = s[0] + LimbM * Weighted(r, LimbM, n)
    BY <1>1, <1>5, <1>6, <2>1, WeightedShift
  <2> QED
    BY <1>1, <2>2
<1>8. Weighted(r, LimbM, LimbK) = Weighted(r, LimbM, n) + x * w /\ Weighted(r, LimbM, n) \in Int
  <2>1. \A j \in 0..(LimbK - 1) : r[j] \in Int
    BY <1>1, <1>2
  <2>2. /\ \A k \in 0..(LimbK - 1) : Weighted(r, LimbM, k + 1) = Weighted(r, LimbM, k) + r[k] * PowerOf(LimbM, k)
        /\ \A k \in 0..LimbK : Weighted(r, LimbM, k) \in Int
    BY <1>1, <2>1, WeightedStep
  <2>3. n \in 0..(LimbK - 1) /\ n \in 0..LimbK
    BY <1>1
  <2> HIDE DEF n
  <2>4. Weighted(r, LimbM, n + 1) = Weighted(r, LimbM, n) + r[n] * PowerOf(LimbM, n)
    BY <2>2, <2>3
  <2> QED
    BY <1>1, <2>2, <2>3, <2>4 DEF x, w
<1>9. PowerOf(LimbM, LimbK) = LimbM * w /\ w \in Int
  <2> HIDE DEF n
  <2>1. PowerOf(LimbM, n + 1) = LimbM * w /\ w \in Nat
    BY <1>1, PowersStep DEF w
  <2> QED
    BY <1>1, <2>1
<1>10. Limb!P = LimbM * w - LimbC
  BY <1>9, LimbModulus
<1>11. Limb!Value(r) = Weighted(r, LimbM, LimbK) /\ Limb!Value(r) \in Int
  BY <1>2, LimbValues
<1>12. Limb!Value(s) = Weighted(s, LimbM, LimbK)
  BY <1>3, LimbValues
<1> DEFINE v == Weighted(r, LimbM, n)
           q == Limb!Value(r)
           z == Limb!Value(s)
<1>13. v \in Int /\ q = v + x * w /\ z = LimbC * x + LimbM * v /\ q \in Int
  BY <1>4, <1>7, <1>8, <1>11, <1>12
<1> HIDE DEF v, q, z, n
<1>14. LimbC * x + LimbM * v = LimbM * (v + x * w) - x * (LimbM * w - LimbC)
  BY <1>1, <1>6, <1>9, <1>13, SMTT(60)
<1>15. z = LimbM * q - x * Limb!P
  BY <1>10, <1>13, <1>14
<1> QED
  BY <1>6, <1>13, <1>15 DEF q, r, s, x, z, n, m1

LEMMA RowValue ==
  ASSUME Limb!Fe51Parameters, NEW g, \A j \in LimbIndex : g[j] \in Int, NEW m \in LimbIndex
  PROVE  /\ Limb!Value(LimbRow(g, m)) \in Int
         /\ Same(Limb!P, Limb!Value(LimbRow(g, m)), PowerOf(LimbM, m) * Limb!Value(g))
<1> DEFINE n == LimbK - 1
           V(k) == Limb!Value(LimbRow(g, k))
           y == Limb!Value(g)
           p0 == Limb!P
           S == {k \in 0..n : Same(p0, V(k), PowerOf(LimbM, k) * y)}
<1>1. /\ LimbM \in Nat \ {0} /\ LimbM \in Int /\ LimbK \in Nat /\ LimbK >= 2 /\ LimbC \in Int
      /\ LimbIndex = 0..n /\ n \in Nat
  BY LimbSizes DEF LimbIndex
<1>2. p0 \in Nat /\ p0 > 0 /\ y \in Int
  BY LimbModulus, LimbValues
<1>3. \A k \in 0..n : V(k) \in Int
  <2> TAKE k \in 0..n
  <2>1. \A j \in LimbIndex : LimbRow(g, k)[j] \in Int
    BY <1>1, RowLimbs
  <2> QED
    BY <2>1, LimbValues
<1>4. \A k \in Nat : PowerOf(LimbM, k) \in Nat
  BY <1>1, PowersStep
<1>5. PowerOf(LimbM, 0) = 1 /\ \A k \in Nat : PowerOf(LimbM, k + 1) = LimbM * PowerOf(LimbM, k)
  BY <1>1, PowersStep
<1>6. V(0) = y
  <2> DEFINE z == 0
             r == LimbRow(g, z)
  <2>1. z \in LimbIndex /\ z = 0
    BY <1>1
  <2> HIDE DEF z
  <2>2. \A j \in LimbIndex : j >= z => j - z \in LimbIndex /\ r[j] = g[j - z]
    BY <2>1, RowLimbs
  <2>3. ASSUME NEW j \in LimbIndex PROVE r[j] = g[j] + z * g[j]
    <3>1. j >= z /\ j - z = j
      BY <1>1, <2>1
    <3>2. r[j] = g[j]
      <4> HIDE DEF r
      <4> QED
        BY <2>2, <3>1
    <3> DEFINE u == g[j]
    <3>3. u \in Int
      OBVIOUS
    <3> HIDE DEF u
    <3>4. u + z * u = u
      BY <2>1, <3>3
    <3> QED
      BY <3>2, <3>4 DEF u
  <2> HIDE DEF r
  <2>4. LimbsLinear(g, g, r, z) /\ z \in Int
    BY <2>1, <2>3 DEF LimbsLinear
  <2>5. Limb!Value(r) = Limb!Value(g) + z * Limb!Value(g)
    BY <2>4, LimbsAddUp
  <2>6. y + z * y = y
    <3> HIDE DEF y
    <3> QED
      BY <1>2, <2>1
  <2> QED
    BY <2>1, <2>5, <2>6 DEF r
<1>7. \A k \in 0..(LimbK - 2) : /\ LimbRow(g, k)[n] \in Int
                                /\ V(k + 1) = LimbM * V(k) - LimbRow(g, k)[n] * p0
  BY RowShift
<1> HIDE DEF V, y, p0
<1>8. 0 \in S
  <2>1. 1 * y = y
    BY <1>2
  <2> QED
    BY <1>1, <1>5, <1>6, <2>1 DEF Same
<1>9. ASSUME NEW k \in 1..n, k - 1 \in S PROVE k \in S
  <2> DEFINE i0 == k - 1
             x == LimbRow(g, i0)[n]
             w == PowerOf(LimbM, i0)
             u == V(i0)
             v == V(k)
  <2>1. i0 \in 0..(LimbK - 2) /\ i0 + 1 = k /\ k \in 0..n /\ i0 \in 0..n /\ i0 \in Nat
    BY <1>1
  <2>2. x \in Int /\ v = LimbM * u - x * p0
    <3> HIDE DEF i0
    <3> QED
      BY <1>7, <2>1
  <2>3. Same(p0, u, w * y)
    BY <1>9
  <2>4. u \in Int /\ v \in Int /\ w \in Int /\ PowerOf(LimbM, k) = LimbM * w
    <3> HIDE DEF i0
    <3> QED
      BY <1>3, <1>4, <1>5, <2>1
  <2> HIDE DEF i0, x, w, u, v
  <2>5. w * y \in Int /\ (w * y) * LimbM = (LimbM * w) * y /\ u * LimbM \in Int
    BY <1>1, <1>2, <2>4, Product3
  <2>6. Same(p0, u * LimbM, (w * y) * LimbM)
    BY <1>1, <1>2, <2>3, <2>4, <2>5, SameTimes
  <2>7. Same(p0, v, u * LimbM)
    <3> DEFINE e == u * LimbM
               x1 == 0 - x
    <3>1. v = e + x1 * p0 /\ x1 \in Int
      BY <1>1, <1>2, <2>2, <2>4, SMTT(30)
    <3> HIDE DEF e, x1
    <3>2. Apart(p0, v, e)
      BY <3>1 DEF Apart
    <3>3. e \in Int
      BY <2>5 DEF e
    <3> QED
      BY <1>2, <2>4, <3>2, <3>3, ApartSame DEF e
  <2>8. Same(p0, v, PowerOf(LimbM, k) * y)
    BY <2>4, <2>5, <2>6, <2>7 DEF Same
  <2> QED
    BY <2>1, <2>8 DEF v
<1>10. 0..n \subseteq S
  <2> HIDE DEF S
  <2> QED
    BY <1>1, <1>8, <1>9, UpTo
<1>11. m \in S /\ m \in 0..n
  BY <1>1, <1>10
<1> QED
  BY <1>3, <1>11 DEF V, y, p0

(* The columns stand for the product of the two numbers. *)
LEMMA ColumnsValue ==
  ASSUME Limb!Fe51Parameters, NEW f, NEW g, \A j \in LimbIndex : f[j] \in Int /\ g[j] \in Int
  PROVE  /\ \A n \in LimbIndex : LimbColumns(f, g)[n] \in Int
         /\ Same(Limb!P, Limb!Value(LimbColumns(f, g)), Limb!Value(f) * Limb!Value(g))
<1> DEFINE T(m) == [n \in LimbIndex |-> SumOf(LimbRowTerms(f, g, n), m)]
           V(m) == Limb!Value(T(m))
           X(m) == Weighted(f, LimbM, m)
           y == Limb!Value(g)
           p0 == Limb!P
           S == {m \in 0..LimbK : Same(p0, V(m), X(m) * y)}
<1>1. /\ LimbM \in Nat \ {0} /\ LimbM \in Int /\ LimbK \in Nat /\ LimbK >= 2 /\ LimbC \in Int
      /\ LimbIndex = 0..(LimbK - 1)
  BY LimbSizes DEF LimbIndex
<1>2. p0 \in Nat /\ p0 > 0 /\ y \in Int
  BY LimbModulus, LimbValues
<1>3. ASSUME NEW n \in LimbIndex
      PROVE  /\ SumOf(LimbRowTerms(f, g, n), 0) = 0
             /\ \A m \in LimbIndex :
                  SumOf(LimbRowTerms(f, g, n), m + 1) =
                    SumOf(LimbRowTerms(f, g, n), m) + f[m] * LimbRow(g, m)[n]
             /\ \A m \in 0..LimbK : SumOf(LimbRowTerms(f, g, n), m) \in Int
             /\ LimbColumns(f, g)[n] = SumOf(LimbRowTerms(f, g, n), LimbK)
  <2> DEFINE h == LimbRowTerms(f, g, n)
  <2>1. /\ \A j \in LimbIndex : h[j] \in Int
        /\ LimbColumns(f, g)[n] = SumOf(h, LimbK)
    BY ColumnsAreRows
  <2>2. \A j \in LimbIndex : h[j] = f[j] * LimbRow(g, j)[n]
    BY DEF LimbRowTerms
  <2> HIDE DEF h
  <2>3. \A j \in 0..(LimbK - 1) : h[j] \in Int
    BY <1>1, <2>1
  <2>4. /\ SumOf(h, 0) = 0
        /\ \A k \in 0..(LimbK - 1) : SumOf(h, k + 1) = SumOf(h, k) + h[k]
        /\ \A k \in 0..LimbK : SumOf(h, k) \in Int
    BY <1>1, <2>3, SumsStep
  <2> QED
    BY <1>1, <2>1, <2>2, <2>4 DEF h
<1>4. \A m \in 0..LimbK : \A n \in LimbIndex : T(m)[n] \in Int
  BY <1>3
<1>5. \A m \in 0..LimbK : V(m) \in Int
  <2> TAKE m \in 0..LimbK
  <2>1. \A n \in LimbIndex : T(m)[n] \in Int
    BY <1>4
  <2> HIDE DEF T
  <2> QED
    BY <2>1, LimbValues
<1>6. /\ X(0) = 0
      /\ \A m \in LimbIndex : X(m + 1) = X(m) + f[m] * PowerOf(LimbM, m)
      /\ \A m \in 0..LimbK : X(m) \in Int
  <2>1. \A j \in 0..(LimbK - 1) : f[j] \in Int
    BY <1>1
  <2> QED
    BY <1>1, <2>1, WeightedStep
<1>7. \A m \in LimbIndex : /\ Limb!Value(LimbRow(g, m)) \in Int
                           /\ Same(p0, Limb!Value(LimbRow(g, m)), PowerOf(LimbM, m) * y)
  <2>1. \A j \in LimbIndex : g[j] \in Int
    OBVIOUS
  <2> QED
    BY <2>1, RowValue
<1>8. ASSUME NEW m \in LimbIndex
      PROVE  V(m + 1) = V(m) + f[m] * Limb!Value(LimbRow(g, m))
  <2> DEFINE c == f[m]
             r == LimbRow(g, m)
             m1 == m + 1
             t1 == T(m)
             t2 == T(m1)
  <2>1. c \in Int /\ m \in 0..LimbK /\ m1 \in 0..LimbK
    BY <1>1
  <2>2. \A j \in LimbIndex : r[j] \in Int
    <3>1. \A j \in LimbIndex : g[j] \in Int
      OBVIOUS
    <3> QED
      BY <3>1, RowLimbs
  <2>3. \A j \in LimbIndex : t1[j] \in Int
    BY <1>4, <2>1
  <2>4. \A j \in LimbIndex : t2[j] = t1[j] + c * r[j]
    <3> TAKE j \in LimbIndex
    <3>1. SumOf(LimbRowTerms(f, g, j), m1) = SumOf(LimbRowTerms(f, g, j), m) + c * r[j]
      BY <1>3
    <3> QED
      BY <3>1
  <2> HIDE DEF c, r, t1, t2
  <2>5. LimbsLinear(t1, r, t2, c)
    BY <2>2, <2>3, <2>4 DEF LimbsLinear
  <2>6. Limb!Value(t2) = Limb!Value(t1) + c * Limb!Value(r)
    BY <2>1, <2>5, LimbsAddUp
  <2> QED
    BY <2>6 DEF t1, t2, c, r
<1>9. V(0) = 0
  <2> DEFINE z == 0
             c == -1
             t0 == T(z)
  <2>1. z \in 0..LimbK
    BY <1>1
  <2>2. \A j \in LimbIndex : t0[j] = 0
    BY <1>3
  <2> HIDE DEF t0
  <2>3. LimbsLinear(t0, t0, t0, c)
    BY <2>2 DEF LimbsLinear
  <2> DEFINE u == Limb!Value(t0)
  <2>4. c \in Int
    OBVIOUS
  <2> HIDE DEF c
  <2>5. u \in Int /\ u = u + c * u
    BY <2>3, <2>4, LimbsAddUp
  <2> HIDE DEF u
  <2>6. u = 0
    BY <2>5 DEF c
  <2> QED
    BY <2>6 DEF u, t0
<1> HIDE DEF V, X, y, p0
<1>10. 0 \in S
  <2>1. 0 * y = 0
    BY <1>2
  <2> QED
    BY <1>1, <1>6, <1>9, <2>1 DEF Same
<1>11. ASSUME NEW k \in 1..LimbK, k - 1 \in S PROVE k \in S
  <2> DEFINE i0 == k - 1
             c == f[i0]
             w == PowerOf(LimbM, i0)
             u == Limb!Value(LimbRow(g, i0))
             v == V(i0)
             x == X(i0)
  <2>1. i0 \in LimbIndex /\ i0 + 1 = k /\ k \in 0..LimbK /\ i0 \in 0..LimbK /\ i0 \in Nat
    BY <1>1
  <2>2. /\ u \in Int /\ Same(p0, u, w * y)
        /\ v \in Int /\ x \in Int /\ c \in Int /\ w \in Int
        /\ V(k) = v + c * u /\ X(k) = x + c * w
    <3> HIDE DEF i0
    <3>1. u \in Int /\ Same(p0, u, w * y)
      BY <1>7, <2>1
    <3>2. v \in Int /\ x \in Int /\ c \in Int
      BY <1>5, <1>6, <2>1
    <3>3. w \in Nat
      BY <1>1, <2>1, PowersStep
    <3>4. V(i0 + 1) = v + c * u
      BY <1>8, <2>1
    <3>5. X(i0 + 1) = x + c * w
      BY <1>6, <2>1
    <3> QED
      BY <2>1, <3>1, <3>2, <3>3, <3>4, <3>5
  <2>3. Same(p0, v, x * y)
    BY <1>11
  <2> HIDE DEF i0, c, w, u, v, x
  <2>4. w * y \in Int /\ x * y \in Int /\ u * c \in Int /\ (w * y) * c \in Int /\ u * c = c * u
    BY <1>2, <2>2, Product3
  <2>5. Same(p0, u * c, (w * y) * c)
    BY <1>2, <2>2, <2>4, SameTimes
  <2>6. Same(p0, v + u * c, x * y + (w * y) * c)
    BY <1>2, <2>2, <2>3, <2>4, <2>5, SameSums
  <2>7. x * y + (w * y) * c = (x + c * w) * y
    BY <1>2, <2>2, SMTT(30)
  <2>8. Same(p0, V(k), X(k) * y)
    BY <2>2, <2>4, <2>6, <2>7
  <2> QED
    BY <2>1, <2>8
<1>12. 0..LimbK \subseteq S
  <2> HIDE DEF S
  <2> QED
    BY <1>1, <1>10, <1>11, UpTo
<1>13. LimbK \in S
  <2>1. LimbK \in 0..LimbK
    BY <1>1
  <2> QED
    BY <1>12, <2>1
<1>14. LimbColumns(f, g) = T(LimbK)
  <2>1. LimbColumns(f, g) = [n \in LimbIndex |-> LimbColumns(f, g)[n]]
    BY DEF LimbColumns
  <2>2. \A n \in LimbIndex : LimbColumns(f, g)[n] = SumOf(LimbRowTerms(f, g, n), LimbK)
    BY <1>3
  <2> QED
    BY <2>1, <2>2
<1>15. X(LimbK) = Limb!Value(f)
  <2>1. \A j \in LimbIndex : f[j] \in Int
    OBVIOUS
  <2> QED
    BY <2>1, LimbValues DEF X
<1>16. \A n \in LimbIndex : LimbColumns(f, g)[n] \in Int
  <2>1. LimbK \in 0..LimbK
    BY <1>1
  <2> QED
    BY <1>3, <2>1
<1>17. Same(p0, V(LimbK), X(LimbK) * y)
  BY <1>13
<1> QED
  BY <1>14, <1>15, <1>16, <1>17 DEF V, y, p0

(* Limbs of a product: below M, but for limb 1. *)
LimbsTyped(f) == \A j \in LimbIndex : f[j] \in 0..(IF j = 1 THEN 2 * LimbM - 3 ELSE LimbM - 1)

(* Columns of products of numbers whose limbs are below 4 M. *)
LimbsWide(r) ==
  /\ \A j \in LimbIndex : r[j] \in 0..(16 * ((LimbK * LimbC) * LimbM) * LimbM)
  /\ r[LimbK - 1] \in 0..(16 * (LimbK * LimbM) * LimbM)

(* Their carries fold into a little more than limb 0. *)
LEMMA WideTopCarry ==
  ASSUME Limb!Fe51Parameters, NEW r, LimbsWide(r)
  PROVE  /\ \A j \in LimbIndex : r[j] \in Nat
         /\ Limb!CarryOut(r)[LimbK - 1] \in 0..(16 * (LimbK * LimbM) + 17 * (LimbK * LimbC))
<1> DEFINE kc == LimbK * LimbC
           z == kc * LimbM
           e == 16 * z * LimbM
           q == 17 * z
           km == LimbK * LimbM
           e1 == 16 * km * LimbM
           t1 == 16 * km + 17 * kc
           n == LimbK - 1
           c == Limb!CarryOut(r)
<1>1. /\ LimbM \in Nat /\ LimbM > 0 /\ LimbM > 72 /\ LimbK \in Nat /\ LimbK >= 2 /\ LimbC \in Nat
      /\ LimbIndex = 0..n /\ n \in Nat /\ n >= 1
  <2>1. LimbM > 72
    <3>1. PICK kd, kcc \in Nat : kd >= 4 /\ kcc >= 2 * kd /\ 9 * kcc < LimbM
      BY LimbRoom
    <3> QED
      BY <3>1, LimbSizes
  <2> QED
    BY <2>1, LimbSizes DEF LimbIndex
<1>2. kc \in Nat /\ km \in Nat
  BY <1>1, SMTT(30)
<1>3. (\A j \in LimbIndex : r[j] \in 0..e) /\ r[n] \in 0..e1
  BY DEF LimbsWide
<1> HIDE DEF kc, km
<1>4. z \in Nat
  BY <1>1, <1>2, SMTT(30)
<1>5. z * LimbM \in Nat /\ 17 * z <= z * LimbM
  <2> HIDE DEF z
  <2> QED
    BY <1>1, <1>4, SMTT(30)
<1>6. e \in Nat /\ e = 16 * (z * LimbM)
  <2> HIDE DEF z
  <2> QED
    BY <1>1, <1>4, <1>5, SMTT(30)
<1>7. q \in Nat /\ (q + 1) * LimbM = 17 * (z * LimbM) + LimbM
  <2> HIDE DEF z
  <2> QED
    BY <1>1, <1>4, <1>5, SMTT(30)
<1>8. e + q < (q + 1) * LimbM
  <2> DEFINE w == z * LimbM
  <2>1. w \in Nat /\ e = 16 * w /\ (q + 1) * LimbM = 17 * w + LimbM /\ q <= w
    BY <1>5, <1>6, <1>7
  <2> HIDE DEF w, e, z
  <2> DEFINE x == (q + 1) * LimbM
  <2>2. x = 17 * w + LimbM
    BY <2>1
  <2> HIDE DEF x, q
  <2>3. e + q < x
    BY <1>1, <1>7, <2>1, <2>2
  <2> QED
    BY <2>3 DEF x
<1> HIDE DEF e, q
<1>9. \A j \in LimbIndex : c[j] \in 0..q
  BY <1>3, <1>6, <1>7, <1>8, LimbCarryBound
<1>10. \A j \in LimbIndex : r[j] \in Nat
  BY <1>3, <1>6
<1>11. c[n] = (r[n] + c[n - 1]) \div LimbM
  <2>1. n \in 1..(LimbK - 1)
    BY <1>1
  <2> QED
    BY <1>10, <2>1, CarriesUnfolded
<1> DEFINE x == r[n] + c[n - 1]
           u == r[n]
           v == c[n - 1]
<1>12. u \in 0..e1 /\ v \in 0..q /\ x = u + v
  <2>1. n - 1 \in LimbIndex
    BY <1>1
  <2>2. c[n - 1] \in 0..q
    BY <1>9, <2>1
  <2> QED
    BY <1>3, <2>2
<1>13. e1 \in Nat /\ e1 = 16 * (km * LimbM) /\ km * LimbM \in Nat
  BY <1>1, <1>2, SMTT(30)
<1>14. q = 17 * (kc * LimbM) /\ kc * LimbM \in Nat
  BY <1>4 DEF q
<1>15. t1 \in Nat /\ (t1 + 1) * LimbM = (16 * (km * LimbM) + 17 * (kc * LimbM)) + LimbM
  BY <1>1, <1>2, <1>13, <1>14, SMTT(30)
<1> DEFINE b1 == t1 + 1
<1>16. b1 \in Nat /\ b1 - 1 = t1 /\ b1 * LimbM = (e1 + q) + LimbM
  BY <1>13, <1>14, <1>15
<1> HIDE DEF x, u, v, e1, t1, b1, c, z
<1>17. x \in Nat /\ x <= e1 + q
  BY <1>7, <1>12, <1>13
<1>18. x < b1 * LimbM
  <2> DEFINE y == b1 * LimbM
  <2>1. y = (e1 + q) + LimbM
    BY <1>16
  <2> HIDE DEF y
  <2>2. x < y
    BY <1>1, <1>7, <1>13, <1>17, <2>1
  <2> QED
    BY <2>2 DEF y
<1>19. x \div LimbM \in 0..t1
  BY <1>1, <1>16, <1>17, <1>18, QuotientBound
<1> QED
  BY <1>10, <1>11, <1>19 DEF x, u, v, t1, c, km, kc, n

LEMMA CarriedTyped ==
  ASSUME Limb!Fe51Parameters, NEW r, LimbsWide(r)
  PROVE  /\ \A j \in LimbIndex : r[j] \in Nat
         /\ LimbsTyped(Limb!Carried(r))
<1> DEFINE kc == LimbK * LimbC
           kcc == kc * LimbC
           km == LimbK * LimbM
           t1 == 16 * km + 17 * kc
           n == LimbK - 1
           u == Limb!CarryOut(r)[n]
           low == Limb!Pass(r)[0]
           d == LimbDigits(r)
           g == Limb!Carried(r)
           q == low \div LimbM
<1>1. /\ LimbM \in Nat /\ LimbM \in Nat \ {0} /\ LimbM > 0 /\ LimbK \in Nat /\ LimbK >= 2 /\ LimbC \in Nat
      /\ LimbIndex = 0..n /\ 0 \in LimbIndex /\ 1 \in LimbIndex
  BY LimbSizes DEF LimbIndex
<1>2. kc \in Nat /\ kcc \in Nat /\ kc >= 4 /\ kcc >= 2 * kc /\ kc >= 2 * LimbC /\ 9 * kcc < LimbM
  <2>1. PICK kd, kdd \in Nat : /\ kd = LimbK * LimbC /\ kdd = kd * LimbC
                               /\ kd >= 4 /\ kdd >= 2 * kd /\ kd >= 2 * LimbC /\ 9 * kdd < LimbM
    BY LimbRoom
  <2> QED
    BY <2>1
<1>3. /\ \A j \in LimbIndex : r[j] \in Nat
      /\ u \in 0..t1
  BY WideTopCarry
<1>4. /\ \A j \in LimbIndex : d[j] \in 0..(LimbM - 1)
  BY <1>3, LimbCarries
<1>5. u \in Nat /\ low = d[0] + u * LimbC
  BY <1>3, PassValue
<1>6. /\ low \in Nat
      /\ g[0] = low % LimbM
      /\ g[1] = d[1] + q
      /\ \A j \in 2..n : g[j] = d[j]
  BY <1>3, CarriedValue
<1>7. km \in Nat /\ t1 \in Nat /\ t1 * LimbC = 16 * (kc * LimbM) + 17 * kcc /\ kc * LimbM \in Nat
  <2>1. km \in Nat /\ km * LimbC = kc * LimbM
    BY <1>1, SMTT(30)
  <2> HIDE DEF km, kc
  <2>2. (16 * km + 17 * kc) * LimbC = 16 * (km * LimbC) + 17 * (kc * LimbC)
    BY <1>1, <1>2, <2>1, SMTT(30)
  <2>3. kc * LimbM \in Nat
    BY <1>1, <1>2, SMTT(30)
  <2> QED
    BY <1>2, <2>1, <2>2, <2>3
<1>8. u * LimbC \in Nat /\ u * LimbC <= t1 * LimbC
  <2> HIDE DEF u, t1
  <2> QED
    BY <1>1, <1>3, <1>7, SMTT(30)
<1> DEFINE x == u * LimbC
           y == kc * LimbM
           b1 == 16 * kc + 3
<1>9. x \in Nat /\ y \in Nat /\ x <= 16 * y + 17 * kcc /\ low = d[0] + x
  <2> HIDE DEF u, t1, kcc, kc
  <2> QED
    BY <1>2, <1>5, <1>7, <1>8
<1>10. b1 \in Nat /\ b1 * LimbM = 16 * y + 3 * LimbM
  <2> HIDE DEF kc
  <2> QED
    BY <1>1, <1>2, SMTT(30)
<1> HIDE DEF u, t1, kc, kcc, x, y, d, g, low, km, q
<1>11. low < 16 * y + 3 * LimbM
  <2>1. d[0] \in 0..(LimbM - 1)
    BY <1>1, <1>4
  <2> QED
    BY <1>1, <1>2, <1>9, <2>1
<1>12. q \in 0..(LimbM - 2)
  <2>1. b1 - 1 = 16 * kc + 2 /\ 16 * kc + 2 <= LimbM - 2
    BY <1>1, <1>2
  <2> HIDE DEF b1
  <2>2. low < b1 * LimbM
    BY <1>10, <1>11
  <2>3. low \div LimbM \in 0..(b1 - 1)
    BY <1>1, <1>6, <1>10, <2>2, QuotientBound
  <2> QED
    BY <1>1, <1>2, <2>1, <2>3 DEF q
<1>13. low % LimbM \in 0..(LimbM - 1)
  BY <1>1, <1>6, NatDivision
<1>14. ASSUME NEW j \in LimbIndex PROVE g[j] \in 0..(IF j = 1 THEN 2 * LimbM - 3 ELSE LimbM - 1)
  <2>1. CASE j = 0
    BY <1>6, <1>13, <2>1
  <2>2. CASE j = 1
    <3>1. d[1] \in 0..(LimbM - 1)
      BY <1>1, <1>4
    <3>2. d[1] + q \in 0..(2 * LimbM - 3)
      BY <1>1, <1>12, <3>1
    <3> QED
      BY <1>6, <2>2, <3>2
  <2>3. CASE j # 0 /\ j # 1
    <3>1. j \in 2..n
      BY <1>1, <2>3
    <3> QED
      BY <1>4, <1>6, <2>3, <3>1
  <2> QED
    BY <2>1, <2>2, <2>3
<1> QED
  BY <1>3, <1>14 DEF LimbsTyped, g

(* Limbs of sums and differences of products. *)
LimbsLoose(f) == \A j \in LimbIndex : f[j] \in 0..(4 * LimbM)

LEMMA ColumnsWide ==
  ASSUME Limb!Fe51Parameters, NEW f, NEW g, LimbsLoose(f), LimbsLoose(g)
  PROVE  LimbsWide(LimbColumns(f, g))
<1> DEFINE e == 4 * LimbM
           h == LimbC * e
           eh == e * h
           ee == e * e
           top == LimbK - 1
<1>1. /\ LimbM \in Nat /\ LimbK \in Nat /\ LimbK >= 2 /\ LimbC \in Nat /\ LimbC >= 2
      /\ LimbIndex = 0..(LimbK - 1) /\ top \in LimbIndex
  BY LimbSizes DEF LimbIndex
<1>2. e \in Nat
  BY <1>1
<1>3. \A j \in LimbIndex : f[j] \in 0..e /\ g[j] \in 0..e
  BY DEF LimbsLoose
<1>4. eh = 16 * (LimbC * (LimbM * LimbM)) /\ ee = 16 * (LimbM * LimbM)
  BY <1>1, SMTT(30)
<1> HIDE DEF e
<1>5. h \in Nat /\ h >= e
  BY <1>1, <1>2, SMTT(30)
<1> HIDE DEF h
<1>6. eh \in Nat /\ ee \in Nat
  BY <1>2, <1>5, SMTT(30)
<1>7. \A j \in LimbIndex : f[j] \in Int /\ g[j] \in Int
  BY <1>2, <1>3
<1>8. ASSUME NEW j \in LimbIndex, NEW n \in LimbIndex
      PROVE  /\ LimbRow(g, j)[n] \in 0..h
             /\ n >= j => LimbRow(g, j)[n] \in 0..e
  <2>1. \A k \in LimbIndex : g[k] \in Int
    BY <1>7
  <2>2. /\ n >= j => n - j \in LimbIndex /\ LimbRow(g, j)[n] = g[n - j]
        /\ n < j => /\ n + (LimbK - j) \in LimbIndex
                    /\ LimbRow(g, j)[n] = LimbC * g[n + (LimbK - j)]
    BY <2>1, RowLimbs
  <2>3. n >= j \/ n < j
    BY <1>1
  <2>4. CASE n >= j
    <3>1. LimbRow(g, j)[n] \in 0..e
      BY <1>3, <2>2, <2>4
    <3> DEFINE v == LimbRow(g, j)[n]
    <3>2. v \in 0..e
      BY <3>1
    <3> HIDE DEF v
    <3>3. v \in 0..h
      BY <1>2, <1>5, <3>2
    <3> QED
      BY <3>1, <3>3 DEF v
  <2>5. CASE n < j
    <3> DEFINE v == g[n + (LimbK - j)]
    <3>1. v \in 0..e /\ LimbRow(g, j)[n] = LimbC * v
      BY <1>3, <2>2, <2>5
    <3> HIDE DEF v
    <3>2. LimbC * v \in 0..(LimbC * e)
      BY <1>1, <1>2, <3>1, SMTT(30)
    <3>3. ~(n >= j)
      BY <1>1, <2>5
    <3> QED
      BY <3>1, <3>2, <3>3 DEF h
  <2> QED
    BY <2>3, <2>4, <2>5
<1>9. ASSUME NEW n \in LimbIndex
      PROVE  /\ LimbColumns(f, g)[n] \in 0..(LimbK * eh)
             /\ n = top => LimbColumns(f, g)[n] \in 0..(LimbK * ee)
  <2> DEFINE terms == LimbRowTerms(f, g, n)
  <2>1. LimbColumns(f, g)[n] = SumOf(terms, LimbK)
    BY <1>7, ColumnsAreRows
  <2>2. \A j \in LimbIndex : terms[j] = f[j] * LimbRow(g, j)[n]
    BY DEF LimbRowTerms
  <2> HIDE DEF terms
  <2>3. \A j \in 0..(LimbK - 1) : terms[j] \in 0..eh
    <3> TAKE j \in 0..(LimbK - 1)
    <3> DEFINE u == f[j]
               v == LimbRow(g, j)[n]
    <3>1. j \in LimbIndex
      BY <1>1
    <3>2. u \in 0..e /\ v \in 0..h /\ terms[j] = u * v
      BY <1>3, <1>8, <2>2, <3>1
    <3> HIDE DEF u, v
    <3>3. u * v \in 0..(e * h)
      BY <1>2, <1>5, <3>2, ProductRange
    <3> QED
      BY <3>2, <3>3
  <2>4. ASSUME n = top PROVE \A j \in 0..(LimbK - 1) : terms[j] \in 0..ee
    <3> TAKE j \in 0..(LimbK - 1)
    <3> DEFINE u == f[j]
               v == LimbRow(g, j)[n]
    <3>1. j \in LimbIndex /\ n >= j
      BY <1>1, <2>4
    <3>2. u \in 0..e /\ v \in 0..e /\ terms[j] = u * v
      BY <1>3, <1>8, <2>2, <3>1
    <3> HIDE DEF u, v
    <3>3. u * v \in 0..(e * e)
      BY <1>2, <3>2, ProductRange
    <3> QED
      BY <3>2, <3>3
  <2> HIDE DEF eh, ee
  <2>5. SumOf(terms, LimbK) \in 0..(LimbK * eh)
    BY <1>1, <1>6, <2>3, SumsBounded
  <2>6. n = top => SumOf(terms, LimbK) \in 0..(LimbK * ee)
    BY <1>1, <1>6, <2>4, SumsBounded
  <2> QED
    BY <2>1, <2>5, <2>6
<1>10. /\ LimbK * eh = 16 * ((LimbK * LimbC) * LimbM) * LimbM
       /\ LimbK * ee = 16 * (LimbK * LimbM) * LimbM
  <2> HIDE DEF eh, ee
  <2>1. LimbK * (16 * (LimbC * (LimbM * LimbM))) = 16 * ((LimbK * LimbC) * LimbM) * LimbM
    BY <1>1, SMTT(30)
  <2>2. LimbK * (16 * (LimbM * LimbM)) = 16 * (LimbK * LimbM) * LimbM
    BY <1>1, SMTT(30)
  <2> QED
    BY <1>4, <2>1, <2>2
<1> HIDE DEF eh, ee
<1>11. LimbColumns(f, g)[top] \in 0..(LimbK * ee)
  BY <1>1, <1>9
<1> QED
  BY <1>9, <1>10, <1>11 DEF LimbsWide

LEMMA ScaledWide ==
  ASSUME Limb!Fe51Parameters, NEW f, LimbsLoose(f), NEW s \in 0..LimbM
  PROVE  LimbsWide(LimbsScaled(f, s))
<1> DEFINE e == 4 * LimbM
           w == LimbM * LimbM
           kc == LimbK * LimbC
           b1 == 16 * (kc * LimbM) * LimbM
           b2 == 16 * (LimbK * LimbM) * LimbM
<1>1. /\ LimbM \in Nat /\ LimbK \in Nat /\ LimbK >= 2 /\ LimbC \in Nat
      /\ LimbIndex = 0..(LimbK - 1) /\ LimbK - 1 \in LimbIndex
  BY LimbSizes DEF LimbIndex
<1>2. e \in Nat /\ e * LimbM = 4 * w /\ w \in Nat
  BY <1>1, SMTT(30)
<1>3. kc \in Nat /\ kc >= 4
  BY LimbRoom
<1>4. b1 = 16 * (kc * w) /\ b2 = 16 * (LimbK * w)
  <2> HIDE DEF kc
  <2> QED
    BY <1>1, <1>3, SMTT(30)
<1> HIDE DEF w, kc, b1, b2
<1>5. kc * w \in Nat /\ kc * w >= w /\ LimbK * w \in Nat /\ LimbK * w >= w
  BY <1>1, <1>2, <1>3, SMTT(30)
<1> DEFINE x1 == kc * w
           x2 == LimbK * w
<1>6. b1 = 16 * x1 /\ b2 = 16 * x2 /\ x1 \in Nat /\ x1 >= w /\ x2 \in Nat /\ x2 >= w
  BY <1>4, <1>5
<1> HIDE DEF x1, x2
<1>7. ASSUME NEW j \in LimbIndex PROVE LimbsScaled(f, s)[j] \in 0..b1 /\ LimbsScaled(f, s)[j] \in 0..b2
  <2> DEFINE u == f[j]
  <2>1. u \in 0..e /\ LimbsScaled(f, s)[j] = u * s
    BY DEF LimbsLoose, LimbsScaled
  <2> HIDE DEF u, e
  <2>2. u * s \in 0..(e * LimbM)
    BY <1>1, <1>2, <2>1, ProductRange
  <2> DEFINE y == u * s
  <2>3. y \in 0..(4 * w)
    BY <1>2, <2>2
  <2> HIDE DEF y
  <2>4. y \in 0..b1 /\ y \in 0..b2
    BY <1>2, <1>6, <2>3
  <2> QED
    BY <2>1, <2>4 DEF y
<1> QED
  BY <1>1, <1>7 DEF LimbsWide, b1, b2, kc

(* What one pass leaves of loose limbs. *)
LEMMA PassLoose ==
  ASSUME Limb!Fe51Parameters, NEW f, LimbsLoose(f)
  PROVE  /\ \A j \in LimbIndex : f[j] \in Nat /\ Limb!Pass(f)[j] \in Nat
         /\ Limb!Pass(f)[0] <= LimbM - 1 + 4 * LimbC
         /\ \A j \in 1..(LimbK - 1) : Limb!Pass(f)[j] \in 0..(LimbM - 1)
<1> DEFINE e == 4 * LimbM
           q == 4
           n == LimbK - 1
           c == Limb!CarryOut(f)
           d == LimbDigits(f)
           s == Limb!Pass(f)
<1>1. /\ LimbM \in Nat /\ LimbK \in Nat /\ LimbK >= 2 /\ LimbC \in Nat
      /\ LimbIndex = 0..n /\ n \in LimbIndex /\ 0 \in LimbIndex
  BY LimbSizes DEF LimbIndex
<1>2. LimbM > 72
  <2>1. PICK kd, kcc \in Nat : kd >= 4 /\ kcc >= 2 * kd /\ 9 * kcc < LimbM
    BY LimbRoom
  <2> QED
    BY <1>1, <2>1
<1>3. \A j \in LimbIndex : f[j] \in 0..e
  BY DEF LimbsLoose
<1>4. e \in Nat /\ q \in Nat /\ e + q < (q + 1) * LimbM
  BY <1>1, <1>2
<1> HIDE DEF e
<1>5. \A j \in LimbIndex : f[j] \in Nat
  BY <1>3, <1>4
<1>6. \A j \in LimbIndex : c[j] \in 0..q
  <2> HIDE DEF q, c
  <2> QED
    BY <1>3, <1>4, LimbCarryBound DEF c
<1>7. \A j \in LimbIndex : d[j] \in 0..(LimbM - 1)
  BY <1>5, LimbCarries
<1>8. /\ s[0] = d[0] + c[n] * LimbC
      /\ \A j \in 1..n : s[j] = d[j]
      /\ \A j \in LimbIndex : s[j] \in Nat
  BY <1>5, PassValue
<1> HIDE DEF c, d, s
<1>9. s[0] <= LimbM - 1 + 4 * LimbC
  <2> DEFINE u == c[n]
             v == d[0]
  <2>1. u \in 0..4 /\ v \in 0..(LimbM - 1) /\ s[0] = v + u * LimbC
    BY <1>1, <1>6, <1>7, <1>8
  <2> HIDE DEF u, v
  <2>2. u * LimbC \in Nat /\ u * LimbC <= 4 * LimbC
    BY <1>1, <2>1, SMTT(30)
  <2> QED
    BY <1>1, <2>1, <2>2
<1>10. ASSUME NEW j \in 1..n PROVE s[j] \in 0..(LimbM - 1)
  <2>1. j \in LimbIndex
    BY <1>1
  <2> QED
    BY <1>7, <1>8, <2>1
<1> QED
  BY <1>5, <1>8, <1>9, <1>10 DEF s

(* Two passes leave limbs that pack. *)
LEMMA PassesPack ==
  ASSUME Limb!Fe51Parameters, NEW f, LimbsLoose(f)
  PROVE  /\ \A j \in LimbIndex : Limb!Passes(f)[j] \in 0..(LimbM - 1)
         /\ Apart(Limb!P, Limb!Value(Limb!Passes(f)), Limb!Value(f))
<1> DEFINE s == Limb!Pass(f)
           e == LimbM - 1 + 4 * LimbC
           q == 1
           n == LimbK - 1
           c == Limb!CarryOut(s)
           d == LimbDigits(s)
           w == Limb!Pass(s)
<1>1. /\ LimbM \in Nat /\ LimbM > 0 /\ LimbK \in Nat /\ LimbK >= 2 /\ LimbC \in Nat
      /\ LimbIndex = 0..n /\ n \in Nat /\ n \in LimbIndex /\ 0 \in LimbIndex
  BY LimbSizes DEF LimbIndex
<1>2. LimbM > 9 * LimbC
  <2>1. PICK kd, kcc \in Nat : kd >= 4 /\ kcc >= 2 * kd /\ kd >= 2 * LimbC /\ 9 * kcc < LimbM
    BY LimbRoom
  <2> QED
    BY <1>1, <2>1
<1>3. /\ \A j \in LimbIndex : f[j] \in Nat
      /\ \A j \in LimbIndex : s[j] \in Nat
      /\ s[0] <= e
      /\ \A j \in 1..n : s[j] \in 0..(LimbM - 1)
  BY PassLoose
<1>4. /\ Limb!CarryOut(f)[n] \in Nat
      /\ Limb!Value(s) = Limb!Value(f) - Limb!CarryOut(f)[n] * Limb!P
  BY <1>3, PassValue
<1> HIDE DEF s
<1>5. e \in Nat /\ q \in Nat /\ e + q < (q + 1) * LimbM
  BY <1>1, <1>2
<1>6. \A j \in LimbIndex : s[j] \in 0..e
  <2> TAKE j \in LimbIndex
  <2>1. CASE j = 0
    BY <1>1, <1>3, <1>5, <2>1
  <2>2. CASE j # 0
    <3>1. j \in 1..n
      BY <1>1, <2>2
    <3>2. s[j] \in 0..(LimbM - 1)
      BY <1>3, <3>1
    <3> QED
      BY <1>1, <3>2
  <2> QED
    BY <2>1, <2>2
<1>7. \A j \in LimbIndex : c[j] \in 0..q
  <2> HIDE DEF q, c, e
  <2> QED
    BY <1>5, <1>6, LimbCarryBound DEF c
<1>8. /\ \A j \in LimbIndex : d[j] \in 0..(LimbM - 1)
      /\ d[0] = s[0] % LimbM
  BY <1>3, LimbCarries
<1>9. /\ c[n] \in Nat
      /\ w[0] = d[0] + c[n] * LimbC
      /\ \A j \in 1..n : w[j] = d[j]
      /\ Limb!Value(w) = Limb!Value(s) - c[n] * Limb!P
  BY <1>3, PassValue
<1>10. /\ c[0] = s[0] \div LimbM
       /\ \A j \in 1..n : c[j] = (s[j] + c[j - 1]) \div LimbM
  BY <1>3, CarriesUnfolded
<1> HIDE DEF c, d, w
(* A carry out of the top comes all the way from limb 0. *)
<1>11. c[n] = 1 => c[0] = 1
  <2> DEFINE S == {j \in 0..n : c[j] = 1 => c[0] = 1}
  <2>1. 0 \in S
    BY <1>1
  <2>2. ASSUME NEW j \in 1..n, j - 1 \in S PROVE j \in S
    <3> DEFINE k == j - 1
    <3>1. k \in LimbIndex /\ j \in 0..n
      BY <1>1
    <3>2. CASE c[k] = 1
      BY <2>2, <3>1, <3>2
    <3>3. CASE c[k] = 0
      <4> DEFINE x == s[j] + c[k]
                 z == 0
      <4>1. s[j] \in 0..(LimbM - 1)
        BY <1>3
      <4>2. x = s[j]
        BY <1>1, <3>3, <4>1
      <4>3. c[j] = x \div LimbM
        BY <1>10
      <4>4. x = LimbM * z + x /\ z \in Int /\ x \in Int /\ x \in 0..(LimbM - 1)
        <5>1. x \in Int /\ x \in 0..(LimbM - 1)
          BY <1>1, <4>1, <4>2
        <5> HIDE DEF x
        <5> QED
          BY <1>1, <5>1
      <4> HIDE DEF x, z
      <4>5. x \div LimbM = z
        BY <1>1, <4>4, DivisionUnique
      <4>6. c[j] = 0
        BY <4>3, <4>5 DEF z
      <4> QED
        BY <3>1, <4>6
    <3>4. c[k] = 0 \/ c[k] = 1
      <4>1. c[k] \in 0..1
        <5> HIDE DEF k
        <5> QED
          BY <1>7, <3>1
      <4> QED
        BY <4>1
    <3> QED
      BY <3>2, <3>3, <3>4
  <2>3. 0..n \subseteq S
    <3> HIDE DEF S
    <3> QED
      BY <1>1, <2>1, <2>2, UpTo
  <2>4. n \in S
    BY <1>1, <2>3
  <2> QED
    BY <2>4
<1>12. w[0] \in 0..(LimbM - 1)
  <2>1. d[0] \in 0..(LimbM - 1)
    BY <1>1, <1>8
  <2>2. CASE c[n] = 0
    <3>1. c[n] * LimbC = 0
      BY <1>1, <2>2
    <3>2. w[0] = d[0]
      BY <1>1, <1>9, <2>1, <3>1
    <3> QED
      BY <2>1, <3>2
  <2>3. CASE c[n] = 1
    <3>1. c[0] = 1
      BY <1>11, <2>3
    <3> DEFINE x == s[0]
    <3>2. x \in Nat /\ x <= e
      BY <1>1, <1>3
    <3>3. x \div LimbM = 1 /\ d[0] = x % LimbM
      BY <1>8, <1>10, <3>1
    <3> HIDE DEF x
    <3>4. x = LimbM * (x \div LimbM) + (x % LimbM)
      BY <1>1, <3>2, NatDivision
    <3>5. x = LimbM + d[0]
      BY <1>1, <2>1, <3>3, <3>4
    <3>6. d[0] <= 4 * LimbC - 1
      BY <1>1, <2>1, <3>2, <3>5
    <3>7. w[0] = d[0] + LimbC
      BY <1>1, <1>9, <2>3
    <3> QED
      BY <1>1, <1>2, <2>1, <3>6, <3>7
  <2>4. c[n] = 0 \/ c[n] = 1
    <3>1. c[n] \in 0..1
      BY <1>1, <1>7
    <3> QED
      BY <3>1
  <2> QED
    BY <2>2, <2>3, <2>4
<1>13. \A j \in LimbIndex : w[j] \in 0..(LimbM - 1)
  <2> TAKE j \in LimbIndex
  <2>1. CASE j = 0
    BY <1>12, <2>1
  <2>2. CASE j # 0
    <3>1. j \in 1..n
      BY <1>1, <2>2
    <3> QED
      BY <1>8, <1>9, <3>1
  <2> QED
    BY <2>1, <2>2
<1>14. Apart(Limb!P, Limb!Value(w), Limb!Value(f))
  <2> DEFINE u == Limb!CarryOut(f)[n]
             v == c[n]
             x == Limb!Value(f)
             y == Limb!Value(s)
             z == Limb!Value(w)
             p0 == Limb!P
             m1 == (0 - u) - v
  <2>1. u \in Nat /\ v \in Nat /\ y = x - u * p0 /\ z = y - v * p0
    BY <1>4, <1>9
  <2>2. x \in Int /\ p0 \in Int
    <3>1. \A j \in LimbIndex : f[j] \in Int
      BY <1>3
    <3> QED
      BY <3>1, LimbValues, LimbModulus
  <2> HIDE DEF u, v, x, y, z, p0
  <2>3. m1 \in Int /\ (x - u * p0) - v * p0 = x + m1 * p0
    BY <2>1, <2>2, SMTT(30)
  <2>4. z = x + m1 * p0
    BY <2>1, <2>3
  <2> HIDE DEF m1
  <2>5. Apart(p0, z, x)
    BY <2>3, <2>4 DEF Apart
  <2> QED
    BY <2>5 DEF p0, x, z
<1>15. Limb!Passes(f) = w
  BY DEF Limb!Passes, w, s
<1> QED
  BY <1>13, <1>14, <1>15

(* to_bytes gives the residue, below p. *)
LEMMA BytesAreResidue ==
  ASSUME Limb!Fe51Parameters, NEW f, LimbsLoose(f)
  PROVE  Limb!ToBytes(f) = Limb!Value(f) % Limb!P
<1> DEFINE s == Limb!Passes(f)
           w == Limb!Value(s)
           p0 == Limb!P
           z == PowerOf(LimbM, LimbK)
           x == Limb!Value(f)
           t0 == Limb!ToBytes(f)
<1>1. /\ LimbM \in Nat \ {0} /\ LimbM \in Nat /\ LimbK \in Nat /\ LimbC \in Nat
      /\ LimbIndex = 0..(LimbK - 1)
  BY LimbSizes DEF LimbIndex
<1>2. /\ \A j \in LimbIndex : s[j] \in 0..(LimbM - 1)
      /\ Apart(p0, w, x)
  BY PassesPack
<1>3. p0 = z - LimbC /\ z \in Nat /\ p0 \in Nat /\ p0 > 0 /\ z >= LimbM /\ LimbM > 2 * LimbC
  BY LimbModulus
<1>4. x \in Int
  <2>1. \A j \in LimbIndex : f[j] \in Int
    BY <1>1 DEF LimbsLoose
  <2> QED
    BY <2>1, LimbValues
<1>5. w \in 0..(z - 1)
  <2> HIDE DEF s
  <2>1. \A j \in LimbIndex : s[j] \in Int
    BY <1>1, <1>2
  <2>2. w = Weighted(s, LimbM, LimbK)
    BY <2>1, LimbValues
  <2>3. \A j \in 0..(LimbK - 1) : s[j] \in 0..(LimbM - 1)
    BY <1>1, <1>2
  <2>4. Weighted(s, LimbM, LimbK) \in 0..(PowerOf(LimbM, LimbK) - 1)
    BY <1>1, <2>3, WeightedDigits
  <2> QED
    BY <2>2, <2>4
<1>6. t0 = IF w + LimbC >= z THEN (w + LimbC) - z ELSE w
  <2>1. w + LimbC >= z => (w + LimbC) - z = w + (LimbC - z)
    BY <1>1, <1>3, <1>5
  <2>2. Limb!Weight(LimbK) = z
    BY LimbWeights
  <2>3. t0 = IF w + LimbC >= z THEN w + (LimbC - z) ELSE w
    BY <2>2 DEF Limb!ToBytes
  <2> HIDE DEF t0, w, z
  <2> QED
    BY <2>1, <2>3
<1> HIDE DEF s, w, p0, z, x, t0
<1>7. t0 \in 0..(p0 - 1)
  BY <1>1, <1>3, <1>5, <1>6
<1>8. Apart(p0, t0, w)
  <2>1. t0 = w + (-1) * p0 \/ t0 = w + 0 * p0
    BY <1>1, <1>3, <1>5, <1>6
  <2> QED
    BY <2>1 DEF Apart
<1>9. Same(p0, t0, w) /\ Same(p0, w, x)
  <2>1. t0 \in Int /\ w \in Int
    BY <1>3, <1>5, <1>7
  <2> QED
    BY <1>2, <1>3, <1>4, <1>8, <2>1, ApartSame
<1>10. t0 % p0 = t0
  BY <1>3, <1>7, Remainder
<1>11. t0 = x % p0
  BY <1>9, <1>10 DEF Same
<1> QED
  BY <1>11 DEF t0, x, p0

(* The product of two residues that the model compares with. *)
LEMMA LimbTimesUnfolded ==
  ASSUME Limb!Fe51Parameters, NEW u \in Nat, NEW v \in Nat
  PROVE  \E s : /\ Limb!Times(u, v) = s[LimbK] /\ s[0] = 0
                /\ \A j \in 0..LimbK : s[j] \in Nat
                /\ \A j \in 1..LimbK :
                     s[j] = (s[j - 1] * LimbM + u * ((v \div PowerOf(LimbM, LimbK - j)) % LimbM)) % Limb!P
<1> DEFINE V == Nat
           n == LimbK
           z == 0
           digit(j) == (v \div PowerOf(LimbM, n - j)) % LimbM
           Step(j, k) == (k * LimbM + u * digit(j)) % Limb!P
           F == [j \in 1..n |-> [k \in V |-> Step(j, k)]]
           body(g) == [j \in 0..n |-> IF j = 0 THEN 0 ELSE Step(j, g[j - 1])]
           s == CHOOSE g : g = body(g)
           h == Unfolded(n, V, z, F)
<1>1. n \in Nat /\ LimbM \in Nat \ {0} /\ LimbM \in Nat /\ LimbM > 0 /\ Limb!P \in Nat /\ Limb!P > 0
  BY LimbSizes, LimbModulus
<1>2. Limb!Times(u, v) = s[n]
  BY LimbWeights DEF Limb!Times
<1>3. z \in V
  OBVIOUS
<1>4. \A j \in 1..n, k \in V : Step(j, k) \in V
  <2> SUFFICES ASSUME NEW j \in 1..n, NEW k \in V PROVE Step(j, k) \in V
    OBVIOUS
  <2> DEFINE w == PowerOf(LimbM, n - j)
             x == v \div w
             d == x % LimbM
             y == k * LimbM + u * d
  <2>1. w \in Nat /\ w > 0
    <3>1. n - j \in Nat
      BY <1>1
    <3> HIDE DEF n
    <3> QED
      BY <1>1, <3>1, PowersStep
  <2> HIDE DEF w
  <2>2. x \in Nat
    BY <2>1, NatDivision
  <2> HIDE DEF x
  <2>3. d \in Nat
    BY <1>1, <2>2, NatDivision
  <2>4. k \in Nat
    OBVIOUS
  <2> HIDE DEF d
  <2>5. y \in Nat
    BY <1>1, <2>3, <2>4, SMTT(30)
  <2> HIDE DEF y
  <2>6. y % Limb!P \in Nat
    BY <1>1, <2>5, NatDivision
  <2> QED
    BY <2>6 DEF y, d, x, w
<1> HIDE DEF Step, V, z, n, digit
<1>5. F \in [1..n -> [V -> V]]
  BY <1>4
<1>6. h \in [0..n -> V] /\ h[0] = z /\ \A j \in 1..n : h[j] = F[j][h[j - 1]]
  <2> HIDE DEF F
  <2> QED
    BY <1>1, <1>3, <1>5, Unfolding
<1> HIDE DEF h
<1>7. \A j \in 1..n : h[j] = Step(j, h[j - 1])
  <2> TAKE j \in 1..n
  <2>1. h[j - 1] \in V /\ h[j] = F[j][h[j - 1]]
    BY <1>1, <1>6
  <2>2. F[j] = [k \in V |-> Step(j, k)]
    OBVIOUS
  <2> QED
    BY <2>1, <2>2
<1>8. h = body(h)
  BY <1>1, <1>6, <1>7 DEF z
<1>9. s = body(s)
  <2> HIDE DEF body
  <2> QED
    BY <1>8
<1> HIDE DEF s
<1>10. s[0] = z /\ \A j \in 1..n : s[j] = Step(j, s[j - 1])
  <2>1. \A j \in 0..n : s[j] = IF j = 0 THEN 0 ELSE Step(j, s[j - 1])
    BY <1>9, Zenon
  <2> QED
    BY <1>1, <2>1 DEF z
<1> DEFINE S == {j \in 0..n : s[j] \in V}
<1>11. 0 \in S /\ \A j \in 1..n : j - 1 \in S => j \in S
  BY <1>1, <1>3, <1>4, <1>10
<1>12. 0..n \subseteq S
  <2> HIDE DEF S
  <2> QED
    BY <1>1, <1>11, UpTo
<1> QED
  BY <1>2, <1>10, <1>12 DEF Step, V, z, n, digit

LEMMA TimesIsProduct ==
  ASSUME Limb!Fe51Parameters, NEW u \in Nat, NEW v \in Nat, v < PowerOf(LimbM, LimbK)
  PROVE  Limb!Times(u, v) = (u * v) % Limb!P
<1> DEFINE p0 == Limb!P
           P(j) == PowerOf(LimbM, j)
           H(j) == v \div P(LimbK - j)
<1>1. /\ LimbM \in Nat \ {0} /\ LimbM \in Nat /\ LimbM \in Int /\ LimbM > 0 /\ LimbK \in Nat
      /\ p0 \in Nat /\ p0 > 0
  BY LimbSizes, LimbModulus
<1>2. PICK s : /\ Limb!Times(u, v) = s[LimbK] /\ s[0] = 0
               /\ \A j \in 0..LimbK : s[j] \in Nat
               /\ \A j \in 1..LimbK : s[j] = (s[j - 1] * LimbM + u * (H(j) % LimbM)) % p0
  BY LimbTimesUnfolded
<1>3. P(0) = 1 /\ \A j \in Nat : P(j) \in Nat /\ P(j) > 0 /\ P(j + 1) = LimbM * P(j)
  BY <1>1, PowersStep
<1>4. v < P(LimbK)
  OBVIOUS
<1> HIDE DEF P, p0
<1>5. ASSUME NEW j \in 0..LimbK PROVE H(j) \in Nat
  <2> DEFINE w == P(LimbK - j)
  <2>1. LimbK - j \in Nat
    BY <1>1
  <2>2. w \in Nat /\ w > 0
    BY <1>3, <2>1
  <2> HIDE DEF w
  <2>3. v \div w \in Nat
    BY <2>2, NatDivision
  <2> QED
    BY <2>3 DEF w
<1>6. H(0) = 0
  <2> DEFINE w == P(LimbK)
             z == 0
  <2>1. LimbK - 0 = LimbK /\ w \in Nat /\ w > 0 /\ v < w
    BY <1>1, <1>3, <1>4
  <2> HIDE DEF w
  <2>2. v = w * z + v /\ v \in 0..(w - 1) /\ v \in Int /\ z \in Int
    BY <2>1
  <2> HIDE DEF z
  <2>3. v \div w = z
    BY <2>1, <2>2, DivisionUnique
  <2> QED
    BY <2>1, <2>3 DEF w, z
<1>7. H(LimbK) = v
  <2> DEFINE z == 0
             w == P(LimbK - LimbK)
  <2>1. w = 1
    BY <1>1, <1>3
  <2>2. v = 1 * v + z /\ z \in 0..(1 - 1) /\ v \in Int
    OBVIOUS
  <2> DEFINE one == 1
  <2>3. one \in Nat /\ one > 0 /\ v = one * v + z /\ z \in 0..(one - 1) /\ w = one
    BY <2>1, <2>2
  <2> HIDE DEF one, z, w
  <2>4. v \div one = v
    BY <2>2, <2>3, DivisionUnique
  <2> QED
    BY <2>3, <2>4 DEF w
<1>8. ASSUME NEW j \in 1..LimbK PROVE H(j) = LimbM * H(j - 1) + (H(j) % LimbM) /\ H(j) % LimbM \in Nat
  <2> DEFINE k == LimbK - j
             w == P(k)
             x == H(j)
             y == H(j - 1)
  <2>1. k \in Nat /\ k + 1 = LimbK - (j - 1) /\ j \in 0..LimbK
    BY <1>1
  <2>2. w \in Nat /\ w > 0 /\ P(k + 1) = LimbM * w
    <3> HIDE DEF k
    <3> QED
      BY <1>3, <2>1
  <2>3. y = v \div (LimbM * w)
    <3>1. P(LimbK - (j - 1)) = LimbM * w
      <4> HIDE DEF k
      <4> QED
        BY <2>1, <2>2
    <3> QED
      BY <3>1
  <2>4. x = v \div w
    OBVIOUS
  <2>5. x \in Nat
    BY <1>5, <2>1
  <2> HIDE DEF k, w, x, y
  <2>6. y = x \div LimbM
    BY <1>1, <2>2, <2>3, <2>4, QuotientOfQuotient
  <2>7. x = LimbM * y + (x % LimbM) /\ x % LimbM \in Nat
    <3>1. x = LimbM * (x \div LimbM) + (x % LimbM) /\ x % LimbM \in 0..(LimbM - 1)
      BY <1>1, <2>5, NatDivision
    <3> QED
      BY <1>1, <2>6, <3>1
  <2> QED
    BY <2>7 DEF x, y
<1> DEFINE S == {j \in 0..LimbK : Same(p0, s[j], u * H(j))}
<1> HIDE DEF H
<1>9. 0 \in S
  <2>1. u * 0 = 0
    OBVIOUS
  <2> QED
    BY <1>1, <1>2, <1>6, <2>1 DEF Same
<1>10. ASSUME NEW j \in 1..LimbK, j - 1 \in S PROVE j \in S
  <2> DEFINE i0 == j - 1
             x == s[i0]
             y == H(i0)
             d == H(j) % LimbM
             g == H(j)
             e == x * LimbM + u * d
  <2>1. i0 \in 0..LimbK /\ j \in 0..LimbK
    BY <1>1
  <2>2. /\ s[j] = e % p0 /\ x \in Nat /\ y \in Nat /\ d \in Nat /\ g = LimbM * y + d /\ s[j] \in Int
    <3>1. s[j] = e % p0 /\ g = LimbM * y + d /\ d \in Nat
      BY <1>2, <1>8
    <3> HIDE DEF i0, e, d, g
    <3> QED
      BY <1>2, <1>5, <2>1, <3>1
  <2>3. Same(p0, x, u * y)
    BY <1>10
  <2> HIDE DEF i0, x, y, d, g
  <2>4. /\ u * y \in Int /\ (u * y) * LimbM \in Int /\ x * LimbM \in Int
        /\ u * d \in Int /\ x \in Int
    BY <1>1, <2>2, Product3
  <2>5. Same(p0, x * LimbM, (u * y) * LimbM)
    BY <1>1, <2>3, <2>4, SameTimes
  <2>6. Same(p0, e, (u * y) * LimbM + u * d)
    BY <1>1, <2>4, <2>5, SamePlus
  <2>7. (u * y) * LimbM + u * d = u * g
    BY <1>1, <2>2, SMTT(30)
  <2>8. e \in Int
    BY <2>4
  <2> HIDE DEF e
  <2>9. Same(p0, s[j], e)
    BY <1>1, <2>2, <2>8, Remainder
  <2>10. Same(p0, s[j], u * g)
    BY <2>6, <2>7, <2>9 DEF Same
  <2> QED
    BY <2>1, <2>10 DEF g
<1>11. 0..LimbK \subseteq S
  <2> HIDE DEF S
  <2> QED
    BY <1>1, <1>9, <1>10, UpTo
<1>12. Same(p0, s[LimbK], u * v)
  <2>1. LimbK \in S
    BY <1>1, <1>11
  <2> QED
    BY <1>7, <2>1
<1>13. s[LimbK] \in 0..(p0 - 1)
  <2>1. CASE LimbK = 0
    BY <1>1, <1>2, <2>1
  <2>2. CASE LimbK # 0
    <3> DEFINE x == s[LimbK - 1] * LimbM
               y == H(LimbK) % LimbM
    <3>1. LimbK \in 1..LimbK /\ LimbK - 1 \in 0..LimbK
      BY <1>1, <2>2
    <3>2. s[LimbK] = (x + u * y) % p0
      BY <1>2, <3>1
    <3>3. y \in Nat
      BY <1>8, <3>1
    <3>4. s[LimbK - 1] \in Nat
      BY <1>2, <3>1
    <3> DEFINE k == s[LimbK - 1]
    <3>5. k * LimbM \in Int
      <4> HIDE DEF k
      <4>1. k \in Int
        BY <3>4 DEF k
      <4> QED
        BY <1>1, <4>1
    <3>6. u * y \in Int
      <4> HIDE DEF y
      <4> QED
        BY <3>3
    <3> DEFINE e == x + u * y
    <3>7. e \in Int
      <4> HIDE DEF y
      <4> QED
        BY <3>5, <3>6
    <3> HIDE DEF e
    <3>8. e % p0 \in 0..(p0 - 1)
      BY <1>1, <3>7, Remainder
    <3> QED
      BY <3>2, <3>8 DEF e
  <2> QED
    BY <2>1, <2>2
<1>14. s[LimbK] = (u * v) % p0
  <2>1. s[LimbK] % p0 = s[LimbK]
    BY <1>1, <1>13, Remainder
  <2> QED
    BY <1>12, <2>1 DEF Same
<1> QED
  BY <1>2, <1>14 DEF p0

(* A number that carries took to limbs keeps its residue. *)
LEMMA CarriedStands ==
  ASSUME Limb!Fe51Parameters, NEW r, LimbsWide(r)
  PROVE  /\ LimbsTyped(Limb!Carried(r))
         /\ Limb!Value(r) \in Int /\ Limb!Value(Limb!Carried(r)) \in Int
         /\ Same(Limb!P, Limb!Value(Limb!Carried(r)), Limb!Value(r))
<1> DEFINE p0 == Limb!P
           g == Limb!Carried(r)
           z == Limb!Value(g)
           x == Limb!Value(r)
           u == Limb!CarryOut(r)[LimbK - 1]
           m1 == 0 - u
<1>1. (\A j \in LimbIndex : r[j] \in Nat) /\ LimbsTyped(g)
  BY CarriedTyped
<1>2. u \in Nat /\ Limb!Value(Limb!Pass(r)) = x - u * p0
  BY <1>1, PassValue
<1>3. /\ \A j \in LimbIndex : g[j] \in Nat
      /\ z = Limb!Value(Limb!Pass(r))
  BY <1>1, CarriedValue
<1>4. p0 \in Nat /\ p0 > 0
  BY LimbModulus
<1>5. x \in Int
  <2>1. \A j \in LimbIndex : r[j] \in Int
    BY <1>1
  <2> QED
    BY <2>1, LimbValues
<1>6. z \in Int
  <2> HIDE DEF g
  <2>1. \A j \in LimbIndex : g[j] \in Int
    BY <1>3
  <2> QED
    BY <2>1, LimbValues
<1>7. z = x - u * p0
  BY <1>2, <1>3
<1> HIDE DEF u, x, z, p0, g
<1>8. m1 \in Int /\ x - u * p0 = x + m1 * p0
  BY <1>2, <1>4, <1>5, SMTT(30)
<1> HIDE DEF m1
<1>9. Apart(p0, z, x)
  BY <1>7, <1>8 DEF Apart
<1>10. Same(p0, z, x)
  BY <1>4, <1>5, <1>6, <1>9, ApartSame
<1> QED
  BY <1>1, <1>5, <1>6, <1>10 DEF x, z, p0, g

LEMMA TypedIsLoose ==
  ASSUME Limb!Fe51Parameters, NEW f, LimbsTyped(f)
  PROVE  LimbsLoose(f) /\ \A j \in LimbIndex : f[j] \in Nat /\ f[j] \in Int
<1>1. LimbM \in Nat /\ LimbM > 3
  <2>1. PICK kd, kcc \in Nat : kd >= 4 /\ kcc >= 2 * kd /\ 9 * kcc < LimbM
    BY LimbRoom
  <2> QED
    BY <2>1, LimbSizes
<1>2. ASSUME NEW j \in LimbIndex PROVE f[j] \in 0..(4 * LimbM) /\ f[j] \in Nat /\ f[j] \in Int
  <2>1. f[j] \in 0..(IF j = 1 THEN 2 * LimbM - 3 ELSE LimbM - 1)
    BY DEF LimbsTyped
  <2>2. f[j] \in 0..(2 * LimbM - 3) \/ f[j] \in 0..(LimbM - 1)
    BY <2>1
  <2> QED
    BY <1>1, <2>2
<1> QED
  BY <1>2 DEF LimbsLoose

(* What a number stands for when a caller takes it: the residue of its value. *)
LimbsStand(f, r) == LimbsLoose(f) /\ Limb!Value(f) \in Int /\ r = Limb!Value(f) % Limb!P

LEMMA NumberStands ==
  ASSUME Limb!Fe51Parameters, NEW f, LimbsTyped(f)
  PROVE  LimbsStand(f, Limb!Value(f) % Limb!P)
<1>1. LimbsLoose(f) /\ \A j \in LimbIndex : f[j] \in Int
  BY TypedIsLoose
<1>2. Limb!Value(f) \in Int
  BY <1>1, LimbValues
<1> QED
  BY <1>1, <1>2 DEF LimbsStand

LEMMA SumStands ==
  ASSUME Limb!Fe51Parameters, NEW f, NEW g, LimbsTyped(f), LimbsTyped(g)
  PROVE  LimbsStand(Limb!Add(f, g), ((Limb!Value(f) % Limb!P) + (Limb!Value(g) % Limb!P)) % Limb!P)
<1> DEFINE h == Limb!Add(f, g)
           p0 == Limb!P
           x == Limb!Value(f)
           y == Limb!Value(g)
<1>1. /\ \A j \in LimbIndex : f[j] \in Int
      /\ \A j \in LimbIndex : g[j] \in Int
  BY TypedIsLoose
<1>2. LimbM \in Nat /\ LimbM > 3
  <2>1. PICK kd, kcc \in Nat : kd >= 4 /\ kcc >= 2 * kd /\ 9 * kcc < LimbM
    BY LimbRoom
  <2> QED
    BY <2>1, LimbSizes
<1>3. LimbsLoose(h)
  <2>1. ASSUME NEW j \in LimbIndex PROVE h[j] \in 0..(4 * LimbM)
    <3> DEFINE u == f[j]
               v == g[j]
    <3>1. u \in 0..(IF j = 1 THEN 2 * LimbM - 3 ELSE LimbM - 1)
      BY DEF LimbsTyped
    <3>2. v \in 0..(IF j = 1 THEN 2 * LimbM - 3 ELSE LimbM - 1)
      BY DEF LimbsTyped
    <3>3. h[j] = u + v
      BY DEF Limb!Add, Limb!Index, LimbIndex
    <3> HIDE DEF u, v, h
    <3>4. u \in 0..(2 * LimbM - 3) /\ v \in 0..(2 * LimbM - 3)
      BY <1>2, <3>1, <3>2
    <3> QED
      BY <1>2, <3>3, <3>4
  <2> HIDE DEF h
  <2> QED
    BY <2>1 DEF LimbsLoose
<1>4. Limb!Value(h) = x + y
  BY <1>1, AddValue
<1>5. x \in Int /\ y \in Int /\ p0 \in Nat /\ p0 > 0
  BY <1>1, LimbValues, LimbModulus
<1> HIDE DEF h, p0, x, y
<1>6. x % p0 \in Int /\ y % p0 \in Int /\ Same(p0, x % p0, x) /\ Same(p0, y % p0, y)
  <2>1. x % p0 \in 0..(p0 - 1) /\ y % p0 \in 0..(p0 - 1)
    BY <1>5, Remainder
  <2>2. Same(p0, x % p0, x) /\ Same(p0, y % p0, y)
    BY <1>5, Remainder
  <2> QED
    BY <1>5, <2>1, <2>2
<1>7. Same(p0, (x % p0) + (y % p0), x + y)
  BY <1>5, <1>6, SameSums
<1>8. ((x % p0) + (y % p0)) % p0 = (x + y) % p0
  BY <1>7 DEF Same
<1>9. Limb!Value(h) \in Int /\ Limb!Value(h) % p0 = (x + y) % p0
  BY <1>4, <1>5
<1>10. LimbsStand(h, ((x % p0) + (y % p0)) % p0)
  BY <1>3, <1>8, <1>9 DEF LimbsStand, p0
<1> QED
  BY <1>10 DEF h, p0, x, y

LEMMA DifferenceStands ==
  ASSUME Limb!Fe51Parameters, NEW f, NEW g, LimbsTyped(f), LimbsTyped(g)
  PROVE  LimbsStand(Limb!Sub(f, g), ((Limb!Value(f) % Limb!P) - (Limb!Value(g) % Limb!P)) % Limb!P)
<1> DEFINE h == Limb!Sub(f, g)
           p0 == Limb!P
           x == Limb!Value(f)
           y == Limb!Value(g)
<1>1. /\ \A j \in LimbIndex : f[j] \in Int
      /\ \A j \in LimbIndex : g[j] \in Int
  BY TypedIsLoose
<1>2. LimbM \in Nat /\ LimbM > 3 /\ LimbC \in Nat /\ LimbM > 2 * LimbC
  <2>1. PICK kd, kcc \in Nat : kd >= 4 /\ kcc >= 2 * kd /\ 9 * kcc < LimbM
    BY LimbRoom
  <2> QED
    BY <2>1, LimbSizes, LimbModulus
<1>3. LimbsLoose(h)
  <2>1. ASSUME NEW j \in LimbIndex PROVE h[j] \in 0..(4 * LimbM)
    <3> DEFINE u == f[j]
               v == g[j]
               k == IF j = 0 THEN LimbC ELSE 1
    <3>1. u \in 0..(IF j = 1 THEN 2 * LimbM - 3 ELSE LimbM - 1)
      BY DEF LimbsTyped
    <3>2. v \in 0..(IF j = 1 THEN 2 * LimbM - 3 ELSE LimbM - 1)
      BY DEF LimbsTyped
    <3>3. h[j] = u + (2 * (LimbM - k) - v)
      BY DEF Limb!Sub, Limb!Index, LimbIndex
    <3> HIDE DEF u, v, h
    <3>4. u \in 0..(2 * LimbM - 3) /\ v \in 0..(2 * LimbM - 3)
      BY <1>2, <3>1, <3>2
    <3>5. CASE j = 0
      <4>1. k = LimbC /\ v \in 0..(LimbM - 1)
        BY <3>2, <3>5
      <4> HIDE DEF k
      <4> QED
        BY <1>2, <3>3, <3>4, <4>1
    <3>6. CASE j # 0
      <4>1. k = 1
        BY <3>6
      <4> HIDE DEF k
      <4> QED
        BY <1>2, <3>3, <3>4, <4>1
    <3> QED
      BY <3>5, <3>6
  <2> HIDE DEF h
  <2> QED
    BY <2>1 DEF LimbsLoose
<1>4. Limb!Value(h) = (x - y) + 2 * p0
  BY <1>1, SubValue
<1>5. x \in Int /\ y \in Int /\ p0 \in Nat /\ p0 > 0
  BY <1>1, LimbValues, LimbModulus
<1> HIDE DEF h, p0, x, y
<1>6. x % p0 \in Int /\ y % p0 \in Int /\ Same(p0, x % p0, x) /\ Same(p0, y % p0, y)
  <2>1. x % p0 \in 0..(p0 - 1) /\ y % p0 \in 0..(p0 - 1)
    BY <1>5, Remainder
  <2>2. Same(p0, x % p0, x) /\ Same(p0, y % p0, y)
    BY <1>5, Remainder
  <2> QED
    BY <1>5, <2>1, <2>2
<1>7. Same(p0, (x % p0) - (y % p0), x - y)
  BY <1>5, <1>6, SameSums
<1> DEFINE w == Limb!Value(h)
           d == x - y
           two == 2
<1>8. two \in Int /\ w = d + two * p0 /\ w \in Int /\ d \in Int
  BY <1>4, <1>5
<1> HIDE DEF w, d, two
<1>9. Same(p0, w, d)
  <2>1. Apart(p0, w, d)
    BY <1>8 DEF Apart
  <2> QED
    BY <1>5, <1>8, <2>1, ApartSame
<1>10. ((x % p0) - (y % p0)) % p0 = w % p0
  BY <1>7, <1>9 DEF Same, d
<1>11. LimbsStand(h, ((x % p0) - (y % p0)) % p0)
  BY <1>3, <1>8, <1>10 DEF LimbsStand, p0, w
<1> QED
  BY <1>11 DEF h, p0, x, y

(* Products, of residues too. *)
LEMMA ResiduesMultiplied ==
  ASSUME Limb!Fe51Parameters, NEW x \in Int, NEW y \in Int
  PROVE  Limb!Times(x % Limb!P, y % Limb!P) = (x * y) % Limb!P
<1> DEFINE p0 == Limb!P
           u == x % p0
           v == y % p0
<1>1. /\ p0 \in Nat /\ p0 > 0 /\ p0 = PowerOf(LimbM, LimbK) - LimbC
      /\ PowerOf(LimbM, LimbK) \in Nat /\ LimbC \in Nat
  BY LimbModulus, LimbSizes
<1> HIDE DEF p0
<1>2. u \in 0..(p0 - 1) /\ v \in 0..(p0 - 1) /\ Same(p0, u, x) /\ Same(p0, v, y)
  BY <1>1, Remainder
<1> HIDE DEF u, v
<1>3. u \in Nat /\ v \in Nat /\ u \in Int /\ v \in Int /\ v < PowerOf(LimbM, LimbK)
  BY <1>1, <1>2
<1>4. Limb!Times(u, v) = (u * v) % p0
  BY <1>3, TimesIsProduct DEF p0
<1>5. Same(p0, u * v, x * y)
  BY <1>1, <1>2, <1>3, SameProducts
<1> QED
  BY <1>4, <1>5 DEF Same, p0, u, v

LEMMA ProductStands ==
  ASSUME Limb!Fe51Parameters, NEW f, NEW g, NEW u, NEW v, LimbsStand(f, u), LimbsStand(g, v)
  PROVE  /\ LimbsTyped(Limb!Mul(f, g))
         /\ Limb!Times(u, v) = Limb!Value(Limb!Mul(f, g)) % Limb!P
<1> DEFINE r == LimbColumns(f, g)
           x == Limb!Value(f)
           y == Limb!Value(g)
<1>1. /\ LimbsLoose(f) /\ x \in Int /\ u = x % Limb!P
      /\ LimbsLoose(g) /\ y \in Int /\ v = y % Limb!P
  BY DEF LimbsStand
<1>2. LimbsWide(r)
  BY <1>1, ColumnsWide
<1>3. Limb!Mul(f, g) = Limb!Carried(r)
  BY MulColumns
<1>4. /\ LimbsTyped(Limb!Carried(r))
      /\ Same(Limb!P, Limb!Value(Limb!Carried(r)), Limb!Value(r))
  <2> HIDE DEF r
  <2> QED
    BY <1>2, CarriedStands
<1>5. Same(Limb!P, Limb!Value(r), x * y)
  <2>1. \A j \in LimbIndex : f[j] \in Int /\ g[j] \in Int
    BY <1>1, LimbSizes DEF LimbsLoose
  <2> QED
    BY <2>1, ColumnsValue
<1>6. Limb!Times(u, v) = (x * y) % Limb!P
  <2> HIDE DEF x, y
  <2> QED
    BY <1>1, ResiduesMultiplied
<1> QED
  BY <1>3, <1>4, <1>5, <1>6 DEF Same

LEMMA MultipleStands ==
  ASSUME Limb!Fe51Parameters, NEW f, NEW u, LimbsStand(f, u), NEW s \in {1, LimbM - 1}
  PROVE  /\ LimbsTyped(Limb!MulScalar(f, s))
         /\ Limb!Times(u, s) = Limb!Value(Limb!MulScalar(f, s)) % Limb!P
<1> DEFINE r == LimbsScaled(f, s)
           x == Limb!Value(f)
           p0 == Limb!P
           w == PowerOf(LimbM, LimbK)
<1>1. LimbsLoose(f) /\ x \in Int /\ u = x % p0
  BY DEF LimbsStand
<1>2. /\ p0 \in Nat /\ p0 > 0 /\ w \in Nat /\ w >= LimbM /\ LimbM \in Nat /\ LimbM > 1
  <2>1. PICK kd, kcc \in Nat : kd >= 4 /\ kcc >= 2 * kd /\ 9 * kcc < LimbM
    BY LimbRoom
  <2> QED
    BY <2>1, LimbModulus, LimbSizes
<1>3. s \in 0..LimbM /\ s \in Nat /\ s \in Int /\ s < w
  <2> HIDE DEF w
  <2> QED
    BY <1>2
<1>4. LimbsWide(r)
  BY <1>1, <1>3, ScaledWide
<1>5. /\ LimbsTyped(Limb!Carried(r))
      /\ Same(p0, Limb!Value(Limb!Carried(r)), Limb!Value(r))
  <2> HIDE DEF r
  <2> QED
    BY <1>4, CarriedStands
<1>6. /\ Limb!MulScalar(f, s) = Limb!Carried(r)
      /\ Limb!Value(r) = x * s
  <2>1. \A j \in LimbIndex : f[j] \in Int
    BY <1>1, LimbSizes DEF LimbsLoose
  <2> QED
    BY <1>3, <2>1, ScaledValue
<1> HIDE DEF x, r
<1>7. u \in Nat /\ u \in Int /\ Same(p0, u, x)
  <2> HIDE DEF p0
  <2>1. u \in 0..(p0 - 1)
    BY <1>1, <1>2, Remainder
  <2> QED
    BY <1>1, <1>2, <2>1, Remainder
<1>8. Limb!Times(u, s) = (u * s) % p0
  BY <1>3, <1>7, TimesIsProduct
<1> HIDE DEF p0
<1>9. Same(p0, u * s, x * s)
  BY <1>1, <1>2, <1>3, <1>7, SameTimes
<1> QED
  BY <1>5, <1>6, <1>8, <1>9 DEF Same, p0

(* The invariant: the two numbers are typed, and their residues those they stand for. *)
LimbInv == /\ LimbsTyped(base) /\ acc = Limb!Value(base) % Limb!P
           /\ LimbsTyped(exponent) /\ baseMont = Limb!Value(exponent) % Limb!P

LEMMA LimbHolds == Limb!Fe51Parameters
BY ModularAssumption

LEMMA LimbInitial ==
  ASSUME Limb!Init
  PROVE  LimbInv
<1>1. LimbCorners \subseteq 0..(LimbM - 1) /\ LimbM \in Nat /\ LimbM > 3
  <2>1. PICK kd, kcc \in Nat : kd >= 4 /\ kcc >= 2 * kd /\ 9 * kcc < LimbM
    BY LimbHolds, LimbRoom
  <2> QED
    BY <2>1, LimbHolds, LimbSizes
<1>2. ASSUME NEW f \in [LimbIndex -> LimbCorners] PROVE LimbsTyped(f)
  <2>1. ASSUME NEW j \in LimbIndex PROVE f[j] \in 0..(IF j = 1 THEN 2 * LimbM - 3 ELSE LimbM - 1)
    <3>1. f[j] \in 0..(LimbM - 1)
      BY <1>1
    <3> DEFINE u == f[j]
    <3>2. u \in 0..(LimbM - 1)
      BY <3>1
    <3> HIDE DEF u
    <3>3. u \in 0..(2 * LimbM - 3)
      BY <1>1, <3>2
    <3> QED
      BY <3>2, <3>3 DEF u
  <2> QED
    BY <2>1 DEF LimbsTyped
<1>3. base \in [LimbIndex -> LimbCorners] /\ exponent \in [LimbIndex -> LimbCorners]
  BY DEF Limb!Init, Limb!Index, LimbIndex
<1> QED
  BY <1>2, <1>3 DEF Limb!Init, LimbInv

(* What a caller multiplies stands for its residue. *)
LEMMA FormsStand ==
  ASSUME LimbInv, NEW f \in Limb!Forms
  PROVE  LimbsStand(Limb!Limbs(f), Limb!Residue(f))
<1>1. /\ LimbsTyped(base) /\ acc = Limb!Value(base) % Limb!P
      /\ LimbsTyped(exponent) /\ baseMont = Limb!Value(exponent) % Limb!P
  BY DEF LimbInv
<1>2. LimbsStand(base, acc) /\ LimbsStand(exponent, baseMont)
  BY <1>1, LimbHolds, NumberStands
<1>3. LimbsStand(Limb!Add(base, exponent), (acc + baseMont) % Limb!P)
  BY <1>1, LimbHolds, SumStands
<1>4. LimbsStand(Limb!Sub(base, exponent), (acc - baseMont) % Limb!P)
  BY <1>1, LimbHolds, DifferenceStands
<1>5. LimbsStand(Limb!Sub(exponent, base), (baseMont - acc) % Limb!P)
  BY <1>1, LimbHolds, DifferenceStands
<1>6. CASE f = "x"
  BY <1>2, <1>6 DEF Limb!Limbs, Limb!Residue
<1>7. CASE f = "y"
  BY <1>2, <1>7 DEF Limb!Limbs, Limb!Residue
<1>8. CASE f = "x + y"
  <2>1. Limb!Limbs(f) = Limb!Add(base, exponent) /\ Limb!Residue(f) = (acc + baseMont) % Limb!P
    BY <1>8 DEF Limb!Limbs, Limb!Residue
  <2> QED
    BY <1>3, <2>1
<1>9. CASE f = "x - y"
  <2>1. Limb!Limbs(f) = Limb!Sub(base, exponent) /\ Limb!Residue(f) = (acc - baseMont) % Limb!P
    BY <1>9 DEF Limb!Limbs, Limb!Residue
  <2> QED
    BY <1>4, <2>1
<1>10. CASE f = "y - x"
  <2>1. Limb!Limbs(f) = Limb!Sub(exponent, base) /\ Limb!Residue(f) = (baseMont - acc) % Limb!P
    BY <1>10 DEF Limb!Limbs, Limb!Residue
  <2> QED
    BY <1>5, <2>1
<1> QED
  BY <1>6, <1>7, <1>8, <1>9, <1>10 DEF Limb!Forms

LEMMA LimbMultiplyInv ==
  ASSUME LimbInv, Limb!Multiply
  PROVE  LimbInv'
<1>1. PICK f, g \in Limb!Forms : /\ base' = Limb!Mul(Limb!Limbs(f), Limb!Limbs(g))
                                 /\ acc' = Limb!Times(Limb!Residue(f), Limb!Residue(g))
                                 /\ UNCHANGED <<exponent, baseMont>>
  BY DEF Limb!Multiply
<1>2. LimbsStand(Limb!Limbs(f), Limb!Residue(f)) /\ LimbsStand(Limb!Limbs(g), Limb!Residue(g))
  BY <1>1, FormsStand
<1>3. LimbsTyped(base') /\ acc' = Limb!Value(base') % Limb!P
  BY <1>1, <1>2, LimbHolds, ProductStands
<1>4. LimbsTyped(exponent) /\ baseMont = Limb!Value(exponent) % Limb!P
  BY DEF LimbInv
<1>5. exponent' = exponent /\ baseMont' = baseMont
  BY <1>1
<1> QED
  BY <1>3, <1>4, <1>5 DEF LimbInv

LEMMA LimbScaleInv ==
  ASSUME LimbInv, Limb!Scale
  PROVE  LimbInv'
<1>1. PICK f \in Limb!Forms, s \in {1, LimbM - 1} :
        /\ exponent' = Limb!MulScalar(Limb!Limbs(f), s)
        /\ baseMont' = Limb!Times(Limb!Residue(f), s)
        /\ UNCHANGED <<base, acc>>
  BY DEF Limb!Scale
<1>2. LimbsStand(Limb!Limbs(f), Limb!Residue(f))
  BY <1>1, FormsStand
<1>3. LimbsTyped(exponent') /\ baseMont' = Limb!Value(exponent') % Limb!P
  BY <1>1, <1>2, LimbHolds, MultipleStands
<1>4. LimbsTyped(base) /\ acc = Limb!Value(base) % Limb!P
  BY DEF LimbInv
<1>5. base' = base /\ acc' = acc
  BY <1>1
<1> QED
  BY <1>3, <1>4, <1>5 DEF LimbInv

(* Every step keeps the invariant. *)
LEMMA LimbStep ==
  ASSUME LimbInv, [Limb!Next]_(Limb!vars)
  PROVE  LimbInv'
<1>1. CASE UNCHANGED Limb!vars
  BY <1>1 DEF Limb!vars, LimbInv
<1> QED
  BY <1>1, LimbMultiplyInv, LimbScaleInv DEF Limb!Next

LEMMA LimbStepsOnly ==
  ASSUME [ModularNext]_modularVars, part = "limbs" \/ part' = "limbs"
  PROVE  part = "limbs" /\ part' = "limbs" /\ (Limb!Next \/ UNCHANGED modularVars)
BY DEF ModularNext, NumberNext, LatticeNext, FieldNext, ExpNext, ChainNext, SolinasNext,
       ProductNext, ScalarNext, LimbsNext, modularVars

(* The run's part that multiplies limbs. *)
LimbPart == part = "limbs" => LimbInv

LEMMA LimbsAlways == ModularSpec => []LimbPart
<1>1. ModularInit => LimbPart
  <2>1. ModularInit /\ part = "limbs" => Limb!Init
    BY DEF ModularInit, NumberInit
  <2> QED
    BY <2>1, LimbInitial DEF LimbPart
<1>2. LimbPart /\ [ModularNext]_modularVars => LimbPart'
  <2> SUFFICES ASSUME LimbPart, [ModularNext]_modularVars, part' = "limbs"
               PROVE  LimbInv'
    BY DEF LimbPart
  <2>1. part = "limbs" /\ [Limb!Next]_(Limb!vars)
    BY LimbStepsOnly DEF modularVars, expVars, Limb!vars
  <2> QED
    BY <2>1, LimbStep DEF LimbPart
<1> QED
  BY <1>1, <1>2, PTL DEF ModularSpec
-------------------------------------------------------------------------------
(* Products of limbs have limbs below M, but for limb 1, for every number of limbs and
   every size that the assumption names: the carries of mul and mul_scalar fold into
   limb 0 and carry once more into limb 1 (Fe51). *)
THEOREM LimbsTypeCorrect == ModularSpec => [](part = "limbs" => ModularTypeOK)
<1>1. ASSUME LimbInv PROVE Limb!TypeOK
  <2>1. LimbsTyped(base) /\ LimbsTyped(exponent)
    BY <1>1 DEF LimbInv
  <2> QED
    BY <2>1 DEF Limb!TypeOK, LimbsTyped, Limb!Index, LimbIndex
<1>2. LimbPart => (part = "limbs" => ModularTypeOK)
  BY <1>1 DEF LimbPart, ModularTypeOK
<1> QED
  BY <1>2, LimbsAlways, PTL

(* No limb of a sum or a difference of products is negative, what two passes of carries
   leave packs into words, and to_bytes gives the residue that the products stand for,
   below p: the limbs of a product are those of every row of it, shifted and brought
   down times C, which is the product modulo p (Fe51). *)
THEOREM LimbsKeepResidue == ModularSpec => [](part = "limbs" => KeepsResidue)
<1>1. ASSUME LimbInv PROVE Limb!KeepsResidue
  <2>1. ASSUME NEW f \in Limb!Forms
        PROVE  /\ \A j \in LimbIndex : /\ Limb!Limbs(f)[j] >= 0
                                       /\ Limb!Passes(Limb!Limbs(f))[j] < LimbM
               /\ Limb!ToBytes(Limb!Limbs(f)) = Limb!Residue(f)
    <3> DEFINE g == Limb!Limbs(f)
               r == Limb!Residue(f)
    <3>1. LimbsLoose(g) /\ r = Limb!Value(g) % Limb!P
      BY <1>1, FormsStand DEF LimbsStand
    <3> HIDE DEF g, r
    <3>2. Limb!ToBytes(g) = r
      BY <3>1, LimbHolds, BytesAreResidue
    <3>3. \A j \in LimbIndex : Limb!Passes(g)[j] \in 0..(LimbM - 1)
      BY <3>1, LimbHolds, PassesPack
    <3>4. LimbM \in Nat
      BY LimbHolds, LimbSizes
    <3>5. ASSUME NEW j \in LimbIndex PROVE g[j] >= 0 /\ Limb!Passes(g)[j] < LimbM
      <4>1. g[j] \in 0..(4 * LimbM)
        BY <3>1 DEF LimbsLoose
      <4>2. Limb!Passes(g)[j] \in 0..(LimbM - 1)
        BY <3>3
      <4> QED
        BY <3>4, <4>1, <4>2
    <3> QED
      BY <3>2, <3>5 DEF g, r
  <2> QED
    BY <2>1 DEF Limb!KeepsResidue, Limb!Index, LimbIndex
<1>2. LimbPart => (part = "limbs" => KeepsResidue)
  BY <1>1 DEF LimbPart, KeepsResidue
<1> QED
  BY <1>2, LimbsAlways, PTL

-------------------------------------------------------------------------------
(* The columns of secp256k1's products. *)

CombaIndex == 0..(N - 1)

CombaDigit(x, j) == (x \div PowerOf(W, j)) % W

(* The products that meet in column n. *)
CombaTerms(u, v, n) ==
  [j \in CombaIndex |-> IF n - j \in CombaIndex THEN CombaDigit(u, j) * CombaDigit(v, n - j) ELSE 0]

CombaColumn(u, v, n) == SumOf(CombaTerms(u, v, n), N)

(* The products of the columns below n, row by row. *)
CombaInner(v, j, n) ==
  [l \in CombaIndex |-> IF j + l < n THEN CombaDigit(v, l) * PowerOf(W, l) ELSE 0]

CombaRows(u, v, n) ==
  [j \in CombaIndex |-> CombaDigit(u, j) * PowerOf(W, j) * SumOf(CombaInner(v, j, n), N)]

CombaDone(u, v, n) == SumOf(CombaRows(u, v, n), N)

LEMMA CombaSizes ==
  ASSUME Prod!CombaParameters
  PROVE  /\ W \in Nat \ {0} /\ W \in Nat /\ W \in Int /\ W > 0
         /\ N \in Nat /\ N > 0 /\ N < W /\ CombaIndex = 0..(N - 1)
BY DEF Prod!CombaParameters, CombaIndex

LEMMA CombaDigits ==
  ASSUME Prod!CombaParameters, NEW x \in Nat
  PROVE  \A j \in CombaIndex : CombaDigit(x, j) \in 0..(W - 1) /\ CombaDigit(x, j) \in Nat
<1>1. W \in Nat \ {0} /\ W \in Nat /\ W > 0 /\ CombaIndex = 0..(N - 1) /\ N \in Nat
  BY CombaSizes
<1> TAKE j \in CombaIndex
<1> DEFINE w == PowerOf(W, j)
           y == x \div w
<1>2. w \in Nat /\ w > 0
  <2>1. j \in Nat
    BY <1>1
  <2> QED
    BY <1>1, <2>1, PowersStep
<1> HIDE DEF w
<1>3. y \in Nat
  BY <1>2, NatDivision
<1>4. CombaDigit(x, j) = y % W
  BY DEF CombaDigit, y, w
<1> HIDE DEF y
<1>5. y % W \in 0..(W - 1)
  BY <1>1, <1>3, NatDivision
<1> QED
  BY <1>1, <1>4, <1>5

LEMMA CombaPowers ==
  ASSUME Prod!CombaParameters
  PROVE  /\ PowerOf(W, 0) = 1
         /\ \A n \in Nat : /\ PowerOf(W, n) \in Nat /\ PowerOf(W, n) > 0
                           /\ PowerOf(W, n + 1) = W * PowerOf(W, n)
BY CombaSizes, PowersStep

LEMMA InnerTerms ==
  ASSUME Prod!CombaParameters, NEW v \in Nat, NEW j \in CombaIndex, NEW n \in Int
  PROVE  /\ \A l \in CombaIndex : CombaInner(v, j, n)[l] \in Nat
         /\ \A k \in 0..(N - 1) : CombaInner(v, j, n)[k] \in Int
         /\ SumOf(CombaInner(v, j, n), N) \in Int
<1> DEFINE f == CombaInner(v, j, n)
<1>1. N \in Nat /\ CombaIndex = 0..(N - 1)
  BY CombaSizes
<1>2. \A l \in CombaIndex : f[l] \in Nat
  <2> TAKE l \in CombaIndex
  <2> DEFINE x == CombaDigit(v, l)
             w == PowerOf(W, l)
  <2>1. x \in Nat /\ w \in Nat
    <3>1. l \in Nat
      BY <1>1
    <3> QED
      BY <3>1, CombaDigits, CombaPowers
  <2>2. f[l] = IF j + l < n THEN x * w ELSE 0
    BY DEF CombaInner
  <2> HIDE DEF x, w, f
  <2>3. x * w \in Nat
    BY <2>1, SMTT(30)
  <2> QED
    BY <2>2, <2>3
<1> HIDE DEF f
<1>3. \A k \in 0..(N - 1) : f[k] \in Int
  BY <1>1, <1>2
<1>4. SumOf(f, N) \in Int
  <2>1. \A k \in 0..N : SumOf(f, k) \in Int
    BY <1>1, <1>3, SumsStep
  <2> QED
    BY <1>1, <2>1
<1> QED
  BY <1>2, <1>3, <1>4 DEF f

(* A row gains its product of column n. *)
LEMMA InnerStep ==
  ASSUME Prod!CombaParameters, NEW v \in Nat, NEW j \in CombaIndex, NEW n \in Nat
  PROVE  /\ n - j \in CombaIndex =>
              SumOf(CombaInner(v, j, n + 1), N) =
                SumOf(CombaInner(v, j, n), N) + CombaDigit(v, n - j) * PowerOf(W, n - j)
         /\ ~(n - j \in CombaIndex) =>
              SumOf(CombaInner(v, j, n + 1), N) = SumOf(CombaInner(v, j, n), N)
<1> DEFINE n1 == n + 1
           f == CombaInner(v, j, n)
           g == CombaInner(v, j, n1)
<1>1. N \in Nat /\ CombaIndex = 0..(N - 1) /\ n \in Int /\ n1 \in Int /\ n1 = n + 1 /\ j \in Int
  BY CombaSizes
<1>2. (\A k \in 0..(N - 1) : f[k] \in Int) /\ SumOf(f, N) \in Int
  BY <1>1, InnerTerms
<1>3. \A k \in 0..(N - 1) : g[k] \in Int
  <2> HIDE DEF n1
  <2> QED
    BY <1>1, InnerTerms
<1>4. \A l \in CombaIndex : f[l] = IF j + l < n THEN CombaDigit(v, l) * PowerOf(W, l) ELSE 0
  BY DEF CombaInner
<1>5. \A l \in CombaIndex : g[l] = IF j + l < n1 THEN CombaDigit(v, l) * PowerOf(W, l) ELSE 0
  BY DEF CombaInner
<1> HIDE DEF f, g, n1
<1>6. ASSUME NEW l \in CombaIndex, l # n - j PROVE f[l] = g[l]
  <2>1. (j + l < n) <=> (j + l < n1)
    BY <1>1, <1>6
  <2> QED
    BY <1>4, <1>5, <2>1
<1>7. ASSUME n - j \in CombaIndex
      PROVE  SumOf(g, N) = SumOf(f, N) + CombaDigit(v, n - j) * PowerOf(W, n - j)
  <2> DEFINE k == n - j
             x == CombaDigit(v, k) * PowerOf(W, k)
  <2>1. k \in 0..(N - 1) /\ k \in CombaIndex /\ ~(j + k < n) /\ j + k < n1
    BY <1>1, <1>7
  <2>2. \A l \in CombaIndex : l # k => f[l] = g[l]
    BY <1>6
  <2> HIDE DEF k
  <2>3. f[k] = 0 /\ g[k] = x
    BY <1>4, <1>5, <2>1
  <2> HIDE DEF x
  <2>4. SumsDiffer(f, g, k, N)
    BY <1>1, <1>2, <1>3, <2>2 DEF SumsDiffer
  <2>5. SumOf(g, N) = SumOf(f, N) + (g[k] - f[k])
    BY <1>1, <2>1, <2>4, SumsChange
  <2>6. g[k] \in Int
    BY <1>3, <2>1
  <2>7. SumOf(g, N) = SumOf(f, N) + x
    BY <1>2, <2>3, <2>5, <2>6
  <2> QED
    BY <2>7 DEF x, k
<1>8. ASSUME ~(n - j \in CombaIndex)
      PROVE  SumOf(g, N) = SumOf(f, N)
  <2>1. \A k \in 0..(N - 1) : g[k] \in Int /\ g[k] = f[k]
    BY <1>1, <1>3, <1>6, <1>8
  <2> QED
    BY <1>1, <2>1, SumsSame
<1> QED
  BY <1>7, <1>8 DEF f, g, n1

LEMMA ColumnTerms ==
  ASSUME Prod!CombaParameters, NEW u \in Nat, NEW v \in Nat, NEW n \in Int
  PROVE  /\ \A j \in CombaIndex : CombaTerms(u, v, n)[j] \in 0..((W - 1) * (W - 1))
         /\ \A j \in 0..(N - 1) : CombaTerms(u, v, n)[j] \in Int
         /\ CombaColumn(u, v, n) \in 0..(N * ((W - 1) * (W - 1)))
<1> DEFINE e == (W - 1) * (W - 1)
           f == CombaTerms(u, v, n)
           w1 == W - 1
<1>1. N \in Nat /\ CombaIndex = 0..(N - 1) /\ w1 \in Nat
  BY CombaSizes
<1>2. e \in Nat
  <2> HIDE DEF w1
  <2>1. w1 * w1 \in Nat
    BY <1>1, SMTT(30)
  <2> QED
    BY <2>1 DEF w1
<1>3. ASSUME NEW j \in CombaIndex PROVE f[j] \in 0..e
  <2>1. f[j] = IF n - j \in CombaIndex THEN CombaDigit(u, j) * CombaDigit(v, n - j) ELSE 0
    BY DEF CombaTerms
  <2>2. CASE n - j \in CombaIndex
    <3> DEFINE x == CombaDigit(u, j)
               y == CombaDigit(v, n - j)
    <3>1. x \in 0..w1 /\ y \in 0..w1 /\ f[j] = x * y
      BY <2>1, <2>2, CombaDigits
    <3> HIDE DEF x, y, w1
    <3>2. x * y \in 0..(w1 * w1)
      BY <1>1, <3>1, ProductRange
    <3> QED
      BY <3>1, <3>2 DEF w1
  <2>3. CASE ~(n - j \in CombaIndex)
    <3>1. f[j] = 0
      BY <2>1, <2>3
    <3> HIDE DEF e, f
    <3> QED
      BY <1>2, <3>1
  <2> QED
    BY <2>2, <2>3
<1> HIDE DEF e, f
<1>4. \A j \in 0..(N - 1) : f[j] \in 0..e
  BY <1>1, <1>3
<1>5. SumOf(f, N) \in 0..(N * e)
  BY <1>1, <1>2, <1>4, SumsBounded
<1> QED
  BY <1>1, <1>2, <1>3, <1>4, <1>5 DEF CombaColumn, f, e

(* What is done gains column n. *)
LEMMA DoneStep ==
  ASSUME Prod!CombaParameters, NEW u \in Nat, NEW v \in Nat, NEW n \in Nat
  PROVE  /\ CombaDone(u, v, n) \in Int
         /\ CombaDone(u, v, n + 1) = CombaDone(u, v, n) + PowerOf(W, n) * CombaColumn(u, v, n)
<1> DEFINE n1 == n + 1
           f == CombaRows(u, v, n)
           g == CombaRows(u, v, n1)
           s == CombaTerms(u, v, n)
           c == PowerOf(W, n)
<1>1. N \in Nat /\ CombaIndex = 0..(N - 1) /\ W \in Nat \ {0} /\ n1 \in Int /\ n \in Int
  BY CombaSizes
<1>2. c \in Nat /\ c \in Int
  BY CombaPowers
<1>3. \A j \in 0..(N - 1) : s[j] \in Int
  BY <1>1, ColumnTerms
<1>4. ASSUME NEW j \in CombaIndex
      PROVE  f[j] \in Int /\ g[j] = f[j] + c * s[j]
  <2> DEFINE x == CombaDigit(u, j)
             w == PowerOf(W, j)
             q == SumOf(CombaInner(v, j, n), N)
             r == SumOf(CombaInner(v, j, n1), N)
  <2>1. x \in Int /\ w \in Int /\ j \in Nat
    <3>1. j \in Nat
      BY <1>1
    <3>2. x \in Nat /\ w \in Nat
      BY <3>1, CombaDigits, CombaPowers
    <3> QED
      BY <3>1, <3>2
  <2>2. q \in Int
    BY InnerTerms
  <2>3. f[j] = x * w * q /\ g[j] = x * w * r
    BY DEF CombaRows
  <2>4. s[j] = IF n - j \in CombaIndex THEN x * CombaDigit(v, n - j) ELSE 0
    BY DEF CombaTerms
  <2>5. f[j] \in Int
    <3> HIDE DEF x, w, q, f
    <3> QED
      BY <2>1, <2>2, <2>3, Product3
  <2>6. CASE n - j \in CombaIndex
    <3> DEFINE k == n - j
               y == CombaDigit(v, k)
               h == PowerOf(W, k)
    <3>1. k \in Nat /\ j + k = n
      BY <1>1, <2>1, <2>6
    <3>2. y \in Int /\ h \in Int
      <4>1. y \in Nat /\ h \in Nat
        BY <2>6, <3>1, CombaDigits, CombaPowers
      <4> QED
        BY <4>1
    <3>3. c = w * h
      <4> HIDE DEF k
      <4>1. PowerOf(W, j + k) = PowerOf(W, j) * PowerOf(W, k)
        BY <1>1, <2>1, <3>1, PowersAdd
      <4> QED
        BY <3>1, <4>1
    <3>4. r = q + y * h
      BY <2>6, InnerStep
    <3>5. s[j] = x * y
      BY <2>4, <2>6
    <3> HIDE DEF x, w, q, r, y, h, c, s, f, g, k
    <3>6. x * w * (q + y * h) = x * w * q + (w * h) * (x * y)
      BY <2>1, <2>2, <3>2, SMTT(30)
    <3> QED
      BY <2>3, <2>5, <3>3, <3>4, <3>5, <3>6
  <2>7. CASE ~(n - j \in CombaIndex)
    <3>1. r = q
      BY <2>7, InnerStep
    <3>2. s[j] = 0
      BY <2>4, <2>7
    <3> HIDE DEF x, w, q, r, c, s, f, g
    <3>3. c * 0 = 0
      BY <1>2
    <3> QED
      BY <2>3, <2>5, <3>1, <3>2, <3>3
  <2> QED
    BY <2>5, <2>6, <2>7
<1> HIDE DEF f, g, s, c
<1>5. TermsLinear(f, s, g, c, N)
  BY <1>1, <1>3, <1>4 DEF TermsLinear
<1>6. SumOf(g, N) = SumOf(f, N) + c * SumOf(s, N)
  BY <1>1, <1>2, <1>5, SumsLinear
<1>7. SumOf(f, N) \in Int
  <2>1. \A j \in 0..(N - 1) : f[j] \in Int
    BY <1>1, <1>4
  <2>2. \A k \in 0..N : SumOf(f, k) \in Int
    BY <1>1, <2>1, SumsStep
  <2> QED
    BY <1>1, <2>2
<1> QED
  BY <1>6, <1>7 DEF CombaDone, CombaColumn, f, g, s, c, n1

(* Before the first column nothing is done. *)
LEMMA DoneFirst ==
  ASSUME Prod!CombaParameters, NEW u \in Nat, NEW v \in Nat
  PROVE  CombaDone(u, v, 0) = 0
<1> DEFINE z == 0
           f == CombaRows(u, v, z)
<1>1. N \in Nat /\ CombaIndex = 0..(N - 1) /\ z \in Int /\ z \in 0..N /\ z = 0
  BY CombaSizes
<1> HIDE DEF z
<1>2. ASSUME NEW j \in CombaIndex PROVE f[j] = 0
  <2> DEFINE h == CombaInner(v, j, z)
             q == SumOf(h, N)
             x == CombaDigit(u, j)
             w == PowerOf(W, j)
  <2>1. ASSUME NEW l \in CombaIndex PROVE h[l] = 0
    <3>1. ~(j + l < z)
      BY <1>1
    <3> QED
      BY <3>1 DEF CombaInner
  <2>2. x \in Int /\ w \in Int
    <3>1. j \in Nat
      BY <1>1
    <3>2. x \in Nat /\ w \in Nat
      BY <3>1, CombaDigits, CombaPowers
    <3> QED
      BY <3>2
  <2>3. f[j] = x * w * q
    BY DEF CombaRows
  <2> HIDE DEF h, x, w, f
  <2>4. q = 0
    <3>1. \A l \in 0..(N - 1) : h[l] \in Int /\ h[l] = 0
      BY <1>1, <2>1
    <3>2. \A l \in z..(N - 1) : h[l] = 0
      BY <1>1, <3>1
    <3>3. SumOf(h, N) = SumOf(h, z)
      BY <1>1, <3>1, <3>2, SumsTail
    <3>4. SumOf(h, z) = 0
      BY <1>1, <3>1, SumsStep
    <3> QED
      BY <3>3, <3>4
  <2> HIDE DEF q
  <2>5. x * w * 0 = 0
    BY <2>2, Product3
  <2> QED
    BY <2>3, <2>4, <2>5
<1> HIDE DEF f
<1>3. \A j \in 0..(N - 1) : f[j] \in Int /\ f[j] = 0
  BY <1>1, <1>2
<1>4. \A j \in z..(N - 1) : f[j] = 0
  BY <1>1, <1>3
<1>5. SumOf(f, N) = SumOf(f, z)
  BY <1>1, <1>3, <1>4, SumsTail
<1>6. SumOf(f, z) = 0
  BY <1>1, <1>3, SumsStep
<1> QED
  BY <1>1, <1>5, <1>6 DEF CombaDone, f

(* When every column is in, what is done is the product. *)
LEMMA DoneLast ==
  ASSUME Prod!CombaParameters, NEW u \in Nat, NEW v \in Nat,
         u < PowerOf(W, N), v < PowerOf(W, N), NEW n \in Int, n >= 2 * N - 1
  PROVE  CombaDone(u, v, n) = u * v
<1> DEFINE du == [j \in CombaIndex |-> CombaDigit(u, j)]
           dv == [j \in CombaIndex |-> CombaDigit(v, j)]
           f == CombaRows(u, v, n)
           g == [j \in Nat |-> du[j] * PowerOf(W, j)]
           z == [j \in CombaIndex |-> 0]
           k == [j \in Nat |-> dv[j] * PowerOf(W, j)]
<1>1. N \in Nat /\ N > 0 /\ CombaIndex = 0..(N - 1) /\ W \in Nat \ {0} /\ CombaIndex \subseteq Nat
  BY CombaSizes
<1>2. ASSUME NEW j \in CombaIndex
      PROVE  CombaDigit(u, j) \in Nat /\ CombaDigit(v, j) \in Nat /\ PowerOf(W, j) \in Nat
  BY <1>1, CombaDigits, CombaPowers
<1>3. Weighted(du, W, N) = u
  <2>1. \A j \in 0..(N - 1) : du[j] = (u \div PowerOf(W, j)) % W
    BY <1>1 DEF CombaDigit
  <2> HIDE DEF du
  <2> QED
    BY <1>1, <2>1, WeightedOfNumber
<1>4. Weighted(dv, W, N) = v
  <2>1. \A j \in 0..(N - 1) : dv[j] = (v \div PowerOf(W, j)) % W
    BY <1>1 DEF CombaDigit
  <2> HIDE DEF dv
  <2> QED
    BY <1>1, <2>1, WeightedOfNumber
<1>5. SumOf(g, N) = u /\ SumOf(k, N) = v
  BY <1>3, <1>4 DEF Weighted
<1>6. ASSUME NEW j \in CombaIndex PROVE SumOf(CombaInner(v, j, n), N) = v
  <2> DEFINE h == CombaInner(v, j, n)
  <2>1. ASSUME NEW l \in CombaIndex PROVE k[l] \in Int /\ k[l] = h[l]
    <3> DEFINE x == CombaDigit(v, l)
               w == PowerOf(W, l)
    <3>1. j + l < n
      BY <1>1
    <3>2. h[l] = x * w
      BY <3>1 DEF CombaInner
    <3>3. k[l] = x * w
      BY <1>1
    <3>4. x \in Nat /\ w \in Nat
      BY <1>2
    <3> HIDE DEF x, w, h, k
    <3>5. x * w \in Nat
      BY <3>4, SMTT(30)
    <3> QED
      BY <3>2, <3>3, <3>5
  <2> HIDE DEF h, k
  <2>2. \A l \in 0..(N - 1) : k[l] \in Int /\ k[l] = h[l]
    BY <1>1, <2>1
  <2>3. SumOf(k, N) = SumOf(h, N)
    BY <1>1, <2>2, SumsSame
  <2> QED
    BY <1>5, <2>3 DEF h
<1>7. ASSUME NEW j \in CombaIndex
      PROVE  z[j] \in Int /\ z[j] = 0 /\ g[j] \in Int /\ f[j] = z[j] + v * g[j]
  <2> DEFINE x == CombaDigit(u, j)
             w == PowerOf(W, j)
  <2>1. f[j] = x * w * v
    BY <1>6 DEF CombaRows
  <2>2. g[j] = x * w
    BY <1>1
  <2>3. x \in Nat /\ w \in Nat
    BY <1>2
  <2>4. z[j] = 0
    OBVIOUS
  <2> HIDE DEF x, w, f, g, z
  <2>5. x * w \in Nat
    BY <2>3, SMTT(30)
  <2> DEFINE y == x * w
  <2>6. y * v = v * y /\ v * y \in Int
    <3>1. y \in Int
      BY <2>5
    <3> HIDE DEF y
    <3> QED
      BY <3>1, SMTT(30)
  <2>7. f[j] = y * v /\ g[j] = y /\ y \in Int
    BY <2>1, <2>2, <2>5
  <2> HIDE DEF y
  <2> QED
    BY <2>4, <2>6, <2>7
<1> HIDE DEF f, g, z
<1>8. TermsLinear(z, g, f, v, N)
  BY <1>1, <1>7 DEF TermsLinear
<1>9. SumOf(f, N) = SumOf(z, N) + v * SumOf(g, N)
  <2>1. v \in Int
    OBVIOUS
  <2> QED
    BY <1>1, <1>8, <2>1, SumsLinear
<1>10. SumOf(z, N) = 0
  <2> DEFINE zero == 0
  <2>1. zero \in 0..N /\ \A j \in 0..(N - 1) : z[j] \in Int /\ z[j] = 0
    BY <1>1, <1>7
  <2> HIDE DEF zero
  <2>2. \A j \in zero..(N - 1) : z[j] = 0
    BY <1>1, <2>1
  <2>3. SumOf(z, N) = SumOf(z, zero)
    BY <1>1, <2>1, <2>2, SumsTail
  <2>4. SumOf(z, zero) = 0
    BY <1>1, <2>1, SumsStep DEF zero
  <2> QED
    BY <2>3, <2>4
<1>11. SumOf(f, N) = u * v
  BY <1>5, <1>9, <1>10, SMTT(30)
<1> QED
  BY <1>11 DEF CombaDone, f

(* The products of column n, by either operand's word, over every index. *)
CombaAll(u, n, k) ==
  [j \in 0..(k - 1) |-> IF j \in CombaIndex /\ n - j \in CombaIndex
                        THEN CombaDigit(u, j) * CombaDigit(u, n - j) ELSE 0]

(* The products off the diagonal, each once. *)
CombaOff(u, n) ==
  [j \in CombaIndex |-> IF n - j \in CombaIndex /\ j < n - j
                        THEN CombaDigit(u, j) * CombaDigit(u, n - j) ELSE 0]

CombaLow(u, n, k) ==
  [j \in 0..(k - 1) |-> IF j \in CombaIndex /\ n - j \in CombaIndex /\ j < n - j
                        THEN CombaDigit(u, j) * CombaDigit(u, n - j) ELSE 0]

CombaHigh(u, n, k) ==
  [j \in 0..(k - 1) |-> IF j \in CombaIndex /\ n - j \in CombaIndex /\ n - j < j
                        THEN CombaDigit(u, j) * CombaDigit(u, n - j) ELSE 0]

(* Terms that stand at indices of words only, in two ranges. *)
LEMMA TwoRanges ==
  ASSUME Prod!CombaParameters, NEW n \in Nat, NEW f, NEW g, NEW h,
         \A j \in 0..(N + n) : f[j] \in Int,
         \A j \in 0..(N + n) : (j \in CombaIndex /\ n - j \in CombaIndex) \/ f[j] = 0,
         \A j \in CombaIndex : g[j] = f[j],
         \A j \in 0..n : h[j] = f[j]
  PROVE  /\ SumOf(g, N) = SumOf(h, n + 1)
         /\ \A j \in 0..n : h[j] \in Int
         /\ \A j \in 0..(N - 1) : g[j] \in Int
         /\ SumOf(g, N) \in Int
<1> DEFINE k == N + n + 1
           m == n + 1
<1>1. /\ N \in Nat /\ CombaIndex = 0..(N - 1) /\ k \in Nat /\ m \in Nat /\ N \in 0..k /\ m \in 0..k
      /\ 0..(k - 1) = 0..(N + n) /\ 0..(m - 1) = 0..n
      /\ 0..n \subseteq 0..(N + n) /\ 0..(N - 1) \subseteq 0..(N + n)
      /\ N..(k - 1) \subseteq 0..(N + n) /\ m..(k - 1) \subseteq 0..(N + n)
  BY CombaSizes
<1>2. \A j \in 0..(k - 1) : f[j] \in Int
  BY <1>1
<1>3. \A j \in N..(k - 1) : f[j] = 0
  <2> TAKE j \in N..(k - 1)
  <2>1. ~(j \in CombaIndex) /\ j \in 0..(N + n)
    BY <1>1
  <2> QED
    BY <2>1
<1>4. \A j \in m..(k - 1) : f[j] = 0
  <2> TAKE j \in m..(k - 1)
  <2>1. ~(n - j \in CombaIndex) /\ j \in 0..(N + n)
    BY <1>1
  <2> QED
    BY <2>1
<1>5. \A j \in 0..(N - 1) : f[j] \in Int /\ f[j] = g[j]
  BY <1>1
<1>6. \A j \in 0..(m - 1) : f[j] \in Int /\ f[j] = h[j]
  BY <1>1
<1> HIDE DEF k, m
<1>7. SumOf(f, k) = SumOf(f, N)
  BY <1>1, <1>2, <1>3, SumsTail
<1>8. SumOf(f, k) = SumOf(f, m)
  BY <1>1, <1>2, <1>4, SumsTail
<1>9. SumOf(f, N) = SumOf(g, N)
  BY <1>1, <1>5, SumsSame
<1>10. SumOf(f, m) = SumOf(h, m)
  BY <1>1, <1>6, SumsSame
<1>11. SumOf(g, N) \in Int
  <2>1. \A j \in 0..(N - 1) : g[j] \in Int
    BY <1>5
  <2>2. \A j \in 0..N : SumOf(g, j) \in Int
    BY <1>1, <2>1, SumsStep
  <2> QED
    BY <1>1, <2>2
<1> QED
  BY <1>1, <1>5, <1>6, <1>7, <1>8, <1>9, <1>10, <1>11 DEF m

(* A square's column: the products off the diagonal, doubled, and in even columns the
   square on it. *)
LEMMA SquareColumn ==
  ASSUME Prod!CombaParameters, NEW u \in Nat, NEW n \in 0..(2 * N - 2)
  PROVE  /\ SumOf(CombaOff(u, n), N) \in Int
         /\ CombaColumn(u, u, n) =
              2 * SumOf(CombaOff(u, n), N)
                + (IF n % 2 = 0 THEN CombaDigit(u, n \div 2) * CombaDigit(u, n \div 2) ELSE 0)
<1> DEFINE m == n + 1
           big == N + n + 1
           X(j) == CombaDigit(u, j) * CombaDigit(u, n - j)
           Meet(j) == j \in CombaIndex /\ n - j \in CombaIndex
           f == CombaAll(u, n, big)
           g == CombaLow(u, n, big)
           fe == CombaAll(u, n, m)
           lo == CombaLow(u, n, m)
           up == CombaHigh(u, n, m)
           both == [j \in 0..(m - 1) |-> lo[j] + 1 * up[j]]
           col == CombaTerms(u, u, n)
           off == CombaOff(u, n)
           half == n \div 2
<1>1. /\ N \in Nat /\ N > 0 /\ CombaIndex = 0..(N - 1) /\ n \in Nat /\ m \in Nat
      /\ 0..(big - 1) = 0..(N + n) /\ 0..(m - 1) = 0..n
      /\ 0..n \subseteq 0..(N + n) /\ CombaIndex \subseteq 0..(N + n)
  BY CombaSizes
<1>2. ASSUME NEW j, Meet(j) PROVE X(j) \in Int
  <2>1. CombaDigit(u, j) \in Nat /\ CombaDigit(u, n - j) \in Nat
    BY <1>2, CombaDigits
  <2> DEFINE x == CombaDigit(u, j)
             y == CombaDigit(u, n - j)
  <2> HIDE DEF x, y
  <2>2. x * y \in Int
    BY <2>1, SMTT(30) DEF x, y
  <2> QED
    BY <2>2 DEF x, y
<1>3. \A j \in 0..(N + n) : f[j] = IF Meet(j) THEN X(j) ELSE 0
  BY <1>1 DEF CombaAll
<1>4. \A j \in 0..n : fe[j] = IF Meet(j) THEN X(j) ELSE 0
  BY <1>1 DEF CombaAll
<1>5. \A j \in 0..(N + n) : g[j] = IF Meet(j) /\ j < n - j THEN X(j) ELSE 0
  BY <1>1 DEF CombaLow
<1>6. \A j \in 0..n : lo[j] = IF Meet(j) /\ j < n - j THEN X(j) ELSE 0
  BY <1>1 DEF CombaLow
<1>7. \A j \in 0..n : up[j] = IF Meet(j) /\ n - j < j THEN X(j) ELSE 0
  BY <1>1 DEF CombaHigh
<1>8. \A j \in CombaIndex : col[j] = IF Meet(j) THEN X(j) ELSE 0
  BY DEF CombaTerms
<1>9. \A j \in CombaIndex : off[j] = IF Meet(j) /\ j < n - j THEN X(j) ELSE 0
  BY DEF CombaOff
<1>10. ASSUME NEW j \in 0..n
       PROVE  /\ n - (n - j) = j /\ n - j \in 0..n
              /\ Meet(n - j) <=> Meet(j)
              /\ Meet(j) => X(n - j) = X(j)
  <2>1. n - (n - j) = j /\ n - j \in 0..n
    OBVIOUS
  <2>2. Meet(n - j) <=> Meet(j)
    BY <2>1
  <2>3. ASSUME Meet(j) PROVE X(n - j) = X(j)
    <3> DEFINE x == CombaDigit(u, j)
               y == CombaDigit(u, n - j)
    <3>1. x \in Nat /\ y \in Nat
      BY <2>3, CombaDigits
    <3>2. X(j) = x * y /\ X(n - j) = y * CombaDigit(u, n - (n - j))
      OBVIOUS
    <3>3. X(n - j) = y * x
      BY <2>1, <3>2
    <3> HIDE DEF x, y, X
    <3>4. y * x = x * y
      BY <3>1, SMTT(30)
    <3> QED
      BY <3>2, <3>3, <3>4
  <2> QED
    BY <2>1, <2>2, <2>3
<1>11. ASSUME NEW j \in 0..(N + n)
       PROVE  /\ f[j] \in Int /\ g[j] \in Int
              /\ Meet(j) \/ f[j] = 0
              /\ Meet(j) \/ g[j] = 0
  <2> HIDE DEF X, Meet, f, g
  <2> QED
    BY <1>2, <1>3, <1>5
<1>12. (\A j \in CombaIndex : col[j] = f[j] /\ off[j] = g[j]) /\ \A j \in 0..n : fe[j] = f[j] /\ lo[j] = g[j]
  <2>1. ASSUME NEW j \in CombaIndex PROVE col[j] = f[j] /\ off[j] = g[j]
    <3>1. j \in 0..(N + n)
      BY <1>1
    <3> HIDE DEF X, Meet, f, g, col, off
    <3> QED
      BY <1>3, <1>5, <1>8, <1>9, <3>1
  <2>2. ASSUME NEW j \in 0..n PROVE fe[j] = f[j] /\ lo[j] = g[j]
    <3>1. j \in 0..(N + n)
      BY <1>1
    <3> HIDE DEF X, Meet, f, g, fe, lo
    <3> QED
      BY <1>3, <1>4, <1>5, <1>6, <3>1
  <2> QED
    BY <2>1, <2>2
<1>13. (\A j \in 0..n : n - j < j => up[j] = lo[n - j]) /\ \A j \in 0..n : ~(n - j < j) => up[j] = 0
  <2> HIDE DEF X, Meet, up, lo
  <2>1. ASSUME NEW j \in 0..n, n - j < j PROVE up[j] = lo[n - j]
    <3> DEFINE k == n - j
    <3>1. k \in 0..n /\ n - k = j /\ (Meet(k) <=> Meet(j)) /\ (Meet(j) => X(k) = X(j))
      BY <1>10
    <3>2. up[j] = IF Meet(j) THEN X(j) ELSE 0
      BY <1>7, <2>1
    <3>3. k < n - k
      BY <2>1, <3>1
    <3> HIDE DEF k
    <3>4. lo[k] = IF Meet(k) THEN X(k) ELSE 0
      BY <1>6, <3>1, <3>3
    <3> QED
      BY <3>1, <3>2, <3>4 DEF k
  <2>2. ASSUME NEW j \in 0..n, ~(n - j < j) PROVE up[j] = 0
    BY <1>7, <2>2
  <2> QED
    BY <2>1, <2>2
<1>14. \A j \in 0..n : lo[j] \in Int /\ up[j] \in Int /\ fe[j] \in Int
  <2> HIDE DEF X, Meet, up, lo, fe
  <2> QED
    BY <1>2, <1>4, <1>6, <1>7
<1>15. \A j \in 0..n : up[j] = lo[n - j]
  <2> TAKE j \in 0..n
  <2>1. CASE n - j < j
    BY <1>13, <2>1
  <2>2. CASE ~(n - j < j)
    <3> DEFINE k == n - j
    <3>1. k \in 0..n /\ ~(k < n - k)
      BY <2>2
    <3> HIDE DEF k, lo, up, X, Meet
    <3>2. lo[k] = 0
      BY <1>6, <3>1
    <3>3. up[j] = 0
      BY <1>13, <2>2
    <3> QED
      BY <3>2, <3>3 DEF k
  <2> QED
    BY <2>1, <2>2
<1>16. ASSUME NEW j \in 0..n
       PROVE  /\ both[j] = lo[j] + 1 * up[j] /\ both[j] \in Int
              /\ j # n - j => fe[j] = both[j]
              /\ j = n - j => both[j] = 0
  <2>1. both[j] = lo[j] + 1 * up[j]
    BY <1>1
  <2> HIDE DEF both, lo, up, fe, X, Meet
  <2>2. both[j] = lo[j] + up[j] /\ lo[j] \in Int /\ up[j] \in Int
    BY <1>14, <2>1
  <2>3. CASE j < n - j
    <3>1. ~(n - j < j) /\ j # n - j
      BY <2>3
    <3>2. up[j] = 0
      BY <1>13, <3>1
    <3>3. lo[j] = fe[j]
      BY <1>4, <1>6, <2>3
    <3> QED
      BY <2>1, <2>2, <3>1, <3>2, <3>3
  <2>4. CASE n - j < j
    <3>1. ~(j < n - j) /\ j # n - j
      BY <2>4
    <3>2. lo[j] = 0
      BY <1>6, <3>1
    <3>3. up[j] = fe[j]
      BY <1>4, <1>7, <2>4
    <3> QED
      BY <2>1, <2>2, <3>1, <3>2, <3>3
  <2>5. CASE j = n - j
    <3>1. ~(j < n - j) /\ ~(n - j < j)
      BY <2>5
    <3>2. lo[j] = 0 /\ up[j] = 0
      BY <1>6, <1>7, <3>1
    <3> QED
      BY <2>1, <2>2, <2>5, <3>2
  <2>6. j < n - j \/ n - j < j \/ j = n - j
    OBVIOUS
  <2> QED
    BY <2>3, <2>4, <2>5, <2>6
<1> DEFINE dg == IF n % 2 = 0 THEN CombaDigit(u, half) * CombaDigit(u, half) ELSE 0
<1>17. SumOf(fe, m) = SumOf(both, m) + dg /\ SumOf(both, m) \in Int
  <2>1. \A j \in 0..(m - 1) : fe[j] \in Int /\ both[j] \in Int
    BY <1>1, <1>14, <1>16
  <2>2. SumOf(both, m) \in Int /\ m \in Nat
    <3> HIDE DEF both
    <3>1. \A j \in 0..(m - 1) : both[j] \in Int
      BY <2>1
    <3> HIDE DEF m
    <3>2. \A j \in 0..m : SumOf(both, j) \in Int
      BY <1>1, <3>1, SumsStep
    <3>3. m \in 0..m
      BY <1>1
    <3> QED
      BY <1>1, <3>2, <3>3
  <2>3. CASE n % 2 = 0
    <3>1. half \in 0..n /\ half \in 0..(N - 1) /\ half = n - half /\ half \in 0..(m - 1)
          /\ \A j \in 0..n : j # half => j # n - j
      <4>1. n = 2 * half /\ half \in Int
        BY <2>3
      <4> HIDE DEF half
      <4> QED
        BY <1>1, <4>1
    <3>2. fe[half] = dg
      <4>1. Meet(half)
        BY <1>1, <3>1
      <4>2. X(half) = CombaDigit(u, half) * CombaDigit(u, half)
        BY <3>1
      <4> HIDE DEF X, Meet, fe, half
      <4> QED
        BY <1>4, <2>3, <3>1, <4>1, <4>2
    <3> HIDE DEF half, fe, both, m, dg
    <3>3. both[half] = 0
      BY <1>16, <3>1
    <3>4. SumsDiffer(both, fe, half, m)
      <4>1. \A j \in 0..n : j # half => both[j] = fe[j]
        BY <1>16, <3>1
      <4> QED
        BY <1>1, <2>1, <4>1 DEF SumsDiffer
    <3>5. SumOf(fe, m) = SumOf(both, m) + (fe[half] - both[half])
      BY <2>2, <3>1, <3>4, SumsChange
    <3>6. fe[half] \in Int
      BY <2>1, <3>1
    <3> QED
      BY <2>2, <3>2, <3>3, <3>5, <3>6
  <2>4. CASE n % 2 # 0
    <3>1. \A j \in 0..n : j # n - j
      BY <2>4
    <3>2. dg = 0
      BY <2>4
    <3> HIDE DEF fe, both, m, dg
    <3>3. \A j \in 0..(m - 1) : fe[j] \in Int /\ fe[j] = both[j]
      <4>1. \A j \in 0..n : fe[j] = both[j]
        BY <1>16, <3>1
      <4> QED
        BY <1>1, <2>1, <4>1
    <3>4. SumOf(fe, m) = SumOf(both, m)
      BY <2>2, <3>3, SumsSame
    <3> QED
      BY <2>2, <3>2, <3>4
  <2> QED
    BY <2>3, <2>4
<1> HIDE DEF fe, both, lo, up, f, g, col, off, dg, X, Meet, half
<1>18. SumOf(both, m) = SumOf(lo, m) + SumOf(up, m) /\ SumOf(lo, m) \in Int /\ SumOf(up, m) \in Int
  <2>1. \A j \in 0..(m - 1) : lo[j] \in Int /\ up[j] \in Int /\ both[j] = lo[j] + 1 * up[j]
    BY <1>1, <1>14, <1>16
  <2> DEFINE one == 1
  <2>2. TermsLinear(lo, up, both, one, m)
    BY <2>1 DEF TermsLinear
  <2>3. one \in Int /\ one = 1 /\ m \in 0..m
    BY <1>1
  <2> HIDE DEF one, m
  <2>4. SumOf(both, m) = SumOf(lo, m) + one * SumOf(up, m)
    BY <1>1, <2>2, <2>3, SumsLinear
  <2>5. (\A j \in 0..m : SumOf(lo, j) \in Int) /\ \A j \in 0..m : SumOf(up, j) \in Int
    <3>1. \A j \in 0..(m - 1) : lo[j] \in Int
      BY <2>1
    <3>2. \A j \in 0..(m - 1) : up[j] \in Int
      BY <2>1
    <3> QED
      BY <1>1, <3>1, <3>2, SumsStep
  <2>6. SumOf(lo, m) \in Int /\ SumOf(up, m) \in Int
    BY <2>3, <2>5
  <2> QED
    BY <2>3, <2>4, <2>6
<1>19. SumOf(up, m) = SumOf(lo, m)
  <2>1. Reversed(lo, up, m)
    <3>1. \A j \in 0..n : lo[j] \in Int /\ up[j] = lo[n - j]
      BY <1>14, <1>15
    <3>2. m - 1 = n
      BY <1>1
    <3> QED
      BY <3>1, <3>2 DEF Reversed
  <2> HIDE DEF m
  <2> QED
    BY <1>1, <2>1, SumsReversed
<1>20. SumOf(col, N) = SumOf(fe, m) /\ SumOf(off, N) = SumOf(lo, m)
  <2>1. \A j \in 0..(N + n) : f[j] \in Int
    BY <1>11
  <2>2. \A j \in 0..(N + n) : (j \in CombaIndex /\ n - j \in CombaIndex) \/ f[j] = 0
    BY <1>11 DEF Meet
  <2>3. \A j \in 0..(N + n) : g[j] \in Int
    BY <1>11
  <2>4. \A j \in 0..(N + n) : (j \in CombaIndex /\ n - j \in CombaIndex) \/ g[j] = 0
    BY <1>11 DEF Meet
  <2>5. \A j \in CombaIndex : col[j] = f[j]
    BY <1>12
  <2>6. \A j \in CombaIndex : off[j] = g[j]
    BY <1>12
  <2>7. \A j \in 0..n : fe[j] = f[j]
    BY <1>12
  <2>8. \A j \in 0..n : lo[j] = g[j]
    BY <1>12
  <2>9. SumOf(col, N) = SumOf(fe, n + 1)
    BY <1>1, <2>1, <2>2, <2>5, <2>7, TwoRanges
  <2>10. SumOf(off, N) = SumOf(lo, n + 1)
    BY <1>1, <2>3, <2>4, <2>6, <2>8, TwoRanges
  <2> QED
    BY <2>9, <2>10
<1>21. CombaColumn(u, u, n) = SumOf(col, N)
  BY DEF CombaColumn, col
<1>22. SumOf(fe, m) = 2 * SumOf(lo, m) + dg
  <2> DEFINE x == SumOf(lo, m)
  <2>1. SumOf(both, m) = x + x /\ x \in Int
    BY <1>18, <1>19
  <2> HIDE DEF x
  <2>2. x + x = 2 * x
    BY <2>1
  <2> QED
    BY <1>17, <2>1, <2>2 DEF x
<1>23. SumOf(off, N) \in Int /\ CombaColumn(u, u, n) = 2 * SumOf(off, N) + dg
  BY <1>18, <1>20, <1>21, <1>22
<1> QED
  BY <1>23 DEF off, dg, half

(* The words and sums of the module are those above. *)
LEMMA CombaNames ==
  /\ \A n : Prod!Weight(n) = PowerOf(W, n)
  /\ \A f, n : Prod!Total(f, n) = SumOf(f, n)
  /\ Prod!Places = CombaIndex
  /\ \A x, j : Prod!Word(x, j) = CombaDigit(x, j)
<1>1. \A n : Prod!Weight(n) = PowerOf(W, n)
  BY DEF Prod!Weight, PowerOf
<1>2. \A f, n : Prod!Total(f, n) = SumOf(f, n)
  BY DEF Prod!Total, SumOf
<1>3. Prod!Places = CombaIndex
  BY DEF Prod!Places, CombaIndex
<1>4. ASSUME NEW x, NEW j PROVE Prod!Word(x, j) = CombaDigit(x, j)
  BY <1>1 DEF Prod!Word, CombaDigit
<1> QED
  BY <1>1, <1>2, <1>3, <1>4

(* What went out and what is carried are the columns so far; what is carried is small
   enough for the count of overflows to fit a word. *)
CombaInv == /\ path \in {"mul", "sqr"} /\ (path = "sqr" => exponent = base)
            /\ base \in 0..(PowerOf(W, N) - 1) /\ exponent \in 0..(PowerOf(W, N) - 1)
            /\ pos \in 0..(2 * N) /\ acc \in 0..(N * W) /\ (pos = 2 * N => acc = 0)
            /\ result \in 0..(PowerOf(W, pos) - 1)
            /\ result + acc * PowerOf(W, pos) = CombaDone(base, exponent, pos)

LEMMA CombaHolds == Prod!CombaParameters
BY ModularAssumption

LEMMA CombaOperands ==
  ASSUME CombaInv
  PROVE  /\ base \in Nat /\ exponent \in Nat /\ base < PowerOf(W, N) /\ exponent < PowerOf(W, N)
         /\ pos \in Nat /\ acc \in Nat /\ result \in Nat
         /\ PowerOf(W, pos) \in Nat /\ PowerOf(W, pos) > 0
<1>1. PowerOf(W, N) \in Nat /\ N \in Nat /\ W \in Nat
  BY CombaHolds, CombaSizes, CombaPowers
<1>2. base \in Nat /\ exponent \in Nat /\ base < PowerOf(W, N) /\ exponent < PowerOf(W, N)
  <2> DEFINE q == PowerOf(W, N)
  <2>1. q \in Nat /\ base \in 0..(q - 1) /\ exponent \in 0..(q - 1)
    BY <1>1 DEF CombaInv
  <2> HIDE DEF q
  <2> QED
    BY <2>1 DEF q
<1>3. pos \in Nat
  BY <1>1 DEF CombaInv
<1>4. PowerOf(W, pos) \in Nat /\ PowerOf(W, pos) > 0
  BY <1>3, CombaHolds, CombaPowers
<1>5. acc \in Nat
  <2> DEFINE q == N * W
  <2>1. acc \in 0..q
    BY DEF CombaInv
  <2> HIDE DEF q
  <2> QED
    BY <2>1
<1>6. result \in Nat
  <2> DEFINE q == PowerOf(W, pos)
  <2>1. result \in 0..(q - 1)
    BY DEF CombaInv
  <2> HIDE DEF q
  <2> QED
    BY <2>1
<1> QED
  BY <1>2, <1>3, <1>4, <1>5, <1>6

LEMMA CombaInitial ==
  ASSUME Prod!Init
  PROVE  CombaInv
<1>1. /\ N \in Nat /\ W \in Nat /\ PowerOf(W, N) \in Nat /\ PowerOf(W, 0) = 1
  BY CombaHolds, CombaSizes, CombaPowers
<1>2. /\ path \in {"mul", "sqr"} /\ base \in 0..(PowerOf(W, N) - 1)
      /\ exponent \in IF path = "sqr" THEN {base} ELSE 0..(PowerOf(W, N) - 1)
      /\ pos = 0 /\ acc = 0 /\ result = 0
  BY CombaNames DEF Prod!Init
<1>3. exponent \in 0..(PowerOf(W, N) - 1) /\ (path = "sqr" => exponent = base)
  BY <1>2
<1>4. pos \in 0..(2 * N)
  BY <1>1, <1>2
<1>5. acc \in 0..(N * W)
  <2>1. N * W \in Nat
    BY <1>1, SMTT(30)
  <2> DEFINE q == N * W
  <2> HIDE DEF q
  <2> QED
    BY <1>2, <2>1 DEF q
<1>6. result \in 0..(PowerOf(W, pos) - 1)
  BY <1>1, <1>2
<1>7. result + acc * PowerOf(W, pos) = CombaDone(base, exponent, pos)
  <2>1. base \in Nat /\ exponent \in Nat
    <3> DEFINE q == PowerOf(W, N)
    <3>1. q \in Nat /\ base \in 0..(q - 1) /\ exponent \in 0..(q - 1)
      BY <1>1, <1>2, <1>3
    <3> HIDE DEF q
    <3> QED
      BY <3>1
  <2>2. CombaDone(base, exponent, pos) = 0
    BY <1>2, <2>1, CombaHolds, DoneFirst
  <2>3. 0 + 0 * PowerOf(W, pos) = 0
    BY <1>1, <1>2
  <2> QED
    BY <1>2, <2>2, <2>3
<1> QED
  BY <1>2, <1>3, <1>4, <1>5, <1>6, <1>7 DEF CombaInv

(* comba_mul_8 adds the column's products. *)
LEMMA MulColumnAdds ==
  Prod!MulColumn = Prod!Overflow(acc + CombaColumn(base, exponent, pos))
<1> DEFINE f == [j \in CombaIndex |-> IF j \in Prod!Rows
                                      THEN CombaDigit(base, j) * CombaDigit(exponent, pos - j) ELSE 0]
<1>1. \A j \in CombaIndex : j \in Prod!Rows <=> pos - j \in CombaIndex
  BY CombaNames DEF Prod!Rows
<1>2. f = CombaTerms(base, exponent, pos)
  BY <1>1 DEF CombaTerms
<1>3. Prod!Products(Prod!Rows) = SumOf(f, N)
  BY CombaNames DEF Prod!Products
<1> QED
  BY <1>2, <1>3 DEF Prod!MulColumn, CombaColumn

(* comba_sqr_8 doubles what is off the diagonal, and adds as much. *)
LEMMA SqrColumnAdds ==
  ASSUME CombaInv, path = "sqr", pos < 2 * N - 1
  PROVE  Prod!SqrColumn = Prod!Overflow(acc + CombaColumn(base, exponent, pos))
<1> DEFINE f == [j \in CombaIndex |-> IF j \in {l \in Prod!Rows : l < pos - l}
                                      THEN CombaDigit(base, j) * CombaDigit(base, pos - j) ELSE 0]
           h == CombaDigit(base, pos \div 2)
           off == SumOf(CombaOff(base, pos), N)
           dg == IF pos % 2 = 0 THEN h * h ELSE 0
<1>1. exponent = base /\ base \in Nat /\ pos \in Nat /\ acc \in Nat /\ N \in Nat
  BY CombaOperands, CombaHolds, CombaSizes DEF CombaInv
<1>2. pos \in 0..(2 * N - 2)
  BY <1>1
<1>3. \A j \in CombaIndex : j \in {l \in Prod!Rows : l < pos - l}
                              <=> pos - j \in CombaIndex /\ j < pos - j
  BY CombaNames DEF Prod!Rows
<1>4. f = CombaOff(base, pos)
  BY <1>3 DEF CombaOff
<1>5. Prod!OffDiagonal = off
  <2>1. Prod!OffDiagonal = SumOf(f, N)
    BY <1>1, CombaNames DEF Prod!OffDiagonal, Prod!Products
  <2> QED
    BY <1>4, <2>1
<1>6. Prod!Diagonal = dg
  BY CombaNames DEF Prod!Diagonal
<1>7. off \in Int /\ CombaColumn(base, base, pos) = 2 * off + dg
  BY <1>1, <1>2, CombaHolds, SquareColumn
<1>8. dg \in Int
  <2>1. CASE pos % 2 = 0
    <3>1. pos \div 2 \in CombaIndex
      BY <1>1, <1>2, <2>1, CombaHolds, CombaSizes
    <3>2. h \in Nat
      BY <1>1, <3>1, CombaHolds, CombaDigits
    <3> HIDE DEF h
    <3>3. h * h \in Int
      BY <3>2, SMTT(30)
    <3> QED
      BY <2>1, <3>3
  <2>2. CASE pos % 2 # 0
    BY <2>2
  <2> QED
    BY <2>1, <2>2
<1> HIDE DEF off, dg
<1>9. (acc + 2 * off) + dg = acc + CombaColumn(base, exponent, pos)
  BY <1>1, <1>7, <1>8
<1> QED
  BY <1>5, <1>6, <1>9 DEF Prod!SqrColumn

(* The count of overflows loses nothing: the low word and the rest of the sum. *)
LEMMA OverflowSplits ==
  ASSUME NEW x \in Nat, x <= N * (W * W)
  PROVE  LET o == Prod!Overflow(x)
         IN  o.acc % W = x % W /\ (o.acc \div W) + W * o.r2 = x \div W
<1> DEFINE ww == W * W
           q == x \div ww
           r == x % ww
           d == r \div W
           e == r % W
<1>1. W \in Nat /\ W > 0 /\ N \in Nat /\ N < W
  BY CombaHolds, CombaSizes
<1>2. ww \in Nat /\ ww > 0
  BY <1>1, SMTT(30)
<1>3. x < W * ww
  <2>1. x <= N * ww
    OBVIOUS
  <2> HIDE DEF ww
  <2>2. N * ww < W * ww /\ N * ww \in Nat /\ W * ww \in Nat
    BY <1>1, <1>2, SMTT(30)
  <2> QED
    BY <2>1, <2>2
<1>4. Prod!Overflow(x) = [acc |-> r, r2 |-> q % W]
  BY DEF Prod!Overflow
<1> HIDE DEF ww
<1>5. q \in Nat /\ r \in 0..(ww - 1) /\ x = ww * q + r /\ r \in Nat
  BY <1>2, NatDivision
<1>6. q \in 0..(W - 1)
  BY <1>1, <1>2, <1>3, QuotientBound
<1> HIDE DEF q, r
<1>7. q % W = q
  <2> DEFINE z == 0
  <2>1. q = W * z + q /\ z \in Int
    BY <1>1, <1>5
  <2> HIDE DEF z
  <2>2. q \in Int
    BY <1>5
  <2> QED
    BY <1>1, <1>6, <2>1, <2>2, DivisionUnique
<1>8. d \in Nat /\ e \in 0..(W - 1) /\ r = W * d + e
  BY <1>1, <1>5, NatDivision
<1> HIDE DEF d, e
<1>9. x = W * (d + W * q) + e /\ d + W * q \in Int
  <2>1. ww * q = W * (W * q) /\ W * q \in Int
    BY <1>1, <1>5, SMTT(30) DEF ww
  <2>2. W * (d + W * q) = W * d + W * (W * q)
    BY <1>1, <1>5, <1>8, SMTT(30)
  <2>3. W * d \in Int /\ W * (W * q) \in Int
    BY <1>1, <1>5, <1>8, <2>1, SMTT(30)
  <2> QED
    BY <1>5, <1>8, <2>1, <2>2, <2>3
<1>10. x \div W = d + W * q /\ x % W = e
  <2> DEFINE y == d + W * q
  <2>1. x = W * y + e /\ y \in Int /\ x \in Int
    BY <1>9
  <2> HIDE DEF y
  <2>2. x \div W = y /\ x % W = e
    BY <1>1, <1>8, <2>1, DivisionUnique
  <2> QED
    BY <2>2 DEF y
<1> QED
  BY <1>4, <1>7, <1>10 DEF d, e

(* The sum of a column, with what is carried to it, is less than three words. *)
LEMMA ColumnFits ==
  ASSUME NEW u \in 0..(N * W), NEW v \in 0..(N * ((W - 1) * (W - 1)))
  PROVE  u \in Nat /\ v \in Nat /\ u + v \in Nat /\ u + v <= N * (W * W)
<1> DEFINE w1 == W - 1
           y == w1 * w1
           ny == N * y
           nw == N * W
           n1 == N * w1
           nz == N * (W * W)
<1>1. W \in Nat /\ W > 0 /\ N \in Nat /\ w1 \in Nat /\ W = w1 + 1
  BY CombaHolds, CombaSizes
<1>2. u \in 0..nw /\ v \in 0..ny
  OBVIOUS
<1> HIDE DEF w1
<1>3. y \in Nat /\ W * W = y + (w1 + W)
  <2>1. (w1 + 1) * (w1 + 1) = w1 * w1 + (w1 + (w1 + 1)) /\ w1 * w1 \in Nat
    BY <1>1, SMTT(30)
  <2> QED
    BY <1>1, <2>1
<1> HIDE DEF y
<1>4. N * (y + (w1 + W)) = N * y + (N * w1 + N * W)
  BY <1>1, <1>3, SMTT(30)
<1>5. ny \in Nat /\ nw \in Nat /\ n1 \in Nat
  BY <1>1, <1>3, SMTT(30)
<1>6. nz = ny + (n1 + nw)
  BY <1>3, <1>4
<1> HIDE DEF ny, nw, n1, nz
<1>7. u \in Nat /\ v \in Nat /\ u + v \in Nat /\ u + v <= nz
  BY <1>2, <1>5, <1>6
<1> QED
  BY <1>7 DEF nz

(* A column puts its low word out and carries the rest. *)
LEMMA ColumnStep ==
  ASSUME CombaInv, Prod!Column
  PROVE  CombaInv'
<1> DEFINE col == CombaColumn(base, exponent, pos)
           x == acc + col
           w == PowerOf(W, pos)
           d == x \div W
           e == x % W
           dn == CombaDone(base, exponent, pos)
           wn == PowerOf(W, pos + 1)
           dnn == CombaDone(base, exponent, pos + 1)
<1>1. /\ W \in Nat /\ W > 0 /\ W \in Nat \ {0} /\ N \in Nat /\ N > 0
  BY CombaHolds, CombaSizes
<1>2. /\ base \in Nat /\ exponent \in Nat /\ pos \in Nat /\ pos \in Int /\ acc \in Nat /\ result \in Nat
      /\ w \in Nat /\ w > 0
  BY CombaOperands
<1>3. /\ pos < 2 * N - 1 /\ pos' = pos + 1 /\ path' = path /\ base' = base /\ exponent' = exponent
  BY DEF Prod!Column
<1>4. result + acc * w = dn /\ result \in 0..(w - 1) /\ acc \in 0..(N * W)
  BY DEF CombaInv
<1>5. x \in Nat /\ x <= N * (W * W) /\ col \in Nat
  <2>1. col \in 0..(N * ((W - 1) * (W - 1)))
    BY <1>2, CombaHolds, ColumnTerms
  <2> HIDE DEF col
  <2> QED
    BY <1>4, <2>1, ColumnFits
<1>6. result' = result + e * w /\ acc' = d
  <2> DEFINE o == IF path = "mul" THEN Prod!MulColumn ELSE Prod!SqrColumn
  <2>1. result' = result + (o.acc % W) * w /\ acc' = (o.acc \div W) + W * o.r2
    BY CombaNames DEF Prod!Column
  <2>2. o = Prod!Overflow(x)
    <3>1. path \in {"mul", "sqr"}
      BY DEF CombaInv
    <3>2. CASE path = "mul"
      BY <3>2, MulColumnAdds
    <3>3. CASE path = "sqr"
      BY <1>3, <3>3, SqrColumnAdds
    <3> QED
      BY <3>1, <3>2, <3>3
  <2> HIDE DEF o, x
  <2>3. o.acc % W = x % W /\ (o.acc \div W) + W * o.r2 = x \div W
    BY <1>5, <2>2, OverflowSplits
  <2> QED
    BY <2>1, <2>3
<1>7. d \in Nat /\ e \in 0..(W - 1) /\ x = W * d + e
  <2> HIDE DEF x
  <2> QED
    BY <1>1, <1>5, NatDivision
<1>8. d \in 0..(N * W)
  <2> DEFINE nw == N * W
             b1 == nw + 1
             ww == W * W
  <2>1. nw \in Nat /\ N * ww = nw * W
    BY <1>1, SMTT(30)
  <2>2. x <= nw * W
    BY <1>5, <2>1
  <2> HIDE DEF nw, ww, x
  <2>3. nw * W < b1 * W /\ nw * W \in Int /\ b1 * W \in Int /\ b1 \in Nat /\ b1 - 1 = nw
    <3>1. nw * W < (nw + 1) * W /\ nw * W \in Int /\ (nw + 1) * W \in Int
      BY <1>1, <2>1, SMTT(30)
    <3> QED
      BY <2>1, <3>1
  <2> HIDE DEF b1
  <2>4. x < b1 * W
    BY <1>5, <2>2, <2>3
  <2>5. x \div W \in 0..(b1 - 1)
    BY <1>1, <1>5, <2>3, <2>4, QuotientBound
  <2> QED
    BY <2>3, <2>5 DEF nw
<1>9. wn = W * w
  BY <1>2, CombaHolds, CombaPowers
<1>10. dnn = dn + w * col /\ dn \in Int
  BY <1>2, CombaHolds, DoneStep
<1> HIDE DEF col, w, d, e, dn, wn, dnn
<1>11. (result + e * w) + d * wn = dnn
  <2>1. e \in Int /\ d \in Int /\ w \in Int
    BY <1>2, <1>7
  <2>2. e * w + d * (W * w) = w * (W * d + e) /\ e * w \in Int /\ d * (W * w) \in Int
    BY <1>1, <2>1, SMTT(30)
  <2>3. w * (acc + col) = acc * w + w * col /\ acc * w \in Int /\ w * col \in Int
    BY <1>2, <1>5, SMTT(30)
  <2>4. w * x = e * w + d * wn
    BY <1>7, <1>9, <2>2
  <2>5. w * x = acc * w + w * col
    BY <2>3
  <2> HIDE DEF x
  <2> DEFINE ew == e * w
             dw == d * wn
             aw == acc * w
             wc == w * col
  <2>6. ew \in Int /\ dw \in Int /\ aw \in Int /\ wc \in Int /\ ew + dw = aw + wc
    BY <1>9, <2>2, <2>3, <2>4, <2>5
  <2>7. result + aw = dn /\ dnn = dn + wc
    BY <1>4, <1>10
  <2> HIDE DEF ew, dw, aw, wc
  <2>8. (result + ew) + dw = dnn
    BY <1>2, <1>10, <2>6, <2>7
  <2> QED
    BY <2>8 DEF ew, dw
<1>12. result + e * w \in 0..(wn - 1)
  <2> DEFINE w1 == W - 1
             ew == e * w
             mw == w1 * w
  <2>1. w1 \in Nat /\ e \in 0..w1 /\ e \in Nat
    BY <1>1, <1>7
  <2>2. W = w1 + 1
    BY <1>1
  <2> HIDE DEF w1
  <2>3. ew \in Nat /\ mw \in Nat /\ ew <= mw
    BY <1>2, <2>1, SMTT(30)
  <2>4. W * w = mw + w
    BY <1>2, <2>1, <2>2, SMTT(30)
  <2> HIDE DEF ew, mw
  <2>5. result + ew \in 0..(wn - 1)
    BY <1>2, <1>4, <1>9, <2>3, <2>4
  <2> QED
    BY <2>5 DEF ew
<1>13. /\ path' \in {"mul", "sqr"} /\ (path' = "sqr" => exponent' = base')
       /\ base' \in 0..(PowerOf(W, N) - 1) /\ exponent' \in 0..(PowerOf(W, N) - 1)
  BY <1>3 DEF CombaInv
<1>14. pos' \in 0..(2 * N) /\ pos' # 2 * N
  BY <1>1, <1>2, <1>3
<1>15. /\ acc' \in 0..(N * W)
       /\ result' \in 0..(PowerOf(W, pos') - 1)
       /\ result' + acc' * PowerOf(W, pos') = CombaDone(base', exponent', pos')
  BY <1>3, <1>6, <1>8, <1>11, <1>12 DEF wn, dnn
<1> QED
  BY <1>13, <1>14, <1>15 DEF CombaInv

(* What the last word holds is what is left of the product. *)
LEMMA LastStep ==
  ASSUME CombaInv, Prod!Last
  PROVE  CombaInv'
<1> DEFINE w == PowerOf(W, pos)
           h == PowerOf(W, N)
           wn == PowerOf(W, pos + 1)
           uv == base * exponent
<1>1. W \in Nat /\ W > 0 /\ W \in Nat \ {0} /\ N \in Nat /\ N > 0
  BY CombaHolds, CombaSizes
<1>2. /\ base \in Nat /\ exponent \in Nat /\ base < h /\ exponent < h /\ pos \in Nat
      /\ acc \in Nat /\ result \in Nat /\ w \in Nat /\ w > 0
  BY CombaOperands
<1>3. /\ pos = 2 * N - 1 /\ result' = result + (acc % W) * w /\ acc' = 0 /\ pos' = pos + 1
      /\ path' = path /\ base' = base /\ exponent' = exponent
  BY CombaNames DEF Prod!Last
<1>4. result + acc * w = CombaDone(base, exponent, pos)
  BY DEF CombaInv
<1>5. CombaDone(base, exponent, pos) = uv
  <2>1. pos \in Int /\ pos >= 2 * N - 1
    BY <1>1, <1>3
  <2> QED
    BY <1>2, <2>1, CombaHolds, DoneLast
<1>6. CombaDone(base, exponent, pos + 1) = uv
  <2> DEFINE n == pos + 1
  <2>1. n \in Int /\ n >= 2 * N - 1
    BY <1>1, <1>3
  <2> HIDE DEF n
  <2>2. CombaDone(base, exponent, n) = uv
    BY <1>2, <2>1, CombaHolds, DoneLast
  <2> QED
    BY <2>2 DEF n
<1>7. wn = W * w /\ wn = h * h
  <2>1. wn = W * w
    BY <1>2, CombaHolds, CombaPowers
  <2>2. pos + 1 = N + N
    BY <1>1, <1>3
  <2>3. PowerOf(W, N + N) = h * h
    BY <1>1, PowersAdd
  <2> QED
    BY <2>1, <2>2, <2>3
<1>8. h \in Nat
  BY <1>1, CombaHolds, CombaPowers
<1> HIDE DEF w, h, wn, uv
<1>9. uv \in Nat /\ uv < wn /\ wn \in Nat
  <2>1. base * exponent \in Nat /\ base * exponent <= base * h /\ h * h \in Nat
    BY <1>2, <1>8, SMTT(30)
  <2>2. base * h < h * h /\ base * h \in Nat
    BY <1>2, <1>8, SMTT(30)
  <2> QED
    BY <1>7, <1>8, <2>1, <2>2 DEF uv
<1>10. acc < W
  <2>1. acc * w < W * w
    <3>1. acc * w \in Nat
      BY <1>2, SMTT(30)
    <3> DEFINE aw == acc * w
    <3> HIDE DEF aw
    <3>2. aw \in Nat /\ result + aw = uv
      BY <1>4, <1>5, <3>1 DEF aw
    <3>3. aw < wn
      BY <1>2, <1>9, <3>2
    <3> QED
      BY <1>7, <3>3 DEF aw
  <2>2. acc >= W => acc * w >= W * w
    BY <1>1, <1>2, SMTT(30)
  <2>3. acc * w \in Int /\ W * w \in Int
    BY <1>1, <1>2, SMTT(30)
  <2> QED
    BY <1>1, <1>2, <2>1, <2>2, <2>3
<1>11. acc % W = acc
  <2> DEFINE z == 0
  <2>1. acc = W * z + acc /\ z \in Int /\ acc \in 0..(W - 1) /\ acc \in Int
    BY <1>1, <1>2, <1>10
  <2> HIDE DEF z
  <2> QED
    BY <1>1, <2>1, DivisionUnique
<1>12. result' = uv
  BY <1>3, <1>4, <1>5, <1>11
<1>13. /\ path' \in {"mul", "sqr"} /\ (path' = "sqr" => exponent' = base')
       /\ base' \in 0..(PowerOf(W, N) - 1) /\ exponent' \in 0..(PowerOf(W, N) - 1)
  BY <1>3 DEF CombaInv
<1>14. pos' \in 0..(2 * N)
  BY <1>1, <1>2, <1>3
<1>15. acc' = 0 /\ acc' \in 0..(N * W)
  <2>1. N * W \in Nat
    BY <1>1, SMTT(30)
  <2> DEFINE q == N * W
  <2> HIDE DEF q
  <2> QED
    BY <1>3, <2>1 DEF q
<1>16. /\ result' \in 0..(PowerOf(W, pos') - 1)
       /\ result' + acc' * PowerOf(W, pos') = CombaDone(base', exponent', pos')
  <2>1. PowerOf(W, pos') = wn
    BY <1>3 DEF wn
  <2>2. uv \in 0..(wn - 1) /\ uv + 0 * wn = uv
    BY <1>9
  <2> QED
    BY <1>3, <1>6, <1>12, <2>1, <2>2
<1> QED
  BY <1>13, <1>14, <1>15, <1>16 DEF CombaInv

(* Every step keeps the invariant. *)
LEMMA CombaStep ==
  ASSUME CombaInv, [Prod!Next]_(Prod!vars)
  PROVE  CombaInv'
<1>1. CASE UNCHANGED Prod!vars
  BY <1>1 DEF Prod!vars, CombaInv
<1> QED
  BY <1>1, ColumnStep, LastStep DEF Prod!Next

LEMMA ProductStepsOnly ==
  ASSUME [ModularNext]_modularVars, part = "product" \/ part' = "product"
  PROVE  part = "product" /\ part' = "product" /\ (Prod!Next \/ UNCHANGED modularVars)
BY DEF ModularNext, NumberNext, LatticeNext, FieldNext, ExpNext, ChainNext, SolinasNext,
       ProductNext, ScalarNext, LimbsNext, modularVars

(* The run's part that multiplies by columns. *)
ProductPart == part = "product" => CombaInv

LEMMA ProductsAlways == ModularSpec => []ProductPart
<1>1. ModularInit => ProductPart
  <2>1. ModularInit /\ part = "product" => Prod!Init
    BY DEF ModularInit, NumberInit
  <2> QED
    BY <2>1, CombaInitial DEF ProductPart
<1>2. ProductPart /\ [ModularNext]_modularVars => ProductPart'
  <2> SUFFICES ASSUME ProductPart, [ModularNext]_modularVars, part' = "product"
               PROVE  CombaInv'
    BY DEF ProductPart
  <2>1. part = "product" /\ [Prod!Next]_(Prod!vars)
    BY ProductStepsOnly DEF modularVars, expVars, Prod!vars
  <2> QED
    BY <2>1, CombaStep DEF ProductPart
<1> QED
  BY <1>1, <1>2, PTL DEF ModularSpec
-------------------------------------------------------------------------------
(* What a column carries to the next fits the two words of the accumulator, and what
   went out the words so far, for every number of words less than a word counts. *)
THEOREM ProductsTypeCorrect == ModularSpec => [](part = "product" => ModularTypeOK)
<1>1. ASSUME CombaInv PROVE Prod!TypeOK
  <2>1. W \in Nat /\ W > 0 /\ N \in Nat /\ N < W
    BY CombaHolds, CombaSizes
  <2>2. acc \in 0..(W * W - 1)
    <3> DEFINE nw == N * W
               ww == W * W
    <3>1. nw < ww /\ nw \in Nat /\ ww \in Nat
      BY <2>1, SMTT(30)
    <3>2. acc \in 0..nw
      BY <1>1 DEF CombaInv
    <3> HIDE DEF nw, ww
    <3>3. acc \in 0..(ww - 1)
      BY <3>1, <3>2
    <3> QED
      BY <3>3 DEF ww
  <2> QED
    BY <1>1, <2>2, CombaNames DEF Prod!TypeOK, CombaInv
<1>2. ProductPart => (part = "product" => ModularTypeOK)
  BY <1>1 DEF ProductPart, ModularTypeOK
<1> QED
  BY <1>2, ProductsAlways, PTL

(* After every column of comba_mul_8 and comba_sqr_8, what went out and what is carried
   are the products of the columns so far, for every number of words less than a word
   counts; both end with the product, the square as well, which adds each product off
   the diagonal once and doubles. *)
THEOREM ColumnsKeepResidue == ModularSpec => [](part = "product" => KeepsResidue)
<1>1. ASSUME CombaInv PROVE Prod!ColumnsAddUp
  <2> DEFINE f == [j \in CombaIndex |->
                     CombaDigit(base, j) * PowerOf(W, j) *
                       SumOf([l \in CombaIndex |->
                                IF j + l < pos THEN CombaDigit(exponent, l) * PowerOf(W, l) ELSE 0], N)]
  <2>1. f = CombaRows(base, exponent, pos)
    BY DEF CombaRows, CombaInner
  <2>2. result + acc * PowerOf(W, pos) = SumOf(f, N)
    BY <1>1, <2>1 DEF CombaInv, CombaDone
  <2>3. result + acc * Prod!Weight(pos) =
          Prod!Total([j \in Prod!Places |-> Prod!Word(base, j) * Prod!Weight(j) *
            Prod!Total([l \in Prod!Places |->
              IF j + l < pos THEN Prod!Word(exponent, l) * Prod!Weight(l) ELSE 0], N)], N)
    BY <2>2, CombaNames
  <2>4. ASSUME pos = 2 * N PROVE result = base * exponent
    <3>1. acc = 0 /\ result + acc * PowerOf(W, pos) = CombaDone(base, exponent, pos)
      BY <1>1, <2>4 DEF CombaInv
    <3>2. /\ base \in Nat /\ exponent \in Nat /\ base < PowerOf(W, N) /\ exponent < PowerOf(W, N)
          /\ pos \in Nat /\ result \in Nat /\ PowerOf(W, pos) \in Nat
      BY <1>1, CombaOperands
    <3>3. pos \in Int /\ pos >= 2 * N - 1
      BY <2>4, <3>2, CombaHolds, CombaSizes
    <3>4. CombaDone(base, exponent, pos) = base * exponent
      BY <3>2, <3>3, CombaHolds, DoneLast
    <3>5. result + 0 * PowerOf(W, pos) = result
      BY <3>2
    <3> QED
      BY <3>1, <3>4, <3>5
  <2> QED
    BY <2>3, <2>4 DEF Prod!ColumnsAddUp
<1>2. ProductPart => (part = "product" => KeepsResidue)
  BY <1>1 DEF ProductPart, KeepsResidue
<1> QED
  BY <1>2, ProductsAlways, PTL

-------------------------------------------------------------------------------
(* The run's parts together. *)

PartKnown == part \in {"field", "modexp", "chain", "solinas", "product", "scalar", "limbs",
                       "ring", "dsa", "kem"}

LEMMA PartsAlways == ModularSpec => []PartKnown
<1>1. ModularInit => PartKnown
  BY DEF ModularInit, NumberInit, PartKnown
<1>2. PartKnown /\ [ModularNext]_modularVars => PartKnown'
  BY DEF ModularNext, NumberNext, LatticeNext, FieldNext, ExpNext, ChainNext, SolinasNext,
         ProductNext, ScalarNext, LimbsNext, modularVars, PartKnown
<1> QED
  BY <1>1, <1>2, PTL DEF ModularSpec

(* The run's part that is the word-by-word product. *)
FieldPart == part = "field" => IInv

LEMMA FieldAlways == ModularSpec => []FieldPart
<1>1. ModularInit => FieldPart
  <2>1. ModularInit /\ part = "field" => Init
    BY DEF ModularInit, NumberInit
  <2> QED
    BY <2>1, InitIInv DEF FieldPart
<1>2. FieldPart /\ [ModularNext]_modularVars => FieldPart'
  <2> SUFFICES ASSUME FieldPart, [ModularNext]_modularVars, part' = "field"
               PROVE  IInv'
    BY DEF FieldPart
  <2>1. part = "field" /\ [Next]_vars
    BY DEF ModularNext, NumberNext, LatticeNext, FieldNext, ExpNext, ChainNext, SolinasNext,
           ProductNext, ScalarNext, LimbsNext, modularVars
  <2> QED
    BY <2>1, StepIInv DEF FieldPart
<1> QED
  BY <1>1, <1>2, PTL DEF ModularSpec

(* The run's part that multiplies polynomials. *)
RingPart == part = "ring" => stage \in {"multiply", "returned", "overflow"}

LEMMA RingAlways == ModularSpec => []RingPart
<1>1. ModularInit => RingPart
  BY DEF ModularInit, NumberInit, RingInit, RingPart
<1>2. RingPart /\ [ModularNext]_modularVars => RingPart'
  <2> SUFFICES ASSUME RingPart, [ModularNext]_modularVars, part' = "ring"
               PROVE  stage' \in {"multiply", "returned", "overflow"}
    BY DEF RingPart
  <2>1. part = "ring" /\ (RingNext \/ UNCHANGED modularVars)
    BY DEF ModularNext, NumberNext, LatticeNext, FieldNext, ExpNext, ChainNext, SolinasNext,
           ProductNext, ScalarNext, LimbsNext, modularVars
  <2> QED
    BY <2>1 DEF RingNext, RingTurn, RingReturn, RingPart, modularVars, latticeVars, ringVars
<1> QED
  BY <1>1, <1>2, PTL DEF ModularSpec

(* The run's part that is ML-DSA's arithmetic. *)
DsaPart == part = "dsa" => DsaIInv

LEMMA DsaAlways == ModularSpec => []DsaPart
<1>1. ModularInit => DsaPart
  <2>1. ModularInit /\ part = "dsa" => DsaInit
    BY DEF ModularInit, NumberInit
  <2> QED
    BY <2>1, DsaAssumption, DsaInitial DEF DsaPart
<1>2. DsaPart /\ [ModularNext]_modularVars => DsaPart'
  <2> SUFFICES ASSUME DsaPart, [ModularNext]_modularVars, part' = "dsa"
               PROVE  DsaIInv'
    BY DEF DsaPart
  <2>1. part = "dsa" /\ [DsaNext]_dsaVars
    BY DEF ModularNext, NumberNext, LatticeNext, FieldNext, ExpNext, ChainNext, SolinasNext,
           ProductNext, ScalarNext, LimbsNext, modularVars, latticeVars, dsaVars
  <2> QED
    BY <2>1, DsaAssumption, DsaStep DEF DsaPart
<1> QED
  BY <1>1, <1>2, PTL DEF ModularSpec
-------------------------------------------------------------------------------
(* Every part but the chains of powers, which have no parameter and which a run
   covers: words, indices and stages are in their ranges, and nothing overflows what
   holds it, for all word sizes, lengths and moduli that the assumptions name. *)
THEOREM ModularTypeCorrect == ModularSpec => [](part # "chain" => ModularTypeOK)
<1>1. IInv => TypeOK
  BY DEF IInv
<1>2. DsaIInv => DsaTypeOK
  BY DEF DsaIInv
<1>3. /\ PartKnown /\ FieldPart /\ RingPart /\ DsaPart /\ ExpPart
      /\ (part = "solinas" => ModularTypeOK) /\ (part = "product" => ModularTypeOK)
      /\ (part = "scalar" => ModularTypeOK) /\ (part = "limbs" => ModularTypeOK)
      /\ (part = "kem" => ModularTypeOK) /\ (part = "modexp" => ModularTypeOK)
      => (part # "chain" => ModularTypeOK)
  BY <1>1, <1>2 DEF PartKnown, FieldPart, RingPart, DsaPart, ModularTypeOK
<1> QED
  BY <1>3, PartsAlways, FieldAlways, RingAlways, DsaAlways, ExpAlways, SolinasTypeCorrect,
     ProductsTypeCorrect, ScalarsTypeCorrect, LimbsTypeCorrect, KemTypeCorrect,
     ModexpTypeCorrect, PTL

(* The whole invariant: no fold, column, conditional subtraction or carry of the
   crate's reductions loses anything (secp256k1_reduce, comba_mul_8, comba_sqr_8;
   montgomery_reduce in ed25519.rs; Fe51; the reductions of mlkem.rs). *)
THEOREM ResiduesKept == ModularSpec => []KeepsResidue
<1>1. /\ (part = "solinas" => KeepsResidue) /\ (part = "product" => KeepsResidue)
      /\ (part = "scalar" => KeepsResidue) /\ (part = "limbs" => KeepsResidue)
      /\ (part = "kem" => KeepsResidue)
      => KeepsResidue
  BY DEF KeepsResidue
<1> QED
  BY <1>1, FoldsKeepResidue, ColumnsKeepResidue, ScalarsKeepResidue, LimbsKeepResidue,
     KemResiduesKept, PTL
===============================================================================
