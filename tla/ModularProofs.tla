---------------------------- MODULE ModularProofs -----------------------------
(***************************************************************************)
(* For every word size, number of words and modulus: mul_mont of           *)
(* src/backend/portable.rs keeps its accumulator below 2p, so that one     *)
(* conditional subtraction is enough, and returns a * b * R^-1 mod p.      *)
(* add, sub, neg and mul of secp256k1's field (src/secp256k1.rs) return    *)
(* the result modulo p, and no fold of its reduction loses a carry.        *)
(*                                                                         *)
(* modexp_public of src/rsa.rs: inv32 gives the word that clears a low     *)
(* word, so mont_mul returns a product by R^-1; rsquared is R^2; and the   *)
(* loop over the exponent's bits returns base^exponent, on both paths.     *)
(*                                                                         *)
(* The ranges that the lattice arithmetic relies on, for every modulus and *)
(* every polynomial: mul_ring returns the product whenever N greatest      *)
(* products fit its accumulators, as for ML-DSA and not for ML-KEM;        *)
(* ML-DSA's operations compute modulo q and their sums stay below what is  *)
(* counted; no butterfly of ML-KEM's forward transform wraps.              *)
(*                                                                         *)
(* Ed25519's scalars and ML-KEM's coefficients keep the residue of what    *)
(* they stand for through every chain of operations, and the former stay   *)
(* below the order.  FieldProofs has the other two fields.                 *)
(***************************************************************************)
EXTENDS MCModular, ArithmeticLemmas
-------------------------------------------------------------------------------
(* The helpers. *)

(* One conditional subtraction reduces a number below 2p, carry word and all. *)
LEMMA CondSubReduces ==
  ASSUME p \in Nat, R \in Nat, 0 < p, p < R, NEW x \in Nat, x < 2 * p
  PROVE  CondSub(x) = IF x < p THEN x ELSE x - p
<1>1. CASE x < R
  <2>1. x \div R = 0 /\ x % R = x
    BY <1>1, DivisionUnique, x = R * 0 + x
  <2>2. x >= p => (x - p) % R = x - p
    BY <1>1, DivisionUnique, x - p = R * 0 + (x - p)
  <2> QED
    BY <2>1, <2>2 DEF CondSub
<1>2. CASE x >= R
  <2>1. x \div R = 1 /\ x % R = x - R
    BY <1>2, DivisionUnique, x = R * 1 + (x - R), x - R \in 0..(R - 1)
  <2>2. ((x - R) - p) % R = x - p
    <3>1. (x - R) - p = R * (-1) + (x - p) /\ x - p \in 0..(R - 1)
      BY <1>2
    <3> QED
      BY <3>1, DivisionUnique
  <2>3. x - R < p /\ ~(x < p)
    BY <1>2
  <2> QED
    BY <2>1, <2>2, <2>3 DEF CondSub
<1> QED
  BY <1>1, <1>2

(* The algebra of a turn: what is added to s makes a multiple of W. *)
LEMMA ClearsLowWord ==
  ASSUME NEW w \in Int, NEW high \in Int, NEW low \in Int, NEW inv \in Int,
         NEW q \in Int, NEW h \in Int, NEW l \in Int, NEW m \in Int,
         low * inv = w * l + m,
         inv * q = w * h + (w - 1)
  PROVE  (w * high + low) + m * q = w * ((high + low * (h + 1)) - l * q)
<1>1. m * q = (low * inv) * q - (w * l) * q
  BY SMTT(30)
<1>2. (low * inv) * q = low * (inv * q)
  BY SMTT(30)
<1>3. low * (inv * q) = low * (w * h + (w - 1))
  OBVIOUS
<1>4. low * (w * h + (w - 1)) = w * (low * (h + 1)) - low
  BY SMTT(30)
<1>5. m * q = (w * (low * (h + 1)) - low) - (w * l) * q
  BY <1>1, <1>2, <1>3, <1>4
<1>6. w * ((high + low * (h + 1)) - l * q)
        = (w * high + w * (low * (h + 1))) - (w * l) * q
  BY SMTT(30)
<1> QED
  BY <1>5, <1>6, SMTT(30)

(* A turn of mul_mont adds a multiple of p and divides by W without remainder,
   and a number below 2p stays below 2p. *)
LEMMA WordReduces ==
  ASSUME p \in Nat, R \in Nat, W \in Nat, 0 < p, p < R, 1 < W,
         a \in Nat, a < p, n0inv \in Nat, (n0inv * p) % W = W - 1,
         NEW x \in Nat, x < 2 * p, NEW word \in 0..(W - 1)
  PROVE  /\ ReduceWord(Accumulate(x, word)) \in Nat
         /\ ReduceWord(Accumulate(x, word)) < 2 * p
         /\ \E m \in Nat : ReduceWord(Accumulate(x, word)) * W
                             = (x + a * word) + m * p
<1> DEFINE s == x + a * word
           low == s % W
           m == (low * n0inv) % W
<1>1. s \in Nat /\ s \div W \in Int /\ low \in 0..(W - 1)
      /\ s = W * (s \div W) + low
  <2>1. s \in Nat
    BY SMTT(30)
  <2> QED
    BY <2>1, Division
<1>2. m \in 0..(W - 1) /\ \E l \in Int : low * n0inv = W * l + m
  <2>1. low * n0inv \in Int
    BY <1>1
  <2>2. m \in 0..(W - 1) /\ (low * n0inv) \div W \in Int
        /\ low * n0inv = W * ((low * n0inv) \div W) + m
    BY <2>1, Division
  <2> QED
    BY <2>2
<1>3. \E h \in Int : n0inv * p = W * h + (W - 1)
  <2>1. n0inv * p \in Int
    BY SMTT(30)
  <2>2. /\ (n0inv * p) \div W \in Int
        /\ n0inv * p = W * ((n0inv * p) \div W) + ((n0inv * p) % W)
    BY <2>1, Division
  <2> QED
    BY <2>2, Zenon
<1>4. \E c \in Int : s + m * p = W * c
  <2>1. PICK l \in Int : low * n0inv = W * l + m
    BY <1>2
  <2>2. PICK h \in Int : n0inv * p = W * h + (W - 1)
    BY <1>3
  <2> DEFINE high == s \div W
             c == (high + low * (h + 1)) - l * p
  <2>3. /\ m \in Int /\ low \in Int /\ high \in Int /\ s = W * high + low
        /\ W \in Int /\ n0inv \in Int /\ p \in Int
    BY <1>1, <1>2
  <2>4. c = (high + low * (h + 1)) - l * p /\ c \in Int
    BY <2>3
  <2> HIDE DEF s, low, m, high, c
  <2>5. (W * high + low) + m * p = W * ((high + low * (h + 1)) - l * p)
    BY <2>1, <2>2, <2>3, ClearsLowWord, SMTT(60)
  <2> QED
    BY <2>3, <2>4, <2>5
<1>5. PICK c \in Int : s + m * p = W * c
  BY <1>4
<1>6. s + m * p < (2 * p) * W /\ s + m * p \in Nat
  <2>1. a * word <= (p - 1) * (W - 1) /\ m * p <= (W - 1) * p
    <3> HIDE DEF m
    <3> QED
      BY <1>2, SMTT(30)
  <2>2. (p - 1) * (W - 1) + (W - 1) * p + 2 * p = (2 * p) * W - W + 1
    BY SMTT(30)
  <2>3. s <= (2 * p - 1) + (p - 1) * (W - 1)
    BY <2>1, SMTT(30)
  <2> HIDE DEF s, m
  <2> QED
    BY <1>1, <1>2, <2>1, <2>2, <2>3, SMTT(30)
<1>7. c \in Nat /\ c < 2 * p
  <2> HIDE DEF s, m
  <2> QED
    BY <1>5, <1>6, SMTT(30)
<1>8. (s + m * p) \div W = c
  <2>1. s + m * p = W * c + 0 /\ 0 \in 0..(W - 1) /\ s + m * p \in Int
    BY <1>5, <1>6
  <2> HIDE DEF s, m
  <2> QED
    BY <2>1, DivisionUnique
<1>9. c % (W * R) = c
  <2>1. W * R \in Nat /\ W * R >= 2 * R
    BY SMTT(30)
  <2>2. c \in 0..((W * R) - 1) /\ c = (W * R) * 0 + c /\ W * R > 0
    BY <1>7, <2>1
  <2> QED
    BY <2>1, <2>2, DivisionUnique
<1>10. ReduceWord(Accumulate(x, word)) = c
  BY <1>8, <1>9 DEF ReduceWord, Accumulate
<1>11. c * W = (x + a * word) + m * p /\ m \in Nat
  BY <1>2, <1>5
<1> QED
  BY <1>7, <1>10, <1>11
-------------------------------------------------------------------------------
(* The invariant. *)

(* What a product has done after i words: t carries a times the part of b that
   is read, up to a multiple of p. *)
WordsDone ==
  op = "mul" => \E done \in Nat, q \in Nat : /\ b = done + rest * Pow[i]
                                             /\ t * Pow[i] = a * done + q * p

IInv == /\ TypeOK /\ Reduced
        /\ (n0inv * p) % W = W - 1
        /\ WordsDone

(* The constants in the shape in which the steps use them. *)
LEMMA Sizes ==
  ASSUME TypeOK
  PROVE  /\ W \in Nat /\ 1 < W /\ N \in Nat /\ R \in Nat
         /\ p \in Nat /\ 1 < p /\ p < R
         /\ Pow[i] \in Nat
         /\ i < N => Pow[i + 1] \in Nat /\ Pow[i + 1] = W * Pow[i]
<1>1. R \in Nat /\ Pow[i] \in Nat
  BY MontgomeryAssumption DEF TypeOK, R
<1>2. p \in 2..(R - 1)
  BY MontgomeryAssumption DEF TypeOK
<1>3. i < N => Pow[i + 1] \in Nat /\ Pow[i + 1] = W * Pow[i]
  <2>1. i < N => i \in 0..(N - 1) /\ i + 1 \in 0..N
    BY MontgomeryAssumption DEF TypeOK
  <2> QED
    BY <2>1, MontgomeryAssumption
<1> QED
  BY <1>1, <1>2, <1>3, MontgomeryAssumption

LEMMA InitIInv == Init => IInv
<1> SUFFICES ASSUME Init PROVE IInv
  OBVIOUS
<1>1. TypeOK
  BY MontgomeryAssumption DEF Init, TypeOK
<1>2. Reduced
  BY <1>1, Sizes DEF Init, Reduced
<1>3. (n0inv * p) % W = W - 1
  BY DEF Init
<1>4. WordsDone
  BY DEF Init, WordsDone
<1> QED
  BY <1>1, <1>2, <1>3, <1>4 DEF IInv

(* Whatever an operation returns below p keeps the invariant. *)
LEMMA ReturnKeeps ==
  ASSUME IInv, NEW x \in Nat, x < p, Return(x)
  PROVE  IInv'
<1>1. TypeOK'
  BY MontgomeryAssumption DEF IInv, TypeOK, Return
<1>2. Reduced'
  BY Sizes DEF IInv, Reduced, Return
<1>3. ((n0inv * p) % W = W - 1)'
  BY DEF IInv, Return
<1>4. WordsDone'
  BY DEF Return, WordsDone
<1> QED
  BY <1>1, <1>2, <1>3, <1>4 DEF IInv

(* The results of the four operations. *)
LEMMA AddResult ==
  ASSUME IInv
  PROVE  CondSub(a + b) = IF a + b < p THEN a + b ELSE (a + b) - p
<1>1. a + b \in Nat /\ a + b < 2 * p
  BY Sizes DEF IInv, TypeOK, Reduced
<1> QED
  BY <1>1, Sizes, CondSubReduces DEF IInv

LEMMA SubResult ==
  ASSUME IInv
  PROVE  SubMod(a, b) = IF a < b THEN (a - b) + p ELSE a - b
<1>1. a \in Nat /\ b \in Nat /\ a < p /\ b < p /\ p \in Nat /\ p < R /\ R \in Nat
  BY Sizes DEF IInv, TypeOK, Reduced
<1>2. CASE a < b
  <2>1. (a - b) % R = (a - b) + R
    BY <1>1, <1>2, DivisionUnique, a - b = R * (-1) + ((a - b) + R),
       (a - b) + R \in 0..(R - 1)
  <2>2. (((a - b) + R) + p) % R = (a - b) + p
    BY <1>1, <1>2, DivisionUnique, ((a - b) + R) + p = R * 1 + ((a - b) + p),
       (a - b) + p \in 0..(R - 1)
  <2> QED
    BY <1>2, <2>1, <2>2 DEF SubMod
<1>3. CASE ~(a < b)
  <2>1. (a - b) % R = a - b
    BY <1>1, <1>3, DivisionUnique, a - b = R * 0 + (a - b), a - b \in 0..(R - 1)
  <2>2. (a - b) + 0 = a - b
    BY <1>1
  <2> QED
    BY <1>3, <2>1, <2>2 DEF SubMod
<1> QED
  BY <1>2, <1>3

LEMMA HalfResult ==
  ASSUME IInv, p % 2 = 1
  PROVE  /\ Div2(a) \in Nat /\ Div2(a) < p
         /\ Div2(a) + Div2(a) = IF a % 2 = 1 THEN a + p ELSE a
<1>1. a \in Nat /\ a < p /\ p \in Nat
  BY Sizes DEF IInv, TypeOK, Reduced
<1> QED
  BY <1>1, p % 2 = 1, SMTT(30) DEF Div2

LEMMA ProductResult ==
  ASSUME IInv, op = "mul", i = N
  PROVE  /\ CondSub(t) = IF t < p THEN t ELSE t - p
         /\ \E q \in Nat : t * R = a * b + q * p
<1>1. CondSub(t) = IF t < p THEN t ELSE t - p
  BY Sizes, CondSubReduces DEF IInv, TypeOK, Reduced
<1>2. PICK done \in Nat, q \in Nat : b = done + rest * R /\ t * R = a * done + q * p
  BY DEF IInv, WordsDone, R
<1>3. done = b
  <2>1. b \in Nat /\ b < R /\ rest \in Nat /\ R \in Nat
    BY Sizes DEF IInv, TypeOK, Reduced
  <2>2. rest = 0
    BY <1>2, <2>1, SMTT(30)
  <2> QED
    BY <1>2, <2>1, <2>2, SMTT(30)
<1> QED
  BY <1>1, <1>2, <1>3

(* A turn of mul_mont reads one more word of b and divides t by W. *)
LEMMA MulWordKeeps ==
  ASSUME IInv, MulWord
  PROVE  IInv'
<1> DEFINE word == rest % W
           x == ReduceWord(Accumulate(t, word))
<1>1. /\ a \in Nat /\ a < p /\ b \in Nat /\ t \in Nat /\ t < 2 * p /\ rest \in Nat
      /\ i \in 0..N /\ i < N /\ n0inv \in Nat /\ (n0inv * p) % W = W - 1
      /\ op = "mul"
  BY Sizes DEF IInv, TypeOK, Reduced, MulWord
<1>2. /\ W \in Nat /\ 1 < W /\ N \in Nat /\ R \in Nat /\ p \in Nat /\ 1 < p /\ p < R
      /\ Pow[i] \in Nat /\ Pow[i + 1] \in Nat /\ Pow[i + 1] = W * Pow[i]
  BY <1>1, Sizes DEF IInv
<1>3. word \in 0..(W - 1) /\ rest \div W \in Nat /\ rest = W * (rest \div W) + word
  <2>1. rest \div W \in Int /\ word \in 0..(W - 1) /\ rest = W * (rest \div W) + word
    BY <1>1, <1>2, Division
  <2>2. rest \div W >= 0
    <3> HIDE DEF word
    <3> QED
      BY <1>1, <1>2, <2>1, SMTT(30)
  <2> QED
    BY <2>1, <2>2
<1>4. /\ x \in Nat /\ x < 2 * p
      /\ \E m \in Nat : x * W = (t + a * word) + m * p
  <2>1. 0 < p
    BY <1>2
  <2> QED
    BY <1>1, <1>2, <1>3, <2>1, WordReduces
<1>5. t' = x /\ rest' = rest \div W /\ i' = i + 1
      /\ UNCHANGED <<p, n0inv, a, b, op>>
  BY DEF MulWord
<1>6. TypeOK'
  <2>1. i' \in 0..N
    BY <1>1, <1>2, <1>5
  <2> QED
    BY <1>3, <1>4, <1>5, <2>1 DEF IInv, TypeOK
<1>7. Reduced'
  BY <1>4, <1>5 DEF IInv, Reduced
<1>8. WordsDone'
  <2>1. PICK done \in Nat, q \in Nat : /\ b = done + rest * Pow[i]
                                       /\ t * Pow[i] = a * done + q * p
    BY <1>1 DEF IInv, WordsDone
  <2>2. PICK m \in Nat : x * W = (t + a * word) + m * p
    BY <1>4
  <2> DEFINE done2 == done + word * Pow[i]
             q2 == q + m * Pow[i]
             rest2 == rest \div W
  <2>3. done2 \in Nat /\ q2 \in Nat /\ word \in Nat /\ rest2 \in Nat
    <3>1. word \in Nat /\ rest2 \in Nat
      BY <1>2, <1>3
    <3> HIDE DEF word, rest2
    <3> QED
      BY <1>2, <3>1, SMTT(30)
  <2>4. /\ b = (done + word * Pow[i]) + rest2 * (W * Pow[i])
        /\ x * (W * Pow[i]) = a * (done + word * Pow[i]) + (q + m * Pow[i]) * p
    <3> DEFINE pow == Pow[i]
    <3>1. /\ b = done + rest * pow /\ t * pow = a * done + q * p
          /\ x * W = (t + a * word) + m * p /\ rest = W * rest2 + word
      BY <1>3, <2>1, <2>2
    <3>2. /\ W \in Nat /\ pow \in Nat /\ x \in Nat /\ t \in Nat /\ a \in Nat
          /\ rest \in Nat /\ rest2 \in Nat /\ word \in Nat /\ p \in Nat
      BY <1>1, <1>2, <1>4, <2>3
    <3> HIDE DEF word, x, rest2, pow
    <3>3. rest * pow = rest2 * (W * pow) + word * pow
      BY <3>1, <3>2, SMTT(30)
    <3>4. x * (W * pow) = ((t + a * word) + m * p) * pow
      BY <3>1, <3>2, SMTT(30)
    <3>5. ((t + a * word) + m * p) * pow = t * pow + a * (word * pow) + (m * pow) * p
      BY <3>2, SMTT(30)
    <3>6. /\ a * (done + word * pow) = a * done + a * (word * pow)
          /\ (q + m * pow) * p = q * p + (m * pow) * p
      BY <3>2, SMTT(30)
    <3>7. b = (done + word * pow) + rest2 * (W * pow)
      BY <3>1, <3>2, <3>3, SMTT(30)
    <3>8. x * (W * pow) = a * (done + word * pow) + (q + m * pow) * p
      BY <3>1, <3>2, <3>4, <3>5, <3>6, SMTT(30)
    <3> QED
      BY <3>7, <3>8 DEF pow
  <2>5. b = done2 + rest2 * Pow[i + 1] /\ x * Pow[i + 1] = a * done2 + q2 * p
    BY <1>2, <2>4
  <2> HIDE DEF done2, q2, x, rest2, word
  <2>6. /\ b' = done2 + rest' * Pow[i']
        /\ t' * Pow[i'] = a' * done2 + q2 * p'
    BY <1>5, <2>5 DEF rest2
  <2> QED
    BY <2>3, <2>6 DEF WordsDone
<1>9. ((n0inv * p) % W = W - 1)'
  BY <1>1, <1>5
<1> QED
  BY <1>6, <1>7, <1>8, <1>9 DEF IInv

LEMMA StepIInv == IInv /\ [Next]_vars => IInv'
<1> SUFFICES ASSUME IInv, [Next]_vars PROVE IInv'
  OBVIOUS
<1>1. /\ a \in Nat /\ a < p /\ b \in Nat /\ b < p /\ t \in Nat /\ t < 2 * p
      /\ p \in Nat /\ 1 < p /\ p < R /\ R \in Nat
  BY Sizes DEF IInv, TypeOK, Reduced
<1>2. CASE Call
  <2>1. TypeOK'
    BY <1>2, MontgomeryAssumption DEF IInv, TypeOK, Call
  <2>2. Reduced'
    BY <1>1, <1>2 DEF IInv, Reduced, Call
  <2>3. ((n0inv * p) % W = W - 1)'
    BY <1>2 DEF IInv, Call
  <2>4. WordsDone'
    <3>1. Pow[0] = 1 /\ b' = b /\ rest' = b /\ i' = 0 /\ t' = 0 /\ a' = a /\ p' = p
      BY <1>2, MontgomeryAssumption DEF Call
    <3>2. b' = 0 + rest' * Pow[i'] /\ t' * Pow[i'] = a' * 0 + 0 * p'
      BY <1>1, <3>1
    <3> QED
      BY <3>2 DEF WordsDone
  <2> QED
    BY <2>1, <2>2, <2>3, <2>4 DEF IInv
<1>3. CASE Add
  <2>1. CondSub(a + b) \in Nat /\ CondSub(a + b) < p
    BY <1>1, AddResult
  <2> QED
    BY <1>3, <2>1, ReturnKeeps DEF Add
<1>4. CASE Sub
  <2>1. SubMod(a, b) \in Nat /\ SubMod(a, b) < p
    BY <1>1, SubResult
  <2> QED
    BY <1>4, <2>1, ReturnKeeps DEF Sub
<1>5. CASE Halve
  <2>1. Div2(a) \in Nat /\ Div2(a) < p
    BY <1>5, HalfResult DEF Halve
  <2> QED
    BY <1>5, <2>1, ReturnKeeps DEF Halve
<1>6. CASE MulWord
  BY <1>6, MulWordKeeps
<1>7. CASE MulReturn
  <2>1. CondSub(t) = IF t < p THEN t ELSE t - p
    BY <1>7, ProductResult DEF MulReturn
  <2>2. CondSub(t) \in Nat /\ CondSub(t) < p
    BY <1>1, <2>1
  <2> QED
    BY <1>7, <2>2, ReturnKeeps DEF MulReturn
<1>8. CASE UNCHANGED vars
  BY <1>8 DEF vars, IInv, TypeOK, Reduced, WordsDone
<1> QED
  BY <1>2, <1>3, <1>4, <1>5, <1>6, <1>7, <1>8 DEF Next

LEMMA AlwaysIInv == Spec => []IInv
<1> QED
  BY InitIInv, StepIInv, PTL DEF Spec
-------------------------------------------------------------------------------
(* Every variable keeps its type, for every word size, length and modulus. *)
THEOREM MontgomeryTypeCorrect == Spec => []TypeOK
<1>1. IInv => TypeOK
  BY DEF IInv
<1> QED
  BY <1>1, AlwaysIInv, PTL

(* Results stay below p through any chain of operations, and the accumulator of
   a product below 2p, so one conditional subtraction is enough (mul_mont). *)
THEOREM MontgomeryReduced == Spec => []Reduced
<1>1. IInv => Reduced
  BY DEF IInv
<1> QED
  BY <1>1, AlwaysIInv, PTL

(* add_mod, sub_mod and div2_n return the sum, the difference and the half. *)
THEOREM MontgomeryAddsSubtractsHalves == Spec => AddsSubtractsHalves
<1>1. ASSUME IInv, [Next]_vars
      PROVE  [/\ op = "add" /\ op' = "ready" => a' = (a + b) % p
              /\ op = "sub" /\ op' = "ready" => a' = (a - b) % p
              /\ op = "div2" /\ op' = "ready" => (a' + a') % p = a]_vars
  <2>1. /\ a \in Nat /\ a < p /\ b \in Nat /\ b < p
        /\ p \in Nat /\ 0 < p
    BY <1>1, Sizes DEF IInv, TypeOK, Reduced
  <2>2. op = "add" /\ op' = "ready" => a' = (a + b) % p
    <3> SUFFICES ASSUME op = "add", op' = "ready" PROVE a' = (a + b) % p
      OBVIOUS
    <3>1. a' = CondSub(a + b)
      BY <1>1 DEF Next, vars, Call, Add, Sub, Halve, MulWord, MulReturn, Return
    <3>2. a' = IF a + b < p THEN a + b ELSE (a + b) - p
      BY <1>1, <3>1, AddResult
    <3>3. CASE a + b < p
      BY <2>1, <3>2, <3>3, DivisionUnique, a + b = p * 0 + (a + b),
         a + b \in 0..(p - 1)
    <3>4. CASE ~(a + b < p)
      BY <2>1, <3>2, <3>4, DivisionUnique, a + b = p * 1 + ((a + b) - p),
         (a + b) - p \in 0..(p - 1)
    <3> QED
      BY <3>3, <3>4
  <2>3. op = "sub" /\ op' = "ready" => a' = (a - b) % p
    <3> SUFFICES ASSUME op = "sub", op' = "ready" PROVE a' = (a - b) % p
      OBVIOUS
    <3>1. a' = SubMod(a, b)
      BY <1>1 DEF Next, vars, Call, Add, Sub, Halve, MulWord, MulReturn, Return
    <3>2. a' = IF a < b THEN (a - b) + p ELSE a - b
      BY <1>1, <3>1, SubResult
    <3>3. CASE a < b
      BY <2>1, <3>2, <3>3, DivisionUnique, a - b = p * (-1) + ((a - b) + p),
         (a - b) + p \in 0..(p - 1)
    <3>4. CASE ~(a < b)
      BY <2>1, <3>2, <3>4, DivisionUnique, a - b = p * 0 + (a - b),
         a - b \in 0..(p - 1)
    <3> QED
      BY <3>3, <3>4
  <2>4. op = "div2" /\ op' = "ready" => (a' + a') % p = a
    <3> SUFFICES ASSUME op = "div2", op' = "ready" PROVE (a' + a') % p = a
      OBVIOUS
    <3>1. a' = Div2(a) /\ p % 2 = 1
      BY <1>1 DEF Next, vars, Call, Add, Sub, Halve, MulWord, MulReturn, Return
    <3>2. a' + a' = IF a % 2 = 1 THEN a + p ELSE a
      BY <1>1, <3>1, HalfResult
    <3>3. CASE a % 2 = 1
      BY <2>1, <3>2, <3>3, DivisionUnique, a + p = p * 1 + a, a \in 0..(p - 1)
    <3>4. CASE ~(a % 2 = 1)
      BY <2>1, <3>2, <3>4, DivisionUnique, a = p * 0 + a, a \in 0..(p - 1)
    <3> QED
      BY <3>3, <3>4
  <2> QED
    BY <2>2, <2>3, <2>4
<1> QED
  BY <1>1, AlwaysIInv, PTL DEF Spec, AddsSubtractsHalves

(* mul_mont returns a * b * R^-1 mod p, whatever the words and the modulus. *)
THEOREM MontgomeryMultiplies == Spec => MultipliesMontgomery
<1>1. ASSUME IInv, [Next]_vars
      PROVE  [op = "mul" /\ op' = "ready" => (a' * R) % p = (a * b) % p]_vars
  <2> SUFFICES ASSUME op = "mul", op' = "ready" PROVE (a' * R) % p = (a * b) % p
    OBVIOUS
  <2>1. i = N /\ a' = CondSub(t)
    BY <1>1 DEF Next, vars, Call, Add, Sub, Halve, MulWord, MulReturn, Return
  <2>2. /\ a \in Nat /\ b \in Nat /\ t \in Nat /\ p \in Nat /\ 0 < p /\ R \in Nat
    BY <1>1, Sizes DEF IInv, TypeOK
  <2>3. a' = IF t < p THEN t ELSE t - p
    BY <1>1, <2>1, ProductResult
  <2>4. PICK q \in Nat : t * R = a * b + q * p
    BY <1>1, <2>1, ProductResult
  <2>5. \E k \in Int : a' * R = a * b + k * p
    <3>1. CASE t < p
      BY <2>3, <2>4, <3>1
    <3>2. CASE ~(t < p)
      <4>1. (t - p) * R = a * b + (q - R) * p
        BY <2>2, <2>4, SMTT(30)
      <4>2. q - R \in Int /\ a' = t - p
        BY <2>2, <2>3, <3>2
      <4> QED
        BY <4>1, <4>2
    <3> QED
      BY <3>1, <3>2
  <2>6. a' * R \in Int /\ a * b \in Int
    BY <2>2, <2>3, SMTT(30)
  <2> DEFINE x == a' * R
             y == a * b
  <2>7. PICK k \in Int : x = y + k * p
    BY <2>5
  <2>8. x \in Int /\ y \in Int
    BY <2>6
  <2> HIDE DEF x, y
  <2>9. x % p = y % p
    BY <2>2, <2>7, <2>8, SameRemainder
  <2> QED
    BY <2>9 DEF x, y
<1> QED
  BY <1>1, AlwaysIInv, PTL DEF Spec, MultipliesMontgomery
-------------------------------------------------------------------------------
(* mul_ring *)

(* The greatest product of two reduced coefficients. *)
Greatest == (RingQ - 1) * (RingQ - 1)

(* An accumulator holds at most one product for each turn. *)
RingIInv == /\ lhs \in [Degrees -> 0..(RingQ - 1)] /\ rhs \in [Degrees -> 0..(RingQ - 1)]
            /\ turn \in 0..RingN
            /\ prod \in [Slots -> Nat]
            /\ \A k \in Slots : prod[k] <= turn * Greatest
            /\ stage \in {"multiply", "returned"}
            /\ out \in [Degrees -> 0..(RingQ - 1)]

LEMMA TermBound ==
  ASSUME RingAssumption, RingIInv, turn < RingN, NEW k \in Slots
  PROVE  Term(k) \in Nat /\ Term(k) <= Greatest
<1>1. \A x \in 0..(RingQ - 1), y \in 0..(RingQ - 1) :
         x * y \in Nat /\ x * y <= (RingQ - 1) * (RingQ - 1)
  BY SMTT(30) DEF RingAssumption
<1>2. Greatest \in Nat
  BY SMTT(30) DEF RingAssumption, Greatest
<1>3. CASE k - turn \in Degrees
  <2>1. turn \in Degrees
    BY DEF RingIInv, RingAssumption, Degrees
  <2>2. lhs[turn] \in 0..(RingQ - 1) /\ rhs[k - turn] \in 0..(RingQ - 1)
    BY <1>3, <2>1 DEF RingIInv
  <2>3. Term(k) = lhs[turn] * rhs[k - turn]
    BY <1>3 DEF Term
  <2> QED
    BY <1>1, <2>2, <2>3, Zenon DEF Greatest
<1>4. CASE k - turn \notin Degrees
  BY <1>2, <1>4 DEF Term
<1> QED
  BY <1>3, <1>4

LEMMA FoldedReduced ==
  ASSUME RingAssumption, NEW k \in Degrees, prod \in [Slots -> Nat]
  PROVE  Folded(k) \in 0..(RingQ - 1)
<1>1. prod[k] - prod[k + RingN] \in Int
  BY DEF Slots, Degrees, RingAssumption
<1>2. \A x \in Int : LET c == Rem(x, RingQ)
                     IN  (IF c < 0 THEN c + RingQ ELSE c) \in 0..(RingQ - 1)
  <2> SUFFICES ASSUME NEW x \in Int
               PROVE  LET c == Rem(x, RingQ)
                      IN  (IF c < 0 THEN c + RingQ ELSE c) \in 0..(RingQ - 1)
    OBVIOUS
  <2>1. x % RingQ \in 0..(RingQ - 1) /\ (-x) % RingQ \in 0..(RingQ - 1)
    BY Division DEF RingAssumption
  <2>2. RingQ \in Nat \ {0}
    BY DEF RingAssumption
  <2> QED
    BY <2>1, <2>2 DEF Rem
<1> QED
  BY <1>1, <1>2 DEF Folded

LEMMA RingInitial ==
  ASSUME RingAssumption, RingInit
  PROVE  RingIInv
<1>0. Greatest \in Nat
  BY SMTT(30) DEF RingAssumption, Greatest
<1>1. 0 * Greatest = 0
  BY <1>0
<1> QED
  BY <1>1 DEF RingInit, RingIInv, RingAssumption

(* No sum overflows. *)
LEMMA RingStep ==
  ASSUME RingAssumption, RingN * Greatest <= AccMax, RingIInv, [RingNext]_ringVars
  PROVE  RingIInv'
<1>0. Greatest \in Nat
  BY SMTT(30) DEF RingAssumption, Greatest
<1>1. CASE RingTurn
  <2>1. ~ \E k \in Slots : prod[k] > AccMax - Term(k)
    <3> SUFFICES ASSUME NEW k \in Slots PROVE prod[k] + Term(k) <= AccMax /\ prod[k] \in Nat
                                              /\ Term(k) \in Nat /\ AccMax \in Nat
      OBVIOUS
    <3>1. Term(k) \in Nat /\ Term(k) <= Greatest
      BY <1>1, TermBound DEF RingTurn
    <3>2. prod[k] \in Nat /\ prod[k] <= turn * Greatest /\ turn + 1 <= RingN /\ turn \in Nat
          /\ RingN \in Nat /\ AccMax \in Nat
      BY <1>1 DEF RingIInv, RingTurn, RingAssumption
    <3>3. (turn + 1) * Greatest <= RingN * Greatest
          /\ (turn + 1) * Greatest = turn * Greatest + Greatest
      BY <1>0, <3>2, SMTT(30)
    <3>4. turn * Greatest \in Nat /\ RingN * Greatest \in Nat
      BY <1>0, <3>2, SMTT(30)
    <3> HIDE DEF Term, Greatest
    <3> QED
      BY <1>0, <3>1, <3>2, <3>3, <3>4
  <2>2. /\ prod' = [k \in Slots |-> prod[k] + Term(k)] /\ turn' = turn + 1
        /\ UNCHANGED <<lhs, rhs, out, stage>>
    BY <1>1, <2>1 DEF RingTurn
  <2>3. turn' \in 0..RingN
    BY <1>1, <2>2 DEF RingTurn, RingIInv, RingAssumption
  <2>4. ASSUME NEW k \in Slots PROVE prod'[k] \in Nat /\ prod'[k] <= turn' * Greatest
    <3>1. Term(k) \in Nat /\ Term(k) <= Greatest
      BY <1>1, TermBound DEF RingTurn
    <3>2. prod[k] \in Nat /\ prod[k] <= turn * Greatest /\ turn \in Nat
      BY DEF RingIInv
    <3>3. (turn + 1) * Greatest = turn * Greatest + Greatest /\ turn * Greatest \in Nat
      BY <1>0, <3>2, SMTT(30)
    <3>4. prod'[k] = prod[k] + Term(k) /\ turn' = turn + 1
      BY <2>2
    <3> HIDE DEF Term, Greatest
    <3> QED
      BY <1>0, <3>1, <3>2, <3>3, <3>4
  <2>5. prod' \in [Slots -> Nat]
    BY <2>2, <2>4
  <2> QED
    BY <2>2, <2>3, <2>4, <2>5 DEF RingIInv, Degrees, Slots
<1>2. CASE RingReturn
  <2>1. \A k \in Degrees : Folded(k) \in 0..(RingQ - 1)
    BY FoldedReduced DEF RingIInv
  <2>2. out' \in [Degrees -> 0..(RingQ - 1)]
    BY <1>2, <2>1 DEF RingReturn, Degrees
  <2> QED
    BY <1>2, <2>2 DEF RingReturn, RingIInv, Degrees, Slots, Greatest
<1>3. CASE UNCHANGED ringVars
  BY <1>3 DEF ringVars, RingIInv, Degrees, Slots, Greatest
<1> QED
  BY <1>1, <1>2, <1>3 DEF RingNext

(* mul_ring never overflows, and returns reduced coefficients, if the
   accumulator holds N greatest products: 256 * 8380416^2 < 2^63 (mldsa.rs);
   256 * 3328^2 is more than 2^31 (mlkem.rs). *)
THEOREM RingFits ==
  ASSUME RingAssumption, RingN * Greatest <= AccMax
  PROVE  RingSpec => [](stage # "overflow" /\ out \in [Degrees -> 0..(RingQ - 1)])
<1>1. RingInit => RingIInv
  BY RingInitial
<1>2. RingIInv /\ [RingNext]_ringVars => RingIInv'
  BY RingStep
<1>3. RingIInv => stage # "overflow" /\ out \in [Degrees -> 0..(RingQ - 1)]
  BY DEF RingIInv
<1> QED
  BY <1>1, <1>2, <1>3, PTL DEF RingSpec
-------------------------------------------------------------------------------
(* The sums of the reference, as they grow. *)
Summand(k, ix) == IF ix <= k THEN lhs[ix] * rhs[k - ix]
                 ELSE RingQ * RingQ - lhs[ix] * rhs[k + RingN - ix]

Sums(k) ==
  LET sum[n \in 0..RingN] ==
        IF n = 0 THEN 0 ELSE (sum[n - 1] + Summand(k, n - 1)) % RingQ
  IN  sum

Factors == /\ lhs \in [Degrees -> 0..(RingQ - 1)] /\ rhs \in [Degrees -> 0..(RingQ - 1)]

LEMMA SummandRange ==
  ASSUME RingAssumption, Factors, NEW k \in Degrees, NEW ix \in Degrees
  PROVE  Summand(k, ix) \in Int
<1>1. \A x \in 0..(RingQ - 1), y \in 0..(RingQ - 1) :
         x * y \in Int /\ RingQ * RingQ - x * y \in Int
  BY SMTT(30) DEF RingAssumption
<1>2. CASE ix <= k
  <2>1. lhs[ix] \in 0..(RingQ - 1) /\ rhs[k - ix] \in 0..(RingQ - 1)
    BY <1>2 DEF Factors, Degrees, RingAssumption
  <2> QED
    BY <1>1, <1>2, <2>1, Zenon DEF Summand
<1>3. CASE ~ (ix <= k)
  <2>1. lhs[ix] \in 0..(RingQ - 1) /\ rhs[k + RingN - ix] \in 0..(RingQ - 1)
    BY <1>3 DEF Factors, Degrees, RingAssumption
  <2> QED
    BY <1>1, <1>3, <2>1, Zenon DEF Summand
<1> QED
  BY <1>2, <1>3

(* The recursion of the reference, unfolded. *)
LEMMA SumsUnfolded ==
  ASSUME RingAssumption, Factors, NEW k \in Degrees
  PROVE  /\ Sums(k)[0] = 0
         /\ \A n \in 1..RingN : Sums(k)[n] = (Sums(k)[n - 1] + Summand(k, n - 1)) % RingQ
         /\ \A n \in 0..RingN : Sums(k)[n] \in 0..(RingQ - 1)
<1> DEFINE V == 0..(RingQ - 1)
           Step(n, v) == (v + Summand(k, n - 1)) % RingQ
           F == [n \in 1..RingN |-> [v \in V |-> Step(n, v)]]
           body(g) == [n \in 0..RingN |-> IF n = 0 THEN 0 ELSE Step(n, g[n - 1])]
           s == CHOOSE g : g = body(g)
           h == Unfolded(RingN, V, 0, F)
<1>1. Sums(k) = s
  BY DEF Sums
<1>2. 0 \in V /\ RingN \in Nat
  BY DEF RingAssumption
<1>3. \A n \in 1..RingN, v \in V : Step(n, v) \in V
  <2> TAKE n \in 1..RingN, v \in V
  <2>1. Summand(k, n - 1) \in Int
    BY SummandRange DEF Degrees, RingAssumption
  <2>2. v + Summand(k, n - 1) \in Int /\ RingQ \in Nat /\ RingQ > 0
    BY <2>1 DEF RingAssumption
  <2> QED
    BY <2>2, Division
<1> HIDE DEF V, Step
<1>4. F \in [1..RingN -> [V -> V]]
  BY <1>3
<1>5. h \in [0..RingN -> V] /\ h[0] = 0 /\ \A n \in 1..RingN : h[n] = F[n][h[n - 1]]
  <2> HIDE DEF F
  <2> QED
    BY <1>2, <1>4, Unfolding
<1> HIDE DEF h
<1>6. \A n \in 1..RingN : h[n] = Step(n, h[n - 1])
  <2> TAKE n \in 1..RingN
  <2>1. h[n - 1] \in V /\ h[n] = F[n][h[n - 1]]
    BY <1>2, <1>5
  <2>2. F[n] = [v \in V |-> Step(n, v)]
    OBVIOUS
  <2> QED
    BY <2>1, <2>2
<1>7. h = body(h)
  BY <1>5, <1>6
<1>8. s = body(s)
  <2> HIDE DEF body
  <2> QED
    BY <1>7
<1> HIDE DEF s
<1>9. s[0] = 0 /\ \A n \in 1..RingN : s[n] = Step(n, s[n - 1])
  <2>1. \A n \in 0..RingN : s[n] = IF n = 0 THEN 0 ELSE Step(n, s[n - 1])
    BY <1>8, Zenon
  <2> QED
    BY <1>2, <2>1
<1> DEFINE S == {n \in 0..RingN : s[n] \in V}
<1>10. 0 \in S /\ \A n \in 1..RingN : n - 1 \in S => n \in S
  BY <1>2, <1>3, <1>9
<1>11. 0..RingN \subseteq S
  <2> HIDE DEF S
  <2> QED
    BY <1>2, <1>10, UpTo
<1> QED
  BY <1>1, <1>9, <1>11 DEF V, Step

(* What a turn adds to an accumulator, less what it adds N places up. *)
LEMMA TermsAreSummand ==
  ASSUME RingAssumption, Factors, turn \in Degrees, NEW k \in Degrees
  PROVE  Term(k) - Term(k + RingN)
           = Summand(k, turn) - (IF turn <= k THEN 0 ELSE RingQ) * RingQ
<1>1. RingN \in Nat /\ RingQ \in Nat /\ k \in 0..(RingN - 1) /\ turn \in 0..(RingN - 1)
  BY DEF RingAssumption, Degrees
<1>2. \A x \in 0..(RingQ - 1), y \in 0..(RingQ - 1) : x * y \in Int
  BY <1>1, SMTT(30)
<1>3. CASE turn <= k
  <2>1. k - turn \in Degrees /\ (k + RingN) - turn \notin Degrees
    BY <1>1, <1>3 DEF Degrees
  <2>2. lhs[turn] \in 0..(RingQ - 1) /\ rhs[k - turn] \in 0..(RingQ - 1)
    BY <2>1 DEF Factors
  <2>3. lhs[turn] * rhs[k - turn] \in Int
    BY <1>2, <2>2
  <2>4. Term(k) = lhs[turn] * rhs[k - turn] /\ Term(k + RingN) = 0
    BY <2>1, Zenon DEF Term
  <2> QED
    BY <1>1, <1>3, <2>3, <2>4 DEF Summand
<1>4. CASE turn > k
  <2>1. /\ k - turn \notin Degrees /\ (k + RingN) - turn \in Degrees
        /\ (k + RingN) - turn = k + RingN - turn
    BY <1>1, <1>4 DEF Degrees
  <2>2. lhs[turn] \in 0..(RingQ - 1) /\ rhs[k + RingN - turn] \in 0..(RingQ - 1)
    BY <2>1 DEF Factors
  <2>3. lhs[turn] * rhs[k + RingN - turn] \in Int
    BY <1>2, <2>2
  <2>4. Term(k) = 0 /\ Term(k + RingN) = lhs[turn] * rhs[k + RingN - turn]
    BY <2>1, Zenon DEF Term
  <2>5. Summand(k, turn) = RingQ * RingQ - lhs[turn] * rhs[k + RingN - turn]
    BY <1>1, <1>4 DEF Summand
  <2>6. RingQ * RingQ \in Int
    BY <1>1, SMTT(30)
  <2> QED
    BY <1>1, <1>4, <2>3, <2>4, <2>5, <2>6
<1> QED
  BY <1>1, <1>3, <1>4

(* Between turns each accumulator, less the one N places up, is the sum of the
   reference so far, off by a multiple of q. *)
Congruent(x, y) == \E z \in Int : x = y + z * RingQ

ProductIInv == /\ RingIInv
               /\ \A k \in Degrees : Congruent(prod[k] - prod[k + RingN], Sums(k)[turn])
               /\ stage = "returned" => \A k \in Degrees : out[k] = Coefficient(k)

(* A remainder brought into [0, q) is the residue. *)
LEMMA FoldedIsResidue ==
  ASSUME RingAssumption, prod \in [Slots -> Nat], NEW k \in Degrees,
         NEW y \in 0..(RingQ - 1), Congruent(prod[k] - prod[k + RingN], y)
  PROVE  Folded(k) = y
<1> DEFINE x == prod[k] - prod[k + RingN]
<1>1. x \in Int /\ RingQ \in Nat /\ RingQ > 0
  BY DEF Slots, Degrees, RingAssumption
<1>2. PICK z \in Int : x = y + z * RingQ
  BY DEF Congruent
<1>3. Folded(k) = IF Rem(x, RingQ) < 0 THEN Rem(x, RingQ) + RingQ ELSE Rem(x, RingQ)
  BY DEF Folded
<1> HIDE DEF x
<1>4. CASE x >= 0
  <2>1. x = RingQ * z + y
    BY <1>1, <1>2, SMTT(30)
  <2>2. x % RingQ = y
    BY <1>1, <2>1, DivisionUnique
  <2> QED
    BY <1>1, <1>3, <1>4, <2>2 DEF Rem
<1>5. CASE x < 0
  <2>1. Rem(x, RingQ) = -((-x) % RingQ)
    BY <1>5 DEF Rem
  <2>2. -x \in Int
    BY <1>1
  <2>3. CASE y = 0
    <3>1. -x = RingQ * (-z) + 0 /\ -z \in Int
      BY <1>1, <1>2, <2>3, SMTT(30)
    <3>2. 0 \in 0..(RingQ - 1)
      BY <1>1
    <3>3. (-x) % RingQ = 0
      BY <1>1, <2>2, <3>1, <3>2, DivisionUnique
    <3> QED
      BY <1>3, <2>1, <2>3, <3>3
  <2>4. CASE y # 0
    <3>1. -x = RingQ * (-z - 1) + (RingQ - y) /\ -z - 1 \in Int
      BY <1>1, <1>2, SMTT(30)
    <3>2. RingQ - y \in 0..(RingQ - 1)
      BY <1>1, <2>4
    <3>3. (-x) % RingQ = RingQ - y
      BY <1>1, <2>2, <3>1, <3>2, DivisionUnique
    <3> QED
      BY <1>1, <1>3, <2>1, <2>4, <3>2, <3>3
  <2> QED
    BY <2>3, <2>4
<1> QED
  BY <1>1, <1>4, <1>5

LEMMA ProductTurn ==
  ASSUME RingAssumption, ProductIInv, RingIInv', RingTurn, stage' # "overflow"
  PROVE  ProductIInv'
<1>1. Factors /\ turn \in Degrees /\ turn + 1 \in 1..RingN /\ prod \in [Slots -> Nat]
      /\ RingN \in Nat /\ RingQ \in Nat /\ RingQ > 0
  <2>1. Factors /\ turn \in 0..RingN /\ prod \in [Slots -> Nat]
    BY Zenon DEF ProductIInv, RingIInv, Factors
  <2>2. RingN \in Nat /\ RingQ \in Nat /\ RingQ > 0
    BY DEF RingAssumption
  <2>3. turn < RingN
    BY DEF RingTurn
  <2>4. turn \in Degrees /\ turn + 1 \in 1..RingN
    BY <2>1, <2>2, <2>3 DEF Degrees
  <2> QED
    BY <2>1, <2>2, <2>4
<1>2. /\ prod' = [k \in Slots |-> prod[k] + Term(k)] /\ turn' = turn + 1
      /\ UNCHANGED <<lhs, rhs, out, stage>>
  BY DEF RingTurn
<1>3. ASSUME NEW k \in Degrees
      PROVE  Congruent(prod'[k] - prod'[k + RingN], Sums(k)[turn + 1])
  <2>1. k \in Slots /\ k + RingN \in Slots
    BY <1>1 DEF Degrees, Slots
  <2>2. Term(k) \in Nat /\ Term(k + RingN) \in Nat
    BY <2>1, TermBound DEF ProductIInv, RingTurn
  <2>3. prod'[k] - prod'[k + RingN]
          = (prod[k] - prod[k + RingN]) + (Term(k) - Term(k + RingN))
    <3>1. prod'[k] = prod[k] + Term(k) /\ prod'[k + RingN] = prod[k + RingN] + Term(k + RingN)
      BY <1>2, <2>1
    <3> HIDE DEF Term
    <3> QED
      BY <1>1, <2>1, <2>2, <3>1
  <2>4. PICK z \in Int : prod[k] - prod[k + RingN] = Sums(k)[turn] + z * RingQ
    BY DEF ProductIInv, Congruent
  <2>5. PICK w \in Int : Term(k) - Term(k + RingN) = Summand(k, turn) - w * RingQ
    BY <1>1, TermsAreSummand
  <2>6. /\ Sums(k)[turn] \in Int
        /\ Sums(k)[turn + 1] = (Sums(k)[turn] + Summand(k, turn)) % RingQ
    <3>1. \A n \in 1..RingN : Sums(k)[n] = (Sums(k)[n - 1] + Summand(k, n - 1)) % RingQ
      BY <1>1, SumsUnfolded
    <3>2. \A n \in 0..RingN : Sums(k)[n] \in 0..(RingQ - 1)
      BY <1>1, SumsUnfolded
    <3>3. (turn + 1) - 1 = turn /\ turn \in 0..RingN
      BY <1>1 DEF Degrees
    <3> QED
      BY <1>1, <3>1, <3>2, <3>3
  <2>7. Summand(k, turn) \in Int
    BY <1>1, SummandRange
  <2> DEFINE v == Sums(k)[turn] + Summand(k, turn)
             d == v \div RingQ
  <2>8. v \in Int
    BY <2>6, <2>7
  <2>9. d \in Int /\ v % RingQ \in Int /\ v = RingQ * d + (v % RingQ)
    <3> HIDE DEF v
    <3> QED
      BY <1>1, <2>8, Division
  <2>10. prod'[k] - prod'[k + RingN] = v + z * RingQ - w * RingQ
    <3>1. z * RingQ \in Int /\ w * RingQ \in Int
      BY <1>1, SMTT(30)
    <3> QED
      BY <2>3, <2>4, <2>5, <2>6, <2>7, <3>1
  <2> HIDE DEF v, d
  <2>11. v + z * RingQ - w * RingQ = (v % RingQ) + (d + z - w) * RingQ /\ d + z - w \in Int
    <3>1. \A c \in Int, r \in Int : v = RingQ * c + r =>
            v + z * RingQ - w * RingQ = r + (c + z - w) * RingQ /\ c + z - w \in Int
      BY <1>1, <2>8, SMTT(30)
    <3> QED
      BY <2>9, <3>1, Zenon
  <2> QED
    BY <2>6, <2>10, <2>11, Zenon DEF Congruent, v
<1>4. \A k \in Degrees : Sums(k)' = Sums(k)
  BY <1>2 DEF Sums, Summand
<1>5. \A k \in Degrees : Congruent(prod[k] - prod[k + RingN], Sums(k)[turn])'
  BY <1>2, <1>3, <1>4 DEF Congruent
<1>6. stage' # "returned"
  BY <1>2 DEF RingTurn
<1> QED
  BY <1>5, <1>6 DEF ProductIInv, Degrees

(* "Full ring multiplication c(X) = a(X) b(X) (mod X^256 + 1) (mod 3329)": the
   call returns the product for every pair of factors, whatever N and q, if the
   accumulator holds N greatest products (mul_ring). *)
THEOREM RingReturnsProduct ==
  ASSUME RingAssumption, RingN * Greatest <= AccMax
  PROVE  RingSpec => []ReturnsProduct
<1>1. RingInit => ProductIInv
  <2> SUFFICES ASSUME RingInit PROVE ProductIInv
    OBVIOUS
  <2>1. RingIInv
    BY RingInitial
  <2>2. Factors /\ RingQ \in Nat /\ RingN \in Nat
    BY <2>1 DEF Factors, RingIInv, RingAssumption
  <2>3. ASSUME NEW k \in Degrees PROVE Congruent(prod[k] - prod[k + RingN], Sums(k)[turn])
    <3>1. Sums(k)[turn] = 0
      BY <2>2, SumsUnfolded DEF RingInit
    <3>2. prod[k] - prod[k + RingN] = 0
      BY <2>2 DEF RingInit, Degrees, Slots
    <3>3. 0 = 0 + 0 * RingQ
      BY <2>2
    <3> QED
      BY <3>1, <3>2, <3>3 DEF Congruent
  <2> QED
    BY <2>1, <2>3 DEF ProductIInv, RingInit
<1>2. ProductIInv /\ [RingNext]_ringVars => ProductIInv'
  <2> SUFFICES ASSUME ProductIInv, [RingNext]_ringVars PROVE ProductIInv'
    OBVIOUS
  <2>1. RingIInv'
    BY RingStep DEF ProductIInv
  <2>2. CASE RingTurn
    BY <2>1, <2>2, ProductTurn DEF RingIInv
  <2>3. CASE RingReturn
    <3>1. Factors /\ prod \in [Slots -> Nat] /\ turn = RingN /\ RingN \in Nat
      BY <2>3 DEF ProductIInv, RingIInv, Factors, RingReturn, RingAssumption
    <3>2. UNCHANGED <<lhs, rhs, turn, prod>> /\ out' = [k \in Degrees |-> Folded(k)]
      BY <2>3 DEF RingReturn
    <3>3. ASSUME NEW k \in Degrees PROVE Folded(k) = Coefficient(k)
      <4>1. Coefficient(k) = Sums(k)[RingN]
        BY DEF Coefficient, Sums, Summand
      <4>2. Sums(k)[RingN] \in 0..(RingQ - 1)
        BY <3>1, SumsUnfolded
      <4>3. Congruent(prod[k] - prod[k + RingN], Sums(k)[RingN])
        BY <3>1 DEF ProductIInv
      <4> QED
        BY <3>1, <4>1, <4>2, <4>3, FoldedIsResidue
    <3>4. \A k \in Degrees : Sums(k)' = Sums(k) /\ Coefficient(k)' = Coefficient(k)
      BY <3>2 DEF Sums, Summand, Coefficient
    <3>5. \A k \in Degrees : out'[k] = Coefficient(k)'
      BY <3>2, <3>3, <3>4
    <3>6. \A k \in Degrees : Congruent(prod[k] - prod[k + RingN], Sums(k)[turn])'
      BY <3>2, <3>4 DEF ProductIInv, Congruent
    <3> QED
      BY <2>1, <3>5, <3>6 DEF ProductIInv, Degrees
  <2>4. CASE UNCHANGED ringVars
    <3>1. \A k \in Degrees : Sums(k)' = Sums(k) /\ Coefficient(k)' = Coefficient(k)
      BY <2>4 DEF Sums, Summand, Coefficient, ringVars
    <3> QED
      BY <2>1, <2>4, <3>1 DEF ProductIInv, Congruent, Degrees, ringVars
  <2> QED
    BY <2>2, <2>3, <2>4 DEF RingNext
<1>3. ProductIInv => ReturnsProduct
  BY DEF ProductIInv, RingIInv, ReturnsProduct
<1> QED
  BY <1>1, <1>2, <1>3, PTL DEF RingSpec
-------------------------------------------------------------------------------
(* ML-DSA *)

(* What the proofs use of the constants. *)
LEMMA DsaConstants ==
  ASSUME DsaAssumption
  PROVE  /\ DsaW \in Nat \ {0} /\ DsaH \in Nat \ {0} /\ DsaQ \in Nat /\ 1 < DsaQ
         /\ Half \in Nat \ {0} /\ DsaW = 2 * Half /\ Turns \in Nat \ {0}
         /\ Half = Turns * (2 * DsaH) /\ 2 * DsaH <= Half /\ DsaQ <= 2 * DsaH
<1>1. DsaW \in Nat \ {0} /\ DsaH \in Nat \ {0} /\ DsaQ \in Nat /\ 1 < DsaQ
      /\ DsaQ <= 2 * DsaH /\ DsaW = 4 * DsaH * Turns
  BY DEF DsaAssumption
<1>2. Turns \in Int
  BY <1>1, 4 * DsaH \in Nat, 4 * DsaH > 0, Division DEF Turns
<1>3. Turns > 0
  <2>1. CASE Turns <= 0
    <3>1. 4 * DsaH * Turns <= 0
      BY <1>1, <1>2, <2>1, SMTT(30)
    <3> QED
      BY <1>1, <3>1
  <2> QED
    BY <1>2, <2>1
<1>4. DsaW = 2 * (Turns * (2 * DsaH)) + 0 /\ Turns * (2 * DsaH) \in Int
  BY <1>1, <1>2, SMTT(30)
<1>5. Half = Turns * (2 * DsaH)
  BY <1>1, <1>4, DivisionUnique, 0 \in 0..(2 - 1) DEF Half
<1>6. Turns * (2 * DsaH) >= 2 * DsaH
  BY <1>1, <1>2, <1>3, SMTT(30)
<1> HIDE DEF Half, Turns
<1> QED
  BY <1>1, <1>2, <1>3, <1>4, <1>5, <1>6

(* As i32: a word, off by a multiple of 2^32. *)
LEMMA SignedCongruent ==
  ASSUME DsaAssumption, NEW x \in Int
  PROVE  Signed(x) \in Word32 /\ \E k \in Int : Signed(x) = x - k * DsaW
<1> DEFINE k == (x + Half) \div DsaW
           r == (x + Half) % DsaW
<1>1. Half \in Nat /\ DsaW \in Nat /\ DsaW > 0 /\ DsaW = 2 * Half
  BY DsaConstants
<1>2. k \in Int /\ r \in 0..(DsaW - 1) /\ x + Half = DsaW * k + r
  BY <1>1, Division
<1>3. Signed(x) = r - Half
  BY DEF Signed
<1> HIDE DEF k, r, Half
<1>4. DsaW * k = k * DsaW /\ k * DsaW \in Int
  BY <1>1, <1>2, SMTT(30)
<1>5. Signed(x) = x - k * DsaW
  BY <1>1, <1>2, <1>3, <1>4
<1>6. Signed(x) \in Word32
  BY <1>1, <1>2, <1>3 DEF Word32
<1> QED
  BY <1>2, <1>5, <1>6

LEMMA SignedWord ==
  ASSUME DsaAssumption, NEW x \in Word32
  PROVE  Signed(x) = x
<1>1. Half \in Nat /\ DsaW \in Nat /\ DsaW > 0 /\ DsaW = 2 * Half
  BY DsaConstants
<1> HIDE DEF Half
<1>2. x + Half \in 0..(DsaW - 1) /\ x + Half = DsaW * 0 + (x + Half) /\ x \in Int
  BY <1>1 DEF Word32
<1>3. (x + Half) % DsaW = x + Half
  BY <1>1, <1>2, DivisionUnique
<1> QED
  BY <1>1, <1>2, <1>3 DEF Signed

(* The division of montgomery_reduce leaves nothing, and its result times 2^32
   is x less a multiple of q. *)
LEMMA MontgomeryExact ==
  ASSUME DsaAssumption, NEW x \in Int
  PROVE  \E tt \in Word32, d \in Int :
           /\ DsaW * d = x - tt * DsaQ
           /\ MontgomeryReduce(x) = Signed(d)
<1> DEFINE tt == Signed(Signed(x) * DsaQinv)
<1>1. /\ DsaW \in Nat /\ DsaW > 0 /\ DsaQ \in Nat /\ DsaQinv \in Int
      /\ (DsaQ * DsaQinv) % DsaW = 1
  BY DsaConstants DEF DsaAssumption
<1>2. PICK j \in Int : Signed(x) = x - j * DsaW
  BY SignedCongruent
<1>3. Signed(x) \in Int
  BY <1>1, <1>2, SMTT(30)
<1>4. Signed(x) * DsaQinv \in Int
  BY <1>1, <1>3, SMTT(30)
<1>5. tt \in Word32 /\ \E k \in Int : tt = Signed(x) * DsaQinv - k * DsaW
  BY <1>4, SignedCongruent
<1>6. PICK k \in Int : tt = Signed(x) * DsaQinv - k * DsaW
  BY <1>5
<1>7. \E h \in Int : DsaQ * DsaQinv = DsaW * h + 1
  <2>1. DsaQ * DsaQinv \in Int
    BY <1>1, SMTT(30)
  <2>2. /\ (DsaQ * DsaQinv) \div DsaW \in Int
        /\ DsaQ * DsaQinv = DsaW * ((DsaQ * DsaQinv) \div DsaW) + ((DsaQ * DsaQinv) % DsaW)
    BY <1>1, <2>1, Division
  <2> QED
    BY <1>1, <2>2, Zenon
<1>8. PICK h \in Int : DsaQ * DsaQinv = DsaW * h + 1
  BY <1>7
<1> DEFINE d == j - (Signed(x) * h) + k * DsaQ
<1>9. d \in Int /\ DsaW * d = x - tt * DsaQ
  <2>1. \A s \in Int, u \in Int :
           s = x - j * DsaW /\ u = s * DsaQinv - k * DsaW =>
             /\ j - s * h + k * DsaQ \in Int
             /\ DsaW * (j - s * h + k * DsaQ) = x - u * DsaQ
    <3> SUFFICES ASSUME NEW s \in Int, NEW u \in Int,
                        s = x - j * DsaW, u = s * DsaQinv - k * DsaW
                 PROVE  /\ j - s * h + k * DsaQ \in Int
                        /\ DsaW * (j - s * h + k * DsaQ) = x - u * DsaQ
      OBVIOUS
    <3>1. j - s * h + k * DsaQ \in Int
      BY <1>1, SMTT(30)
    <3>2. u * DsaQ = s * (DsaQ * DsaQinv) - k * DsaW * DsaQ
      BY <1>1, SMTT(30)
    <3>3. s * (DsaQ * DsaQinv) = s * (DsaW * h) + s
      BY <1>1, <1>8, SMTT(30)
    <3>4. DsaW * (j - s * h + k * DsaQ) = j * DsaW - s * (DsaW * h) + k * DsaW * DsaQ
      BY <1>1, SMTT(30)
    <3>5. s * (DsaW * h) \in Int /\ k * DsaW * DsaQ \in Int /\ j * DsaW \in Int
      BY <1>1, SMTT(30)
    <3> QED
      BY <3>1, <3>2, <3>3, <3>4, <3>5
  <2>2. tt \in Int
    BY <1>1, <1>3, <1>6, SMTT(30)
  <2> QED
    BY <1>2, <1>3, <1>6, <2>1, <2>2, Zenon
<1>10. MontgomeryReduce(x) = Signed(d)
  <2>1. x - tt * DsaQ = DsaW * d + 0
    BY <1>9
  <2>2. x - tt * DsaQ \in Int
    BY <1>1, <1>9, SMTT(30)
  <2>3. MontgomeryReduce(x) = Signed((x - tt * DsaQ) \div DsaW)
    BY DEF MontgomeryReduce
  <2> HIDE DEF tt, d
  <2>4. (x - tt * DsaQ) \div DsaW = d
    BY <1>1, <1>9, <2>1, <2>2, DivisionUnique, 0 \in 0..(DsaW - 1)
  <2> QED
    BY <2>3, <2>4
<1> QED
  BY <1>5, <1>9, <1>10, Zenon

(* Of the product of a word and a number below q, montgomery_reduce makes a
   number below q, of either sign. *)
LEMMA MontgomeryBounded ==
  ASSUME DsaAssumption, NEW x \in Word32, NEW y \in Int, -DsaQ < y, y < DsaQ
  PROVE  /\ MontgomeryReduce(x * y) \in (-(DsaQ - 1))..(DsaQ - 1)
         /\ \E tt \in Int : MontgomeryReduce(x * y) * DsaW = x * y - tt * DsaQ
<1>1. /\ Half \in Nat /\ Half > 0 /\ DsaW \in Nat /\ DsaW = 2 * Half /\ DsaQ \in Nat
      /\ 1 < DsaQ /\ DsaQ <= Half
  BY DsaConstants
<1> HIDE DEF Half
<1>2. x \in Int /\ -Half <= x /\ x <= Half
  BY <1>1 DEF Word32
<1>3. x * y \in Int
  BY <1>2, SMTT(30)
<1>4. PICK tt \in Word32, d \in Int : /\ DsaW * d = x * y - tt * DsaQ
                                     /\ MontgomeryReduce(x * y) = Signed(d)
  BY <1>3, MontgomeryExact
<1>5. tt \in Int /\ -Half <= tt /\ tt <= Half
  BY <1>1 DEF Word32
<1>6. x * y <= Half * (DsaQ - 1) /\ -(Half * (DsaQ - 1)) <= x * y
  BY <1>1, <1>2, SMTT(30)
<1>7. tt * DsaQ <= Half * DsaQ /\ -(Half * DsaQ) <= tt * DsaQ
  BY <1>1, <1>5, SMTT(30)
<1>8. Half * (DsaQ - 1) + Half * DsaQ = DsaW * DsaQ - Half
  BY <1>1, SMTT(30)
<1>9. DsaW * d < DsaW * DsaQ /\ -(DsaW * DsaQ) < DsaW * d
  <2>1. Half * (DsaQ - 1) \in Int /\ Half * DsaQ \in Int /\ DsaW * DsaQ \in Int
        /\ tt * DsaQ \in Int
    BY <1>1, <1>5, SMTT(30)
  <2> QED
    BY <1>1, <1>3, <1>4, <1>6, <1>7, <1>8, <2>1
<1>10. d < DsaQ /\ -DsaQ < d
  <2>1. CASE d >= DsaQ
    <3>1. DsaW * d >= DsaW * DsaQ
      BY <1>1, <2>1, SMTT(30)
    <3> QED
      BY <1>1, <1>9, <3>1, SMTT(30)
  <2>2. CASE d <= -DsaQ
    <3>1. DsaW * d <= -(DsaW * DsaQ)
      BY <1>1, <2>2, SMTT(30)
    <3> QED
      BY <1>1, <1>9, <3>1, SMTT(30)
  <2> QED
    BY <1>1, <2>1, <2>2
<1>11. d \in Word32
  BY <1>1, <1>10 DEF Word32
<1>12. MontgomeryReduce(x * y) = d
  BY <1>4, <1>11, SignedWord
<1>13. d * DsaW = x * y - tt * DsaQ
  BY <1>1, <1>4, SMTT(30)
<1>14. d \in (-(DsaQ - 1))..(DsaQ - 1)
  BY <1>1, <1>10
<1> QED
  BY <1>5, <1>12, <1>13, <1>14, Zenon

(* reduce32 keeps the residue, and leaves a number below q of either sign. *)
LEMMA Reduced32Bounded ==
  ASSUME DsaAssumption, NEW x \in Word32, x + DsaH \in Word32
  PROVE  /\ Reduced32(x) \in (-(DsaQ - 1))..(DsaQ - 1)
         /\ \E k \in Int : Reduced32(x) = x - k * DsaQ
<1> DEFINE k == (x + DsaH) \div (2 * DsaH)
           r == (x + DsaH) % (2 * DsaH)
           c == 2 * DsaH - DsaQ
<1>1. /\ DsaH \in Nat /\ DsaH > 0 /\ DsaQ \in Nat /\ 1 < DsaQ /\ Half \in Nat
      /\ Turns \in Nat /\ Half = Turns * (2 * DsaH) /\ DsaQ <= 2 * DsaH
  BY DsaConstants
<1>2. DsaH + Turns * c < DsaQ
  BY DEF DsaAssumption
<1> HIDE DEF Half, Turns
<1>3. x \in Int /\ -Half <= x /\ x + DsaH < Half
  BY <1>1 DEF Word32
<1>4. k \in Int /\ r \in 0..(2 * DsaH - 1) /\ x + DsaH = (2 * DsaH) * k + r
  BY <1>1, <1>3, Division, 2 * DsaH \in Nat, 2 * DsaH > 0, x + DsaH \in Int
<1>5. c \in Nat
  BY <1>1
<1>6. Reduced32(x) = x - k * DsaQ
  BY DEF Reduced32
<1> HIDE DEF k, r, c
<1>7. -Turns <= k /\ k < Turns
  <2>1. CASE k >= Turns
    <3>1. (2 * DsaH) * k >= Turns * (2 * DsaH)
      BY <1>1, <1>4, <2>1, SMTT(30)
    <3>2. (2 * DsaH) * k \in Int /\ Turns * (2 * DsaH) \in Int
      BY <1>1, <1>4, SMTT(30)
    <3> QED
      BY <1>1, <1>3, <1>4, <3>1, <3>2
  <2>2. CASE k <= -Turns - 1
    <3>1. (2 * DsaH) * k <= (2 * DsaH) * (-Turns - 1)
      BY <1>1, <1>4, <2>2, SMTT(30)
    <3>2. (2 * DsaH) * (-Turns - 1) = -(Turns * (2 * DsaH)) - 2 * DsaH
      BY <1>1, SMTT(30)
    <3>3. (2 * DsaH) * k \in Int /\ Turns * (2 * DsaH) \in Int
      BY <1>1, <1>4, SMTT(30)
    <3> QED
      BY <1>1, <1>3, <1>4, <3>1, <3>2, <3>3
  <2> QED
    BY <1>1, <1>4, <2>1, <2>2
<1>8. k * c <= Turns * c /\ -(Turns * c) <= k * c
  BY <1>1, <1>4, <1>5, <1>7, SMTT(30)
<1>9. x - k * DsaQ = k * c + (r - DsaH)
  <2>1. (2 * DsaH) * k - k * DsaQ = k * c
    BY <1>1, <1>4, SMTT(30) DEF c
  <2>2. (2 * DsaH) * k \in Int /\ k * DsaQ \in Int /\ k * c \in Int
    BY <1>1, <1>4, <1>5, SMTT(30)
  <2> QED
    BY <1>1, <1>3, <1>4, <2>1, <2>2
<1>10. k * c \in Int /\ Turns * c \in Int
  BY <1>1, <1>4, <1>5, SMTT(30)
<1>11. k * c + (r - DsaH) \in (-(DsaQ - 1))..(DsaQ - 1)
  BY <1>1, <1>2, <1>4, <1>8, <1>10
<1> QED
  BY <1>4, <1>6, <1>9, <1>11

(* The operands of a call are words, and below q. *)
LEMMA OperandBound ==
  ASSUME DsaAssumption, NEW y \in DsaOperands
  PROVE  y \in Int /\ -DsaQ < y /\ y < DsaQ /\ y \in Word32
<1>1. DsaQ \in Nat /\ 1 < DsaQ /\ Half \in Nat /\ DsaQ <= Half
  BY DsaConstants
<1> HIDE DEF Half
<1>2. DsaSizes \subseteq 0..(DsaQ - 1)
  BY DEF DsaAssumption
<1>3. y \in Int /\ -DsaQ < y /\ y < DsaQ
  BY <1>1, <1>2 DEF DsaOperands
<1> QED
  BY <1>1, <1>3 DEF Word32
-------------------------------------------------------------------------------
(* The machine. *)

DsaIInv == DsaTypeOK /\ SumsLeaveRoom

(* A call returns a number below q of either sign for every term it counts,
   or overflows; by then too many were counted. *)
LEMMA ReturnKeepsRoom ==
  ASSUME DsaAssumption, DsaIInv, NEW x \in Int, NEW terms \in Nat \ {0},
         DsaReturn(x, terms),
         x \in Word32 => x \in (-(terms * (DsaQ - 1)))..(terms * (DsaQ - 1)),
         x \notin Word32 => \/ terms * (DsaQ - 1) + DsaH >= Half
                           \/ dsaTerms * (DsaQ - 1) + DsaH >= Half,
         dsaOp = "caddq" /\ terms = 1 /\ x \in Word32 => x \in 0..(DsaQ - 1)
  PROVE  DsaIInv'
<1>1. /\ DsaQ \in Nat /\ 1 < DsaQ /\ Half \in Nat /\ DsaH \in Nat
      /\ 0 \in DsaOperands
  BY DsaConstants DEF DsaAssumption, DsaOperands
<1>2. dsaY' = 0 /\ dsaZ' = 0 /\ dsaCanonical' = (dsaOp = "caddq" /\ terms = 1)
  BY DEF DsaReturn
<1>3. dsaCanonical' \in BOOLEAN
  BY <1>2, Zenon
<1> HIDE DEF Half
<1>4. CASE x \in Word32
  <2>1. dsaX' = x /\ dsaOp' = "ready" /\ dsaTerms' = terms
    BY <1>4 DEF DsaReturn
  <2>2. DsaTypeOK'
    <3>1. dsaX' \in Word32 /\ dsaTerms' \in Nat \ {0}
      BY <1>4, <2>1
    <3>2. dsaY' \in DsaOperands /\ dsaZ' \in DsaOperands
      BY <1>1, <1>2
    <3> QED
      BY <1>3, <2>1, <3>1, <3>2 DEF DsaTypeOK, Word32, DsaOperands
  <2>3. SumsLeaveRoom'
    BY <1>2, <1>4, <2>1 DEF SumsLeaveRoom
  <2> QED
    BY <2>2, <2>3 DEF DsaIInv
<1>5. CASE x \notin Word32
  <2>1. /\ dsaX' = dsaX /\ dsaOp' = "overflow"
        /\ dsaTerms' = IF terms < dsaTerms THEN dsaTerms ELSE terms
    BY <1>5 DEF DsaReturn
  <2>2. dsaTerms \in Nat \ {0} /\ dsaX \in Word32
    BY DEF DsaIInv, DsaTypeOK
  <2>3. dsaTerms' \in Nat \ {0} /\ dsaTerms <= dsaTerms' /\ terms <= dsaTerms'
    BY <2>1, <2>2
  <2>4. DsaTypeOK'
    BY <1>1, <1>2, <1>3, <2>1, <2>2, <2>3 DEF DsaTypeOK, Word32, DsaOperands
  <2>5. \A n \in Nat, m \in Nat : n <= m => n * (DsaQ - 1) <= m * (DsaQ - 1)
                                           /\ n * (DsaQ - 1) \in Int /\ m * (DsaQ - 1) \in Int
    BY <1>1, SMTT(30)
  <2>6. SumsLeaveRoom'
    <3>1. /\ dsaTerms * (DsaQ - 1) <= dsaTerms' * (DsaQ - 1)
          /\ terms * (DsaQ - 1) <= dsaTerms' * (DsaQ - 1)
          /\ dsaTerms * (DsaQ - 1) \in Int /\ terms * (DsaQ - 1) \in Int
          /\ dsaTerms' * (DsaQ - 1) \in Int
      BY <2>2, <2>3, <2>5
    <3>2. dsaX \in (-(dsaTerms * (DsaQ - 1)))..(dsaTerms * (DsaQ - 1))
      BY DEF DsaIInv, SumsLeaveRoom
    <3>3. dsaX' \in (-(dsaTerms' * (DsaQ - 1)))..(dsaTerms' * (DsaQ - 1))
      BY <2>1, <3>1, <3>2
    <3>4. dsaTerms' * (DsaQ - 1) + DsaH >= Half
      BY <1>1, <1>5, <3>1
    <3> QED
      BY <2>1, <3>3, <3>4 DEF SumsLeaveRoom, Half
  <2> QED
    BY <2>4, <2>6 DEF DsaIInv
<1> QED
  BY <1>4, <1>5

LEMMA DsaInitial ==
  ASSUME DsaAssumption, DsaInit
  PROVE  DsaIInv
<1>1. DsaQ \in Nat /\ 1 < DsaQ /\ 0 \in DsaOperands
  BY DsaConstants DEF DsaAssumption, DsaOperands
<1>2. /\ dsaX \in Word32 /\ dsaX \in Int /\ -DsaQ < dsaX /\ dsaX < DsaQ
      /\ dsaY = 0 /\ dsaZ = 0 /\ dsaOp = "ready" /\ dsaTerms = 1 /\ dsaCanonical = FALSE
  BY OperandBound DEF DsaInit
<1>3. DsaTypeOK
  <2>1. dsaTerms \in Nat \ {0}
    BY <1>2
  <2> QED
    BY <1>1, <1>2, <2>1, Zenon DEF DsaTypeOK
<1>4. 1 * (DsaQ - 1) = DsaQ - 1
  BY <1>1
<1>5. SumsLeaveRoom
  BY <1>1, <1>2, <1>4 DEF SumsLeaveRoom
<1> QED
  BY <1>3, <1>5 DEF DsaIInv

(* Each operation, on what the invariant says of its operands. *)
LEMMA DsaStep ==
  ASSUME DsaAssumption, DsaIInv, [DsaNext]_dsaVars
  PROVE  DsaIInv'
<1>1. /\ DsaQ \in Nat /\ 1 < DsaQ /\ Half \in Nat /\ DsaH \in Nat /\ DsaQ <= Half
      /\ DsaH > 0
  BY DsaConstants
<1>2. /\ dsaX \in Word32 /\ dsaY \in DsaOperands /\ dsaZ \in DsaOperands
      /\ dsaTerms \in Nat \ {0}
      /\ dsaX \in (-(dsaTerms * (DsaQ - 1)))..(dsaTerms * (DsaQ - 1))
  BY DEF DsaIInv, DsaTypeOK, SumsLeaveRoom
<1>3. /\ dsaY \in Int /\ -DsaQ < dsaY /\ dsaY < DsaQ /\ dsaY \in Word32
      /\ dsaZ \in Int /\ -DsaQ < dsaZ /\ dsaZ < DsaQ /\ dsaZ \in Word32
  BY <1>2, OperandBound
<1>4. dsaX \in Int
  BY <1>1, <1>2 DEF Word32
<1>5. /\ dsaTerms + 1 \in Nat \ {0} /\ dsaTerms * (DsaQ - 1) \in Int
      /\ (dsaTerms + 1) * (DsaQ - 1) = dsaTerms * (DsaQ - 1) + (DsaQ - 1)
  BY <1>1, <1>2, SMTT(30)
<1>6. \A z \in Int : -DsaQ < z /\ z < DsaQ =>
         /\ dsaX + z \in (-((dsaTerms + 1) * (DsaQ - 1)))..((dsaTerms + 1) * (DsaQ - 1))
         /\ dsaX - z \in (-((dsaTerms + 1) * (DsaQ - 1)))..((dsaTerms + 1) * (DsaQ - 1))
         /\ dsaX + z \in Int /\ dsaX - z \in Int
  BY <1>1, <1>2, <1>4, <1>5
<1>7. \A z \in (-((dsaTerms + 1) * (DsaQ - 1)))..((dsaTerms + 1) * (DsaQ - 1)) :
         z \notin Word32 => (dsaTerms + 1) * (DsaQ - 1) + DsaH >= Half
  <2> HIDE DEF Half
  <2> QED
    BY <1>1, <1>5 DEF Word32
<1>8. 1 * (DsaQ - 1) = DsaQ - 1 /\ dsaTerms * (DsaQ - 1) >= DsaQ - 1
  BY <1>1, <1>2, SMTT(30)
<1>9. CASE DsaCall
  <2>1. /\ dsaOp' \in DsaOps /\ dsaY' \in DsaOperands
        /\ UNCHANGED <<dsaX, dsaTerms, dsaCanonical>>
    BY <1>9 DEF DsaCall
  <2>2. dsaZ' \in DsaOperands
    BY <1>9, DsaConstants DEF DsaCall, DsaOperands, DsaAssumption
  <2>3. dsaOp' # "ready" /\ dsaOp' # "overflow"
    BY <2>1 DEF DsaOps
  <2>4. SumsLeaveRoom'
    BY <1>2, <2>1, <2>3 DEF SumsLeaveRoom
  <2>5. dsaCanonical' \in BOOLEAN
    BY <2>1, Zenon DEF DsaIInv, DsaTypeOK
  <2> HIDE DEF Half
  <2>6. dsaX' \in Word32 /\ dsaTerms' \in Nat \ {0}
    BY <1>2, <2>1
  <2>7. DsaTypeOK'
    BY <2>1, <2>2, <2>5, <2>6 DEF DsaTypeOK, Word32, DsaOperands, DsaOps
  <2> QED
    BY <2>4, <2>7 DEF DsaIInv
<1>10. CASE PointwiseMont
  <2>1. MontgomeryReduce(dsaX * dsaY) \in (-(DsaQ - 1))..(DsaQ - 1)
    BY <1>2, <1>3, MontgomeryBounded
  <2>2. DsaReturn(MontgomeryReduce(dsaX * dsaY), 1) /\ dsaOp # "caddq"
    BY <1>10 DEF PointwiseMont
  <2> HIDE DEF MontgomeryReduce, Half
  <2>3. /\ MontgomeryReduce(dsaX * dsaY) \in Int
        /\ MontgomeryReduce(dsaX * dsaY) \in Word32
    BY <1>1, <2>1 DEF Word32
  <2> QED
    BY <1>8, <2>1, <2>2, <2>3, ReturnKeepsRoom
<1>11. CASE PointwiseAccMont
  <2> DEFINE z == MontgomeryReduce(dsaY * dsaZ)
  <2>1. z \in (-(DsaQ - 1))..(DsaQ - 1)
    BY <1>3, MontgomeryBounded
  <2>2. DsaReturn(dsaX + z, dsaTerms + 1) /\ dsaOp # "caddq"
    BY <1>11 DEF PointwiseAccMont
  <2> HIDE DEF z, Half
  <2>3. z \in Int /\ -DsaQ < z /\ z < DsaQ
    BY <1>1, <2>1
  <2> QED
    BY <1>5, <1>6, <1>7, <2>2, <2>3, ReturnKeepsRoom
<1>12. CASE DsaAdd
  <2>1. DsaReturn(dsaX + dsaY, dsaTerms + 1) /\ dsaOp # "caddq"
    BY <1>12 DEF DsaAdd
  <2> QED
    BY <1>3, <1>5, <1>6, <1>7, <2>1, ReturnKeepsRoom
<1>13. CASE DsaSub
  <2>1. DsaReturn(dsaX - dsaY, dsaTerms + 1) /\ dsaOp # "caddq"
    BY <1>13 DEF DsaSub
  <2> QED
    BY <1>3, <1>5, <1>6, <1>7, <2>1, ReturnKeepsRoom
<1>14. CASE Reduce32
  <2>1. dsaOp # "caddq"
    BY <1>14 DEF Reduce32
  <2>2. CASE dsaX + DsaH \in Word32
    <3>1. Reduced32(dsaX) \in (-(DsaQ - 1))..(DsaQ - 1)
      BY <1>2, <2>2, Reduced32Bounded
    <3>2. DsaReturn(Reduced32(dsaX), 1)
      BY <1>14, <2>2 DEF Reduce32
    <3> HIDE DEF Reduced32, Half
    <3>3. Reduced32(dsaX) \in Int /\ Reduced32(dsaX) \in Word32
      BY <1>1, <3>1 DEF Word32
    <3> QED
      BY <1>8, <2>1, <3>1, <3>2, <3>3, ReturnKeepsRoom
  <2>3. CASE dsaX + DsaH \notin Word32
    <3>1. DsaReturn(dsaX + DsaH, 1)
      BY <1>14, <2>3 DEF Reduce32
    <3> HIDE DEF Half
    <3>2. dsaX + DsaH \in Int /\ dsaTerms * (DsaQ - 1) + DsaH >= Half
      BY <1>1, <1>2, <1>4, <1>5, <2>3 DEF Word32
    <3> QED
      BY <2>1, <2>3, <3>1, <3>2, ReturnKeepsRoom
  <2> QED
    BY <2>2, <2>3
<1>15. CASE Caddq
  <2> DEFINE x == IF dsaX < 0 THEN dsaX + DsaQ ELSE dsaX
  <2>1. DsaReturn(x, dsaTerms)
    BY <1>15 DEF Caddq
  <2> HIDE DEF Half
  <2>2. x \in Int /\ x \in Word32
    BY <1>1, <1>2, <1>4 DEF Word32
  <2>3. x \in (-(dsaTerms * (DsaQ - 1)))..(dsaTerms * (DsaQ - 1))
    BY <1>1, <1>2, <1>4, <1>5, <1>8
  <2>4. dsaTerms = 1 => x \in 0..(DsaQ - 1)
    BY <1>1, <1>2, <1>4, <1>8
  <2> HIDE DEF x
  <2> QED
    BY <1>2, <2>1, <2>2, <2>3, <2>4, ReturnKeepsRoom
<1>16. CASE UNCHANGED dsaVars
  <2>1. /\ dsaX' = dsaX /\ dsaY' = dsaY /\ dsaZ' = dsaZ /\ dsaOp' = dsaOp
        /\ dsaTerms' = dsaTerms /\ dsaCanonical' = dsaCanonical
    BY <1>16 DEF dsaVars
  <2>2. DsaTypeOK'
    BY <2>1, Zenon DEF DsaIInv, DsaTypeOK, Word32, DsaOperands, DsaOps
  <2>3. SumsLeaveRoom'
    BY <2>1, Zenon DEF DsaIInv, SumsLeaveRoom, Half
  <2> QED
    BY <2>2, <2>3 DEF DsaIInv
<1> QED
  BY <1>9, <1>10, <1>11, <1>12, <1>13, <1>14, <1>15, <1>16 DEF DsaNext

(* Sums of numbers below q are below what was counted of them, reduce32 and the
   products start the count anew, and only a call that was told to add too many
   overflows (add, sub, pointwise_acc_mont, reduce32, caddq). *)
THEOREM SumsAreBounded ==
  ASSUME DsaAssumption
  PROVE  DsaSpec => []SumsLeaveRoom
<1>1. DsaInit => DsaIInv
  BY DsaInitial
<1>2. DsaIInv /\ [DsaNext]_dsaVars => DsaIInv'
  BY DsaStep
<1>3. DsaIInv => SumsLeaveRoom
  BY DEF DsaIInv
<1> QED
  BY <1>1, <1>2, <1>3, PTL DEF DsaSpec

(* The same invariant, for the proof below. *)
LEMMA DsaInvariant ==
  ASSUME DsaAssumption
  PROVE  DsaSpec => []DsaIInv
<1>1. DsaInit => DsaIInv
  BY DsaInitial
<1>2. DsaIInv /\ [DsaNext]_dsaVars => DsaIInv'
  BY DsaStep
<1> QED
  BY <1>1, <1>2, PTL DEF DsaSpec

(* A call that returns returned its result. *)
LEMMA Returned ==
  ASSUME NEW x, NEW terms, DsaReturn(x, terms), dsaOp' = "ready"
  PROVE  dsaX' = x
BY DEF DsaReturn

(* Every operation that returns has computed in the integers modulo q, whatever
   its operands: montgomery_reduce is exact and reduce32 and caddq move by
   multiples of q (montgomery_reduce, reduce32_portable and their callers). *)
THEOREM ComputesModQ ==
  ASSUME DsaAssumption
  PROVE  DsaSpec => DsaComputesModQ
<1> DEFINE Computes ==
      dsaOp # "ready" /\ dsaOp' = "ready" =>
       \/ dsaOp = "pointwise" /\ (dsaX' * DsaW) % DsaQ = (dsaX * dsaY) % DsaQ
       \/ dsaOp = "accumulate" /\ ((dsaX' - dsaX) * DsaW) % DsaQ = (dsaY * dsaZ) % DsaQ
       \/ dsaOp = "add" /\ dsaX' % DsaQ = (dsaX + dsaY) % DsaQ
       \/ dsaOp = "sub" /\ dsaX' % DsaQ = (dsaX - dsaY) % DsaQ
       \/ dsaOp \in {"reduce32", "caddq"} /\ dsaX' % DsaQ = dsaX % DsaQ
<1>1. DsaIInv /\ [DsaNext]_dsaVars => [Computes]_dsaVars
  <2> SUFFICES ASSUME DsaIInv, DsaNext, dsaOp # "ready", dsaOp' = "ready"
               PROVE  Computes
    OBVIOUS
  <2>1. /\ DsaQ \in Nat /\ DsaQ > 0 /\ Half \in Nat /\ DsaW \in Nat
    BY DsaConstants
  <2>2. /\ dsaX \in Word32 /\ dsaY \in DsaOperands /\ dsaZ \in DsaOperands
    BY DEF DsaIInv, DsaTypeOK
  <2>3. /\ dsaY \in Int /\ -DsaQ < dsaY /\ dsaY < DsaQ /\ dsaY \in Word32
        /\ dsaZ \in Int /\ -DsaQ < dsaZ /\ dsaZ < DsaQ /\ dsaZ \in Word32
    BY <2>2, OperandBound
  <2>4. dsaX \in Int
    BY <2>1, <2>2 DEF Word32
  <2>5. ~ DsaCall
    BY DEF DsaCall
  <2>6. \A z \in Int, v \in Int, k \in Int : z = v + k * DsaQ => z % DsaQ = v % DsaQ
    BY <2>1, SameRemainder
  <2>7. CASE PointwiseMont
    <3> DEFINE z == MontgomeryReduce(dsaX * dsaY)
    <3>1. z \in Int /\ \E k \in Int : z * DsaW = dsaX * dsaY - k * DsaQ
      <4>1. /\ z \in (-(DsaQ - 1))..(DsaQ - 1)
            /\ \E k \in Int : z * DsaW = dsaX * dsaY - k * DsaQ
        BY <2>2, <2>3, MontgomeryBounded
      <4> HIDE DEF z
      <4>2. z \in Int
        BY <2>1, <4>1
      <4> QED
        BY <4>1, <4>2, Zenon
    <3>2. dsaX' = z /\ dsaOp = "pointwise"
      BY <2>7, Returned DEF PointwiseMont
    <3> HIDE DEF z
    <3>3. PICK k \in Int : z * DsaW = dsaX * dsaY - k * DsaQ
      BY <3>1
    <3>4. /\ -k \in Int /\ z * DsaW \in Int /\ dsaX * dsaY \in Int
          /\ z * DsaW = dsaX * dsaY + (-k) * DsaQ
      BY <2>1, <2>3, <2>4, <3>1, <3>3, SMTT(30)
    <3>5. (z * DsaW) % DsaQ = (dsaX * dsaY) % DsaQ
      BY <2>6, <3>4, Zenon
    <3> QED
      BY <3>2, <3>5, Zenon
  <2>8. CASE PointwiseAccMont
    <3> DEFINE z == MontgomeryReduce(dsaY * dsaZ)
    <3>1. z \in Int /\ \E k \in Int : z * DsaW = dsaY * dsaZ - k * DsaQ
      <4>1. /\ z \in (-(DsaQ - 1))..(DsaQ - 1)
            /\ \E k \in Int : z * DsaW = dsaY * dsaZ - k * DsaQ
        BY <2>3, MontgomeryBounded
      <4> HIDE DEF z
      <4>2. z \in Int
        BY <2>1, <4>1
      <4> QED
        BY <4>1, <4>2, Zenon
    <3>2. dsaX' = dsaX + z /\ dsaOp = "accumulate"
      BY <2>8, Returned DEF PointwiseAccMont
    <3> HIDE DEF z
    <3>3. PICK k \in Int : z * DsaW = dsaY * dsaZ - k * DsaQ
      BY <3>1
    <3>4. /\ -k \in Int /\ z * DsaW \in Int /\ dsaY * dsaZ \in Int
          /\ z * DsaW = dsaY * dsaZ + (-k) * DsaQ
      BY <2>1, <2>3, <2>4, <3>1, <3>3, SMTT(30)
    <3>5. (z * DsaW) % DsaQ = (dsaY * dsaZ) % DsaQ
      BY <2>6, <3>4, Zenon
    <3>6. dsaX' - dsaX = z
      BY <2>4, <3>1, <3>2
    <3> QED
      BY <3>2, <3>5, <3>6, Zenon
  <2>9. CASE DsaAdd
    <3>1. dsaX' = dsaX + dsaY /\ dsaOp = "add"
      BY <2>9, Returned DEF DsaAdd
    <3> QED
      BY <3>1, Zenon
  <2>10. CASE DsaSub
    <3>1. dsaX' = dsaX - dsaY /\ dsaOp = "sub"
      BY <2>10, Returned DEF DsaSub
    <3> QED
      BY <3>1, Zenon
  <2>11. CASE Reduce32
    <3>1. dsaOp = "reduce32"
      BY <2>11 DEF Reduce32
    <3>2. dsaX + DsaH \in Word32
      <4>1. CASE dsaX + DsaH \notin Word32
        <5>1. DsaReturn(dsaX + DsaH, 1)
          BY <2>11, <4>1 DEF Reduce32
        <5> QED
          BY <4>1, <5>1 DEF DsaReturn
      <4> QED
        BY <4>1
    <3>3. DsaReturn(Reduced32(dsaX), 1)
      BY <2>11, <3>2 DEF Reduce32
    <3>4. dsaX' = Reduced32(dsaX)
      BY <3>3, Returned
    <3>5. PICK k \in Int : Reduced32(dsaX) = dsaX - k * DsaQ
      BY <2>2, <3>2, Reduced32Bounded
    <3> HIDE DEF Reduced32
    <3>6. /\ -k \in Int /\ Reduced32(dsaX) \in Int
          /\ Reduced32(dsaX) = dsaX + (-k) * DsaQ
      BY <2>1, <2>4, <3>5, SMTT(30)
    <3>7. Reduced32(dsaX) % DsaQ = dsaX % DsaQ
      BY <2>4, <2>6, <3>6, Zenon
    <3> QED
      BY <3>1, <3>4, <3>7, Zenon
  <2>12. CASE Caddq
    <3>1. dsaOp = "caddq" /\ dsaX' = (IF dsaX < 0 THEN dsaX + DsaQ ELSE dsaX)
      BY <2>12, Returned DEF Caddq
    <3>2. dsaX + DsaQ = dsaX + 1 * DsaQ /\ dsaX + DsaQ \in Int /\ 1 \in Int
      BY <2>1, <2>4
    <3>3. (dsaX + DsaQ) % DsaQ = dsaX % DsaQ
      BY <2>4, <2>6, <3>2, Zenon
    <3>4. dsaX' % DsaQ = dsaX % DsaQ
      BY <3>1, <3>3, Zenon
    <3> QED
      BY <3>1, <3>4, Zenon
  <2> QED
    BY <2>5, <2>7, <2>8, <2>9, <2>10, <2>11, <2>12 DEF DsaNext
<1>2. DsaSpec => []DsaIInv
  BY DsaInvariant
<1> QED
  BY <1>1, <1>2, PTL DEF DsaSpec, DsaComputesModQ
-------------------------------------------------------------------------------
(* ML-KEM *)

(* Twiddles are numbers, and numbers are all the reductions ask of them. *)
LEMMA TwiddlesAreNumbers ==
  /\ \A k \in 1..128 : ZETAS_ASM[k] \in Int
  /\ \A k \in 1..64 : ZETAS_BASEMUL[k] \in Int
<1>1. ASSUME NEW k \in 1..128 PROVE ZETAS_ASM[k] \in Int
  BY SMTT(60) DEF ZETAS_ASM
<1>2. ASSUME NEW k \in 1..64 PROVE ZETAS_BASEMUL[k] \in Int
  BY SMTT(60) DEF ZETAS_BASEMUL
<1> QED
  BY <1>1, <1>2, Zenon

LEMMA Symmetric ==
  ASSUME NEW h \in Int, NEW v \in Int
  PROVE  v \in (-h)..(h - 1) <=> -h <= v /\ v < h
OBVIOUS

LEMMA WordRange ==
  ASSUME NEW v \in Int
  PROVE  v \in Int16 <=> -32768 <= v /\ v <= 32767
<1>1. HalfWord \in Int
  BY DEF HalfWord
<1>2. v \in Int16 <=> -HalfWord <= v /\ v < HalfWord
  BY <1>1, Symmetric DEF Int16
<1>3. HalfWord = 32768
  BY DEF HalfWord
<1> QED
  BY <1>2, <1>3

LEMMA WrapRange ==
  ASSUME NEW x \in Int
  PROVE  /\ Wrap(x) \in Int /\ Wrap(x) \in Int16
         /\ x \in Int16 => Wrap(x) = x
<1> DEFINE r == (x + 32768) % 65536
<1>1. r \in Int /\ 0 <= r /\ r <= 65535 /\ (x + 32768 >= 0 /\ x + 32768 <= 65535 => r = x + 32768)
  OBVIOUS
<1>2. Wrap(x) = r - 32768
  BY DEF Wrap
<1> HIDE DEF r
<1>3. Wrap(x) \in Int /\ -32768 <= Wrap(x) /\ Wrap(x) <= 32767
  BY <1>1, <1>2
<1>4. x \in Int16 => Wrap(x) = x
  BY <1>1, <1>2, WordRange
<1> QED
  BY <1>3, <1>4, WordRange

Rounded(middle) == (middle * KYBER_Q + 26632) \div 65536

(* Half of q, on either side of 0. *)
Halved(x) == x \in Int /\ -1665 <= x /\ x <= 1665

LEMMA PlantardRange ==
  ASSUME NEW middle \in Int, middle \in Int16
  PROVE  Halved(Rounded(middle))
<1>1. -32768 <= middle /\ middle <= 32767
  BY WordRange
<1> QED
  BY <1>1, SMTT(30) DEF KYBER_Q, Rounded, Halved

LEMMA PlantMulRange ==
  ASSUME NEW x \in Int, NEW tt \in Int
  PROVE  Halved(PlantMul(x, tt))
<1> DEFINE whole == (tt \div 65536) * x + ((tt % 65536) * x) \div 65536
<1>1. tt \div 65536 \in Int /\ tt % 65536 \in Int
  OBVIOUS
<1>2. (tt \div 65536) * x \in Int /\ (tt % 65536) * x \in Int
  BY <1>1, SMTT(30)
<1>3. ((tt % 65536) * x) \div 65536 \in Int
  BY <1>2, Division
<1>4. whole \in Int
  BY <1>2, <1>3
<1>5. PlantMul(x, tt) = Rounded(Wrap(whole))
  BY DEF PlantMul, Rounded
<1> HIDE DEF whole
<1> QED
  <2>1. Wrap(whole) \in Int /\ Wrap(whole) \in Int16
    BY <1>4, WrapRange
  <2> QED
    BY <1>5, <2>1, PlantardRange

LEMMA PlantRedRange ==
  ASSUME NEW val \in Int
  PROVE  Halved(PlantRed(val))
<1>1. PlantHigh(val) \in Int /\ PlantHigh(val) \in Int16
  <2> DEFINE high == val \div 65536
             low == val % 65536
             carry == (low * 243 + (low \div 256)) \div 256
             whole == ((high * 62209) % 65536) + ((low * 27560) % 65536) + carry
  <2>1. whole \in Int
    OBVIOUS
  <2>2. PlantHigh(val) = Wrap(whole)
    BY DEF PlantHigh
  <2> HIDE DEF whole
  <2> QED
    BY <2>1, <2>2, WrapRange
<1> QED
  BY <1>1, PlantardRange DEF PlantRed, Rounded

(* Of a word, barrett_reduce makes a number in [0, q), if it does not overflow. *)
LEMMA BarrettRange ==
  ASSUME NEW x \in Int, x \in Int16
  PROVE  BarrettReduce(x) \in Int /\ 0 <= BarrettReduce(x) /\ BarrettReduce(x) < KYBER_Q
<1>1. -32768 <= x /\ x <= 32767
  BY WordRange
<1> QED
  BY <1>1, SMTT(30) DEF BarrettReduce, Quotient, KYBER_Q

(* The words it does not overflow for. *)
LEMMA BarrettFits ==
  ASSUME NEW x \in Int, -29960 <= x, x <= 32767
  PROVE  ~ Overflows(x)
<1>1. x \in Int16
  BY WordRange
<1>2. Quotient(x) * KYBER_Q \in Int /\ -32768 <= Quotient(x) * KYBER_Q
      /\ Quotient(x) * KYBER_Q <= 32767
  BY SMTT(30) DEF Quotient, KYBER_Q
<1>3. Quotient(x) * KYBER_Q \in Int16
  BY <1>2, WordRange
<1> QED
  BY <1>1, <1>3 DEF Overflows
-------------------------------------------------------------------------------
(* The forward transform and the operations on pairs. *)

Longer == {128, 64, 32, 16, 8, 4, 2}
Lengths == Longer \cup {1}

(* The bound of a coefficient before the layer of a length. *)
Grown(len) == 4095 + 1665 * (IF len = 128 THEN 0 ELSE IF len = 64 THEN 1
                             ELSE IF len = 32 THEN 2 ELSE IF len = 16 THEN 3
                             ELSE IF len = 8 THEN 4 ELSE IF len = 4 THEN 5
                             ELSE IF len = 2 THEN 6 ELSE 7)

Limit(j) == Grown(kemLen) + (IF j < kemStart THEN 1665 ELSE 0)

(* The block that comes is within the polynomial, and its twiddle within the
   table: blocks are counted through all layers. *)
Position == /\ kemLen \in Lengths
            /\ kemStart \in 0..(256 - 2 * kemLen)
            /\ kemK \in 0..127
            /\ (2 * kemLen) * kemK = 256 - 2 * kemLen + kemStart
            /\ kemLen = 1 => kemStart = 0

ForwardInv == /\ ~ kemLost
              /\ kemPoly \in [Index -> Int]
              /\ Position
              /\ \A j \in Index : -Limit(j) <= kemPoly[j] /\ kemPoly[j] <= Limit(j)

TransformedInv == /\ ~ kemLost
                  /\ kemPoly \in [Index -> Int]
                  /\ \A j \in Index : -15750 <= kemPoly[j] /\ kemPoly[j] <= 15750

(* Each product that was accumulated since the last reduction adds at most half
   of q to a coefficient. *)
PairInv == /\ kemPoly \in [Sides -> Int]
           /\ kemStart \in 0..127
           /\ kemTerms \in Nat
           /\ kemLost \in BOOLEAN
           /\ ~ kemLost => \A j \in Sides : /\ -1665 * (kemTerms + 1) <= kemPoly[j]
                                           /\ kemPoly[j] <= 4095 + 1665 * kemTerms
           /\ kemLost => kemTerms > 14

KemIInv == /\ kemJob \in {"forward", "transformed", "inverse", "back", "pair"}
           /\ kemJob = "forward" => ForwardInv
           /\ kemJob = "transformed" => TransformedInv
           /\ kemJob = "pair" => PairInv

(* A block follows a block, in this layer or the next. *)
LEMMA NextPosition ==
  ASSUME Position, kemLen >= 2, NextBlock(kemLen \div 2)
  PROVE  /\ Position'
         /\ \/ kemLen' = kemLen /\ kemStart' = kemStart + 2 * kemLen
            \/ kemLen' = kemLen \div 2 /\ kemStart' = 0 /\ kemStart + 2 * kemLen = 256
<1>1. kemK' = kemK + 1 /\ kemK \in 0..127 /\ kemStart \in 0..(256 - 2 * kemLen)
  BY DEF Position, NextBlock
<1>2. kemLen \in Longer
  BY DEF Position, Lengths, Longer
<1>3. CASE kemStart + 2 * kemLen < 256
  <2>1. kemLen' = kemLen /\ kemStart' = kemStart + 2 * kemLen
    BY <1>3 DEF NextBlock
  <2>2. ASSUME NEW len \in Longer, kemLen = len
        PROVE  /\ kemStart + 2 * len \in 0..(256 - 2 * len)
               /\ kemK + 1 \in 0..127
               /\ (2 * len) * (kemK + 1) = 256 - 2 * len + (kemStart + 2 * len)
    BY <1>1, <1>3, <2>2, SMTT(30) DEF Position, Longer
  <2>3. /\ kemStart + 2 * kemLen \in 0..(256 - 2 * kemLen)
        /\ kemK + 1 \in 0..127
        /\ (2 * kemLen) * (kemK + 1) = 256 - 2 * kemLen + (kemStart + 2 * kemLen)
    BY <1>2, <2>2, Zenon
  <2>4. Position'
    BY <1>1, <1>2, <2>1, <2>3 DEF Position, Lengths, Longer
  <2> QED
    BY <2>1, <2>4
<1>4. CASE ~ (kemStart + 2 * kemLen < 256)
  <2>1. kemLen' = kemLen \div 2 /\ kemStart' = 0
    BY <1>4 DEF NextBlock
  <2>2. ASSUME NEW len \in Longer, kemLen = len
        PROVE  /\ kemStart + 2 * len = 256
               /\ len \div 2 \in Lengths /\ 0 \in 0..(256 - 2 * (len \div 2))
               /\ kemK + 1 \in 0..127
               /\ (2 * (len \div 2)) * (kemK + 1) = 256 - 2 * (len \div 2) + 0
    BY <1>1, <1>4, <2>2, SMTT(30) DEF Position, Lengths, Longer
  <2>3. /\ kemStart + 2 * kemLen = 256
        /\ kemLen \div 2 \in Lengths /\ 0 \in 0..(256 - 2 * (kemLen \div 2))
        /\ kemK + 1 \in 0..127
        /\ (2 * (kemLen \div 2)) * (kemK + 1) = 256 - 2 * (kemLen \div 2) + 0
    BY <1>2, <2>2, Zenon
  <2>4. Position'
    BY <1>1, <2>1, <2>3 DEF Position
  <2> QED
    BY <2>1, <2>3, <2>4
<1> QED
  BY <1>3, <1>4

LEMMA GrownStep ==
  ASSUME NEW len \in Longer
  PROVE  /\ Grown(len) \in Int /\ 4095 <= Grown(len) /\ Grown(len) <= 14085
         /\ Grown(len \div 2) = Grown(len) + 1665
BY SMTT(30) DEF Longer, Grown

(* A block of the forward transform: no sum and no difference wraps, and a
   coefficient that was touched grew by half of q at most. *)
LEMMA ForwardStep ==
  ASSUME ForwardInv, ForwardBlock
  PROVE  ForwardInv'
<1>1. /\ kemLen \in Longer /\ kemStart \in 0..(256 - 2 * kemLen) /\ kemLen \in Nat
      /\ kemK \in 0..127 /\ kemPoly \in [Index -> Int] /\ Position
  BY DEF ForwardInv, ForwardBlock, Position, Lengths, Longer
<1>2. kemK + 1 \in 1..128
  BY <1>1
<1>3. ZETAS_ASM[kemK + 1] \in Int
  BY <1>2, TwiddlesAreNumbers, Zenon
<1> DEFINE g == Grown(kemLen)
<1>4. g \in Int /\ 4095 <= g /\ g <= 14085 /\ Grown(kemLen \div 2) = g + 1665
  BY <1>1, GrownStep
<1>15. \A j : Limit(j) = g + (IF j < kemStart THEN 1665 ELSE 0)
  BY Zenon DEF Limit
<1> HIDE DEF g
<1>5. /\ Position'
      /\ \/ kemLen' = kemLen /\ kemStart' = kemStart + 2 * kemLen
         \/ kemLen' = kemLen \div 2 /\ kemStart' = 0 /\ kemStart + 2 * kemLen = 256
  BY <1>1, NextPosition DEF ForwardBlock
<1> DEFINE tt == ZETAS_ASM[kemK + 1]
           f == [j \in Index |->
                  IF j \in Lower THEN kemPoly[j] + PlantMul(kemPoly[j + kemLen], tt)
                  ELSE IF j \in Upper THEN kemPoly[j - kemLen] - PlantMul(kemPoly[j], tt)
                  ELSE kemPoly[j]]
           touched(j) == j < kemStart + 2 * kemLen
           bound(j) == g + (IF touched(j) THEN 1665 ELSE 0)
<1>6. Writes(f)
  BY DEF ForwardBlock
<1>7. ASSUME NEW j \in Index
      PROVE  f[j] \in Int /\ -bound(j) <= f[j] /\ f[j] <= bound(j)
  <2>1. \A m \in Index : /\ kemPoly[m] \in Int
                         /\ -Limit(m) <= kemPoly[m] /\ kemPoly[m] <= Limit(m)
    BY DEF ForwardInv
  <2>2. j \in Int /\ 0 <= j /\ j <= 255
    BY DEF Index
  <2>3. CASE j \in Lower
    <3>1. j + kemLen \in Index /\ kemStart <= j /\ j < kemStart + 2 * kemLen
      BY <1>1, <2>2, <2>3 DEF Lower, Index
    <3> DEFINE d == PlantMul(kemPoly[j + kemLen], tt)
    <3>2. Halved(d)
      BY <1>3, <2>1, <3>1, PlantMulRange
    <3>3. f[j] = kemPoly[j] + d
      BY <2>3
    <3>4. Limit(j) = g
      BY <1>1, <1>4, <1>15, <2>2, <3>1
    <3>5. kemPoly[j] \in Int /\ -g <= kemPoly[j] /\ kemPoly[j] <= g
      BY <2>1, <3>4
    <3>6. bound(j) = g + 1665
      BY <3>1
    <3> HIDE DEF f, bound, d
    <3> QED
      BY <1>4, <3>2, <3>3, <3>5, <3>6 DEF Halved
  <2>4. CASE j \notin Lower /\ j \in Upper
    <3>1. j - kemLen \in Index /\ kemStart <= j - kemLen /\ j < kemStart + 2 * kemLen
      BY <1>1, <2>2, <2>4 DEF Upper, Index
    <3> DEFINE d == PlantMul(kemPoly[j], tt)
    <3>2. Halved(d)
      BY <1>3, <2>1, PlantMulRange
    <3>3. f[j] = kemPoly[j - kemLen] - d
      BY <2>4
    <3>4. Limit(j - kemLen) = g
      BY <1>1, <1>4, <1>15, <2>2, <3>1
    <3>5. /\ kemPoly[j - kemLen] \in Int /\ -g <= kemPoly[j - kemLen]
          /\ kemPoly[j - kemLen] <= g
      BY <2>1, <3>1, <3>4
    <3>6. bound(j) = g + 1665
      BY <3>1
    <3> HIDE DEF f, bound, d
    <3> QED
      BY <1>4, <3>2, <3>3, <3>5, <3>6 DEF Halved
  <2>5. CASE j \notin Lower /\ j \notin Upper
    <3>1. f[j] = kemPoly[j]
      BY <2>5
    <3>2. /\ kemPoly[j] \in Int
          /\ -Limit(j) <= kemPoly[j] /\ kemPoly[j] <= Limit(j)
      BY <2>1
    <3>3. bound(j) \in Int /\ Limit(j) \in Int /\ Limit(j) <= bound(j)
      BY <1>1, <1>4, <1>15, <2>2
    <3> HIDE DEF f, bound
    <3> QED
      BY <3>1, <3>2, <3>3
  <2> QED
    BY <2>3, <2>4, <2>5
<1>8. ASSUME NEW j \in Index PROVE f[j] \in Int16 /\ bound(j) \in Int
  <2>1. bound(j) \in Int /\ bound(j) <= 15750
    BY <1>4
  <2> DEFINE v == f[j]
             l == bound(j)
  <2>2. v \in Int /\ -l <= v /\ v <= l
    BY <1>7
  <2>3. l \in Int /\ l <= 15750
    BY <2>1
  <2> HIDE DEF v, l
  <2>4. v \in Int16
    BY <2>2, <2>3, WordRange
  <2> QED
    BY <2>1, <2>4 DEF v
<1>9. DOMAIN f = Index
  OBVIOUS
<1> HIDE DEF f
<1>10. kemPoly' = [j \in Index |-> Wrap(f[j])]
  BY <1>6, <1>9 DEF Writes
<1>11. ~ kemLost'
  <2>1. ~ kemLost
    BY DEF ForwardInv
  <2>2. kemLost' = (kemLost \/ \E j \in Index : f[j] \notin Int16)
    BY <1>6, <1>9, Zenon DEF Writes
  <2> QED
    BY <1>8, <2>1, <2>2, Zenon
<1>12. ASSUME NEW j \in Index PROVE kemPoly'[j] = f[j] /\ f[j] \in Int
  <2>1. kemPoly'[j] = Wrap(f[j])
    BY <1>10
  <2> QED
    BY <1>7, <1>8, <2>1, WrapRange
<1>13. kemPoly' \in [Index -> Int]
  <2>1. \A j \in Index : Wrap(f[j]) \in Int
    BY <1>10, <1>12
  <2> QED
    BY <1>10, <2>1
<1>14. ASSUME NEW j \in Index
       PROVE  /\ -(Limit(j)') <= kemPoly'[j] /\ kemPoly'[j] <= Limit(j)'
  <2>1. f[j] \in Int /\ -bound(j) <= f[j] /\ f[j] <= bound(j) /\ kemPoly'[j] = f[j]
    BY <1>7, <1>12
  <2>2. Limit(j)' = Grown(kemLen') + (IF j < kemStart' THEN 1665 ELSE 0)
    BY DEF Limit, Grown
  <2>3. Limit(j)' = bound(j)
    <3>1. CASE kemLen' = kemLen /\ kemStart' = kemStart + 2 * kemLen
      BY <2>2, <3>1 DEF g
    <3>2. CASE /\ kemLen' = kemLen \div 2 /\ kemStart' = 0
               /\ kemStart + 2 * kemLen = 256
      <4>1. j \in Int /\ 0 <= j /\ j < 256
        BY DEF Index
      <4>2. Limit(j)' = Grown(kemLen \div 2)
        BY <1>4, <2>2, <3>2, <4>1
      <4>3. bound(j) = g + 1665
        BY <3>2, <4>1
      <4> QED
        BY <1>4, <4>2, <4>3
    <3> QED
      BY <1>5, <3>1, <3>2
  <2> QED
    BY <2>1, <2>3
<1> QED
  BY <1>5, <1>11, <1>13, <1>14 DEF ForwardInv, Index

(* The client's coefficients. *)
LEMMA ClientPair ==
  ASSUME KemAssumption, NEW l \in KemPairs, NEW j \in Sides
  PROVE  l[j] \in Int /\ -1665 <= l[j] /\ l[j] <= 4095
<1> DEFINE v == l[j]
<1>1. v \in (-HalfOfQ)..LastTwelve
  BY DEF KemAssumption, Coefficients
<1>2. HalfOfQ = 1665 /\ LastTwelve = 4095
  BY DEF HalfOfQ, LastTwelve
<1> HIDE DEF v
<1>3. HalfOfQ \in Int /\ LastTwelve \in Int
  BY <1>2
<1>4. v \in Int /\ -HalfOfQ <= v /\ v <= LastTwelve
  BY <1>1, <1>3
<1> QED
  BY <1>2, <1>4 DEF v

LEMMA ZetaIsNumber ==
  ASSUME kemStart \in 0..127
  PROVE  Zeta(kemStart) \in Int
<1>1. kemStart \div 2 + 1 \in 1..64
  OBVIOUS
<1>2. ZETAS_BASEMUL[kemStart \div 2 + 1] \in Int
  BY <1>1, TwiddlesAreNumbers, Zenon
<1> DEFINE zeta == ZETAS_BASEMUL[kemStart \div 2 + 1]
<1>3. Zeta(kemStart) = IF kemStart % 2 = 0 THEN zeta ELSE -zeta
  BY DEF Zeta
<1>4. zeta \in Int
  BY <1>2
<1> HIDE DEF zeta
<1> QED
  BY <1>3, <1>4

(* Both coefficients of a product are reduced, whatever the factors. *)
LEMMA BasemulRange ==
  ASSUME kemStart \in 0..127, NEW e \in [Sides -> Int], NEW l \in [Sides -> Int]
  PROVE  /\ DOMAIN Basemul(e, l) = Sides
         /\ \A j \in Sides : Halved(Basemul(e, l)[j])
<1>1. e[0] \in Int /\ e[1] \in Int /\ l[0] \in Int /\ l[1] \in Int
  BY DEF Sides
<1> DEFINE m == PlantMul(l[1], Zeta(kemStart))
<1>2. m \in Int
  <2>1. Zeta(kemStart) \in Int
    BY ZetaIsNumber
  <2>2. Halved(m)
    BY <1>1, <2>1, PlantMulRange
  <2> HIDE DEF m
  <2> QED
    BY <2>2 DEF Halved
<1> HIDE DEF m
<1>3. e[0] * l[0] + e[1] * m \in Int /\ e[0] * l[1] + e[1] * l[0] \in Int
  BY <1>1, <1>2, SMTT(30)
<1>4. /\ Halved(PlantRed(e[0] * l[0] + e[1] * m))
      /\ Halved(PlantRed(e[0] * l[1] + e[1] * l[0]))
  BY <1>3, PlantRedRange
<1>5. Basemul(e, l) = [j \in Sides |-> IF j = 0 THEN PlantRed(e[0] * l[0] + e[1] * m)
                                      ELSE PlantRed(e[0] * l[1] + e[1] * l[0])]
  BY DEF Basemul, Pair, m
<1> QED
  BY <1>4, <1>5, Zenon

(* What a product adds to the pair of the client. *)
LEMMA AccumulateStep ==
  ASSUME KemAssumption, PairInv, NEW e \in KemPairs, NEW l \in KemPairs,
         AccumulatePair(e, l)
  PROVE  PairInv'
<1> DEFINE product == Basemul(e, l)
           f == [j \in Sides |-> kemPoly[j] + product[j]]
<1>1. e \in [Sides -> Int] /\ l \in [Sides -> Int]
  <2>1. e \in [Sides -> Coefficients] /\ l \in [Sides -> Coefficients]
    BY DEF KemAssumption
  <2>2. \A j \in Sides : e[j] \in Int /\ l[j] \in Int
    BY ClientPair
  <2> QED
    BY <2>1, <2>2
<1>2. ASSUME NEW j \in Sides PROVE Halved(product[j])
  BY <1>1, BasemulRange DEF PairInv
<1>3. /\ ~ kemLost /\ kemTerms \in Nat /\ kemTerms' = kemTerms + 1 /\ UNCHANGED kemStart
      /\ kemPoly \in [Sides -> Int]
  BY DEF AccumulatePair, PairInv
<1>4. Writes(f)
  BY DEF AccumulatePair
<1>5. DOMAIN f = Sides
  OBVIOUS
<1>6. ASSUME NEW j \in Sides
      PROVE  /\ f[j] \in Int
             /\ -1665 * (kemTerms' + 1) <= f[j] /\ f[j] <= 4095 + 1665 * kemTerms'
  <2>1. /\ kemPoly[j] \in Int
        /\ -1665 * (kemTerms + 1) <= kemPoly[j] /\ kemPoly[j] <= 4095 + 1665 * kemTerms
    BY <1>3 DEF PairInv
  <2> DEFINE d == product[j]
  <2>2. Halved(d) /\ f[j] = kemPoly[j] + d
    BY <1>2
  <2> HIDE DEF d, f
  <2> QED
    BY <1>3, <2>1, <2>2 DEF Halved
<1> HIDE DEF f
<1>7. kemPoly' = [j \in Sides |-> Wrap(f[j])]
  BY <1>4, <1>5 DEF Writes
<1>8. kemLost' = (\E j \in Sides : f[j] \notin Int16)
  BY <1>3, <1>4, <1>5, Zenon DEF Writes
<1>9. ASSUME NEW j \in Sides PROVE Wrap(f[j]) \in Int /\ (f[j] \in Int16 => Wrap(f[j]) = f[j])
  BY <1>6, WrapRange
<1>10. kemPoly' \in [Sides -> Int]
  BY <1>7, <1>9
<1>11. ~ kemLost' => \A j \in Sides : kemPoly'[j] = f[j]
  BY <1>7, <1>8, <1>9
<1>12. kemLost' => kemTerms' > 14
  <2>1. ASSUME kemTerms' <= 14, NEW j \in Sides PROVE f[j] \in Int16
    <3>1. f[j] \in Int /\ -32768 <= f[j] /\ f[j] <= 32767
      BY <1>3, <1>6, <2>1
    <3> QED
      BY <3>1, WordRange
  <2>2. kemTerms' <= 14 => ~ kemLost'
    BY <1>8, <2>1, Zenon
  <2> QED
    BY <1>3, <2>2
<1>13. kemLost' \in BOOLEAN
  BY <1>8, Zenon
<1> QED
  BY <1>3, <1>6, <1>10, <1>11, <1>12, <1>13 DEF PairInv

(* An operation that reduces is lost only when it overflows. *)
LEMMA LostByOverflow ==
  ASSUME NEW f, NEW val, Reduces(f, val)
  PROVE  kemLost' \in BOOLEAN /\ ((\A j \in Sides : ~ Overflows(f[j])) => ~ kemLost')
<1>1. kemLost' = (\E j \in Sides : Overflows(f[j]))
  BY Zenon DEF Reduces
<1> QED
  BY <1>1, Zenon

(* What an operation that reduces does to a pair. *)
LEMMA ReducesEffect ==
  ASSUME PairInv, NEW f, NEW val, Reduces(f, val)
  PROVE  /\ ~ kemLost /\ kemTerms \in Nat /\ kemPoly \in [Sides -> Int]
         /\ kemStart' = kemStart /\ kemStart \in 0..127
         /\ kemPoly' = [j \in Sides |-> BarrettReduce(Wrap(f[j]))]
         /\ kemTerms' = IF kemLost' THEN kemTerms ELSE 0
<1>1. kemTerms \in Nat /\ kemPoly \in [Sides -> Int] /\ kemStart \in 0..127
  BY DEF PairInv
<1>2. /\ ~ kemLost /\ kemStart' = kemStart
      /\ kemPoly' = [j \in Sides |-> BarrettReduce(Wrap(f[j]))]
      /\ kemTerms' = IF kemLost' THEN kemTerms ELSE 0
  BY Zenon DEF Reduces
<1> QED
  BY <1>1, <1>2

(* A sum, a difference or nothing, and its Barrett reduction. *)
LEMMA ReducesStep ==
  ASSUME PairInv, NEW f \in [Sides -> Int], NEW val, Reduces(f, val),
         \A j \in Sides : kemPoly[j] - 4095 <= f[j] /\ f[j] <= kemPoly[j] + 4095
  PROVE  PairInv'
<1>1. /\ ~ kemLost /\ kemTerms \in Nat /\ kemPoly \in [Sides -> Int]
      /\ kemStart' = kemStart /\ kemStart \in 0..127
      /\ kemPoly' = [j \in Sides |-> BarrettReduce(Wrap(f[j]))]
      /\ kemTerms' = IF kemLost' THEN kemTerms ELSE 0
  BY ReducesEffect
<1>2. ASSUME NEW j \in Sides
      PROVE  LET r == BarrettReduce(Wrap(f[j])) IN r \in Int /\ 0 <= r /\ r < 3329
  <2>1. Wrap(f[j]) \in Int /\ Wrap(f[j]) \in Int16
    BY WrapRange
  <2>2. KYBER_Q = 3329
    BY DEF KYBER_Q
  <2> HIDE DEF Wrap
  <2> QED
    BY <2>1, <2>2, BarrettRange
<1>3. kemPoly' \in [Sides -> Int]
  BY <1>1, <1>2
<1>4. kemTerms' \in Nat
  BY <1>1
<1>5. ASSUME ~ kemLost', NEW j \in Sides
      PROVE  -1665 * (kemTerms' + 1) <= kemPoly'[j] /\ kemPoly'[j] <= 4095 + 1665 * kemTerms'
  <2> DEFINE r == BarrettReduce(Wrap(f[j]))
  <2>1. kemTerms' = 0 /\ kemPoly'[j] = r
    BY <1>1, <1>5
  <2>2. r \in Int /\ 0 <= r /\ r < 3329
    BY <1>2
  <2> HIDE DEF r
  <2> QED
    BY <2>1, <2>2
<1>6. ASSUME kemTerms <= 14 PROVE ~ kemLost'
  <2>1. ASSUME NEW j \in Sides PROVE ~ Overflows(f[j])
    <3>1. /\ kemPoly[j] \in Int /\ f[j] \in Int
          /\ -1665 * (kemTerms + 1) <= kemPoly[j] /\ kemPoly[j] <= 4095 + 1665 * kemTerms
      BY <1>1 DEF PairInv
    <3>2. -29960 <= f[j] /\ f[j] <= 32767
      BY <1>1, <1>6, <3>1
    <3> QED
      BY <3>1, <3>2, BarrettFits
  <2> QED
    BY <2>1, LostByOverflow
<1>7. kemLost' => kemTerms' > 14
  <2>1. kemTerms \in Nat /\ (kemLost' => kemTerms' = kemTerms)
    BY <1>1
  <2> QED
    BY <1>6, <2>1
<1>8. kemLost' \in BOOLEAN
  BY LostByOverflow
<1> QED
  BY <1>1, <1>3, <1>4, <1>5, <1>7, <1>8 DEF PairInv

(* Twelve bits of each coefficient come back. *)
LEMMA BytesRange ==
  ASSUME NEW x \in Int, NEW y \in Int
  PROVE  /\ DOMAIN Bytes(x, y) = Sides
         /\ \A j \in Sides : /\ Bytes(x, y)[j] \in Int
                             /\ 0 <= Bytes(x, y)[j] /\ Bytes(x, y)[j] <= 4095
<1> DEFINE c0 == x % 4096
           c1 == y % 4096
           b0 == c0 % 256
           b1 == c0 \div 256 + (c1 % 16) * 16
           b2 == c1 \div 16
           r0 == b0 + (b1 % 16) * 256
           r1 == b1 \div 16 + b2 * 16
<1>1. c0 \in Int /\ 0 <= c0 /\ c0 <= 4095 /\ c1 \in Int /\ 0 <= c1 /\ c1 <= 4095
  OBVIOUS
<1>2. Bytes(x, y) = [j \in Sides |-> IF j = 0 THEN r0 ELSE r1]
  BY DEF Bytes, Pair
<1> HIDE DEF c0, c1
<1>3. r0 \in Int /\ 0 <= r0 /\ r0 <= 4095 /\ r1 \in Int /\ 0 <= r1 /\ r1 <= 4095
  BY <1>1, SMTT(30)
<1> HIDE DEF r0, r1
<1> QED
  BY <1>2, <1>3

LEMMA PairStep ==
  ASSUME KemAssumption, PairInv, PairNext
  PROVE  PairInv'
<1>1. kemPoly \in [Sides -> Int] /\ kemStart \in 0..127 /\ kemTerms \in Nat
  BY DEF PairInv
<1>2. ASSUME NEW l \in KemPairs PROVE l \in [Sides -> Int]
  <2>1. l \in [Sides -> Coefficients] /\ \A j \in Sides : l[j] \in Int
    BY ClientPair DEF KemAssumption
  <2> QED
    BY <2>1
<1>3. ASSUME NEW l \in KemPairs, BasemulPair(l) PROVE PairInv'
  <2>1. /\ kemPoly' = Basemul(kemPoly, l) /\ kemTerms' = 0
        /\ kemLost' = kemLost /\ ~ kemLost /\ kemStart' = kemStart
    BY <1>3, Zenon DEF BasemulPair
  <2> DEFINE r == Basemul(kemPoly, l)
  <2>2. r = [j \in Sides |-> r[j]]
    BY DEF Basemul, Pair
  <2>3. \A j \in Sides : Halved(r[j])
    BY <1>1, <1>2, BasemulRange
  <2> HIDE DEF r
  <2>4. \A j \in Sides : r[j] \in Int /\ -1665 <= r[j] /\ r[j] <= 1665
    BY <2>3 DEF Halved
  <2>5. r \in [Sides -> Int]
    BY <2>2, <2>4
  <2>6. kemPoly' = r
    BY <2>1 DEF r
  <2> QED
    BY <1>1, <2>1, <2>4, <2>5, <2>6 DEF PairInv
<1>4. ASSUME NEW l \in KemPairs, AddPair(l) PROVE PairInv'
  <2> DEFINE f == [j \in Sides |-> kemPoly[j] + l[j]]
             val == [j \in Sides |-> kemVal[j] + l[j]]
  <2>1. ASSUME NEW j \in Sides
        PROVE  f[j] \in Int /\ kemPoly[j] - 4095 <= f[j] /\ f[j] <= kemPoly[j] + 4095
    BY <1>1, ClientPair
  <2>2. f \in [Sides -> Int]
    BY <2>1
  <2>3. Reduces(f, val)
    BY <1>4 DEF AddPair
  <2> HIDE DEF f, val
  <2> QED
    BY <2>1, <2>2, <2>3, ReducesStep
<1>5. ASSUME NEW l \in KemPairs, SubPair(l) PROVE PairInv'
  <2> DEFINE f == [j \in Sides |-> kemPoly[j] - l[j]]
             val == [j \in Sides |-> kemVal[j] - l[j]]
  <2>1. ASSUME NEW j \in Sides
        PROVE  f[j] \in Int /\ kemPoly[j] - 4095 <= f[j] /\ f[j] <= kemPoly[j] + 4095
    BY <1>1, ClientPair
  <2>2. f \in [Sides -> Int]
    BY <2>1
  <2>3. Reduces(f, val)
    BY <1>5 DEF SubPair
  <2> HIDE DEF f, val
  <2> QED
    BY <2>1, <2>2, <2>3, ReducesStep
<1>6. ASSUME NEW ab \in KemProducts, AccumulatePair(ab[1], ab[2]) PROVE PairInv'
  <2>1. ab[1] \in KemPairs /\ ab[2] \in KemPairs
    BY DEF KemAssumption
  <2> QED
    BY <1>6, <2>1, AccumulateStep
<1>7. CASE ReducePair
  <2>1. Reduces(kemPoly, kemVal)
    BY <1>7 DEF ReducePair
  <2>2. \A j \in Sides : kemPoly[j] - 4095 <= kemPoly[j] /\ kemPoly[j] <= kemPoly[j] + 4095
    BY <1>1
  <2> QED
    BY <1>1, <2>1, <2>2, ReducesStep
<1>8. CASE BytesPair
  <2>1. /\ kemPoly' = Bytes(kemPoly[0], kemPoly[1]) /\ kemTerms' = 0
        /\ kemLost' = kemLost /\ ~ kemLost /\ kemStart' = kemStart
    BY <1>8, Zenon DEF BytesPair
  <2>2. kemPoly[0] \in Int /\ kemPoly[1] \in Int
    BY <1>1 DEF Sides
  <2> DEFINE r == Bytes(kemPoly[0], kemPoly[1])
  <2>3. r = [j \in Sides |-> r[j]]
    BY DEF Bytes, Pair
  <2>4. \A j \in Sides : r[j] \in Int /\ 0 <= r[j] /\ r[j] <= 4095
    <3> DEFINE x == kemPoly[0]
               y == kemPoly[1]
    <3>1. x \in Int /\ y \in Int
      BY <2>2
    <3>2. r = Bytes(x, y)
      OBVIOUS
    <3> HIDE DEF x, y, r
    <3> QED
      BY <3>1, <3>2, BytesRange
  <2> HIDE DEF r
  <2>5. r \in [Sides -> Int]
    BY <2>3, <2>4
  <2>6. kemPoly' = r
    BY <2>1 DEF r
  <2> QED
    BY <1>1, <2>1, <2>4, <2>5, <2>6 DEF PairInv
<1> QED
  BY <1>3, <1>4, <1>5, <1>6, <1>7, <1>8 DEF PairNext

LEMMA KemInitial ==
  ASSUME KemAssumption, KemInit
  PROVE  KemIInv
<1>1. CASE kemJob = "forward"
  <2>1. /\ kemPoly \in KemInputs /\ kemLen = 128 /\ kemStart = 0 /\ kemK = 0
        /\ kemLost = FALSE
    BY <1>1, Zenon DEF KemInit
  <2>2. Position
    BY <2>1 DEF Position, Lengths, Longer
  <2>3. LastTwelve = 4095
    BY SMT DEF LastTwelve
  <2>4. kemPoly \in [Index -> 0..LastTwelve]
    BY <2>1 DEF KemAssumption
  <2>5. ASSUME NEW j \in Index
        PROVE  kemPoly[j] \in Int /\ 0 <= kemPoly[j] /\ kemPoly[j] <= 4095
    <3> DEFINE v == kemPoly[j]
    <3>1. v \in 0..LastTwelve
      BY <2>4
    <3> HIDE DEF v
    <3>2. LastTwelve \in Int
      BY <2>3
    <3>3. v \in Int /\ 0 <= v /\ v <= LastTwelve
      BY <3>1, <3>2
    <3>4. v \in Int /\ 0 <= v /\ v <= 4095
      BY <2>3, <3>3
    <3> QED
      BY <3>4 DEF v
  <2>6. ASSUME NEW j \in Index PROVE Limit(j) = 4095
    BY <2>1 DEF Limit, Grown, Index
  <2>7. kemPoly \in [Index -> Int]
    BY <2>4, <2>5
  <2>8. ForwardInv
    BY <2>1, <2>2, <2>5, <2>6, <2>7 DEF ForwardInv
  <2> QED
    BY <1>1, <2>8 DEF KemIInv
<1>2. CASE kemJob = "pair"
  <2>1. kemPoly \in KemPairs /\ kemStart \in KemSlots /\ ~ kemLost /\ kemTerms = 0
        /\ kemLost \in BOOLEAN
    BY <1>2, Zenon DEF KemInit
  <2>2. ASSUME NEW j \in Sides
        PROVE  kemPoly[j] \in Int /\ -1665 <= kemPoly[j] /\ kemPoly[j] <= 4095
    BY <2>1, ClientPair
  <2>3. kemPoly \in [Sides -> Int]
    <3>1. kemPoly \in [Sides -> Coefficients]
      BY <2>1 DEF KemAssumption
    <3> QED
      BY <2>2, <3>1
  <2>4. kemStart \in 0..127
    BY <2>1 DEF KemAssumption
  <2>5. PairInv
    BY <2>1, <2>2, <2>3, <2>4 DEF PairInv
  <2> QED
    BY <1>2, <2>5 DEF KemIInv
<1> QED
  BY <1>1, <1>2 DEF KemInit

(* A transform that is done has grown by half of q in each of seven layers. *)
LEMMA ForwardDone ==
  ASSUME ForwardInv, kemLen < 2, ForwardReturn
  PROVE  TransformedInv'
<1>1. kemLen = 1 /\ kemStart = 0 /\ kemPoly' = kemPoly /\ kemLost' = kemLost
  BY DEF ForwardInv, Position, Lengths, Longer, ForwardReturn
<1>2. ASSUME NEW j \in Index PROVE Limit(j) = 15750
  BY <1>1 DEF Limit, Grown, Index
<1>3. \A j \in Index : kemPoly[j] \in Int /\ -15750 <= kemPoly[j] /\ kemPoly[j] <= 15750
  BY <1>2 DEF ForwardInv
<1>4. kemPoly \in [Index -> Int] /\ ~ kemLost
  BY DEF ForwardInv
<1> QED
  BY <1>1, <1>3, <1>4 DEF TransformedInv

LEMMA KemStep ==
  ASSUME KemAssumption, KemIInv, [KemNext]_kemVars
  PROVE  KemIInv'
<1>1. CASE ForwardBlock
  <2>1. kemJob = "forward" /\ kemJob' = "forward"
    BY <1>1 DEF ForwardBlock
  <2>2. ForwardInv'
    BY <1>1, <2>1, ForwardStep DEF KemIInv
  <2> QED
    BY <2>1, <2>2 DEF KemIInv
<1>2. CASE ForwardReturn
  <2>1. kemJob = "forward" /\ kemLen < 2 /\ kemJob' = "transformed"
    BY <1>2 DEF ForwardReturn
  <2>2. TransformedInv'
    BY <1>2, <2>1, ForwardDone DEF KemIInv
  <2> QED
    BY <2>1, <2>2 DEF KemIInv
<1>3. CASE InverseCall \/ InverseBlock
  <2>1. kemJob' = "inverse"
    BY <1>3 DEF InverseCall, InverseBlock
  <2> QED
    BY <2>1 DEF KemIInv
<1>4. CASE InverseReturn
  <2>1. kemJob' = "back"
    BY <1>4 DEF InverseReturn
  <2> QED
    BY <2>1 DEF KemIInv
<1>5. CASE kemJob = "pair" /\ PairNext
  <2>1. kemJob' = "pair"
    BY <1>5 DEF PairNext, BasemulPair, AddPair, SubPair, ReducePair, Reduces, AccumulatePair,
                BytesPair
  <2>2. PairInv'
    BY <1>5, PairStep DEF KemIInv
  <2> QED
    BY <2>1, <2>2 DEF KemIInv
<1>6. CASE UNCHANGED kemVars
  <2>1. /\ kemJob' = kemJob /\ kemPoly' = kemPoly /\ kemLen' = kemLen /\ kemStart' = kemStart
        /\ kemK' = kemK /\ kemTerms' = kemTerms /\ kemLost' = kemLost
    BY <1>6 DEF kemVars
  <2>2. ForwardInv => ForwardInv'
    <3>1. Position => Position'
      BY <2>1 DEF Position, Lengths, Longer
    <3>2. \A j : Limit(j)' = Limit(j)
      <4>1. \A j : Limit(j)' = Grown(kemLen') + (IF j < kemStart' THEN 1665 ELSE 0)
        BY DEF Limit, Grown
      <4>2. \A j : Limit(j) = Grown(kemLen) + (IF j < kemStart THEN 1665 ELSE 0)
        BY Zenon DEF Limit
      <4> QED
        BY <2>1, <4>1, <4>2
    <3> QED
      BY <2>1, <3>1, <3>2, Zenon DEF ForwardInv, Index
  <2>3. TransformedInv => TransformedInv'
    BY <2>1 DEF TransformedInv
  <2>4. PairInv => PairInv'
    BY <2>1 DEF PairInv, Sides
  <2> QED
    BY <2>1, <2>2, <2>3, <2>4 DEF KemIInv
<1> QED
  BY <1>1, <1>2, <1>3, <1>4, <1>5, <1>6 DEF KemNext

(* No addition of the forward transform wraps, whatever twelve-bit coefficients
   it is given, and no sum, difference or reduction of a pair overflows before
   fifteen products were accumulated on it (portable_ntt, basemul_acc, add, sub). *)
THEOREM KemFits ==
  ASSUME KemAssumption
  PROVE  KemSpec => []CoefficientsFit
<1>1. KemInit => KemIInv
  BY KemInitial
<1>2. KemIInv /\ [KemNext]_kemVars => KemIInv'
  BY KemStep
<1>3. KemIInv => CoefficientsFit
  <2> SUFFICES ASSUME KemIInv PROVE CoefficientsFit
    OBVIOUS
  <2>1. CASE kemJob = "forward"
    <3>1. ForwardInv
      BY <2>1 DEF KemIInv
    <3>2. ASSUME NEW j \in Index
          PROVE  Limit(j) \in Int /\ Limit(j) <= 15750
      <4>1. CASE kemLen = 1
        <5>1. kemStart = 0
          BY <3>1, <4>1 DEF ForwardInv, Position
        <5> QED
          BY <4>1, <5>1 DEF Limit, Grown, Index
      <4>2. CASE kemLen # 1
        <5>1. kemLen \in Longer
          BY <3>1, <4>2 DEF ForwardInv, Position, Lengths
        <5> DEFINE g == Grown(kemLen)
        <5>2. g \in Int /\ g <= 14085
          BY <5>1, GrownStep
        <5>3. Limit(j) = g + (IF j < kemStart THEN 1665 ELSE 0)
          BY Zenon DEF Limit
        <5> HIDE DEF g
        <5> QED
          BY <5>2, <5>3
      <4> QED
        BY <4>1, <4>2
    <3>3. ASSUME NEW j \in Index PROVE -15750 <= kemPoly[j] /\ kemPoly[j] <= 15750
      <4>1. kemPoly[j] \in Int /\ -Limit(j) <= kemPoly[j] /\ kemPoly[j] <= Limit(j)
        BY <3>1 DEF ForwardInv
      <4> HIDE DEF Limit
      <4> QED
        BY <3>2, <4>1
    <3>4. ~ kemLost
      BY <3>1 DEF ForwardInv
    <3> QED
      BY <2>1, <3>3, <3>4 DEF CoefficientsFit
  <2>2. CASE kemJob = "transformed"
    BY <2>2 DEF KemIInv, TransformedInv, CoefficientsFit
  <2>3. CASE kemJob = "pair"
    BY <2>3 DEF KemIInv, PairInv, CoefficientsFit
  <2> QED
    BY <2>1, <2>2, <2>3 DEF CoefficientsFit
<1> QED
  BY <1>1, <1>2, <1>3, PTL DEF KemSpec
-------------------------------------------------------------------------------
(* The field of secp256k1. *)


(* What the parameters mean for the sizes. *)
LEMMA SolinasSizes ==
  ASSUME Sol!SolinasParameters
  PROVE  /\ Sol!R \in Nat /\ Sol!Omega \in Nat /\ Sol!P \in Nat
         /\ Sol!R = Sol!P + Sol!Omega /\ Sol!Omega < Sol!P /\ 0 < Sol!P /\ Sol!P < Sol!R
         /\ Sol!Omega * Sol!Omega + Sol!Omega <= Sol!R /\ Sol!Omega * Sol!Omega \in Nat
<1>1. Sol!R \in Nat /\ Sol!Omega \in Nat /\ 2 <= Sol!Omega /\ Sol!Omega * (Sol!Omega + 1) <= Sol!R
  BY DEF Sol!SolinasParameters, Sol!Omega
<1>2. Sol!Omega * (Sol!Omega + 1) = Sol!Omega * Sol!Omega + Sol!Omega /\ Sol!Omega * Sol!Omega \in Nat
  BY <1>1, SMTT(30)
<1>3. 2 * Sol!Omega <= Sol!Omega * Sol!Omega
  BY <1>1, SMTT(30)
<1>4. Sol!P = Sol!R - Sol!Omega
  BY DEF Sol!P
<1> QED
  BY <1>1, <1>2, <1>3, <1>4
-------------------------------------------------------------------------------
(* The operations on one or two numbers. *)

(* One conditional subtraction is enough for a number below 2p, and reduces one
   below p by nothing. *)
LEMMA SubIfGteReduces ==
  ASSUME Sol!SolinasParameters, NEW v \in 0..(Sol!R - 1)
  PROVE  Sol!SubIfGte(v) = v % Sol!P /\ Sol!SubIfGte(Sol!SubIfGte(v)) = v % Sol!P
<1>1. Sol!R \in Nat /\ Sol!P \in Nat /\ Sol!Omega \in Nat /\ Sol!R = Sol!P + Sol!Omega /\ Sol!Omega < Sol!P /\ 0 < Sol!P
  BY SolinasSizes
<1>2. CASE v < Sol!P
  <2>1. v = Sol!P * 0 + v /\ v \in 0..(Sol!P - 1) /\ v \in Int
    BY <1>1, <1>2
  <2>2. v % Sol!P = v
    BY <1>1, <2>1, DivisionUnique
  <2> QED
    BY <1>1, <1>2, <2>2 DEF Sol!SubIfGte
<1>3. CASE ~(v < Sol!P)
  <2>1. v = Sol!P * 1 + (v - Sol!P) /\ v - Sol!P \in 0..(Sol!P - 1) /\ v \in Int
    BY <1>1, <1>3
  <2>2. v % Sol!P = v - Sol!P
    BY <1>1, <2>1, DivisionUnique
  <2> QED
    BY <1>1, <1>3, <2>1, <2>2 DEF Sol!SubIfGte
<1> QED
  BY <1>2, <1>3

(* A sum of two reduced numbers, with the word it may carry. *)
LEMMA AddModIsSum ==
  ASSUME Sol!SolinasParameters, NEW u \in 0..(Sol!P - 1), NEW v \in 0..(Sol!P - 1)
  PROVE  Sol!AddMod(u, v) = (u + v) % Sol!P
<1> DEFINE s == u + v
<1>1. /\ Sol!R \in Nat /\ Sol!P \in Nat /\ Sol!Omega \in Nat /\ Sol!R = Sol!P + Sol!Omega /\ Sol!Omega < Sol!P
      /\ 0 < Sol!P /\ Sol!P < Sol!R
  BY SolinasSizes
<1>2. s \in Nat /\ s < 2 * Sol!P /\ s \in Int
  BY <1>1
<1>3. s % Sol!P = IF s < Sol!P THEN s ELSE s - Sol!P
  <2>1. s < Sol!P => s = Sol!P * 0 + s /\ s \in 0..(Sol!P - 1)
    BY <1>1, <1>2
  <2>2. ~(s < Sol!P) => s = Sol!P * 1 + (s - Sol!P) /\ s - Sol!P \in 0..(Sol!P - 1)
    BY <1>1, <1>2
  <2> HIDE DEF s
  <2> QED
    BY <1>1, <1>2, <2>1, <2>2, DivisionUnique
<1> HIDE DEF s
<1>4. CASE s < Sol!R
  <2>1. s = Sol!R * 0 + s /\ s \in 0..(Sol!R - 1)
    BY <1>1, <1>2, <1>4
  <2>2. s \div Sol!R = 0 /\ s % Sol!R = s
    BY <1>1, <1>2, <2>1, DivisionUnique
  <2>3. ~(s < Sol!P) => (s - Sol!P) % Sol!R = s - Sol!P
    <3>1. ~(s < Sol!P) => s - Sol!P = Sol!R * 0 + (s - Sol!P) /\ s - Sol!P \in 0..(Sol!R - 1) /\ s - Sol!P \in Int
      BY <1>1, <1>2, <1>4
    <3> QED
      BY <1>1, <3>1, DivisionUnique
  <2>4. Sol!AddMod(u, v) = IF s >= Sol!P THEN (s - Sol!P) % Sol!R ELSE s
    BY <2>2 DEF Sol!AddMod, s
  <2> QED
    BY <1>1, <1>2, <1>3, <2>3, <2>4 DEF s
<1>5. CASE ~(s < Sol!R)
  <2>1. s = Sol!R * 1 + (s - Sol!R) /\ s - Sol!R \in 0..(Sol!R - 1)
    BY <1>1, <1>2, <1>5
  <2>2. s \div Sol!R = 1 /\ s % Sol!R = s - Sol!R
    BY <1>1, <1>2, <2>1, DivisionUnique
  <2>3. /\ (s - Sol!R) - Sol!P = Sol!R * (-1) + (s - Sol!P) /\ s - Sol!P \in 0..(Sol!R - 1)
        /\ (s - Sol!R) - Sol!P \in Int /\ -1 \in Int
    BY <1>1, <1>2, <1>5
  <2>4. ((s - Sol!R) - Sol!P) % Sol!R = s - Sol!P
    BY <1>1, <2>3, DivisionUnique
  <2>5. Sol!AddMod(u, v) = ((s - Sol!R) - Sol!P) % Sol!R
    BY <2>2 DEF Sol!AddMod, s
  <2> QED
    BY <1>1, <1>2, <1>3, <1>5, <2>4, <2>5 DEF s
<1> QED
  BY <1>4, <1>5

(* A difference: p is added back, in as many words, when it borrows. *)
LEMMA SubModIsDifference ==
  ASSUME Sol!SolinasParameters, NEW u \in 0..(Sol!P - 1), NEW v \in 0..(Sol!P - 1)
  PROVE  Sol!SubMod(u, v) = (u - v) % Sol!P
<1>1. Sol!R \in Nat /\ Sol!P \in Nat /\ 0 < Sol!P /\ Sol!P < Sol!R
  BY SolinasSizes
<1>2. CASE u < v
  <2>1. u - v = Sol!R * (-1) + ((u - v) + Sol!R) /\ (u - v) + Sol!R \in 0..(Sol!R - 1)
        /\ u - v \in Int /\ -1 \in Int
    BY <1>1, <1>2
  <2>2. (u - v) % Sol!R = (u - v) + Sol!R
    BY <1>1, <2>1, DivisionUnique
  <2>3. ((u - v) + Sol!R) + Sol!P = Sol!R * 1 + ((u - v) + Sol!P) /\ (u - v) + Sol!P \in 0..(Sol!R - 1)
        /\ ((u - v) + Sol!R) + Sol!P \in Int
    BY <1>1, <1>2
  <2>4. (((u - v) + Sol!R) + Sol!P) % Sol!R = (u - v) + Sol!P
    BY <1>1, <2>3, DivisionUnique
  <2>5. u - v = Sol!P * (-1) + ((u - v) + Sol!P) /\ (u - v) + Sol!P \in 0..(Sol!P - 1)
    BY <1>1, <1>2
  <2>6. (u - v) % Sol!P = (u - v) + Sol!P
    BY <1>1, <2>1, <2>5, DivisionUnique
  <2> QED
    BY <1>2, <2>2, <2>4, <2>6 DEF Sol!SubMod
<1>3. CASE ~(u < v)
  <2>1. u - v = Sol!P * 0 + (u - v) /\ u - v \in 0..(Sol!P - 1) /\ u - v \in Int
    BY <1>1, <1>3
  <2>2. (u - v) % Sol!P = u - v
    BY <1>1, <2>1, DivisionUnique
  <2> QED
    BY <1>3, <2>2 DEF Sol!SubMod
<1> QED
  BY <1>2, <1>3

LEMMA NegIsOpposite ==
  ASSUME Sol!SolinasParameters, NEW v \in 0..(Sol!P - 1)
  PROVE  Sol!Neg(v) = (0 - v) % Sol!P
<1>1. Sol!P \in Nat /\ 0 < Sol!P /\ 0 \in 0..(Sol!P - 1)
  BY SolinasSizes
<1>2. Sol!SubMod(0, v) = (0 - v) % Sol!P
  BY <1>1, SubModIsDifference
<1>3. (0 - 0) % Sol!P = 0
  <2>1. 0 - 0 = Sol!P * 0 + 0 /\ 0 - 0 \in Int
    BY <1>1
  <2> QED
    BY <1>1, <2>1, DivisionUnique
<1> QED
  BY <1>2, <1>3 DEF Sol!Neg
-------------------------------------------------------------------------------
(* The folds, on numbers. *)

(* What a fold replaces: a multiple of R by as many omegas, which takes a
   multiple of p away. *)
LEMMA FoldTakesMultiple ==
  ASSUME NEW pp \in Int, NEW om \in Int, NEW h \in Int, NEW l \in Int,
         NEW q \in Int, NEW v \in Int, l + (pp + om) * h = v + q * pp
  PROVE  l + om * h = v + (q - h) * pp
BY SMTT(30)

(* The first fold: hi times omega is split, its low part added to lo. *)
LEMMA FirstFold ==
  ASSUME Sol!SolinasParameters, NEW h \in 0..(Sol!R - 1), NEW l \in 0..(Sol!R - 1)
  PROVE  LET tmp == Sol!Omega * h
             sum == l + (tmp % Sol!R)
         IN  /\ tmp \div Sol!R \in 0..(Sol!Omega - 1)
             /\ sum % Sol!R \in 0..(Sol!R - 1) /\ sum \div Sol!R \in 0..1
             /\ (sum % Sol!R) + Sol!R * (tmp \div Sol!R + sum \div Sol!R) = l + Sol!Omega * h
<1> DEFINE tmp == Sol!Omega * h
           d == tmp \div Sol!R
           low == tmp % Sol!R
           sum == l + low
           c == sum \div Sol!R
<1>1. Sol!R \in Nat /\ Sol!Omega \in Nat /\ 0 < Sol!R /\ 0 < Sol!Omega
  BY SolinasSizes DEF Sol!SolinasParameters, Sol!Omega
<1>2. tmp \in Nat /\ tmp < Sol!Omega * Sol!R
  <2>1. tmp \in Nat
    BY <1>1, SMTT(30)
  <2>2. Sol!Omega * h <= Sol!Omega * (Sol!R - 1)
    BY <1>1, SMTT(30)
  <2>3. Sol!Omega * (Sol!R - 1) = Sol!Omega * Sol!R - Sol!Omega
    BY <1>1, SMTT(30)
  <2> QED
    BY <1>1, <2>1, <2>2, <2>3
<1> HIDE DEF tmp
<1>3. d \in 0..(Sol!Omega - 1)
  BY <1>1, <1>2, QuotientBound
<1>4. low \in 0..(Sol!R - 1) /\ tmp = Sol!R * d + low
  BY <1>1, <1>2, Division
<1> HIDE DEF low, d
<1>5. sum \in Nat /\ sum < 2 * Sol!R
  BY <1>1, <1>4
<1>6. c \in 0..1
  <2>1. c \in 0..(2 - 1)
    BY <1>1, <1>5, QuotientBound
  <2> QED
    BY <2>1
<1>7. sum % Sol!R \in 0..(Sol!R - 1) /\ sum = Sol!R * c + (sum % Sol!R)
  <2> HIDE DEF sum
  <2>1. sum \in Int
    BY <1>5
  <2> QED
    BY <1>1, <2>1, Division
<1> HIDE DEF c
<1>8. Sol!R * (d + c) = Sol!R * d + Sol!R * c
  BY <1>1, <1>3, <1>6, SMTT(30)
<1>9. (sum % Sol!R) + Sol!R * (d + c) = l + tmp
  BY <1>1, <1>3, <1>4, <1>6, <1>7, <1>8
<1> QED
  BY <1>3, <1>6, <1>7, <1>9 DEF tmp, d, low, c

(* The second fold: what is left above R, with the carry, is at most omega, so
   that its product is below R, and a carry leaves room for another omega. *)
LEMMA SecondFold ==
  ASSUME Sol!SolinasParameters, NEW h \in 0..(Sol!Omega - 1), NEW c \in 0..1, NEW l \in 0..(Sol!R - 1)
  PROVE  LET tmp2 == (Sol!Omega * h + Sol!Omega * c) % Sol!R
             sum  == l + tmp2
         IN  /\ sum % Sol!R \in 0..(Sol!R - 1) /\ sum \div Sol!R \in 0..1
             /\ sum \div Sol!R = 1 => sum % Sol!R < Sol!Omega * Sol!Omega
             /\ (sum % Sol!R) + Sol!R * (sum \div Sol!R) = l + Sol!Omega * (h + c)
<1> DEFINE tmp2 == Sol!Omega * h + Sol!Omega * c
           sum == l + tmp2
           k == sum \div Sol!R
<1>1. /\ Sol!R \in Nat /\ Sol!Omega \in Nat /\ 0 < Sol!R /\ 0 < Sol!Omega
      /\ Sol!Omega * Sol!Omega + Sol!Omega <= Sol!R /\ Sol!Omega * Sol!Omega \in Nat
  BY SolinasSizes DEF Sol!SolinasParameters, Sol!Omega
<1>2. tmp2 = Sol!Omega * (h + c) /\ tmp2 \in Nat
  BY <1>1, SMTT(30)
<1>3. tmp2 <= Sol!Omega * Sol!Omega
  <2>1. h + c \in Nat /\ h + c <= Sol!Omega
    BY <1>1
  <2>2. Sol!Omega * (h + c) <= Sol!Omega * Sol!Omega
    BY <1>1, <2>1, SMTT(30)
  <2> QED
    BY <1>2, <2>2
<1> HIDE DEF tmp2
<1>4. tmp2 % Sol!R = tmp2
  <2>1. tmp2 = Sol!R * 0 + tmp2 /\ tmp2 \in 0..(Sol!R - 1) /\ tmp2 \in Int
    BY <1>1, <1>2, <1>3
  <2> QED
    BY <1>1, <2>1, DivisionUnique
<1>5. sum \in Nat /\ sum < 2 * Sol!R
  BY <1>1, <1>2, <1>3
<1>6. k \in 0..1
  <2>1. k \in 0..(2 - 1)
    BY <1>1, <1>5, QuotientBound
  <2> QED
    BY <2>1
<1>7. sum % Sol!R \in 0..(Sol!R - 1) /\ sum = Sol!R * k + (sum % Sol!R)
  <2> HIDE DEF sum
  <2>1. sum \in Int
    BY <1>5
  <2> QED
    BY <1>1, <2>1, Division
<1> HIDE DEF k
<1>8. k = 1 => sum % Sol!R < Sol!Omega * Sol!Omega
  BY <1>1, <1>2, <1>3, <1>7
<1>9. (sum % Sol!R) + Sol!R * k = l + Sol!Omega * (h + c)
  BY <1>1, <1>2, <1>6, <1>7
<1> QED
  BY <1>4, <1>6, <1>7, <1>8, <1>9 DEF tmp2, k

(* The last carry: one more omega, that fits. *)
LEMMA LastCarry ==
  ASSUME Sol!SolinasParameters, NEW c \in 0..1, NEW l \in 0..(Sol!R - 1),
         c = 1 => l < Sol!Omega * Sol!Omega
  PROVE  Sol!CarryFolded(l, c) = l + Sol!Omega * c /\ l + Sol!Omega * c \in 0..(Sol!R - 1)
<1>1. /\ Sol!R \in Nat /\ Sol!Omega \in Nat /\ 0 < Sol!R
      /\ Sol!Omega * Sol!Omega + Sol!Omega <= Sol!R /\ Sol!Omega * Sol!Omega \in Nat
  BY SolinasSizes DEF Sol!SolinasParameters, Sol!Omega
<1>2. c * Sol!Omega = Sol!Omega * c /\ c * Sol!Omega = IF c = 1 THEN Sol!Omega ELSE 0
  BY <1>1
<1>3. l + c * Sol!Omega \in 0..(Sol!R - 1)
  BY <1>1, <1>2
<1>4. l + c * Sol!Omega = Sol!R * 0 + (l + c * Sol!Omega) /\ l + c * Sol!Omega \in Int
  BY <1>1, <1>3
<1>5. (l + c * Sol!Omega) % Sol!R = l + c * Sol!Omega
  BY <1>1, <1>3, <1>4, DivisionUnique
<1> QED
  BY <1>2, <1>3, <1>5 DEF Sol!CarryFolded
-------------------------------------------------------------------------------
(* The invariant. *)

(* How large each number can be at each stage, which is why no fold overflows. *)
SolinasBounded ==
  /\ base \in 0..(Sol!P - 1) /\ exponent \in 0..(Sol!P - 1)
  /\ path \in Sol!Jobs \cup Sol!Stages \cup {"ready"}
  /\ acc \in Nat /\ baseMont \in 0..(Sol!R - 1) /\ pos \in 0..1
  /\ path \notin {"fold again", "fold carry"} => pos = 0
  /\ path = "fold" => acc \in 0..(Sol!R - 1)
  /\ path = "fold again" => acc \in 0..(Sol!Omega - 1)
  /\ path = "fold carry" => acc = 0 /\ (pos = 1 => baseMont < Sol!Omega * Sol!Omega)
  /\ path = "correct" => acc = 0

(* What is pending differs from the product by a multiple of p. *)
SolinasCongruent == path \in Sol!Stages => \E q \in Int : Sol!Pending = base * exponent + q * Sol!P

SolinasInv == SolinasBounded /\ SolinasCongruent

LEMMA SolinasInitial ==
  ASSUME Sol!SolinasParameters, Sol!Init
  PROVE  SolinasInv
<1>1. Sol!R \in Nat /\ 0 < Sol!R
  BY SolinasSizes
<1>2. path \notin Sol!Stages
  BY DEF Sol!Init, Sol!Stages
<1> QED
  BY <1>1, <1>2 DEF Sol!Init, SolinasInv, SolinasBounded, SolinasCongruent

(* The product of two reduced numbers, in its two halves. *)
LEMMA ProductHalves ==
  ASSUME Sol!SolinasParameters, NEW u \in 0..(Sol!P - 1), NEW v \in 0..(Sol!P - 1)
  PROVE  /\ (u * v) \div Sol!R \in 0..(Sol!R - 1) /\ (u * v) % Sol!R \in 0..(Sol!R - 1)
         /\ ((u * v) % Sol!R) + Sol!R * ((u * v) \div Sol!R) = u * v
<1> DEFINE m == u * v
<1>1. Sol!R \in Nat /\ Sol!P \in Nat /\ 0 < Sol!R /\ Sol!P < Sol!R
  BY SolinasSizes
<1>2. m \in Nat /\ m < Sol!R * Sol!R
  <2>1. u \in Nat /\ v \in Nat /\ u <= Sol!R - 1 /\ v <= Sol!R
    BY <1>1
  <2>2. m \in Nat /\ m <= (Sol!R - 1) * v /\ (Sol!R - 1) * v <= (Sol!R - 1) * Sol!R
    BY <1>1, <2>1, SMTT(30)
  <2>3. (Sol!R - 1) * Sol!R = Sol!R * Sol!R - Sol!R /\ Sol!R * Sol!R \in Nat /\ (Sol!R - 1) * v \in Nat
    BY <1>1, <2>1, SMTT(30)
  <2> HIDE DEF m
  <2> QED
    BY <1>1, <2>2, <2>3
<1> HIDE DEF m
<1>3. m \div Sol!R \in 0..(Sol!R - 1)
  BY <1>1, <1>2, QuotientBound
<1>4. m % Sol!R \in 0..(Sol!R - 1) /\ m = Sol!R * (m \div Sol!R) + (m % Sol!R)
  BY <1>1, <1>2, Division
<1> QED
  BY <1>1, <1>3, <1>4 DEF m

LEMMA MultiplyInv ==
  ASSUME Sol!SolinasParameters, SolinasInv, Sol!Multiply
  PROVE  SolinasInv'
<1>1. Sol!R \in Nat /\ Sol!P \in Nat
  BY SolinasSizes
<1>2. base \in 0..(Sol!P - 1) /\ exponent \in 0..(Sol!P - 1) /\ pos = 0
  BY DEF SolinasInv, SolinasBounded, Sol!Multiply
<1> DEFINE m == base * exponent
<1>3. /\ m \div Sol!R \in 0..(Sol!R - 1) /\ m % Sol!R \in 0..(Sol!R - 1)
      /\ (m % Sol!R) + Sol!R * (m \div Sol!R) = m
  BY <1>2, ProductHalves
<1>4. m \in Int
  BY <1>1, <1>2, SMTT(30)
<1>5. /\ path' = "fold" /\ acc' = m \div Sol!R /\ baseMont' = m % Sol!R /\ pos' = pos
      /\ base' = base /\ exponent' = exponent
  BY DEF Sol!Multiply
<1>6. base' * exponent' = m
  BY <1>5
<1> HIDE DEF m
<1>7. SolinasBounded'
  BY <1>1, <1>2, <1>3, <1>5 DEF SolinasBounded, Sol!Stages
<1>8. baseMont' + Sol!R * (acc' + pos') = m + 0 * Sol!P
  BY <1>1, <1>2, <1>3, <1>4, <1>5
<1>9. SolinasCongruent'
  BY <1>6, <1>8 DEF SolinasCongruent, Sol!Pending, Sol!R, Sol!P, Sol!Omega
<1> QED
  BY <1>7, <1>9 DEF SolinasInv

LEMMA FoldInv ==
  ASSUME Sol!SolinasParameters, SolinasInv, Sol!Fold
  PROVE  SolinasInv'
<1>1. /\ Sol!R \in Nat /\ Sol!P \in Nat /\ Sol!Omega \in Nat /\ Sol!R = Sol!P + Sol!Omega
  BY SolinasSizes
<1>2. /\ base \in 0..(Sol!P - 1) /\ exponent \in 0..(Sol!P - 1) /\ pos = 0
      /\ acc \in 0..(Sol!R - 1) /\ baseMont \in 0..(Sol!R - 1)
  BY DEF SolinasInv, SolinasBounded, Sol!Fold
<1>3. /\ acc' \in 0..(Sol!Omega - 1) /\ baseMont' \in 0..(Sol!R - 1) /\ pos' \in 0..1
      /\ baseMont' + Sol!R * (acc' + pos') = baseMont + Sol!Omega * acc
  BY <1>2, FirstFold DEF Sol!Fold
<1>4. path' = "fold again" /\ base' = base /\ exponent' = exponent
  BY DEF Sol!Fold
<1>5. SolinasBounded'
  <2>1. acc' \in 0..(Sol!Omega - 1) /\ baseMont' \in 0..(Sol!R - 1) /\ pos' \in 0..1
    BY <1>3, Zenon
  <2>2. acc' \in Nat
    BY <1>1, <2>1
  <2>3. path' \in Sol!Stages /\ base' \in 0..(Sol!P - 1) /\ exponent' \in 0..(Sol!P - 1)
    BY <1>2, <1>4 DEF Sol!Stages
  <2> QED
    BY <1>4, <2>1, <2>2, <2>3, Zenon DEF SolinasBounded, Sol!R, Sol!P, Sol!Omega
<1>6. PICK q \in Int : baseMont + Sol!R * (acc + pos) = base * exponent + q * Sol!P
  BY DEF SolinasInv, SolinasCongruent, Sol!Pending, Sol!Fold, Sol!Stages
<1>7. baseMont + Sol!Omega * acc = base * exponent + (q - acc) * Sol!P
  <2> DEFINE m == base * exponent
  <2>1. m \in Int
    BY <1>1, <1>2, SMTT(30)
  <2> HIDE DEF m
  <2>2. baseMont + (Sol!P + Sol!Omega) * acc = m + q * Sol!P
    BY <1>1, <1>2, <1>6 DEF m
  <2>3. baseMont + Sol!Omega * acc = m + (q - acc) * Sol!P
    BY <1>1, <1>2, <2>1, <2>2, FoldTakesMultiple
  <2> QED
    BY <2>3 DEF m
<1>8. q - acc \in Int
  BY <1>2
<1>9. baseMont' + Sol!R * (acc' + pos') = base' * exponent' + (q - acc) * Sol!P
  BY <1>3, <1>4, <1>7
<1>10. SolinasCongruent'
  BY <1>8, <1>9 DEF SolinasCongruent, Sol!Pending, Sol!R, Sol!P, Sol!Omega
<1> QED
  BY <1>5, <1>10 DEF SolinasInv

LEMMA FoldAgainInv ==
  ASSUME Sol!SolinasParameters, SolinasInv, Sol!FoldAgain
  PROVE  SolinasInv'
<1>1. /\ Sol!R \in Nat /\ Sol!P \in Nat /\ Sol!Omega \in Nat /\ Sol!R = Sol!P + Sol!Omega
  BY SolinasSizes
<1>2. /\ base \in 0..(Sol!P - 1) /\ exponent \in 0..(Sol!P - 1) /\ pos \in 0..1
      /\ acc \in 0..(Sol!Omega - 1) /\ baseMont \in 0..(Sol!R - 1)
  BY DEF SolinasInv, SolinasBounded, Sol!FoldAgain
<1>3. /\ acc' = 0 /\ baseMont' \in 0..(Sol!R - 1) /\ pos' \in 0..1
      /\ pos' = 1 => baseMont' < Sol!Omega * Sol!Omega
      /\ baseMont' + Sol!R * pos' = baseMont + Sol!Omega * (acc + pos)
  BY <1>2, SecondFold DEF Sol!FoldAgain
<1>4. path' = "fold carry" /\ base' = base /\ exponent' = exponent
  BY DEF Sol!FoldAgain
<1>5. SolinasBounded'
  BY <1>1, <1>2, <1>3, <1>4 DEF SolinasBounded, Sol!Stages, Sol!R, Sol!P, Sol!Omega
<1>6. PICK q \in Int : baseMont + Sol!R * (acc + pos) = base * exponent + q * Sol!P
  BY DEF SolinasInv, SolinasCongruent, Sol!Pending, Sol!FoldAgain, Sol!Stages
<1>7. baseMont + Sol!Omega * (acc + pos) = base * exponent + (q - (acc + pos)) * Sol!P
  <2> DEFINE m == base * exponent
             h == acc + pos
  <2>1. m \in Int
    BY <1>1, <1>2, SMTT(30)
  <2>2. h \in Int
    BY <1>1, <1>2
  <2>3. baseMont + (Sol!P + Sol!Omega) * h = m + q * Sol!P
    BY <1>1, <1>6
  <2> HIDE DEF m, h
  <2>4. baseMont + Sol!Omega * h = m + (q - h) * Sol!P
    BY <1>1, <1>2, <2>1, <2>2, <2>3, FoldTakesMultiple
  <2> QED
    BY <2>4 DEF m, h
<1>8. q - (acc + pos) \in Int
  BY <1>1, <1>2
<1>9. baseMont' + Sol!R * (acc' + pos') = base' * exponent' + (q - (acc + pos)) * Sol!P
  <2>1. \A c \in 0..1 : 0 + c = c
    OBVIOUS
  <2>2. acc' + pos' = pos'
    BY <1>3, <2>1, Zenon
  <2> QED
    BY <1>3, <1>4, <1>7, <2>2, Zenon
<1>10. SolinasCongruent'
  BY <1>8, <1>9 DEF SolinasCongruent, Sol!Pending, Sol!R, Sol!P, Sol!Omega
<1> QED
  BY <1>5, <1>10 DEF SolinasInv

LEMMA FoldCarryInv ==
  ASSUME Sol!SolinasParameters, SolinasInv, Sol!FoldCarry
  PROVE  SolinasInv'
<1>1. /\ Sol!R \in Nat /\ Sol!P \in Nat /\ Sol!Omega \in Nat /\ Sol!R = Sol!P + Sol!Omega
  BY SolinasSizes
<1>2. /\ base \in 0..(Sol!P - 1) /\ exponent \in 0..(Sol!P - 1) /\ pos \in 0..1
      /\ acc = 0 /\ baseMont \in 0..(Sol!R - 1) /\ (pos = 1 => baseMont < Sol!Omega * Sol!Omega)
  BY DEF SolinasInv, SolinasBounded, Sol!FoldCarry
<1>3. baseMont' = baseMont + Sol!Omega * pos /\ baseMont' \in 0..(Sol!R - 1)
  BY <1>2, LastCarry DEF Sol!FoldCarry
<1>4. path' = "correct" /\ base' = base /\ exponent' = exponent /\ acc' = 0 /\ pos' = 0
  BY <1>2 DEF Sol!FoldCarry
<1>5. SolinasBounded'
  BY <1>1, <1>2, <1>3, <1>4 DEF SolinasBounded, Sol!Stages
<1>6. PICK q \in Int : baseMont + Sol!R * (acc + pos) = base * exponent + q * Sol!P
  BY DEF SolinasInv, SolinasCongruent, Sol!Pending, Sol!FoldCarry, Sol!Stages
<1>7. baseMont + Sol!Omega * pos = base * exponent + (q - pos) * Sol!P
  <2> DEFINE m == base * exponent
  <2>1. m \in Int
    BY <1>1, <1>2, SMTT(30)
  <2> HIDE DEF m
  <2>2. baseMont + (Sol!P + Sol!Omega) * pos = m + q * Sol!P
    BY <1>1, <1>2, <1>6 DEF m
  <2>3. baseMont + Sol!Omega * pos = m + (q - pos) * Sol!P
    BY <1>1, <1>2, <2>1, <2>2, FoldTakesMultiple
  <2> QED
    BY <2>3 DEF m
<1>8. q - pos \in Int
  BY <1>2
<1>9. baseMont' + Sol!R * (acc' + pos') = base' * exponent' + (q - pos) * Sol!P
  BY <1>1, <1>3, <1>4, <1>7
<1>10. SolinasCongruent'
  BY <1>8, <1>9 DEF SolinasCongruent, Sol!Pending, Sol!R, Sol!P, Sol!Omega
<1> QED
  BY <1>5, <1>10 DEF SolinasInv

(* The number at the end is the product modulo p, whichever turn left the loop
   of sub_p_if_gte. *)
LEMMA CorrectReturns ==
  ASSUME Sol!SolinasParameters, SolinasInv, Sol!Correct
  PROVE  base' = (base * exponent) % Sol!P /\ base' \in 0..(Sol!P - 1)
<1>1. Sol!R \in Nat /\ Sol!P \in Nat /\ 0 < Sol!P
  BY SolinasSizes
<1>2. /\ base \in 0..(Sol!P - 1) /\ exponent \in 0..(Sol!P - 1) /\ pos = 0 /\ acc = 0
      /\ baseMont \in 0..(Sol!R - 1)
  BY DEF SolinasInv, SolinasBounded, Sol!Correct
<1>3. PICK q \in Int : baseMont + Sol!R * (acc + pos) = base * exponent + q * Sol!P
  BY DEF SolinasInv, SolinasCongruent, Sol!Pending, Sol!Correct, Sol!Stages
<1>4. baseMont = base * exponent + q * Sol!P
  BY <1>1, <1>2, <1>3
<1>5. base * exponent \in Int /\ baseMont \in Int
  BY <1>1, <1>2, SMTT(30)
<1>6. baseMont % Sol!P = (base * exponent) % Sol!P /\ baseMont % Sol!P \in 0..(Sol!P - 1)
  <2> DEFINE m == base * exponent
  <2> HIDE DEF m
  <2>1. baseMont = m + q * Sol!P /\ m \in Int /\ baseMont \in Int
    BY <1>4, <1>5 DEF m
  <2>2. baseMont % Sol!P = m % Sol!P /\ baseMont % Sol!P \in 0..(Sol!P - 1)
    BY <1>1, <2>1, SameRemainder, Division
  <2> QED
    BY <2>2 DEF m
<1> QED
  BY <1>2, <1>6, SubIfGteReduces DEF Sol!Correct, Sol!Return

(* A result is stored, and nothing is pending. *)
LEMMA ReturnInv ==
  ASSUME Sol!SolinasParameters, SolinasInv, NEW v \in 0..(Sol!P - 1), Sol!Return(v)
  PROVE  SolinasInv'
<1>1. Sol!R \in Nat /\ Sol!P \in Nat /\ 0 < Sol!R
  BY SolinasSizes
<1>2. /\ base' = v /\ exponent' = exponent /\ path' = "ready" /\ acc' = 0 /\ baseMont' = 0 /\ pos' = 0
      /\ exponent \in 0..(Sol!P - 1)
  BY DEF Sol!Return, SolinasInv, SolinasBounded
<1>3. SolinasBounded'
  BY <1>1, <1>2 DEF SolinasBounded, Sol!P, Sol!R, Sol!Omega
<1>4. SolinasCongruent'
  BY <1>2 DEF SolinasCongruent, Sol!Stages
<1> QED
  BY <1>3, <1>4 DEF SolinasInv

LEMMA SolinasStep ==
  ASSUME Sol!SolinasParameters, SolinasInv, [Sol!Next]_(Sol!vars)
  PROVE  SolinasInv'
<1>1. Sol!R \in Nat /\ Sol!P \in Nat /\ 0 < Sol!P
  BY SolinasSizes
<1>2. base \in 0..(Sol!P - 1) /\ exponent \in 0..(Sol!P - 1)
  BY DEF SolinasInv, SolinasBounded
<1>3. CASE Sol!Call
  BY <1>3 DEF Sol!Call, SolinasInv, SolinasBounded, SolinasCongruent, Sol!Jobs, Sol!Stages
<1>4. CASE Sol!Add
  <2>1. (base + exponent) % Sol!P \in 0..(Sol!P - 1)
    BY <1>1, <1>2, Division
  <2> QED
    BY <1>2, <1>4, <2>1, AddModIsSum, ReturnInv DEF Sol!Add
<1>5. CASE Sol!Sub
  <2>1. (base - exponent) % Sol!P \in 0..(Sol!P - 1)
    BY <1>1, <1>2, Division
  <2> QED
    BY <1>2, <1>5, <2>1, SubModIsDifference, ReturnInv DEF Sol!Sub
<1>6. CASE Sol!Negate
  <2>1. (0 - base) % Sol!P \in 0..(Sol!P - 1)
    BY <1>1, <1>2, Division
  <2> QED
    BY <1>2, <1>6, <2>1, NegIsOpposite, ReturnInv DEF Sol!Negate
<1>7. CASE Sol!Multiply
  BY <1>7, MultiplyInv
<1>8. CASE Sol!Fold
  BY <1>8, FoldInv
<1>9. CASE Sol!FoldAgain
  BY <1>9, FoldAgainInv
<1>10. CASE Sol!FoldCarry
  BY <1>10, FoldCarryInv
<1>11. CASE Sol!Correct
  <2>1. Sol!SubIfGte(Sol!SubIfGte(baseMont)) \in 0..(Sol!P - 1)
    BY <1>11, CorrectReturns DEF Sol!Correct, Sol!Return
  <2> QED
    BY <1>11, <2>1, ReturnInv DEF Sol!Correct
<1>12. CASE UNCHANGED Sol!vars
  BY <1>12 DEF Sol!vars, SolinasInv, SolinasBounded, SolinasCongruent, Sol!Pending, Sol!P, Sol!R, Sol!Omega
<1> QED
  BY <1>3, <1>4, <1>5, <1>6, <1>7, <1>8, <1>9, <1>10, <1>11, <1>12 DEF Sol!Next

(* What the assumptions on the run and the shape of its steps say of this part. *)
LEMMA SolinasHolds == Sol!SolinasParameters
BY ModularAssumption

LEMMA SolinasSteps ==
  ASSUME [ModularNext]_modularVars, part = "solinas" \/ part' = "solinas"
  PROVE  part = "solinas" /\ part' = "solinas" /\ (Sol!Next \/ UNCHANGED modularVars)
BY DEF ModularNext, NumberNext, LatticeNext, FieldNext, ExpNext, ChainNext, SolinasNext,
       ProductNext, ScalarNext, LimbsNext, modularVars

(* The run's part that is the field of secp256k1. *)
SolinasPart == part = "solinas" => SolinasInv

LEMMA SolinasAlways == ModularSpec => []SolinasPart
<1>1. ModularInit => SolinasPart
  <2>1. ModularInit /\ part = "solinas" => Sol!Init
    BY DEF ModularInit, NumberInit
  <2> QED
    BY <2>1, SolinasHolds, SolinasInitial DEF SolinasPart
<1>2. SolinasPart /\ [ModularNext]_modularVars => SolinasPart'
  <2> SUFFICES ASSUME SolinasPart, [ModularNext]_modularVars, part' = "solinas"
               PROVE  SolinasInv'
    BY DEF SolinasPart
  <2>1. part = "solinas" /\ [Sol!Next]_(Sol!vars)
    BY SolinasSteps DEF modularVars, expVars, Sol!vars
  <2> QED
    BY <2>1, SolinasHolds, SolinasStep DEF SolinasPart
<1> QED
  BY <1>1, <1>2, PTL DEF ModularSpec
-------------------------------------------------------------------------------
(* Operands are natural numbers, words are in their ranges (FieldElement). *)
THEOREM SolinasTypeCorrect == ModularSpec => [](part = "solinas" => ModularTypeOK)
<1>1. SolinasInv => Sol!TypeOK
  <2>1. Sol!P \in Nat
    BY SolinasHolds, SolinasSizes
  <2>2. SolinasInv => /\ base \in 0..(Sol!P - 1) /\ exponent \in 0..(Sol!P - 1) /\ pos \in 0..1
                      /\ path \in Sol!Jobs \cup Sol!Stages \cup {"ready"}
                      /\ acc \in Nat /\ baseMont \in 0..(Sol!R - 1)
    BY Zenon DEF SolinasInv, SolinasBounded
  <2>3. \A n \in 0..(Sol!P - 1) : n \in Nat
    BY <2>1
  <2>4. \A n \in 0..1 : n \in Nat
    OBVIOUS
  <2> QED
    BY <2>2, <2>3, <2>4, Zenon DEF Sol!TypeOK
<1>2. SolinasPart => (part = "solinas" => ModularTypeOK)
  BY <1>1 DEF SolinasPart, ModularTypeOK
<1> QED
  BY <1>2, SolinasAlways, PTL

(* However long operations are chained, operands stay below p, and no fold of
   secp256k1_reduce loses a carry, for every size of words and numbers: what
   KeepsResidue says of secp256k1 (FieldElement). *)
THEOREM FoldsKeepResidue == ModularSpec => [](part = "solinas" => KeepsResidue)
<1>1. ASSUME SolinasInv PROVE Sol!KeepsResidue
  <2>1. Sol!R \in Nat /\ Sol!P \in Nat /\ 0 < Sol!P
    BY SolinasHolds, SolinasSizes
  <2>2. base \in 0..(Sol!P - 1) /\ exponent \in 0..(Sol!P - 1)
    BY <1>1 DEF SolinasInv, SolinasBounded
  <2>3. ASSUME path \in Sol!Stages
        PROVE  (Sol!Pending - base * exponent) % Sol!P = 0
    <3> DEFINE m == base * exponent
               r == Sol!Pending
    <3>1. m \in Int
      BY <2>1, <2>2, SMTT(30)
    <3>2. PICK q \in Int : r = m + q * Sol!P
      BY <1>1, <2>3 DEF SolinasInv, SolinasCongruent
    <3> HIDE DEF m, r
    <3> DEFINE d == r - m
    <3>3. d = Sol!P * q + 0 /\ d \in Int /\ 0 \in 0..(Sol!P - 1)
      BY <2>1, <3>1, <3>2, SMTT(30)
    <3> HIDE DEF d
    <3>4. d % Sol!P = 0
      BY <2>1, <3>3, DivisionUnique
    <3> QED
      BY <3>4 DEF d, r, m
  <2> QED
    BY <2>1, <2>2, <2>3 DEF Sol!KeepsResidue
<1>2. SolinasPart => (part = "solinas" => KeepsResidue)
  BY <1>1 DEF SolinasPart, KeepsResidue
<1> QED
  BY <1>2, SolinasAlways, PTL

(* Each operation returns the sum, difference, opposite or product mod p, in
   every state the chain of operations can reach (add, sub, neg, mul). *)
THEOREM OperationsReturnModP == ModularSpec => ComputesModP
<1>1. ASSUME SolinasInv, Sol!Next
      PROVE  Sol!ReturnsModP
  <2>1. base \in 0..(Sol!P - 1) /\ exponent \in 0..(Sol!P - 1)
    BY <1>1 DEF SolinasInv, SolinasBounded
  <2>3. CASE Sol!Add
    BY <2>1, <2>3, SolinasHolds, AddModIsSum DEF Sol!Add, Sol!Return, Sol!ReturnsModP
  <2>4. CASE Sol!Sub
    BY <2>1, <2>4, SolinasHolds, SubModIsDifference DEF Sol!Sub, Sol!Return, Sol!ReturnsModP
  <2>5. CASE Sol!Negate
    BY <2>1, <2>5, SolinasHolds, NegIsOpposite DEF Sol!Negate, Sol!Return, Sol!ReturnsModP
  <2>6. CASE Sol!Correct
    BY <1>1, <2>6, SolinasHolds, CorrectReturns DEF Sol!Correct, Sol!ReturnsModP
  <2>7. CASE Sol!Call \/ Sol!Multiply \/ Sol!Fold \/ Sol!FoldAgain \/ Sol!FoldCarry
    BY <2>7 DEF Sol!Call, Sol!Multiply, Sol!Fold, Sol!FoldAgain, Sol!FoldCarry, Sol!ReturnsModP
  <2> QED
    BY <1>1, <2>3, <2>4, <2>5, <2>6, <2>7 DEF Sol!Next
<1>2. SolinasPart /\ [ModularNext]_modularVars
        => [part = "solinas" => Sol!ReturnsModP]_modularVars
  BY <1>1, SolinasSteps, SolinasHolds DEF SolinasPart
<1> QED
  BY <1>2, SolinasAlways, PTL DEF ModularSpec, ComputesModP
-------------------------------------------------------------------------------
(* Public exponentiation (modexp_public of src/rsa.rs). *)

(* The sizes of words and numbers: powers of two, above one. *)
LEMMA ExpSizes ==
  ASSUME Exp!ModExpParameters
  PROVE  /\ Exp!WordSize = PowerOf(2, WordBits) /\ Exp!R = PowerOf(Exp!WordSize, Words)
         /\ Exp!WordSize \in Nat /\ Exp!WordSize > 1 /\ Exp!WordSize % 2 = 0
         /\ Exp!R \in Nat /\ Exp!R > 0 /\ Exp!R = PowerOf(2, WordBits * Words)
         /\ WordBits \in Nat /\ WordBits > 0 /\ Words \in Nat /\ Words > 0
         /\ NewtonSteps \in Nat /\ PowerOf(2, NewtonSteps + 1) >= WordBits
<1>1. \A v, n : Exp!PowerOf(v, n) = PowerOf(v, n)
  BY DEF Exp!PowerOf, PowerOf
<1>2. Exp!WordSize = PowerOf(2, WordBits) /\ Exp!R = PowerOf(Exp!WordSize, Words)
  BY <1>1 DEF Exp!WordSize, Exp!R
<1>3. /\ WordBits \in Nat /\ WordBits > 0 /\ Words \in Nat /\ Words > 0
      /\ NewtonSteps \in Nat /\ PowerOf(2, NewtonSteps + 1) >= WordBits
  <2>1. {WordBits, Words, ByteBits, NewtonSteps} \subseteq Nat \ {0}
    BY DEF Exp!ModExpParameters
  <2>2. Exp!PowerOf(2, NewtonSteps + 1) >= WordBits
    BY DEF Exp!ModExpParameters
  <2> QED
    BY <1>1, <2>1, <2>2
<1>4. Exp!WordSize \in Nat /\ Exp!WordSize > 1 /\ Exp!WordSize % 2 = 0
  <2> DEFINE h == PowerOf(2, WordBits - 1)
             w == PowerOf(2, WordBits)
  <2>1. WordBits - 1 \in Nat /\ (WordBits - 1) + 1 = WordBits
    BY <1>3
  <2>2. h \in Nat /\ h > 0 /\ PowerOf(2, (WordBits - 1) + 1) = 2 * h
    BY <2>1, PowersOfTwo
  <2>3. w = 2 * h
    BY <2>1, <2>2
  <2> HIDE DEF h, w
  <2>4. w = 2 * h + 0 /\ 0 \in 0..(2 - 1) /\ h \in Int /\ w \in Int /\ w \in Nat /\ w > 1
    BY <2>2, <2>3
  <2>5. w % 2 = 0
    BY <2>4, DivisionUnique
  <2> QED
    BY <1>2, <2>4, <2>5 DEF w
<1>5. PowerOf(Exp!WordSize, Words) = PowerOf(2, WordBits * Words)
  <2> DEFINE two == 2
  <2>1. two \in Nat \ {0}
    OBVIOUS
  <2> HIDE DEF two
  <2>2. PowerOf(PowerOf(two, WordBits), Words) = PowerOf(two, WordBits * Words)
    BY <1>3, <2>1, PowersTimes
  <2> QED
    BY <1>2, <2>2 DEF two
<1>6. PowerOf(Exp!WordSize, Words) \in Nat /\ PowerOf(Exp!WordSize, Words) > 0
  <2>1. Exp!WordSize \in Nat \ {0}
    BY <1>4
  <2> QED
    BY <1>3, <2>1, PowersStep
<1> QED
  BY <1>2, <1>3, <1>4, <1>5, <1>6

(* inv32: the word that, times n, gives one less than a multiple of a word. *)
LEMMA Inv32Inverts ==
  ASSUME Exp!ModExpParameters, NEW n \in Nat, n % 2 = 1
  PROVE  /\ Exp!Inv32(n) \in 0..(Exp!WordSize - 1)
         /\ (Exp!Inv32(n) * n) % Exp!WordSize = Exp!WordSize - 1
<1> DEFINE w == Exp!WordSize
           k == NewtonSteps
           V == Nat
           Step(v) == (v * (2 - n * v)) % w
           first == (2 - n) % w
           F == [j \in 1..k |-> [v \in V |-> Step(v)]]
           body(g) == [s \in 0..k |-> IF s = 0 THEN first ELSE Step(g[s - 1])]
           x == CHOOSE g : g = body(g)
           h == Unfolded(k, V, first, F)
<1>0. w \in Nat /\ w > 1 /\ k \in Nat /\ w = PowerOf(2, WordBits) /\ WordBits \in Nat /\ WordBits > 0
      /\ PowerOf(2, k + 1) >= WordBits
  BY ExpSizes
<1>1. Exp!Inv32(n) = (0 - x[k]) % w
  BY DEF Exp!Inv32
<1> HIDE DEF w, k
<1>2. first \in V /\ \A v \in V : Step(v) \in V
  <2>1. first \in V
    <3>1. (2 - n) % w \in 0..(w - 1)
      BY <1>0, Division
    <3> QED
      BY <3>1, <1>0
  <2>2. ASSUME NEW v \in V PROVE Step(v) \in V
    <3> DEFINE u == v * (2 - n * v)
    <3>1. n * v \in Int
      BY <2>2
    <3>2. u \in Int
      BY <2>2, <3>1
    <3> HIDE DEF u
    <3>3. u % w \in 0..(w - 1)
      BY <1>0, <3>2, Division
    <3> QED
      BY <1>0, <3>3 DEF u
  <2> QED
    BY <2>1, <2>2
<1> HIDE DEF V, first, Step
<1>3. F \in [1..k -> [V -> V]]
  BY <1>2
<1>4. h \in [0..k -> V] /\ h[0] = first /\ \A j \in 1..k : h[j] = F[j][h[j - 1]]
  <2> HIDE DEF F
  <2> QED
    BY <1>0, <1>2, <1>3, Unfolding
<1> HIDE DEF h
<1>5. \A j \in 1..k : h[j] = Step(h[j - 1])
  <2> TAKE j \in 1..k
  <2>1. h[j - 1] \in V /\ h[j] = F[j][h[j - 1]]
    BY <1>0, <1>4
  <2>2. F[j] = [v \in V |-> Step(v)]
    OBVIOUS
  <2> QED
    BY <2>1, <2>2
<1>6. h = body(h)
  BY <1>0, <1>4, <1>5
<1>7. x = body(x)
  <2> HIDE DEF body
  <2> QED
    BY <1>6
<1> HIDE DEF x
<1>8. x[0] = first /\ \A j \in 1..k : x[j] = Step(x[j - 1])
  <2>1. \A j \in 0..k : x[j] = IF j = 0 THEN first ELSE Step(x[j - 1])
    BY <1>7, Zenon
  <2> QED
    BY <1>0, <2>1
<1>9. x \in [0..k -> V]
  <2> DEFINE S == {j \in 0..k : x[j] \in V}
  <2>1. 0 \in S /\ \A j \in 1..k : j - 1 \in S => j \in S
    BY <1>0, <1>2, <1>8
  <2>2. 0..k \subseteq S
    <3> HIDE DEF S
    <3> QED
      BY <1>0, <2>1, UpTo
  <2>3. x = [j \in 0..k |-> x[j]]
    <3> DEFINE bx == body(x)
    <3>1. bx = [j \in 0..k |-> bx[j]]
      OBVIOUS
    <3> HIDE DEF body
    <3> QED
      BY <1>7, <3>1
  <2>4. \A j \in 0..k : x[j] \in V
    BY <2>2
  <2> QED
    BY <2>3, <2>4
<1>10. PICK q \in Int : n * x[k] = 1 + q * w
  <2>1. x \in [0..k -> Nat]
    BY <1>9 DEF V
  <2>2. x[0] = (2 - n) % PowerOf(2, WordBits)
    BY <1>0, <1>8 DEF first
  <2>3. \A s \in 1..k : x[s] = (x[s - 1] * (2 - n * x[s - 1])) % PowerOf(2, WordBits)
    BY <1>0, <1>8 DEF Step
  <2>4. \E q \in Int : n * x[k] = 1 + q * PowerOf(2, WordBits)
    BY <1>0, <2>1, <2>2, <2>3, NewtonInverse
  <2> QED
    BY <1>0, <2>4
<1> DEFINE y == x[k]
           z == 0 - y
           r == z % w
           d == z \div w
<1>11. y \in Int /\ z \in Int
  BY <1>0, <1>9 DEF V
<1>12. r \in 0..(w - 1) /\ d \in Int /\ z = w * d + r
  <2> HIDE DEF z
  <2> QED
    BY <1>0, <1>11, Division
<1> HIDE DEF r, d, y
<1>13. n * y = 1 + q * w
  BY <1>10 DEF y
<1>14. r * n = w * ((0 - q) - d * n - 1) + (w - 1) /\ (0 - q) - d * n - 1 \in Int
  <2>1. r = 0 - y - w * d
    BY <1>0, <1>11, <1>12
  <2>2. (0 - y - w * d) * n = 0 - (n * y) - w * (d * n)
    <3> DEFINE wd == w * d
    <3>1. wd \in Int /\ n \in Int /\ y \in Int
      BY <1>0, <1>11, <1>12
    <3>2. wd * n = w * (d * n)
      <4>1. w \in Int /\ d \in Int /\ n \in Int
        BY <1>0, <1>12
      <4> QED
        BY <4>1, Product3
    <3> HIDE DEF wd
    <3>3. (0 - y - wd) * n = 0 - (n * y) - wd * n
      BY <3>1, SMTT(30)
    <3> QED
      BY <3>2, <3>3 DEF wd
  <2> DEFINE dn == d * n
  <2>3. dn \in Int
    BY <1>12
  <2>4. r * n = 0 - (1 + q * w) - w * dn
    BY <1>13, <2>1, <2>2
  <2> HIDE DEF dn
  <2>5. 0 - (1 + q * w) - w * dn = w * ((0 - q) - dn - 1) + (w - 1) /\ (0 - q) - dn - 1 \in Int
    BY <1>0, <1>10, <2>3, SMTT(30)
  <2> QED
    BY <2>4, <2>5 DEF dn
<1>15. (r * n) % w = w - 1
  <2> DEFINE e == (0 - q) - d * n - 1
             rn == r * n
             top == w - 1
  <2>1. rn \in Int /\ top \in 0..(w - 1) /\ w \in Nat /\ w > 0
    BY <1>0, <1>12
  <2>2. e \in Int /\ rn = w * e + top
    BY <1>14
  <2> HIDE DEF e, rn, top
  <2>3. rn % w = top
    BY <2>1, <2>2, DivisionUnique
  <2> QED
    BY <2>3 DEF rn, top
<1> QED
  BY <1>1, <1>12, <1>15 DEF w, r, y, k

(* The word of the loop serves for the whole number, as it does for its low word. *)
LEMMA Inv32Serves ==
  ASSUME Exp!ModExpParameters, NEW m \in Nat, m % 2 = 1
  PROVE  /\ Exp!Inv32(m % Exp!WordSize) \in 0..(Exp!WordSize - 1)
         /\ (Exp!Inv32(m % Exp!WordSize) * m) % Exp!WordSize = Exp!WordSize - 1
<1> DEFINE w == Exp!WordSize
           n == m % w
           d == m \div w
           v == Exp!Inv32(n)
<1>1. w \in Nat /\ w > 1 /\ w % 2 = 0
  BY ExpSizes
<1> HIDE DEF w
<1>2. n \in Nat /\ d \in Int /\ m = w * d + n
  <2>1. m \div w \in Int /\ m % w \in 0..(w - 1) /\ m = w * (m \div w) + (m % w)
    BY <1>1, Division
  <2> QED
    BY <1>1, <2>1
<1> HIDE DEF n, d
<1>3. n % 2 = 1
  <2> DEFINE h == w \div 2
  <2>1. h \in Int /\ w = 2 * h
    <3>1. w \div 2 \in Int /\ w = 2 * (w \div 2) + (w % 2)
      BY <1>1, Division
    <3> QED
      BY <1>1, <3>1
  <2> HIDE DEF h
  <2>2. m = n + (h * d) * 2 /\ h * d \in Int
    BY <1>2, <2>1, SMTT(30)
  <2> DEFINE hd == h * d
  <2>3. m = n + hd * 2 /\ hd \in Int
    BY <2>2
  <2> HIDE DEF hd
  <2>4. m % 2 = n % 2
    BY <1>2, <2>3, SameRemainder
  <2> QED
    BY <2>4
<1>4. v \in 0..(w - 1) /\ (v * n) % w = w - 1
  BY <1>2, <1>3, Inv32Inverts DEF w
<1> HIDE DEF v
<1>5. (v * m) % w = (v * n) % w
  <2> DEFINE p1 == v * m
             p2 == v * n
             e == v * d
  <2>1. p1 \in Int /\ p2 \in Int /\ e \in Int /\ p1 = p2 + e * w /\ w \in Nat /\ w > 0
    <3>1. v \in Int
      BY <1>1, <1>4
    <3>2. v * (w * d + n) = v * n + (v * d) * w /\ v * n \in Int /\ v * d \in Int
      BY <1>1, <1>2, <3>1, SMTT(30)
    <3> QED
      BY <1>1, <1>2, <3>1, <3>2
  <2> HIDE DEF p1, p2, e
  <2>2. p1 % w = p2 % w
    BY <2>1, SameRemainder
  <2> QED
    BY <2>2 DEF p1, p2
<1> QED
  BY <1>4, <1>5 DEF v, n, w
-------------------------------------------------------------------------------
(* mont_mul. *)

(* What makes inv the word of a loop modulo m. *)
Negates(w, inv, m) == (inv * m) % w = w - 1

(* The multiple of the modulus that a turn of the loop adds to s, and what is left
   when the low word is dropped. *)
TurnFactor(w, inv, s) == ((s % w) * inv) % w
TurnQuotient(w, inv, m, s) == (s + TurnFactor(w, inv, s) * m) \div w

(* What is added to s makes a multiple of a word. *)
LEMMA TurnClears ==
  ASSUME NEW w \in Nat, w > 1, NEW m \in Nat, NEW inv \in Nat, Negates(w, inv, m),
         NEW s \in Nat
  PROVE  /\ TurnFactor(w, inv, s) \in 0..(w - 1) /\ TurnQuotient(w, inv, m, s) \in Nat
         /\ TurnQuotient(w, inv, m, s) * w = s + TurnFactor(w, inv, s) * m
<1> DEFINE low == s % w
           high == s \div w
           li == low * inv
           q == li % w
           l == li \div w
           im == inv * m
           h == im \div w
           sum == s + q * m
           c == (high + low * (h + 1)) - l * m
           z == sum \div w
<1>1. high \in Int /\ low \in 0..(w - 1) /\ s = w * high + low /\ w > 0 /\ w \in Int /\ low \in Int
  BY Division
<1> HIDE DEF low, high
<1>2. li \in Int /\ im \in Int
  BY <1>1
<1>3. q \in 0..(w - 1) /\ l \in Int /\ li = w * l + q
  <2> HIDE DEF li
  <2> QED
    BY <1>1, <1>2, Division
<1>4. h \in Int /\ im = w * h + (w - 1)
  <2>1. im % w = w - 1
    BY DEF Negates
  <2> HIDE DEF im
  <2>2. im \div w \in Int /\ im = w * (im \div w) + (im % w)
    BY <1>1, <1>2, Division
  <2> QED
    BY <2>1, <2>2
<1>5. low * inv = w * l + q /\ inv * m = w * h + (w - 1)
  <2>1. li = low * inv /\ im = inv * m
    OBVIOUS
  <2> HIDE DEF li, im, q, l, h
  <2> QED
    BY <1>3, <1>4, <2>1
<1> HIDE DEF q, l, h
<1>6. (w * high + low) + q * m = w * ((high + low * (h + 1)) - l * m)
  <2>1. q \in Int /\ m \in Int /\ inv \in Int
    BY <1>3
  <2> HIDE DEF li, im
  <2> QED
    BY <1>1, <1>3, <1>4, <1>5, <2>1, ClearsLowWord
<1>7. c \in Int
  <2>1. h + 1 \in Int /\ l * m \in Int
    BY <1>3, <1>4
  <2>2. low * (h + 1) \in Int
    BY <1>1, <2>1
  <2> DEFINE lh == low * (h + 1)
             lm == l * m
  <2> HIDE DEF lh, lm
  <2>3. (high + lh) - lm \in Int
    BY <1>1, <2>1, <2>2 DEF lh, lm
  <2> QED
    BY <2>3 DEF lh, lm
<1>8. sum \in Nat /\ sum = w * c
  <2>1. q * m \in Nat
    BY <1>3
  <2>2. sum = w * c
    BY <1>1, <1>6
  <2> QED
    BY <2>1, <2>2
<1> HIDE DEF c, sum
<1>9. sum = w * c + 0 /\ 0 \in 0..(w - 1) /\ sum \in Int /\ w * c \in Int
  BY <1>1, <1>7, <1>8
<1>10. z = c
  BY <1>1, <1>7, <1>9, DivisionUnique
<1>11. z \in Nat
  BY <1>1, <1>8, NatDivision
<1>12. z * w = sum
  BY <1>1, <1>7, <1>8, <1>10, Product3
<1> QED
  BY <1>3, <1>11, <1>12 DEF TurnFactor, TurnQuotient, sum, q, li, low

(* What a turn leaves is below the modulus and the operand together. *)
LEMMA TurnBounded ==
  ASSUME NEW w \in Nat, w > 1, NEW m \in Nat, NEW y \in Nat, NEW v \in Nat, v < m + y,
         NEW word \in 0..(w - 1), NEW q \in 0..(w - 1), NEW z \in Nat,
         z * w = (v + word * y) + q * m
  PROVE  z < m + y
<1> DEFINE u == w - 1
           wy == word * y
           qm == q * m
           uy == u * y
           um == u * m
<1>1. wy \in Int /\ qm \in Int /\ uy \in Int /\ um \in Int /\ u \in Nat
  OBVIOUS
<1>2. wy <= uy /\ qm <= um
  BY SMTT(30)
<1>3. w * (m + y) = m + y + uy + um
  BY SMTT(30)
<1>4. z * w = v + wy + qm
  BY <1>1
<1> HIDE DEF wy, qm, uy, um
<1>5. z * w < w * (m + y)
  BY <1>1, <1>2, <1>3, <1>4
<1>6. CASE z >= m + y
  <2>1. z * w >= w * (m + y)
    BY <1>6, SMTT(30)
  <2> QED
    BY <1>5, <2>1
<1> QED
  BY <1>6

(* The last subtraction: of a number up to twice the modulus, carry word and all. *)
LEMMA ExpSubtracts ==
  ASSUME Exp!ModExpParameters, NEW m \in 1..(Exp!R - 1), NEW v \in 0..(2 * m)
  PROVE  Exp!SubIfGte(v, m) = IF v < m THEN v ELSE v - m
<1> DEFINE r == Exp!R
<1>1. r \in Nat /\ r > 0 /\ m < r /\ m \in Nat /\ v \in Int
  BY ExpSizes
<1>2. Exp!SubIfGte(v, m) = IF v \div r < (IF v % r < m THEN 1 ELSE 0) THEN v % r ELSE ((v % r) - m) % r
  BY DEF Exp!SubIfGte
<1> HIDE DEF r
<1>3. CASE v < r
  <2>1. v = r * 0 + v /\ v \in 0..(r - 1)
    BY <1>1, <1>3
  <2>2. v \div r = 0 /\ v % r = v
    BY <1>1, <2>1, DivisionUnique
  <2>3. ~(v < m) => (v - m) % r = v - m
    <3>1. ~(v < m) => v - m = r * 0 + (v - m) /\ v - m \in 0..(r - 1) /\ v - m \in Int
      BY <1>1, <1>3
    <3> QED
      BY <1>1, <3>1, DivisionUnique
  <2> QED
    BY <1>2, <2>2, <2>3
<1>4. CASE ~(v < r)
  <2>1. v = r * 1 + (v - r) /\ v - r \in 0..(r - 1)
    BY <1>1, <1>4
  <2>2. v \div r = 1 /\ v % r = v - r
    BY <1>1, <2>1, DivisionUnique
  <2> DEFINE d == (v - r) - m
             e == v - m
  <2>3. d = r * (-1) + e /\ e \in 0..(r - 1) /\ d \in Int /\ -1 \in Int
    BY <1>1, <1>4
  <2>4. d % r = e
    <3> HIDE DEF d, e
    <3> QED
      BY <1>1, <2>3, DivisionUnique
  <2> QED
    BY <1>1, <1>2, <1>4, <2>2, <2>4
<1> QED
  BY <1>3, <1>4

(* One turn of mont_mul's loop. *)
MontTurn(x, y, m, j, v) ==
  LET s == v + Exp!Word(x, j - 1) * y
  IN  (s + ((s % Exp!WordSize) * Exp!Inv32(m % Exp!WordSize) % Exp!WordSize) * m)
        \div Exp!WordSize

(* What a turn from v to z does: a word of x, times y, is added, and a multiple of m. *)
TurnAdds(x, y, m, j, v, z) ==
  \E q \in Nat : z * Exp!WordSize = (v + Exp!Word(x, j - 1) * y) + q * m

(* A turn takes a word of x into what it leaves, and multiples of m. *)
LEMMA TurnIs ==
  ASSUME Exp!ModExpParameters, NEW x \in Nat, NEW y \in Nat, NEW m \in Nat, m % 2 = 1,
         NEW j \in 1..Words, NEW v \in Nat
  PROVE  /\ MontTurn(x, y, m, j, v) \in Nat
         /\ Exp!Word(x, j - 1) \in 0..(Exp!WordSize - 1)
         /\ TurnAdds(x, y, m, j, v, MontTurn(x, y, m, j, v))
         /\ v < m + y => MontTurn(x, y, m, j, v) < m + y
<1> DEFINE w == Exp!WordSize
           word == Exp!Word(x, j - 1)
           inv == Exp!Inv32(m % w)
           s == v + word * y
           q == TurnFactor(w, inv, s)
           z == TurnQuotient(w, inv, m, s)
<1>1. w \in Nat /\ w > 1 /\ w > 0 /\ w \in Nat \ {0} /\ j - 1 \in Nat
  BY ExpSizes
<1>2. MontTurn(x, y, m, j, v) = z
  BY DEF MontTurn, TurnFactor, TurnQuotient
<1>3. inv \in 0..(w - 1) /\ Negates(w, inv, m)
  BY Inv32Serves DEF Negates
<1>4. word \in 0..(w - 1)
  <2> DEFINE d == PowerOf(w, j - 1)
  <2>1. word = (x \div d) % w
    BY DEF Exp!Word, Exp!PowerOf, PowerOf
  <2>2. d \in Nat /\ d > 0
    <3> HIDE DEF w
    <3> QED
      BY <1>1, PowersStep
  <2> HIDE DEF d, w
  <2>3. x \div d \in Nat
    BY <2>2, NatDivision
  <2> HIDE DEF word
  <2> QED
    BY <1>1, <2>1, <2>3, NatDivision
<1> HIDE DEF w, word, inv
<1>5. s \in Nat
  BY <1>1, <1>4
<1>6. q \in 0..(w - 1) /\ z \in Nat /\ z * w = s + q * m
  <2> HIDE DEF s
  <2>1. inv \in Nat
    BY <1>1, <1>3
  <2>2. w > 1 /\ w \in Nat /\ Negates(w, inv, m) /\ m \in Nat
    BY <1>1, <1>3
  <2>3. TurnFactor(w, inv, s) \in 0..(w - 1)
    BY <1>5, <2>1, <2>2, TurnClears
  <2>4. TurnQuotient(w, inv, m, s) \in Nat
    BY <1>5, <2>1, <2>2, TurnClears
  <2>5. TurnQuotient(w, inv, m, s) * w = s + TurnFactor(w, inv, s) * m
    BY <1>5, <2>1, <2>2, TurnClears
  <2> QED
    BY <2>3, <2>4, <2>5
<1> HIDE DEF q, z
<1>7. v < m + y => z < m + y
  BY <1>1, <1>4, <1>6, TurnBounded
<1>8. \E e \in Nat : z * w = (v + word * y) + e * m
  <2>1. q \in Nat
    BY <1>1, <1>6
  <2> QED
    BY <1>6, <2>1
<1> QED
  BY <1>2, <1>4, <1>6, <1>7, <1>8 DEF TurnAdds, w, word

(* The turns of the loop, from 0. *)
LoopTurns(x, y, m, turns) ==
  /\ turns[0] = 0
  /\ \A j \in 1..Words : turns[j] = MontTurn(x, y, m, j, turns[j - 1])
  /\ Exp!MontLoop(x, y, m) = turns[Words]

(* What the loop leaves is x times y, divided by R, up to multiples of m. *)
LEMMA LoopUnfolded ==
  ASSUME Exp!ModExpParameters, NEW x \in Nat, NEW y \in Nat, NEW m \in Nat, m % 2 = 1
  PROVE  \E turns \in [0..Words -> Nat] : LoopTurns(x, y, m, turns)
<1> DEFINE V == Nat
           first == 0
           Step(j, v) == MontTurn(x, y, m, j, v)
           F == [j \in 1..Words |-> [v \in V |-> Step(j, v)]]
           body(g) == [j \in 0..Words |-> IF j = 0 THEN first ELSE Step(j, g[j - 1])]
           turns == CHOOSE g : g = body(g)
           h == Unfolded(Words, V, first, F)
<1>0. Words \in Nat
  BY ExpSizes
<1>1. Exp!MontLoop(x, y, m) = turns[Words]
  BY DEF Exp!MontLoop, MontTurn
<1>2. first \in V /\ \A j \in 1..Words, v \in V : Step(j, v) \in V
  BY TurnIs
<1> HIDE DEF V, first, Step
<1>3. F \in [1..Words -> [V -> V]]
  BY <1>2
<1>4. h \in [0..Words -> V] /\ h[0] = first /\ \A j \in 1..Words : h[j] = F[j][h[j - 1]]
  <2> HIDE DEF F
  <2>1. /\ Unfolded(Words, V, first, F) \in [0..Words -> V] /\ Unfolded(Words, V, first, F)[0] = first
        /\ \A j \in 1..Words :
             Unfolded(Words, V, first, F)[j] = F[j][Unfolded(Words, V, first, F)[j - 1]]
    <3>1. first \in V
      BY <1>2
    <3> QED
      BY <1>0, <1>3, <3>1, Unfolding
  <2> QED
    BY <2>1
<1> HIDE DEF h
<1>5. \A j \in 1..Words : h[j] = Step(j, h[j - 1])
  <2> TAKE j \in 1..Words
  <2>1. h[j - 1] \in V /\ h[j] = F[j][h[j - 1]]
    BY <1>0, <1>4
  <2>2. F[j] = [v \in V |-> Step(j, v)]
    OBVIOUS
  <2> QED
    BY <2>1, <2>2
<1>6. h = body(h)
  BY <1>0, <1>4, <1>5
<1>7. turns = body(turns)
  <2> HIDE DEF body
  <2> QED
    BY <1>6
<1> HIDE DEF turns
<1>8. turns[0] = first /\ \A j \in 1..Words : turns[j] = Step(j, turns[j - 1])
  <2>1. \A j \in 0..Words : turns[j] = IF j = 0 THEN first ELSE Step(j, turns[j - 1])
    BY <1>7, Zenon
  <2> QED
    BY <1>0, <2>1
<1>9. turns \in [0..Words -> V]
  <2> DEFINE S == {j \in 0..Words : turns[j] \in V}
  <2>1. 0 \in S /\ \A j \in 1..Words : j - 1 \in S => j \in S
    BY <1>0, <1>2, <1>8
  <2>2. 0..Words \subseteq S
    <3> HIDE DEF S
    <3> QED
      BY <1>0, <2>1, UpTo
  <2>3. turns = [j \in 0..Words |-> turns[j]]
    <3> DEFINE bx == body(turns)
    <3>1. bx = [j \in 0..Words |-> bx[j]]
      OBVIOUS
    <3> HIDE DEF body
    <3> QED
      BY <1>7, <3>1
  <2>4. \A j \in 0..Words : turns[j] \in V
    BY <2>2
  <2> QED
    BY <2>3, <2>4
<1> QED
  BY <1>1, <1>8, <1>9 DEF LoopTurns, V, first, Step

(* The algebra of one turn. *)
LEMMA TurnAlgebra ==
  ASSUME NEW w \in Int, NEW d \in Int, NEW x \in Int, NEW y \in Int, NEW m \in Int,
         NEW v \in Int, NEW z \in Int, NEW q \in Int, NEW k \in Int,
         NEW word \in Int, NEW rest0 \in Int, NEW rest1 \in Int,
         z * w = (v + word * y) + q * m,
         rest0 = w * rest1 + word,
         v * d = (x - rest0 * d) * y + k * m
  PROVE  z * (w * d) = (x - rest1 * (w * d)) * y + (k + q * d) * m
<1>1. z * (w * d) = (z * w) * d
  BY Product3
<1>2. ((v + word * y) + q * m) * d = v * d + (word * y) * d + (q * m) * d
  BY SMTT(30)
<1>3. (x - rest0 * d) * y = (x - rest1 * (w * d)) * y - (word * y) * d
  <2> DEFINE wd == w * d
             e == word * d
             rw == rest1 * wd
  <2>1. wd \in Int /\ e \in Int /\ rw \in Int
    OBVIOUS
  <2>2. rest0 * d = rw + e
    <3>1. (w * rest1 + word) * d = (w * rest1) * d + word * d
      BY SMTT(30)
    <3>2. (w * rest1) * d = rest1 * (w * d)
      BY SMTT(30)
    <3> QED
      BY <3>1, <3>2
  <2>3. (word * y) * d = e * y
    BY SMTT(30)
  <2> HIDE DEF wd, e, rw
  <2>4. (x - (rw + e)) * y = (x - rw) * y - e * y
    BY <2>1, SMTT(30)
  <2> QED
    BY <2>2, <2>3, <2>4 DEF rw, wd
<1>4. (q * m) * d = (q * d) * m
  BY SMTT(30)
<1>5. (k + q * d) * m = k * m + (q * d) * m
  BY SMTT(30)
<1> DEFINE big == (x - rest1 * (w * d)) * y
           wyd == (word * y) * d
           km == k * m
           qdm == (q * d) * m
<1>6. big \in Int /\ wyd \in Int /\ km \in Int /\ qdm \in Int
  <2>1. w * d \in Int /\ word * y \in Int /\ q * d \in Int
    OBVIOUS
  <2>2. rest1 * (w * d) \in Int
    BY <2>1
  <2> QED
    BY <2>1, <2>2
<1>7. z * (w * d) = v * d + wyd + qdm /\ v * d = big - wyd + km
      /\ (k + q * d) * m = km + qdm
  BY <1>1, <1>2, <1>3, <1>4, <1>5
<1> HIDE DEF big, wyd, km, qdm
<1>8. z * (w * d) = big + (km + qdm)
  BY <1>6, <1>7
<1> QED
  BY <1>7, <1>8 DEF big

(* x with its words from the j-th on taken away, times y: what j turns have done,
   with the power of a word they divide by. *)
TurnsDone(x, y, m, j, v) ==
  \E k \in Int : v * PowerOf(Exp!WordSize, j)
                   = (x - (x \div PowerOf(Exp!WordSize, j)) * PowerOf(Exp!WordSize, j)) * y + k * m

(* A turn adds its word of x to what the turns before it have done. *)
LEMMA TurnKeeps ==
  ASSUME Exp!ModExpParameters, NEW x \in Nat, NEW y \in Nat, NEW m \in Nat, m % 2 = 1,
         NEW j \in 1..Words, NEW v \in Nat, TurnsDone(x, y, m, j - 1, v)
  PROVE  TurnsDone(x, y, m, j, MontTurn(x, y, m, j, v))
<1> DEFINE w == Exp!WordSize
           d == PowerOf(w, j - 1)
           e == PowerOf(w, j)
           z == MontTurn(x, y, m, j, v)
           word == Exp!Word(x, j - 1)
           rest0 == x \div d
           rest1 == x \div e
<1>1. w \in Nat /\ w > 0 /\ w \in Nat \ {0}
  BY ExpSizes
<1>2. d \in Nat /\ d > 0 /\ e = w * d
  <2>1. j - 1 \in Nat /\ (j - 1) + 1 = j
    BY ExpSizes
  <2> HIDE DEF w
  <2>2. PowerOf(w, j - 1) \in Nat /\ PowerOf(w, j - 1) > 0
        /\ PowerOf(w, (j - 1) + 1) = w * PowerOf(w, j - 1)
    BY <1>1, <2>1, PowersStep
  <2> QED
    BY <2>1, <2>2
<1>3. z \in Nat /\ word \in 0..(w - 1)
  BY TurnIs
<1>4. PICK q \in Nat : z * w = (v + word * y) + q * m
  <2>1. TurnAdds(x, y, m, j, v, z)
    BY TurnIs
  <2> QED
    BY <2>1 DEF TurnAdds
<1>5. PICK k \in Int : v * d = (x - rest0 * d) * y + k * m
  BY DEF TurnsDone
<1>6. word = rest0 % w
  BY DEF Exp!Word, Exp!PowerOf, PowerOf
<1> HIDE DEF w, d, z, word
<1>7. rest0 \in Nat /\ rest1 = rest0 \div w
  BY <1>1, <1>2, NatDivision, QuotientOfQuotient
<1>8. rest1 \in Nat /\ rest0 = w * rest1 + word
  <2> HIDE DEF rest0, rest1
  <2>1. rest0 \div w \in Nat /\ rest0 = w * (rest0 \div w) + (rest0 % w)
    BY <1>1, <1>7, NatDivision
  <2> QED
    BY <1>6, <1>7, <2>1
<1> HIDE DEF rest0, rest1, e
<1>9. z * (w * d) = (x - rest1 * (w * d)) * y + (k + q * d) * m
  <2>1. w \in Int /\ d \in Int /\ z \in Int /\ q \in Int /\ word \in Int /\ rest0 \in Int /\ rest1 \in Int
        /\ x \in Int /\ y \in Int /\ m \in Int /\ v \in Int
    BY <1>1, <1>2, <1>3, <1>4, <1>7, <1>8
  <2> QED
    BY <1>4, <1>5, <1>8, <2>1, TurnAlgebra
<1>10. k + q * d \in Int
  BY <1>2
<1> DEFINE kk == k + q * d
<1>11. kk \in Int /\ z * e = (x - rest1 * e) * y + kk * m
  BY <1>2, <1>9, <1>10
<1> HIDE DEF kk
<1> QED
  BY <1>11 DEF TurnsDone, z, e, rest1, w

(* mont_mul's loop: x times y, divided by R, below the modulus and y together. *)
LEMMA LoopIs ==
  ASSUME Exp!ModExpParameters, NEW x \in 0..(Exp!R - 1), NEW m \in Nat, m % 2 = 1, NEW y \in 0..m
  PROVE  /\ Exp!MontLoop(x, y, m) \in Nat
         /\ Exp!MontLoop(x, y, m) < m + y
         /\ \E k \in Int : Exp!MontLoop(x, y, m) * Exp!R = x * y + k * m
<1>0. /\ Words \in Nat /\ x \in Nat /\ y \in Nat /\ m > 0 /\ Exp!R = PowerOf(Exp!WordSize, Words)
      /\ Exp!R \in Nat /\ Exp!R > 0 /\ Exp!WordSize \in Nat \ {0}
  <2>1. m # 0
    <3>1. 0 % 2 = 0
      OBVIOUS
    <3> QED
      BY <3>1
  <2> QED
    BY <2>1, ExpSizes
<1>1. PICK turns \in [0..Words -> Nat] :
           /\ turns[0] = 0
           /\ \A j \in 1..Words : turns[j] = MontTurn(x, y, m, j, turns[j - 1])
           /\ Exp!MontLoop(x, y, m) = turns[Words]
  <2>1. \E turns \in [0..Words -> Nat] : LoopTurns(x, y, m, turns)
    BY <1>0, LoopUnfolded
  <2>2. PICK turns \in [0..Words -> Nat] : LoopTurns(x, y, m, turns)
    BY <2>1
  <2>3. /\ turns[0] = 0
        /\ \A j \in 1..Words : turns[j] = MontTurn(x, y, m, j, turns[j - 1])
        /\ Exp!MontLoop(x, y, m) = turns[Words]
    BY <2>2 DEF LoopTurns
  <2> QED
    BY <2>3
<1> DEFINE S == {j \in 0..Words : turns[j] < m + y /\ TurnsDone(x, y, m, j, turns[j])}
<1>2. 0 \in S
  <2> DEFINE one == PowerOf(Exp!WordSize, 0)
             zero == 0
  <2>1. one = 1
    BY <1>0, PowersStep
  <2>2. x \div one = x
    <3>1. x = 1 * x + 0 /\ 0 \in 0..(1 - 1) /\ 1 \in Nat /\ 1 > 0 /\ x \in Int
      BY <1>0
    <3>2. x \div 1 = x
      BY <3>1, DivisionUnique
    <3> QED
      BY <2>1, <3>2
  <2>3. turns[0] * one = (x - (x \div one) * one) * y + zero * m
    <3>1. x * one = x /\ x - x = 0
      BY <1>0, <2>1
    <3> QED
      BY <1>0, <1>1, <2>1, <2>2, <3>1
  <2>4. zero \in Int
    OBVIOUS
  <2> HIDE DEF zero
  <2>5. TurnsDone(x, y, m, 0, turns[0])
    BY <2>3, <2>4 DEF TurnsDone
  <2> QED
    BY <1>0, <1>1, <2>5
<1>3. ASSUME NEW j \in 1..Words, j - 1 \in S PROVE j \in S
  <2> DEFINE v == turns[j - 1]
  <2>1. v \in Nat /\ v < m + y /\ TurnsDone(x, y, m, j - 1, v) /\ turns[j] = MontTurn(x, y, m, j, v)
        /\ j \in 0..Words
    BY <1>0, <1>1, <1>3
  <2> HIDE DEF v
  <2>2. MontTurn(x, y, m, j, v) < m + y
    BY <1>0, <2>1, TurnIs
  <2>3. TurnsDone(x, y, m, j, MontTurn(x, y, m, j, v))
    BY <1>0, <2>1, TurnKeeps
  <2> QED
    BY <2>1, <2>2, <2>3
<1>4. Words \in S
  <2> HIDE DEF S
  <2>1. 0..Words \subseteq S
    BY <1>0, <1>2, <1>3, UpTo
  <2> QED
    BY <1>0, <2>1
<1>5. x \div Exp!R = 0
  <2> DEFINE r == Exp!R
  <2>1. x = r * 0 + x /\ x \in 0..(r - 1) /\ r \in Nat /\ r > 0 /\ x \in Int
    BY <1>0
  <2> HIDE DEF r
  <2>2. x \div r = 0
    BY <2>1, DivisionUnique
  <2> QED
    BY <2>2 DEF r
<1>6. PICK k \in Int : turns[Words] * Exp!R = (x - (x \div Exp!R) * Exp!R) * y + k * m
  BY <1>0, <1>4 DEF TurnsDone
<1>7. turns[Words] * Exp!R = x * y + k * m
  <2>1. (x \div Exp!R) * Exp!R = 0 /\ x - 0 = x
    BY <1>0, <1>5
  <2> QED
    BY <1>6, <2>1
<1>8. Exp!MontLoop(x, y, m) = turns[Words]
  BY <1>1
<1>9. turns[Words] \in Nat /\ turns[Words] < m + y
  BY <1>0, <1>1, <1>4
<1> QED
  BY <1>7, <1>8, <1>9, Zenon

(* mont_mul returns x * y * R^-1, reduced. *)
LEMMA MontMulIs ==
  ASSUME Exp!ModExpParameters, NEW x \in 0..(Exp!R - 1), NEW m \in 1..(Exp!R - 1), m % 2 = 1,
         NEW y \in 0..m
  PROVE  /\ Exp!MontMul(x, y, m) \in 0..(m - 1)
         /\ Same(m, Exp!MontMul(x, y, m) * Exp!R, x * y)
<1> DEFINE v == Exp!MontLoop(x, y, m)
           z == Exp!SubIfGte(v, m)
           r == Exp!R
<1>1. m \in Nat /\ m > 0 /\ r \in Nat /\ x \in Int /\ y \in Int
  BY ExpSizes
<1>2. v \in Nat /\ v < m + y /\ \E k \in Int : v * r = x * y + k * m
  BY <1>1, LoopIs
<1>3. PICK k \in Int : v * r = x * y + k * m
  BY <1>2
<1>4. Exp!MontMul(x, y, m) = z
  BY DEF Exp!MontMul
<1> HIDE DEF v, r
<1>5. v \in 0..(2 * m)
  BY <1>1, <1>2
<1>6. z = IF v < m THEN v ELSE v - m
  BY <1>5, ExpSubtracts
<1> HIDE DEF z
<1>7. z \in 0..(m - 1)
  BY <1>1, <1>2, <1>6
<1> DEFINE xy == x * y
           vr == v * r
           zr == z * r
<1>8. xy \in Int /\ vr \in Int /\ zr \in Int /\ vr = xy + k * m
  <2>1. z \in Int
    BY <1>1, <1>7
  <2> QED
    BY <1>1, <1>2, <1>3, <2>1
<1>9. \E e \in Int : zr = xy + e * m
  <2>1. CASE v < m
    <3>1. zr = xy + k * m
      BY <1>6, <1>8, <2>1
    <3> QED
      BY <3>1
  <2>2. CASE ~(v < m)
    <3>1. z = v - m
      BY <1>6, <2>2
    <3>2. (v - m) * r = v * r - r * m /\ v * r \in Int /\ r * m \in Int
      BY <1>1, <1>2, SMTT(30)
    <3>3. k * m - r * m = (k - r) * m /\ k * m \in Int /\ k - r \in Int
      BY <1>1, SMTT(30)
    <3> DEFINE km == k * m
               rm == r * m
               kr == k - r
    <3>4. zr = vr - rm /\ vr = xy + km /\ km - rm = kr * m /\ kr \in Int /\ km \in Int /\ rm \in Int
      BY <1>8, <3>1, <3>2, <3>3
    <3> HIDE DEF zr, vr, xy, km, rm, kr
    <3>5. zr = xy + kr * m
      BY <1>8, <3>4
    <3> QED
      BY <3>4, <3>5
  <2> QED
    BY <2>1, <2>2
<1>10. Same(m, zr, xy)
  <2>1. zr \in Int /\ xy \in Int /\ m \in Nat /\ m > 0 /\ Apart(m, zr, xy)
    BY <1>1, <1>8, <1>9 DEF Apart
  <2> HIDE DEF xy, zr
  <2> QED
    BY <2>1, ApartSame
<1> QED
  BY <1>4, <1>7, <1>10 DEF xy, zr, r
-------------------------------------------------------------------------------
(* R^2 mod m, and the products of the build. *)

(* The doublings: each power of two modulo m, or up to m itself when m is 1. *)
Doubled(m, s, v) == v \in 0..m /\ Same(m, v, PowerOf(2, s)) /\ (m = 1 \/ v < m)

(* A doubling with its conditional subtraction. *)
LEMMA DoublingKeeps ==
  ASSUME Exp!ModExpParameters, NEW m \in 1..(Exp!R - 1), NEW s \in Nat, NEW v, Doubled(m, s, v)
  PROVE  Doubled(m, s + 1, Exp!SubIfGte(2 * v, m))
<1> DEFINE u == 2 * v
           z == Exp!SubIfGte(u, m)
           one == PowerOf(2, s)
           two == PowerOf(2, s + 1)
<1>1. m \in Nat /\ m > 0 /\ v \in 0..m /\ Same(m, v, one) /\ (m = 1 \/ v < m) /\ v \in Int
  BY ExpSizes DEF Doubled
<1>2. one \in Int /\ two = 2 * one /\ two \in Int
  <2>1. one \in Nat /\ two = 2 * one
    BY PowersOfTwo
  <2> HIDE DEF one, two
  <2> QED
    BY <2>1
<1> HIDE DEF one, two
<1>3. u \in 0..(2 * m) /\ u \in Int
  BY <1>1
<1>4. z = IF u < m THEN u ELSE u - m
  <2> HIDE DEF u
  <2> QED
    BY <1>3, ExpSubtracts
<1> HIDE DEF z
<1>5. z \in 0..m /\ (m = 1 \/ z < m) /\ z \in Int
  BY <1>1, <1>3, <1>4
<1>6. Same(m, u, two)
  <2> DEFINE f == 2
             vf == v * f
             of == one * f
  <2>1. f \in Int /\ vf = u /\ of = two
    BY <1>1, <1>2
  <2> HIDE DEF f
  <2>2. Same(m, v * f, one * f)
    BY <1>1, <1>2, <2>1, SameTimes
  <2> QED
    BY <2>1, <2>2
<1>7. Same(m, z, u)
  <2>1. CASE u < m
    BY <1>4, <2>1 DEF Same
  <2>2. CASE ~(u < m)
    <3> DEFINE k == -1
    <3>1. z = u + k * m /\ k \in Int
      BY <1>1, <1>3, <1>4, <2>2
    <3> HIDE DEF k, u
    <3>2. z % m = u % m
      BY <1>1, <1>3, <1>5, <3>1, SameRemainder
    <3> QED
      BY <3>2 DEF Same
  <2> QED
    BY <2>1, <2>2
<1>8. Same(m, z, two)
  BY <1>6, <1>7 DEF Same
<1> QED
  BY <1>5, <1>8 DEF Doubled, z, two

(* What the doublings end with is R^2 mod m, or m itself if m is one. *)
LEMMA RSquaredIs ==
  ASSUME Exp!ModExpParameters, NEW m \in 1..(Exp!R - 1)
  PROVE  Exp!RSquared(m) \in 0..m /\ Same(m, Exp!RSquared(m), Exp!R * Exp!R)
<1> DEFINE n == 2 * WordBits * Words
           V == 0..m
           Step(v) == Exp!SubIfGte(2 * v, m)
           first == 1
           F == [j \in 1..n |-> [v \in V |-> Step(v)]]
           body(g) == [j \in 0..n |-> IF j = 0 THEN first ELSE Step(g[j - 1])]
           r2 == CHOOSE g : g = body(g)
           h == Unfolded(n, V, first, F)
<1>0. n \in Nat /\ m \in Nat /\ m > 0 /\ WordBits * Words \in Nat /\ n = WordBits * Words + WordBits * Words
  <2>1. WordBits \in Nat /\ Words \in Nat /\ m \in Nat /\ m > 0
    BY ExpSizes
  <2>2. WordBits * Words \in Nat
    BY <2>1
  <2>3. 2 * WordBits * Words = 2 * (WordBits * Words)
    BY <2>1, Product3
  <2> DEFINE bw == WordBits * Words
  <2> HIDE DEF bw
  <2> QED
    BY <2>1, <2>2, <2>3
<1>1. Exp!RSquared(m) = r2[n]
  BY DEF Exp!RSquared
<1> HIDE DEF n
<1>2. first \in V /\ \A v \in V : Step(v) \in V
  <2>1. ASSUME NEW v \in V PROVE Step(v) \in V
    <3> DEFINE u == 2 * v
    <3>1. u \in 0..(2 * m) /\ v \in 0..m
      BY <1>0, <2>1
    <3>2. u \in Int
      BY <1>0, <3>1
    <3> HIDE DEF u
    <3>3. Exp!SubIfGte(u, m) = IF u < m THEN u ELSE u - m
      BY <3>1, ExpSubtracts
    <3>4. Exp!SubIfGte(u, m) \in V
      BY <1>0, <3>1, <3>2, <3>3
    <3> QED
      BY <3>4 DEF u
  <2> QED
    BY <1>0, <2>1
<1> HIDE DEF V, first, Step
<1>3. F \in [1..n -> [V -> V]]
  BY <1>2
<1>4. h \in [0..n -> V] /\ h[0] = first /\ \A j \in 1..n : h[j] = F[j][h[j - 1]]
  <2> HIDE DEF F
  <2>1. /\ Unfolded(n, V, first, F) \in [0..n -> V] /\ Unfolded(n, V, first, F)[0] = first
        /\ \A j \in 1..n : Unfolded(n, V, first, F)[j] = F[j][Unfolded(n, V, first, F)[j - 1]]
    <3>1. first \in V /\ n \in Nat
      BY <1>0, <1>2
    <3> QED
      BY <1>3, <3>1, Unfolding
  <2> QED
    BY <2>1
<1> HIDE DEF h
<1>5. \A j \in 1..n : h[j] = Step(h[j - 1])
  <2> TAKE j \in 1..n
  <2>1. h[j - 1] \in V /\ h[j] = F[j][h[j - 1]]
    <3>1. n \in Nat
      BY <1>0
    <3> QED
      BY <1>4, <3>1
  <2>2. F[j] = [v \in V |-> Step(v)]
    OBVIOUS
  <2> QED
    BY <2>1, <2>2
<1>6. h = body(h)
  BY <1>0, <1>4, <1>5
<1>7. r2 = body(r2)
  <2> HIDE DEF body
  <2> QED
    BY <1>6
<1> HIDE DEF r2
<1>8. r2[0] = first /\ \A j \in 1..n : r2[j] = Step(r2[j - 1])
  <2>1. \A j \in 0..n : r2[j] = IF j = 0 THEN first ELSE Step(r2[j - 1])
    BY <1>7, Zenon
  <2> QED
    BY <1>0, <2>1
<1> DEFINE S == {j \in 0..n : Doubled(m, j, r2[j])}
<1>9. 0 \in S
  <2>1. r2[0] = 1 /\ PowerOf(2, 0) = 1
    BY <1>8, PowersOfTwo DEF first
  <2>2. Doubled(m, 0, r2[0])
    BY <1>0, <2>1 DEF Doubled, Same
  <2> QED
    BY <1>0, <2>2
<1>10. ASSUME NEW j \in 1..n, j - 1 \in S PROVE j \in S
  <2> DEFINE l == j - 1
  <2>1. l \in Nat /\ l + 1 = j /\ Doubled(m, l, r2[l]) /\ j \in 0..n /\ r2[j] = Exp!SubIfGte(2 * r2[l], m)
    BY <1>0, <1>8, <1>10 DEF Step
  <2> HIDE DEF l
  <2>2. Doubled(m, l + 1, Exp!SubIfGte(2 * r2[l], m))
    BY <2>1, DoublingKeeps
  <2> QED
    BY <2>1, <2>2
<1>11. n \in S
  <2> HIDE DEF S
  <2>1. 0..n \subseteq S
    BY <1>0, <1>9, <1>10, UpTo
  <2> QED
    BY <1>0, <2>1
<1>12. PowerOf(2, n) = Exp!R * Exp!R
  <2> DEFINE e == WordBits * Words
  <2>1. e \in Nat /\ n = e + e /\ Exp!R = PowerOf(2, e)
    BY <1>0, ExpSizes
  <2> HIDE DEF e
  <2>2. PowerOf(2, e + e) = PowerOf(2, e) * PowerOf(2, e)
    BY <2>1, PowersOfTwo
  <2> QED
    BY <2>1, <2>2
<1> QED
  BY <1>1, <1>11, <1>12 DEF Doubled

(* Some number, times R, is one more than a multiple of an odd modulus. *)
LEMMA RInvertible ==
  ASSUME Exp!ModExpParameters, NEW m \in Nat, m % 2 = 1
  PROVE  \E inv \in Int : Same(m, Exp!R * inv, 1)
<1> DEFINE e == WordBits * Words
<1>1. e \in Nat /\ Exp!R = PowerOf(2, e)
  BY ExpSizes
<1> HIDE DEF e
<1> QED
  BY <1>1, OddInvertible

(* One turn of bignum_mont_redc's loop. *)
RedcTurn(m, v) ==
  (v + ((v % Exp!WordSize) * Exp!Inv32(m % Exp!WordSize) % Exp!WordSize) * m) \div Exp!WordSize

(* A turn clears a word with a multiple of m of less than a word. *)
RedcAdds(m, v, z) == \E q \in 0..(Exp!WordSize - 1) : z * Exp!WordSize = v + q * m

LEMMA RedcTurnIs ==
  ASSUME Exp!ModExpParameters, NEW m \in Nat, m % 2 = 1, NEW v \in Nat
  PROVE  RedcTurn(m, v) \in Nat /\ RedcAdds(m, v, RedcTurn(m, v))
<1> DEFINE w == Exp!WordSize
           inv == Exp!Inv32(m % w)
           q == TurnFactor(w, inv, v)
           z == TurnQuotient(w, inv, m, v)
<1>1. w \in Nat /\ w > 1
  BY ExpSizes
<1>2. RedcTurn(m, v) = z
  BY DEF RedcTurn, TurnFactor, TurnQuotient
<1>3. inv \in 0..(w - 1) /\ Negates(w, inv, m)
  BY Inv32Serves DEF Negates
<1> HIDE DEF w, inv
<1>4. inv \in Nat
  BY <1>1, <1>3
<1>5. q \in 0..(w - 1) /\ z \in Nat /\ z * w = v + q * m
  BY <1>1, <1>3, <1>4, TurnClears
<1> HIDE DEF q, z
<1> QED
  BY <1>2, <1>5 DEF RedcAdds, w

(* The turns of that loop, from the number to reduce. *)
RedcTurns(v, m, turns) ==
  /\ turns[0] = v
  /\ \A j \in 1..Words : turns[j] = RedcTurn(m, turns[j - 1])
  /\ Exp!AsmRedcLoop(v, m) = turns[Words]

LEMMA RedcUnfolded ==
  ASSUME Exp!ModExpParameters, NEW v \in Nat, NEW m \in Nat, m % 2 = 1
  PROVE  \E turns \in [0..Words -> Nat] : RedcTurns(v, m, turns)
<1> DEFINE V == Nat
           first == v
           Step(u) == RedcTurn(m, u)
           F == [j \in 1..Words |-> [u \in V |-> Step(u)]]
           body(g) == [j \in 0..Words |-> IF j = 0 THEN first ELSE Step(g[j - 1])]
           turns == CHOOSE g : g = body(g)
           h == Unfolded(Words, V, first, F)
<1>0. Words \in Nat
  BY ExpSizes
<1>1. Exp!AsmRedcLoop(v, m) = turns[Words]
  BY DEF Exp!AsmRedcLoop, RedcTurn
<1>2. first \in V /\ \A u \in V : Step(u) \in V
  BY RedcTurnIs
<1> HIDE DEF V, first, Step
<1>3. F \in [1..Words -> [V -> V]]
  BY <1>2
<1>4. h \in [0..Words -> V] /\ h[0] = first /\ \A j \in 1..Words : h[j] = F[j][h[j - 1]]
  <2> HIDE DEF F
  <2>1. /\ Unfolded(Words, V, first, F) \in [0..Words -> V] /\ Unfolded(Words, V, first, F)[0] = first
        /\ \A j \in 1..Words :
             Unfolded(Words, V, first, F)[j] = F[j][Unfolded(Words, V, first, F)[j - 1]]
    <3>1. first \in V
      BY <1>2
    <3> QED
      BY <1>0, <1>3, <3>1, Unfolding
  <2> QED
    BY <2>1
<1> HIDE DEF h
<1>5. \A j \in 1..Words : h[j] = Step(h[j - 1])
  <2> TAKE j \in 1..Words
  <2>1. h[j - 1] \in V /\ h[j] = F[j][h[j - 1]]
    BY <1>0, <1>4
  <2>2. F[j] = [u \in V |-> Step(u)]
    OBVIOUS
  <2> QED
    BY <2>1, <2>2
<1>6. h = body(h)
  BY <1>0, <1>4, <1>5
<1>7. turns = body(turns)
  <2> HIDE DEF body
  <2> QED
    BY <1>6
<1> HIDE DEF turns
<1>8. turns[0] = first /\ \A j \in 1..Words : turns[j] = Step(turns[j - 1])
  <2>1. \A j \in 0..Words : turns[j] = IF j = 0 THEN first ELSE Step(turns[j - 1])
    BY <1>7, Zenon
  <2> QED
    BY <1>0, <2>1
<1>9. turns \in [0..Words -> V]
  <2> DEFINE S == {j \in 0..Words : turns[j] \in V}
  <2>1. 0 \in S /\ \A j \in 1..Words : j - 1 \in S => j \in S
    BY <1>0, <1>2, <1>8
  <2>2. 0..Words \subseteq S
    <3> HIDE DEF S
    <3> QED
      BY <1>0, <2>1, UpTo
  <2>3. turns = [j \in 0..Words |-> turns[j]]
    <3> DEFINE bx == body(turns)
    <3>1. bx = [j \in 0..Words |-> bx[j]]
      OBVIOUS
    <3> HIDE DEF body
    <3> QED
      BY <1>7, <3>1
  <2>4. \A j \in 0..Words : turns[j] \in V
    BY <2>2
  <2> QED
    BY <2>3, <2>4
<1> QED
  BY <1>1, <1>8, <1>9 DEF RedcTurns, V, first, Step

(* What j turns have done: they added a multiple of m of less than j words, and
   divided by as many. *)
RedcDone(v, m, j, z) ==
  \E k \in 0..(PowerOf(Exp!WordSize, j) - 1) : z * PowerOf(Exp!WordSize, j) = v + k * m

LEMMA RedcKeeps ==
  ASSUME Exp!ModExpParameters, NEW v \in Nat, NEW m \in Nat, m % 2 = 1,
         NEW j \in 1..Words, NEW u \in Nat, RedcDone(v, m, j - 1, u)
  PROVE  RedcDone(v, m, j, RedcTurn(m, u))
<1> DEFINE w == Exp!WordSize
           d == PowerOf(w, j - 1)
           e == PowerOf(w, j)
           z == RedcTurn(m, u)
<1>1. w \in Nat /\ w > 1 /\ w \in Nat \ {0}
  BY ExpSizes
<1>2. d \in Nat /\ d > 0 /\ e = w * d
  <2>1. j - 1 \in Nat /\ (j - 1) + 1 = j
    BY ExpSizes
  <2> HIDE DEF w
  <2>2. PowerOf(w, j - 1) \in Nat /\ PowerOf(w, j - 1) > 0
        /\ PowerOf(w, (j - 1) + 1) = w * PowerOf(w, j - 1)
    BY <1>1, <2>1, PowersStep
  <2> QED
    BY <2>1, <2>2
<1>3. z \in Nat
  BY RedcTurnIs
<1>4. PICK q \in 0..(w - 1) : z * w = u + q * m
  <2>1. RedcAdds(m, u, z)
    BY RedcTurnIs
  <2> QED
    BY <2>1 DEF RedcAdds
<1>5. PICK k \in 0..(d - 1) : u * d = v + k * m
  BY DEF RedcDone
<1> HIDE DEF w, d, e, z
<1> DEFINE wd == w * d
           qd == q * d
           kk == k + qd
<1>6. wd \in Nat /\ qd \in Nat /\ kk \in Nat /\ e = wd /\ q \in Int /\ k \in Int
  BY <1>1, <1>2
<1>7. kk <= wd - 1
  <2>1. qd <= (w - 1) * d
    BY <1>1, <1>2, SMTT(30)
  <2>2. (w - 1) * d = wd - d
    BY <1>1, <1>2, SMTT(30)
  <2> HIDE DEF qd, wd
  <2> QED
    BY <1>2, <1>6, <2>1, <2>2
<1>8. z * wd = v + kk * m
  <2>1. z * wd = (z * w) * d
    BY <1>1, <1>2, <1>3, Product3
  <2> DEFINE qm == q * m
             km == k * m
  <2>2. qm \in Int /\ km \in Int
    BY <1>6
  <2>3. (u + qm) * d = u * d + qm * d
    <3> HIDE DEF qm
    <3> QED
      BY <1>2, <2>2, SMTT(30)
  <2>4. qm * d = qd * m
    BY <1>2, <1>6, SMTT(30)
  <2>5. kk * m = km + qd * m
    <3> HIDE DEF qd
    <3> QED
      BY <1>6, SMTT(30)
  <2> DEFINE qdm == qd * m
  <2>6. qdm \in Int
    <3> HIDE DEF qd
    <3> QED
      BY <1>6
  <2>7. z * wd = (v + km) + qdm /\ kk * m = km + qdm
    BY <1>4, <1>5, <2>1, <2>3, <2>4, <2>5
  <2> HIDE DEF km, qdm, kk, wd
  <2> QED
    BY <2>2, <2>6, <2>7
<1> HIDE DEF kk, wd
<1>9. kk \in 0..(e - 1) /\ z * e = v + kk * m
  BY <1>6, <1>7, <1>8
<1> QED
  BY <1>9 DEF RedcDone, e, w, z

(* bignum_mont_redc's loop: v and a multiple of m of less than R, divided by R. *)
LEMMA RedcLoopIs ==
  ASSUME Exp!ModExpParameters, NEW v \in Nat, NEW m \in Nat, m % 2 = 1
  PROVE  /\ Exp!AsmRedcLoop(v, m) \in Nat
         /\ \E k \in 0..(Exp!R - 1) : Exp!AsmRedcLoop(v, m) * Exp!R = v + k * m
<1>0. /\ Words \in Nat /\ Exp!R = PowerOf(Exp!WordSize, Words) /\ Exp!WordSize \in Nat \ {0}
  BY ExpSizes
<1>1. PICK turns \in [0..Words -> Nat] : RedcTurns(v, m, turns)
  BY RedcUnfolded
<1>2. /\ turns[0] = v
      /\ \A j \in 1..Words : turns[j] = RedcTurn(m, turns[j - 1])
      /\ Exp!AsmRedcLoop(v, m) = turns[Words]
  BY <1>1 DEF RedcTurns
<1> DEFINE S == {j \in 0..Words : RedcDone(v, m, j, turns[j])}
<1>3. 0 \in S
  <2> DEFINE one == PowerOf(Exp!WordSize, 0)
             zero == 0
  <2>1. one = 1
    BY <1>0, PowersStep
  <2>2. zero \in 0..(one - 1) /\ v * one = v + zero * m
    BY <2>1
  <2> HIDE DEF zero
  <2>3. RedcDone(v, m, 0, v)
    BY <2>2 DEF RedcDone
  <2> QED
    BY <1>0, <1>2, <2>3
<1>4. ASSUME NEW j \in 1..Words, j - 1 \in S PROVE j \in S
  <2> DEFINE u == turns[j - 1]
  <2>1. u \in Nat /\ RedcDone(v, m, j - 1, u) /\ turns[j] = RedcTurn(m, u) /\ j \in 0..Words
    BY <1>0, <1>2, <1>4
  <2> HIDE DEF u
  <2>2. RedcDone(v, m, j, RedcTurn(m, u))
    BY <2>1, RedcKeeps
  <2> QED
    BY <2>1, <2>2
<1>5. Words \in S
  <2> HIDE DEF S
  <2>1. 0..Words \subseteq S
    BY <1>0, <1>3, <1>4, UpTo
  <2> QED
    BY <1>0, <2>1
<1>6. turns[Words] \in Nat
  BY <1>0
<1> QED
  BY <1>0, <1>2, <1>5, <1>6 DEF RedcDone

(* What the asm path's products stay below: R, if the modulus' top bit is set. *)
AsmLimit(m) == IF 2 * m >= Exp!R THEN Exp!R ELSE m

(* bignum_mont_redc returns v * R^-1 up to multiples of m, below that bound if v is
   at most what two numbers below it, one of them of N words, have for a product. *)
LEMMA AsmRedcIs ==
  ASSUME Exp!ModExpParameters, NEW m \in 1..(Exp!R - 1), m % 2 = 1, NEW v \in Nat,
         v <= (AsmLimit(m) - 1) * (Exp!R - 1)
  PROVE  Exp!AsmRedc(v, m) \in 0..(AsmLimit(m) - 1) /\ Same(m, Exp!AsmRedc(v, m) * Exp!R, v)
<1> DEFINE r == Exp!R
           lim == AsmLimit(m)
           u == Exp!AsmRedcLoop(v, m)
           z == Exp!AsmRedc(v, m)
<1>1. r \in Nat /\ r > 0 /\ m \in Nat /\ m > 0 /\ m < r /\ lim \in Nat /\ lim > 0
  BY ExpSizes DEF AsmLimit
<1>2. u \in Nat
  BY <1>1, RedcLoopIs
<1>3. PICK k \in 0..(r - 1) : u * r = v + k * m
  BY <1>1, RedcLoopIs
<1>4. z = IF 2 * m >= r THEN (IF u >= r THEN u - m ELSE u) ELSE Exp!SubIfGte(u, m)
  BY DEF Exp!AsmRedc
<1>5. lim = IF 2 * m >= r THEN r ELSE m
  BY DEF AsmLimit
<1>6. v <= (lim - 1) * (r - 1)
  OBVIOUS
<1> HIDE DEF r, lim, u
<1>7. u < lim + m
  <2> DEFINE r1 == r - 1
             l1 == lim - 1
             lr == l1 * r1
             mr == m * r1
             km == k * m
             s == lim + m
  <2>1. r1 \in Nat /\ l1 \in Nat /\ lr \in Nat /\ mr \in Nat /\ km \in Nat /\ s \in Nat
    BY <1>1
  <2>2. km <= mr
    BY <1>1, SMTT(30)
  <2>3. s * r = lr + mr + (r1 + s)
    BY <1>1, SMTT(30)
  <2>4. u * r = v + km /\ v <= lr
    BY <1>3, <1>6
  <2> HIDE DEF lr, mr, km, r1, l1
  <2>5. u * r < s * r
    BY <1>1, <2>1, <2>2, <2>3, <2>4
  <2>6. ASSUME u >= s PROVE FALSE
    <3>1. u * r >= s * r
      BY <1>1, <1>2, <2>1, <2>6, SMTT(30)
    <3> HIDE DEF s
    <3> QED
      BY <1>1, <1>2, <2>1, <2>5, <3>1
  <2> QED
    BY <1>2, <2>1, <2>6
<1>8. z \in 0..(lim - 1) /\ (z = u \/ z = u - m) /\ z \in Int
  <2>1. CASE 2 * m >= r
    BY <1>1, <1>2, <1>4, <1>5, <1>7, <2>1
  <2>2. CASE ~(2 * m >= r)
    <3>1. u \in 0..(2 * m) /\ lim = m
      BY <1>1, <1>2, <1>5, <1>7, <2>2
    <3>2. Exp!SubIfGte(u, m) = IF u < m THEN u ELSE u - m
      BY <3>1, ExpSubtracts DEF r
    <3> QED
      BY <1>1, <1>2, <1>4, <1>7, <2>2, <3>1, <3>2
  <2> QED
    BY <2>1, <2>2
<1> HIDE DEF z
<1> DEFINE zr == z * r
           km == k * m
           rm == r * m
<1>9. zr \in Int /\ km \in Int /\ rm \in Int /\ u * r = v + km
  BY <1>1, <1>3, <1>8
<1>10. Apart(m, zr, v)
  <2>1. CASE z = u
    <3>1. zr = v + k * m /\ k \in Int
      BY <1>3, <2>1
    <3> QED
      BY <3>1 DEF Apart
  <2>2. CASE z = u - m
    <3> DEFINE e == k - r
    <3>1. zr = u * r - rm /\ km - rm = e * m /\ u * r \in Int
      BY <1>1, <1>2, <2>2, SMTT(30)
    <3>2. e \in Int
      BY <1>1
    <3> HIDE DEF zr, km, rm, e
    <3>3. zr = v + e * m
      BY <1>9, <3>1
    <3> QED
      BY <3>2, <3>3 DEF Apart
  <2> QED
    BY <1>8, <2>1, <2>2
<1>11. Same(m, zr, v)
  <2>1. m \in Nat /\ m > 0 /\ zr \in Int /\ v \in Int /\ Apart(m, zr, v)
    BY <1>1, <1>9, <1>10
  <2> HIDE DEF zr
  <2> QED
    BY <2>1, ApartSame
<1> QED
  BY <1>8, <1>11 DEF lim, z, r

(* What bounds the products of the build. *)
LEMMA LimitIs ==
  ASSUME Exp!ModExpParameters, modulus \in 1..(Exp!R - 1)
  PROVE  /\ Exp!Limit \in Nat /\ Exp!Limit >= modulus /\ Exp!Limit <= Exp!R /\ Exp!Limit <= 2 * modulus
         /\ path = "asm" => Exp!Limit = AsmLimit(modulus)
         /\ path # "asm" => Exp!Limit = modulus
<1>1. Exp!R \in Nat
  BY ExpSizes
<1> QED
  BY <1>1 DEF Exp!Limit, AsmLimit

(* A product is in Montgomery form when it is x * y * R^-1 up to multiples of m. *)
IsProduct(m, lim, z, x, y) == z \in 0..(lim - 1) /\ Same(m, z * Exp!R, x * y)

(* The product that the build takes, of an accumulator and a reduced number, or of
   an accumulator and itself. *)
LEMMA ProductIs ==
  ASSUME Exp!ModExpParameters, modulus \in 1..(Exp!R - 1), modulus % 2 = 1,
         NEW x \in 0..(Exp!Limit - 1), NEW y \in 0..(Exp!Limit - 1)
  PROVE  IsProduct(modulus, Exp!Limit, Exp!Product(x, y), x, y)
<1> DEFINE lim == Exp!Limit
           r == Exp!R
<1>1. /\ modulus \in Nat /\ lim \in Nat /\ lim >= modulus /\ lim <= r /\ r \in Nat
      /\ x \in Int /\ y \in Int /\ x \in 0..(r - 1) /\ y \in 0..(r - 1)
  <2>1. r \in Nat /\ lim \in Nat /\ lim >= modulus /\ lim <= r
    BY ExpSizes, LimitIs
  <2> HIDE DEF lim, r
  <2>2. x \in 0..(lim - 1) /\ y \in 0..(lim - 1)
    BY DEF lim
  <2> QED
    BY <2>1, <2>2 DEF r
<1>2. CASE path # "asm"
  <2>1. lim = modulus
    BY <1>2, LimitIs
  <2>2. y \in 0..modulus
    BY <1>1, <2>1
  <2>3. Exp!MontMul(x, y, modulus) \in 0..(modulus - 1)
    BY <1>1, <2>2, MontMulIs
  <2>4. Same(modulus, Exp!MontMul(x, y, modulus) * Exp!R, x * y)
    BY <1>1, <2>2, MontMulIs
  <2> QED
    BY <1>2, <2>1, <2>3, <2>4 DEF Exp!Product, IsProduct
<1>3. CASE path = "asm"
  <2> DEFINE xy == x * y
  <2>1. lim = AsmLimit(modulus)
    BY <1>3, LimitIs
  <2>2. xy \in Nat /\ xy <= (lim - 1) * (r - 1)
    <3> HIDE DEF lim, r
    <3>1. x \in 0..(lim - 1)
      BY DEF lim
    <3> QED
      BY <1>1, <3>1, SMTT(30)
  <2> HIDE DEF xy
  <2>3. Exp!AsmRedc(xy, modulus) \in 0..(AsmLimit(modulus) - 1)
    BY <2>1, <2>2, AsmRedcIs
  <2>4. Same(modulus, Exp!AsmRedc(xy, modulus) * Exp!R, xy)
    BY <2>1, <2>2, AsmRedcIs
  <2> QED
    BY <1>3, <2>1, <2>3, <2>4 DEF Exp!Product, IsProduct, xy
<1> QED
  BY <1>2, <1>3

(* What a product is when its operands are known up to multiples of m: x for u * R,
   and y for v * R or for v alone. *)
LEMMA ProductStaysInForm ==
  ASSUME NEW m \in Nat, m > 0, NEW r \in Int, NEW inv \in Int, Same(m, r * inv, 1),
         NEW z \in Int, NEW x \in Int, NEW y \in Int, NEW u \in Int, NEW v \in Int,
         Same(m, z * r, x * y), Same(m, x, u * r)
  PROVE  /\ Same(m, y, v * r) => Same(m, z, (u * v) * r)
         /\ Same(m, y, v) => Same(m, z, u * v)
<1> DEFINE ur == u * r
           vr == v * r
           uv == u * v
           xy == x * y
           zr == z * r
<1>1. ur \in Int /\ vr \in Int /\ uv \in Int /\ xy \in Int /\ zr \in Int
      /\ Same(m, zr, xy) /\ Same(m, x, ur)
  OBVIOUS
<1>2. ur * vr = (uv * r) * r /\ ur * v = uv * r
  <2>1. ur \in Int
    BY <1>1
  <2>2. ur * vr = (ur * v) * r
    <3> HIDE DEF ur
    <3> QED
      BY <2>1, Product3
  <2>3. ur * v = uv * r
    BY Product3
  <2> QED
    BY <2>2, <2>3
<1> HIDE DEF ur, vr, uv, xy, zr
<1>3. ASSUME Same(m, y, vr) PROVE Same(m, z, uv * r)
  <2>1. Same(m, x * y, ur * vr)
    BY <1>1, <1>3, SameProducts
  <2>2. Same(m, z * r, (uv * r) * r)
    BY <1>1, <1>2, <2>1 DEF Same, zr, xy
  <2> DEFINE uvr == uv * r
  <2>3. uvr \in Int /\ Same(m, z * r, uvr * r)
    BY <1>1, <2>2
  <2> HIDE DEF uvr
  <2>4. Same(m, z, uvr)
    BY <2>3, SameCancel
  <2> QED
    BY <2>4 DEF uvr
<1>4. ASSUME Same(m, y, v) PROVE Same(m, z, uv)
  <2>1. Same(m, x * y, ur * v)
    BY <1>1, <1>4, SameProducts
  <2>2. Same(m, z * r, uv * r)
    BY <1>1, <1>2, <2>1 DEF Same, zr, xy
  <2> QED
    BY <1>1, <2>2, SameCancel
<1> QED
  BY <1>3, <1>4 DEF vr, uv
-------------------------------------------------------------------------------
(* Powers modulo m: by the bits of the exponent, and one factor at a time. *)

PowerRead(m, g, bs) ==
  LET f[j \in 0..Len(bs)] ==
        IF j = 0 THEN 1 % m
        ELSE (f[j - 1] * f[j - 1] * (IF bs[j] = 1 THEN g ELSE 1)) % m
  IN  f[Len(bs)]

PowerTimes(m, g, n) ==
  LET f[e \in 0..n] == IF e = 0 THEN 1 % m ELSE (f[e - 1] * g) % m
  IN  f[n]

(* The powers of the model are these. *)
LEMMA PowersAre ==
  /\ \A bs : Exp!PowerOfBits(bs) = PowerRead(modulus, base, bs)
  /\ Exp!Power = PowerTimes(modulus, base, Exp!Value(exponent))
BY DEF Exp!PowerOfBits, PowerRead, Exp!Power, PowerTimes

(* A function that the definition of PowerRead denotes. *)
Reads(m, g, bs, f) ==
  /\ f[0] = 1 % m
  /\ \A j \in 1..Len(bs) : f[j] = (f[j - 1] * f[j - 1] * (IF bs[j] = 1 THEN g ELSE 1)) % m
  /\ PowerRead(m, g, bs) = f[Len(bs)]

(* There is such a function. *)
LEMMA ReadUnfolded ==
  ASSUME NEW m \in Nat, m > 0, NEW g \in Int, NEW bs, Len(bs) \in Nat
  PROVE  \E f \in [0..Len(bs) -> 0..(m - 1)] : Reads(m, g, bs, f)
<1> DEFINE n == Len(bs)
           V == 0..(m - 1)
           first == 1 % m
           Step(j, v) == (v * v * (IF bs[j] = 1 THEN g ELSE 1)) % m
           F == [j \in 1..n |-> [v \in V |-> Step(j, v)]]
           body(s) == [j \in 0..n |-> IF j = 0 THEN first ELSE Step(j, s[j - 1])]
           f == CHOOSE s : s = body(s)
           h == Unfolded(n, V, first, F)
<1>0. n \in Nat
  OBVIOUS
<1>1. PowerRead(m, g, bs) = f[n]
  BY DEF PowerRead
<1> HIDE DEF n
<1>2. first \in V /\ \A j \in 1..n, v \in V : Step(j, v) \in V
  <2>1. first \in V
    BY Division
  <2>2. ASSUME NEW j \in 1..n, NEW v \in V PROVE Step(j, v) \in V
    <3> DEFINE c == IF bs[j] = 1 THEN g ELSE 1
               u == v * v * c
    <3>1. v \in Int /\ c \in Int
      BY <2>2
    <3> HIDE DEF c
    <3>2. v * v \in Int
      BY <3>1
    <3>3. u \in Int
      BY <3>1, <3>2
    <3> HIDE DEF u
    <3>4. u % m \in 0..(m - 1)
      BY <3>3, Division
    <3> QED
      BY <3>4 DEF u, c
  <2> QED
    BY <2>1, <2>2
<1> HIDE DEF V, first, Step
<1>3. F \in [1..n -> [V -> V]]
  BY <1>2
<1>4. h \in [0..n -> V] /\ h[0] = first /\ \A j \in 1..n : h[j] = F[j][h[j - 1]]
  <2> HIDE DEF F
  <2>1. /\ Unfolded(n, V, first, F) \in [0..n -> V] /\ Unfolded(n, V, first, F)[0] = first
        /\ \A j \in 1..n : Unfolded(n, V, first, F)[j] = F[j][Unfolded(n, V, first, F)[j - 1]]
    <3>1. first \in V
      BY <1>2
    <3> QED
      BY <1>0, <1>3, <3>1, Unfolding
  <2> QED
    BY <2>1
<1> HIDE DEF h
<1>5. \A j \in 1..n : h[j] = Step(j, h[j - 1])
  <2> TAKE j \in 1..n
  <2>1. h[j - 1] \in V /\ h[j] = F[j][h[j - 1]]
    BY <1>0, <1>4
  <2>2. F[j] = [v \in V |-> Step(j, v)]
    OBVIOUS
  <2> QED
    BY <2>1, <2>2
<1>6. h = body(h)
  BY <1>0, <1>4, <1>5
<1>7. f = body(f)
  <2> HIDE DEF body
  <2> QED
    BY <1>6
<1> HIDE DEF f
<1>8. f[0] = first /\ \A j \in 1..n : f[j] = Step(j, f[j - 1])
  <2>1. \A j \in 0..n : f[j] = IF j = 0 THEN first ELSE Step(j, f[j - 1])
    BY <1>7, Zenon
  <2> QED
    BY <1>0, <2>1
<1>9. f \in [0..n -> V]
  <2> DEFINE S == {j \in 0..n : f[j] \in V}
  <2>1. 0 \in S /\ \A j \in 1..n : j - 1 \in S => j \in S
    BY <1>0, <1>2, <1>8
  <2>2. 0..n \subseteq S
    <3> HIDE DEF S
    <3> QED
      BY <1>0, <2>1, UpTo
  <2>3. f = [j \in 0..n |-> f[j]]
    <3> DEFINE bf == body(f)
    <3>1. bf = [j \in 0..n |-> bf[j]]
      OBVIOUS
    <3> HIDE DEF body
    <3> QED
      BY <1>7, <3>1
  <2>4. \A j \in 0..n : f[j] \in V
    BY <2>2
  <2> QED
    BY <2>3, <2>4
<1>10. Reads(m, g, bs, f)
  BY <1>1, <1>8 DEF Reads, n, first, Step
<1> QED
  BY <1>9, <1>10 DEF n, V

(* What is read of a prefix does not depend on the rest. *)
LEMMA ReadPrefix ==
  ASSUME NEW m \in Nat, m > 0, NEW g \in Int, NEW T, NEW bs \in Seq(T),
         NEW f \in [0..Len(bs) -> 0..(m - 1)], Reads(m, g, bs, f), NEW k \in 0..Len(bs)
  PROVE  PowerRead(m, g, SubSeq(bs, 1, k)) = f[k]
<1> DEFINE ps == SubSeq(bs, 1, k)
<1>1. Len(ps) = k /\ (\A j \in 1..k : ps[j] = bs[j]) /\ k \in Nat /\ Len(bs) \in Nat
  OBVIOUS
<1> HIDE DEF ps
<1>2. PICK h \in [0..Len(ps) -> 0..(m - 1)] : Reads(m, g, ps, h)
  BY <1>1, ReadUnfolded
<1> DEFINE S == {j \in 0..k : h[j] = f[j]}
<1>3. 0 \in S
  BY <1>1, <1>2 DEF Reads
<1>4. ASSUME NEW j \in 1..k, j - 1 \in S PROVE j \in S
  <2>1. h[j] = (h[j - 1] * h[j - 1] * (IF ps[j] = 1 THEN g ELSE 1)) % m
    BY <1>1, <1>2 DEF Reads
  <2>2. f[j] = (f[j - 1] * f[j - 1] * (IF bs[j] = 1 THEN g ELSE 1)) % m
    <3>1. j \in 1..Len(bs)
      BY <1>1
    <3> QED
      BY <3>1 DEF Reads
  <2>3. h[j - 1] = f[j - 1] /\ ps[j] = bs[j] /\ j \in 0..k
    BY <1>1, <1>4
  <2>4. h[j] = f[j]
    BY <2>1, <2>2, <2>3
  <2> QED
    BY <2>3, <2>4
<1>5. k \in S
  <2> HIDE DEF S
  <2>1. 0..k \subseteq S
    BY <1>1, <1>3, <1>4, UpTo
  <2> QED
    BY <1>1, <2>1
<1> QED
  BY <1>1, <1>2, <1>5 DEF Reads, ps

(* One bit more squares what was read, and takes the base in if it is a one. *)
LEMMA ReadStep ==
  ASSUME NEW m \in Nat, m > 0, NEW g \in Int, NEW T, NEW bs \in Seq(T)
  PROVE  /\ \A k \in 0..Len(bs) : PowerRead(m, g, SubSeq(bs, 1, k)) \in 0..(m - 1)
         /\ PowerRead(m, g, SubSeq(bs, 1, 0)) = 1 % m
         /\ PowerRead(m, g, SubSeq(bs, 1, Len(bs))) = PowerRead(m, g, bs)
         /\ \A k \in 1..Len(bs) :
              PowerRead(m, g, SubSeq(bs, 1, k))
                = (PowerRead(m, g, SubSeq(bs, 1, k - 1)) * PowerRead(m, g, SubSeq(bs, 1, k - 1))
                     * (IF bs[k] = 1 THEN g ELSE 1)) % m
<1> DEFINE P(k) == PowerRead(m, g, SubSeq(bs, 1, k))
<1>1. Len(bs) \in Nat
  OBVIOUS
<1>2. PICK f \in [0..Len(bs) -> 0..(m - 1)] : Reads(m, g, bs, f)
  BY <1>1, ReadUnfolded
<1>3. \A k \in 0..Len(bs) : P(k) = f[k]
  BY <1>2, ReadPrefix
<1> HIDE DEF P
<1>4. ASSUME NEW k \in 1..Len(bs)
      PROVE  P(k) = (P(k - 1) * P(k - 1) * (IF bs[k] = 1 THEN g ELSE 1)) % m
  <2>1. k \in 0..Len(bs) /\ k - 1 \in 0..Len(bs)
    BY <1>1
  <2>2. P(k) = f[k] /\ P(k - 1) = f[k - 1]
    BY <1>3, <2>1
  <2>3. f[k] = (f[k - 1] * f[k - 1] * (IF bs[k] = 1 THEN g ELSE 1)) % m
    BY <1>2 DEF Reads
  <2> QED
    BY <2>2, <2>3
<1>5. \A k \in 0..Len(bs) : P(k) \in 0..(m - 1)
  BY <1>3
<1>6. P(0) = 1 % m /\ P(Len(bs)) = PowerRead(m, g, bs)
  <2>1. 0 \in 0..Len(bs) /\ Len(bs) \in 0..Len(bs)
    BY <1>1
  <2>2. P(0) = f[0] /\ P(Len(bs)) = f[Len(bs)]
    BY <1>3, <2>1
  <2> QED
    BY <1>2, <2>2 DEF Reads
<1> QED
  BY <1>4, <1>5, <1>6 DEF P

(* A function that the definition of PowerTimes denotes. *)
Times(m, g, n, f) ==
  /\ f[0] = 1 % m
  /\ \A e \in 1..n : f[e] = (f[e - 1] * g) % m
  /\ PowerTimes(m, g, n) = f[n]

(* There is such a function. *)
LEMMA TimesUnfolded ==
  ASSUME NEW m \in Nat, m > 0, NEW g \in Int, NEW n \in Nat
  PROVE  \E f \in [0..n -> 0..(m - 1)] : Times(m, g, n, f)
<1> DEFINE V == 0..(m - 1)
           first == 1 % m
           Step(v) == (v * g) % m
           F == [j \in 1..n |-> [v \in V |-> Step(v)]]
           body(s) == [e \in 0..n |-> IF e = 0 THEN first ELSE Step(s[e - 1])]
           f == CHOOSE s : s = body(s)
           h == Unfolded(n, V, first, F)
<1>1. PowerTimes(m, g, n) = f[n]
  BY DEF PowerTimes
<1>2. first \in V /\ \A v \in V : Step(v) \in V
  <2>1. first \in V
    BY Division
  <2>2. ASSUME NEW v \in V PROVE Step(v) \in V
    <3> DEFINE u == v * g
    <3>1. u \in Int
      BY <2>2
    <3> HIDE DEF u
    <3>2. u % m \in 0..(m - 1)
      BY <3>1, Division
    <3> QED
      BY <3>2 DEF u
  <2> QED
    BY <2>1, <2>2
<1> HIDE DEF V, first, Step
<1>3. F \in [1..n -> [V -> V]]
  BY <1>2
<1>4. h \in [0..n -> V] /\ h[0] = first /\ \A j \in 1..n : h[j] = F[j][h[j - 1]]
  <2> HIDE DEF F
  <2>1. /\ Unfolded(n, V, first, F) \in [0..n -> V] /\ Unfolded(n, V, first, F)[0] = first
        /\ \A j \in 1..n : Unfolded(n, V, first, F)[j] = F[j][Unfolded(n, V, first, F)[j - 1]]
    <3>1. first \in V
      BY <1>2
    <3> QED
      BY <1>3, <3>1, Unfolding
  <2> QED
    BY <2>1
<1> HIDE DEF h
<1>5. \A j \in 1..n : h[j] = Step(h[j - 1])
  <2> TAKE j \in 1..n
  <2>1. h[j - 1] \in V /\ h[j] = F[j][h[j - 1]]
    BY <1>4
  <2>2. F[j] = [v \in V |-> Step(v)]
    OBVIOUS
  <2> QED
    BY <2>1, <2>2
<1>6. h = body(h)
  BY <1>4, <1>5
<1>7. f = body(f)
  <2> HIDE DEF body
  <2> QED
    BY <1>6
<1> HIDE DEF f
<1>8. f[0] = first /\ \A j \in 1..n : f[j] = Step(f[j - 1])
  <2>1. \A j \in 0..n : f[j] = IF j = 0 THEN first ELSE Step(f[j - 1])
    BY <1>7, Zenon
  <2> QED
    BY <2>1
<1>9. f \in [0..n -> V]
  <2> DEFINE S == {j \in 0..n : f[j] \in V}
  <2>1. 0 \in S /\ \A j \in 1..n : j - 1 \in S => j \in S
    BY <1>2, <1>8
  <2>2. 0..n \subseteq S
    <3> HIDE DEF S
    <3> QED
      BY <2>1, UpTo
  <2>3. f = [j \in 0..n |-> f[j]]
    <3> DEFINE bf == body(f)
    <3>1. bf = [j \in 0..n |-> bf[j]]
      OBVIOUS
    <3> HIDE DEF body
    <3> QED
      BY <1>7, <3>1
  <2>4. \A j \in 0..n : f[j] \in V
    BY <2>2
  <2> QED
    BY <2>3, <2>4
<1>10. Times(m, g, n, f)
  BY <1>1, <1>8 DEF Times, first, Step
<1> QED
  BY <1>9, <1>10 DEF V

(* Exponents add up. *)
LEMMA TimesAdd ==
  ASSUME NEW m \in Nat, m > 0, NEW g \in Int, NEW n \in Nat,
         NEW f \in [0..n -> 0..(m - 1)], Times(m, g, n, f),
         NEW u \in Nat, NEW v \in Nat, u + v <= n
  PROVE  Same(m, f[u + v], f[u] * f[v])
<1> DEFINE x == f[u]
           S == {j \in 0..v : Same(m, f[u + j], x * f[j])}
<1>1. /\ f[0] = 1 % m
      /\ \A e \in 1..n : f[e] = (f[e - 1] * g) % m
      /\ \A e \in 0..n : f[e] \in Int
  BY DEF Times
<1>2. u \in 0..n /\ v \in 0..n /\ x \in Int
  BY <1>1
<1>3. 0 \in S
  <2> DEFINE one == 1
             o == one % m
  <2>1. one \in Int /\ f[0] = o
    BY <1>1
  <2> HIDE DEF one
  <2>2. o \in Int /\ Same(m, o, one)
    <3>1. o \in 0..(m - 1) /\ Same(m, o, one)
      BY <2>1, Remainder
    <3> QED
      BY <3>1
  <2> HIDE DEF o, x
  <2>3. Same(m, o * x, one * x)
    BY <1>2, <2>1, <2>2, SameTimes
  <2>4. o * x = x * o /\ one * x = x /\ u + 0 = u
    BY <1>2, <2>2 DEF one
  <2>5. Same(m, f[u + 0], x * f[0])
    BY <2>1, <2>3, <2>4 DEF Same, x
  <2> QED
    BY <2>5
<1>4. ASSUME NEW j \in 1..v, j - 1 \in S PROVE j \in S
  <2> DEFINE l == j - 1
             y == f[l]
             z == f[u + l]
             yg == y * g
             zg == z * g
  <2>1. l \in 0..n /\ u + l \in 0..n /\ u + j \in 1..n /\ (u + j) - 1 = u + l /\ j \in 1..n
    BY <1>2
  <2>2. y \in Int /\ z \in Int /\ Same(m, z, x * y) /\ f[j] = yg % m /\ f[u + j] = zg % m
    BY <1>1, <1>4, <2>1
  <2> HIDE DEF x, y, z, l
  <2>3. yg \in Int /\ zg \in Int /\ x * y \in Int
    BY <1>2, <2>2
  <2> DEFINE w == x * y
  <2>4. w * g = x * yg
    BY <1>2, <2>2, Product3
  <2>5. w \in Int /\ Same(m, z, w)
    BY <2>2, <2>3
  <2> HIDE DEF w
  <2>6. Same(m, zg, w * g)
    BY <2>2, <2>5, SameTimes
  <2> HIDE DEF yg, zg
  <2>7. Same(m, yg % m, yg) /\ yg % m \in Int /\ Same(m, zg % m, zg)
    <3>1. yg % m \in 0..(m - 1) /\ Same(m, yg % m, yg)
      BY <2>3, Remainder
    <3>2. Same(m, zg % m, zg)
      BY <2>3, Remainder
    <3> QED
      BY <3>1, <3>2
  <2> DEFINE yr == yg % m
             zr == zg % m
  <2> HIDE DEF yr, zr
  <2>8. Same(m, yr * x, yg * x)
    BY <1>2, <2>3, <2>7, SameTimes DEF yr
  <2>9. yr * x = x * yr /\ yg * x = x * yg
    BY <1>2, <2>3, <2>7 DEF yr
  <2>10. Same(m, zr, x * yr)
    BY <2>4, <2>6, <2>7, <2>8, <2>9 DEF Same, zr
  <2>11. Same(m, f[u + j], x * f[j])
    BY <2>2, <2>10 DEF yr, zr
  <2> QED
    BY <2>11
<1>5. v \in S
  <2> HIDE DEF S
  <2>1. 0..v \subseteq S
    BY <1>3, <1>4, UpTo
  <2> QED
    BY <2>1
<1> QED
  BY <1>5
-------------------------------------------------------------------------------
(* The bits of an exponent, and the number they stand for. *)

(* A function that the definition of Value denotes. *)
ValueReads(e, f) ==
  /\ f[0] = 0
  /\ \A j \in 1..Len(e) : f[j] = f[j - 1] * PowerOf(2, ByteBits) + e[j]
  /\ Exp!Value(e) = f[Len(e)]

(* There is such a function. *)
LEMMA ValueUnfolded ==
  ASSUME Exp!ModExpParameters, NEW e \in Seq(Nat)
  PROVE  \E f \in [0..Len(e) -> Nat] : ValueReads(e, f)
<1> DEFINE n == Len(e)
           V == Nat
           first == 0
           Step(j, v) == v * PowerOf(2, ByteBits) + e[j]
           F == [j \in 1..n |-> [v \in V |-> Step(j, v)]]
           body(s) == [j \in 0..n |-> IF j = 0 THEN first ELSE Step(j, s[j - 1])]
           f == CHOOSE s : s = body(s)
           h == Unfolded(n, V, first, F)
<1>0. n \in Nat /\ ByteBits \in Nat
  BY DEF Exp!ModExpParameters
<1>1. Exp!Value(e) = f[n]
  BY DEF Exp!Value, Exp!PowerOf, PowerOf
<1>2. first \in V /\ \A j \in 1..n, v \in V : Step(j, v) \in V
  <2>1. ASSUME NEW j \in 1..n, NEW v \in V PROVE Step(j, v) \in V
    <3> DEFINE d == PowerOf(2, ByteBits)
    <3>1. d \in Nat
      BY <1>0, PowersOfTwo
    <3>2. e[j] \in Nat
      OBVIOUS
    <3> HIDE DEF d
    <3>3. v * d + e[j] \in Nat
      BY <3>1, <3>2
    <3> QED
      BY <3>3 DEF d
  <2> QED
    BY <2>1
<1> HIDE DEF n, V, first, Step
<1>3. F \in [1..n -> [V -> V]]
  BY <1>2
<1>4. h \in [0..n -> V] /\ h[0] = first /\ \A j \in 1..n : h[j] = F[j][h[j - 1]]
  <2> HIDE DEF F
  <2>1. /\ Unfolded(n, V, first, F) \in [0..n -> V] /\ Unfolded(n, V, first, F)[0] = first
        /\ \A j \in 1..n : Unfolded(n, V, first, F)[j] = F[j][Unfolded(n, V, first, F)[j - 1]]
    <3>1. first \in V /\ n \in Nat
      BY <1>0, <1>2
    <3> QED
      BY <1>3, <3>1, Unfolding
  <2> QED
    BY <2>1
<1> HIDE DEF h
<1>5. \A j \in 1..n : h[j] = Step(j, h[j - 1])
  <2> TAKE j \in 1..n
  <2>1. h[j - 1] \in V /\ h[j] = F[j][h[j - 1]]
    BY <1>0, <1>4
  <2>2. F[j] = [v \in V |-> Step(j, v)]
    OBVIOUS
  <2> QED
    BY <2>1, <2>2
<1>6. h = body(h)
  BY <1>0, <1>4, <1>5
<1>7. f = body(f)
  <2> HIDE DEF body
  <2> QED
    BY <1>6
<1> HIDE DEF f
<1>8. f[0] = first /\ \A j \in 1..n : f[j] = Step(j, f[j - 1])
  <2>1. \A j \in 0..n : f[j] = IF j = 0 THEN first ELSE Step(j, f[j - 1])
    BY <1>7, Zenon
  <2> QED
    BY <1>0, <2>1
<1>9. f \in [0..n -> V]
  <2> DEFINE S == {j \in 0..n : f[j] \in V}
  <2>1. 0 \in S /\ \A j \in 1..n : j - 1 \in S => j \in S
    BY <1>0, <1>2, <1>8
  <2>2. 0..n \subseteq S
    <3> HIDE DEF S
    <3> QED
      BY <1>0, <2>1, UpTo
  <2>3. f = [j \in 0..n |-> f[j]]
    <3> DEFINE bf == body(f)
    <3>1. bf = [j \in 0..n |-> bf[j]]
      OBVIOUS
    <3> HIDE DEF body
    <3> QED
      BY <1>7, <3>1
  <2>4. \A j \in 0..n : f[j] \in V
    BY <2>2
  <2> QED
    BY <2>3, <2>4
<1>10. ValueReads(e, f)
  BY <1>1, <1>8 DEF ValueReads, n, first, Step
<1> QED
  BY <1>9, <1>10 DEF n, V

(* The number that the first k bits stand for: the bytes before, and what is read
   of the next. *)
BitsValue(e, f, k) ==
  f[k \div ByteBits] * PowerOf(2, k % ByteBits)
    + (IF k % ByteBits = 0 THEN 0
       ELSE e[(k \div ByteBits) + 1] \div PowerOf(2, ByteBits - (k % ByteBits)))

(* The bit at offset o in a byte: read after the o bits before it, which are the
   byte without its last bits. *)
LEMMA BitOfByte ==
  ASSUME NEW size \in Nat, NEW o \in 0..(size - 1), NEW y \in 0..(PowerOf(2, size) - 1)
  PROVE  LET u == y \div PowerOf(2, size - 1 - o)
         IN  /\ u \in Nat /\ u % 2 \in {0, 1}
             /\ u = 2 * (y \div PowerOf(2, size - o)) + (u % 2)
             /\ y \div PowerOf(2, size - o) \in Nat
             /\ o = 0 => y \div PowerOf(2, size - o) = 0
             /\ o + 1 = size => u = y
<1> DEFINE P(k) == PowerOf(2, k)
           d == P(size - 1 - o)
           u == y \div d
           h == u \div 2
           t2 == P(size - o)
<1>1. /\ P(0) = 1
      /\ \A k \in Nat : P(k) \in Nat /\ P(k) > 0
      /\ \A k \in Nat : P(k + 1) = 2 * P(k)
  BY PowersOfTwo
<1>2. y \in Nat /\ y < P(size) /\ size \in Nat /\ o \in Nat /\ size - 1 - o \in Nat /\ size - o \in Nat
      /\ (size - 1 - o) + 1 = size - o /\ P(size) \in Nat
  <2>1. P(size) \in Nat
    BY <1>1
  <2> HIDE DEF P
  <2>2. y \in 0..(P(size) - 1)
    BY DEF P
  <2> QED
    BY <2>1, <2>2
<1> HIDE DEF P
<1>3. d \in Nat /\ d > 0 /\ t2 = 2 * d
  <2>1. P((size - 1 - o) + 1) = 2 * P(size - 1 - o)
    BY <1>1, <1>2
  <2> QED
    BY <1>1, <1>2, <2>1
<1>4. o = 0 => t2 = P(size)
  <2>1. o = 0 => size - o = size
    BY <1>2
  <2> QED
    BY <2>1
<1>5. o + 1 = size => d = 1
  <2>1. o + 1 = size => size - 1 - o = 0
    BY <1>2
  <2> QED
    BY <1>1, <2>1
<1> HIDE DEF d, t2
<1>6. u \in Nat
  BY <1>2, <1>3, NatDivision
<1>7. y \div t2 = h
  BY <1>2, <1>3, QuotientOfQuotient
<1> HIDE DEF u
<1>8. h \in Nat /\ u % 2 \in 0..1 /\ u = 2 * h + (u % 2)
  <2>1. u \div 2 \in Nat /\ u % 2 \in 0..(2 - 1) /\ u = 2 * (u \div 2) + (u % 2)
    BY <1>6, NatDivision
  <2> QED
    BY <2>1
<1> HIDE DEF h
<1>9. o = 0 => h = 0
  <2> SUFFICES ASSUME o = 0 PROVE h = 0
    OBVIOUS
  <2>1. y = t2 * 0 + y /\ y \in 0..(t2 - 1) /\ t2 \in Nat /\ t2 > 0 /\ y \in Int
    BY <1>2, <1>3, <1>4
  <2>2. y \div t2 = 0
    BY <2>1, DivisionUnique
  <2> QED
    BY <1>7, <2>2
<1>10. o + 1 = size => u = y
  <2> SUFFICES ASSUME o + 1 = size PROVE u = y
    OBVIOUS
  <2>1. y = 1 * y + 0 /\ 0 \in 0..(1 - 1) /\ 1 \in Nat /\ 1 > 0 /\ y \in Int
    BY <1>2
  <2>2. y \div 1 = y
    BY <2>1, DivisionUnique
  <2> QED
    BY <1>5, <2>2 DEF u
<1>11. u % 2 \in {0, 1}
  BY <1>8
<1> QED
  BY <1>6, <1>7, <1>8, <1>9, <1>10, <1>11 DEF u, d, t2, P
(* Quotient and remainder of the next bit's place. *)
LEMMA NextPlace ==
  ASSUME NEW size \in Nat, size > 0, NEW k \in Nat, k > 0
  PROVE  LET j == (k - 1) \div size
             o == (k - 1) % size
         IN  /\ j \in Nat /\ o \in 0..(size - 1)
             /\ o + 1 = size => k \div size = j + 1 /\ k % size = 0
             /\ o + 1 # size => k \div size = j /\ k % size = o + 1
<1> DEFINE l == k - 1
           j == l \div size
           o == l % size
<1>1. l \in Nat /\ k = l + 1 /\ k \in Int
  OBVIOUS
<1> HIDE DEF l
<1>2. j \in Nat /\ o \in 0..(size - 1) /\ l = size * j + o
  BY <1>1, NatDivision
<1> HIDE DEF j, o
<1> DEFINE sj == size * j
<1>3. sj \in Int /\ l = sj + o
  BY <1>2
<1>4. ASSUME o + 1 = size PROVE k \div size = j + 1 /\ k % size = 0
  <2> DEFINE jj == j + 1
             z == 0
  <2>1. size * jj = sj + size
    BY <1>2, SMTT(30)
  <2>2. jj \in Int /\ z \in 0..(size - 1)
    BY <1>2
  <2> HIDE DEF jj, sj
  <2>3. k = size * jj + z
    BY <1>1, <1>2, <1>3, <1>4, <2>1
  <2> HIDE DEF z
  <2>4. k \div size = jj /\ k % size = z
    BY <1>1, <2>2, <2>3, DivisionUnique
  <2> QED
    BY <2>4 DEF jj, z
<1>5. ASSUME o + 1 # size PROVE k \div size = j /\ k % size = o + 1
  <2> DEFINE z == o + 1
  <2>1. z \in 0..(size - 1) /\ j \in Int
    BY <1>2, <1>5
  <2>2. k = size * j + z
    BY <1>1, <1>2, <1>3
  <2> HIDE DEF z
  <2>3. k \div size = j /\ k % size = z
    BY <1>1, <2>1, <2>2, DivisionUnique
  <2> QED
    BY <2>3 DEF z
<1> QED
  BY <1>2, <1>4, <1>5 DEF j, o, l

(* Another bit doubles the number and is added. *)
LEMMA BitsStep ==
  ASSUME Exp!ModExpParameters, NEW e \in Seq(0..(PowerOf(2, ByteBits) - 1)),
         NEW f \in [0..Len(e) -> Nat], ValueReads(e, f), NEW k \in 1..(Len(e) * ByteBits)
  PROVE  /\ Exp!BitAt(e, k - 1) \in {0, 1}
         /\ BitsValue(e, f, k - 1) \in Nat
         /\ BitsValue(e, f, k) = 2 * BitsValue(e, f, k - 1) + Exp!BitAt(e, k - 1)
<1> DEFINE size == ByteBits
           n == Len(e)
           P(c) == PowerOf(2, c)
           j == (k - 1) \div size
           o == (k - 1) % size
           y == e[j + 1]
           u == y \div P(size - 1 - o)
           h == y \div P(size - o)
           x == f[j]
           bit == Exp!BitAt(e, k - 1)
<1>1. size \in Nat /\ size > 0 /\ n \in Nat /\ k \in Nat /\ k > 0
  BY DEF Exp!ModExpParameters
<1>2. /\ P(0) = 1
      /\ \A c \in Nat : P(c) \in Nat /\ P(c) > 0
      /\ \A c \in Nat : P(c + 1) = 2 * P(c)
  BY PowersOfTwo
<1>3. /\ j \in Nat /\ o \in 0..(size - 1)
      /\ o + 1 = size => k \div size = j + 1 /\ k % size = 0
      /\ o + 1 # size => k \div size = j /\ k % size = o + 1
  BY <1>1, NextPlace
<1>4. j < n
  <2> DEFINE l == k - 1
  <2>1. l \in Nat /\ l < n * size
    BY <1>1
  <2> HIDE DEF l
  <2>2. l \div size \in 0..(n - 1)
    BY <1>1, <2>1, QuotientBound
  <2> QED
    BY <1>1, <2>2 DEF l
<1>5. y \in 0..(P(size) - 1) /\ x \in Nat /\ f[j + 1] = x * P(size) + y
  <2>1. j + 1 \in 1..n /\ j \in 0..n /\ (j + 1) - 1 = j
    BY <1>1, <1>3, <1>4
  <2>2. y \in 0..(P(size) - 1)
    <3> DEFINE T == 0..(P(size) - 1)
               c == j + 1
    <3>1. e \in Seq(T) /\ c \in 1..Len(e)
      BY <2>1
    <3> HIDE DEF T, c
    <3>2. e[c] \in T
      BY <3>1
    <3> QED
      BY <3>2 DEF T, c
  <2>3. f[j + 1] = x * P(size) + y
    BY <2>1 DEF ValueReads
  <2> QED
    BY <2>1, <2>2, <2>3
<1>6. bit = u % 2
  BY DEF Exp!BitAt, Exp!PowerOf, PowerOf
<1>7. /\ u \in Nat /\ u % 2 \in {0, 1} /\ u = 2 * h + (u % 2) /\ h \in Nat
      /\ o = 0 => h = 0
      /\ o + 1 = size => u = y
  <2> HIDE DEF j, o, y
  <2> QED
    BY <1>1, <1>3, <1>5, BitOfByte
<1>8. BitsValue(e, f, k - 1) = x * P(o) + h
  <2>1. CASE o = 0
    BY <1>7, <2>1 DEF BitsValue
  <2>2. CASE o # 0
    BY <2>2 DEF BitsValue
  <2> QED
    BY <2>1, <2>2
<1>9. BitsValue(e, f, k) = (IF o + 1 = size THEN x * P(size) + y ELSE x * P(o + 1) + u)
  <2>1. CASE o + 1 = size
    <3>1. BitsValue(e, f, k) = f[j + 1] * P(0) + 0
      BY <1>3, <2>1 DEF BitsValue
    <3>2. f[j + 1] \in Nat
      <4>1. j + 1 \in 0..n
        BY <1>1, <1>3, <1>4
      <4> QED
        BY <4>1
    <3>3. BitsValue(e, f, k) = f[j + 1]
      <4> DEFINE g == f[j + 1]
                 b0 == P(0)
                 bv == BitsValue(e, f, k)
      <4>1. bv = g * b0 + 0 /\ g \in Nat /\ b0 = 1
        BY <1>2, <3>1, <3>2
      <4> HIDE DEF g, b0, bv
      <4>2. bv = g
        BY <4>1
      <4> QED
        BY <4>2 DEF g, bv
    <3> QED
      BY <1>5, <2>1, <3>3
  <2>2. CASE o + 1 # size
    <3>1. k % size # 0 /\ k % size = o + 1 /\ k \div size = j
      BY <1>1, <1>3, <2>2
    <3>2. size - (o + 1) = size - 1 - o
      BY <1>1, <1>3
    <3>3. BitsValue(e, f, k) = x * P(o + 1) + (y \div P(size - (o + 1)))
      <4> HIDE DEF o, j
      <4> QED
        BY <3>1 DEF BitsValue
    <3> QED
      BY <2>2, <3>2, <3>3
  <2> QED
    BY <2>1, <2>2
<1>10. P(o) \in Nat /\ P(o + 1) = 2 * P(o) /\ (o + 1 = size => P(size) = 2 * P(o))
  <2> HIDE DEF P, o
  <2>1. o \in Nat
    BY <1>1, <1>3
  <2> QED
    BY <1>2, <2>1
<1> DEFINE po == P(o)
           xp == x * po
<1>11. xp \in Nat /\ x * P(o + 1) = 2 * xp /\ (o + 1 = size => x * P(size) = 2 * xp)
  <2> HIDE DEF x, P, o
  <2>1. x * (2 * po) = 2 * (x * po) /\ x * po \in Nat
    BY <1>5, <1>10, SMTT(30)
  <2> QED
    BY <1>10, <2>1
<1>12. BitsValue(e, f, k - 1) = xp + h
  BY <1>8
<1> HIDE DEF xp, po, P, x, y, u, h, o, j
<1>13. BitsValue(e, f, k) = 2 * xp + u
  BY <1>7, <1>9, <1>11
<1> QED
  BY <1>6, <1>7, <1>11, <1>12, <1>13

(* A sequence over a set is one over a larger set. *)
LEMMA SeqWidens ==
  ASSUME NEW S, NEW T, S \subseteq T, NEW e \in Seq(S)
  PROVE  e \in Seq(T)
<1> DEFINE n == Len(e)
<1>1. n \in Nat /\ e = [j \in 1..n |-> e[j]] /\ \A j \in 1..n : e[j] \in S
  OBVIOUS
<1> HIDE DEF n
<1>2. \A j \in 1..n : e[j] \in T
  BY <1>1
<1>3. [j \in 1..n |-> e[j]] \in Seq(T)
  BY <1>1, <1>2
<1> QED
  BY <1>1, <1>3

(* The rest of a sequence from one of its places on. *)
LEMMA RestFrom ==
  ASSUME NEW S, NEW s \in Seq(S), NEW first \in 1..Len(s)
  PROVE  /\ SubSeq(s, first, Len(s)) \in Seq(S)
         /\ Len(SubSeq(s, first, Len(s))) = Len(s) - (first - 1)
         /\ \A j \in 1..(Len(s) - (first - 1)) : SubSeq(s, first, Len(s))[j] = s[first + j - 1]
<1> DEFINE n == Len(s)
           q == SubSeq(s, first, n)
<1>1. n \in Nat /\ first \in Nat /\ first <= n /\ \A j \in 1..n : s[j] \in S
  OBVIOUS
<1>2. q = [j \in 1..(n - (first - 1)) |-> s[first + j - 1]]
  BY <1>1
<1> HIDE DEF n, q
<1>3. n - (first - 1) \in Nat
  BY <1>1
<1>4. \A j \in 1..(n - (first - 1)) : s[first + j - 1] \in S
  BY <1>1
<1>5. q \in Seq(S)
  BY <1>2, <1>3, <1>4
<1>6. Len(q) = n - (first - 1)
  BY <1>2, <1>3
<1>7. \A j \in 1..(n - (first - 1)) : q[j] = s[first + j - 1]
  BY <1>2
<1> QED
  BY <1>5, <1>6, <1>7 DEF n, q
(* The bits of an exponent from its first one on: skipped are zeros. *)
Skips(e, bs, skipped) ==
  /\ Len(bs) = Len(e) * ByteBits - skipped
  /\ \A j \in 1..Len(bs) : bs[j] = Exp!BitAt(e, skipped + j - 1)
  /\ \A k \in 1..skipped : Exp!BitAt(e, k - 1) = 0
  /\ bs # <<>> => bs[1] = 1

(* The bits that modexp_public scans are all but the leading zeros. *)
LEMMA BitsOfExponent ==
  ASSUME Exp!ModExpParameters, NEW e \in Seq(0..(PowerOf(2, ByteBits) - 1))
  PROVE  /\ Exp!ExponentBits(e) \in Seq({0, 1})
         /\ \E skipped \in 0..(Len(e) * ByteBits) : Skips(e, Exp!ExponentBits(e), skipped)
<1> DEFINE n == Len(e) * ByteBits
           all == [k \in 1..n |-> Exp!BitAt(e, k - 1)]
           ones == {k \in DOMAIN all : all[k] = 1}
           least == CHOOSE k \in ones : \A l \in ones : k <= l
           bs == Exp!ExponentBits(e)
<1>1. n \in Nat /\ Len(e) \in Nat
  <2>1. ByteBits \in Nat /\ Len(e) \in Nat
    BY DEF Exp!ModExpParameters
  <2> QED
    BY <2>1
<1>2. PICK f \in [0..Len(e) -> Nat] : ValueReads(e, f)
  <2>1. ByteBits \in Nat
    BY DEF Exp!ModExpParameters
  <2>2. PowerOf(2, ByteBits) \in Nat
    BY <2>1, PowersOfTwo
  <2> DEFINE top == PowerOf(2, ByteBits) - 1
  <2>3. \A x \in 0..top : x \in Nat
    BY <2>2
  <2> HIDE DEF top
  <2>4. e \in Seq(Nat)
    <3>1. e \in Seq(0..top)
      BY DEF top
    <3>2. 0..top \subseteq Nat
      BY <2>3
    <3> QED
      BY <3>1, <3>2, SeqWidens
  <2> QED
    BY <2>4, ValueUnfolded
<1>3. \A k \in 1..n : Exp!BitAt(e, k - 1) \in {0, 1}
  BY <1>2, BitsStep
<1>4. bs = IF ones = {} THEN <<>> ELSE SubSeq(all, least, Len(all))
  BY DEF Exp!ExponentBits
<1> HIDE DEF n, bs
<1>5. all \in Seq({0, 1}) /\ Len(all) = n /\ DOMAIN all = 1..n /\ \A k \in 1..n : all[k] = Exp!BitAt(e, k - 1)
  <2>1. all \in [1..n -> {0, 1}]
    BY <1>3
  <2>2. DOMAIN all = 1..n /\ \A k \in 1..n : all[k] = Exp!BitAt(e, k - 1)
    OBVIOUS
  <2> HIDE DEF all
  <2>3. all \in Seq({0, 1})
    BY <1>1, <2>1
  <2>4. Len(all) = n
    BY <1>1, <2>1, <2>3
  <2> QED
    BY <2>2, <2>3, <2>4
<1> HIDE DEF all
<1>6. CASE ones = {}
  <2>1. bs = <<>>
    BY <1>4, <1>6
  <2>2. \A k \in 1..n : Exp!BitAt(e, k - 1) = 0
    <3>1. \A k \in 1..n : all[k] # 1
      BY <1>5, <1>6
    <3> QED
      BY <1>3, <1>5, <3>1
  <2>3. Len(bs) = 0 /\ bs \in Seq({0, 1}) /\ n \in 0..n /\ n - n = 0
    BY <1>1, <2>1
  <2>4. Skips(e, bs, n)
    <3>1. Len(bs) = n - n
      BY <2>3
    <3>2. \A j \in 1..Len(bs) : bs[j] = Exp!BitAt(e, n + j - 1)
      BY <2>3
    <3> QED
      BY <2>1, <2>2, <3>1, <3>2 DEF Skips, n
  <2> QED
    BY <2>3, <2>4 DEF bs, n
<1>7. CASE ones # {}
  <2>1. least \in ones /\ \A l \in ones : least <= l
    <3>1. ones \subseteq Nat
      BY <1>5
    <3> HIDE DEF ones
    <3>2. \E k \in ones : \A l \in ones : k <= l
      BY <1>7, <3>1, SmallestMember
    <3> QED
      BY <3>2
  <2> HIDE DEF least
  <2> DEFINE skipped == least - 1
  <2>2. least \in 1..n /\ all[least] = 1 /\ skipped \in 0..n
    BY <1>1, <1>5, <2>1
  <2>3. bs = SubSeq(all, least, n)
    BY <1>4, <1>5, <1>7
  <2>4. bs \in Seq({0, 1}) /\ Len(bs) = n - skipped /\ \A j \in 1..Len(bs) : bs[j] = all[least + j - 1]
    <3>1. least \in 1..Len(all) /\ all \in Seq({0, 1}) /\ n = Len(all)
      BY <1>1, <1>5, <2>2
    <3>2. bs = SubSeq(all, least, Len(all))
      BY <2>3, <3>1
    <3>3. bs \in Seq({0, 1})
      BY <3>1, <3>2, RestFrom
    <3>4. Len(bs) = Len(all) - (least - 1)
      BY <3>1, <3>2, RestFrom
    <3>5. \A j \in 1..(Len(all) - (least - 1)) : bs[j] = all[least + j - 1]
      BY <3>1, <3>2, RestFrom
    <3> QED
      BY <3>1, <3>3, <3>4, <3>5
  <2>5. \A j \in 1..Len(bs) : bs[j] = Exp!BitAt(e, skipped + j - 1)
    <3> SUFFICES ASSUME NEW j \in 1..Len(bs) PROVE bs[j] = Exp!BitAt(e, skipped + j - 1)
      OBVIOUS
    <3>1. least + j - 1 \in 1..n /\ (least + j - 1) - 1 = skipped + j - 1
      BY <1>1, <2>2, <2>4
    <3>2. bs[j] = all[least + j - 1]
      BY <2>4
    <3>3. all[least + j - 1] = Exp!BitAt(e, (least + j - 1) - 1)
      BY <1>5, <3>1
    <3> QED
      BY <3>1, <3>2, <3>3
  <2>6. \A k \in 1..skipped : Exp!BitAt(e, k - 1) = 0
    <3> SUFFICES ASSUME NEW k \in 1..skipped PROVE Exp!BitAt(e, k - 1) = 0
      OBVIOUS
    <3>1. k \in 1..n /\ ~(least <= k)
      BY <1>1, <2>2
    <3>2. k \notin ones
      BY <2>1, <3>1
    <3>3. all[k] # 1
      BY <1>5, <3>1, <3>2
    <3> QED
      BY <1>3, <1>5, <3>1, <3>3
  <2>7. bs[1] = 1
    <3>1. 1 \in 1..Len(bs) /\ least + 1 - 1 = least
      BY <1>1, <2>2, <2>4
    <3>2. bs[1] = all[least + 1 - 1]
      BY <2>4, <3>1
    <3> QED
      BY <2>2, <3>1, <3>2
  <2>8. Skips(e, bs, skipped)
    BY <2>4, <2>5, <2>6, <2>7 DEF Skips, n
  <2> HIDE DEF skipped
  <2> QED
    BY <2>2, <2>4, <2>8 DEF bs, n
<1> QED
  BY <1>6, <1>7

SquaredInto(m, g, f, v, bit, w) == f[w] = (f[v] * f[v] * (IF bit = 1 THEN g ELSE 1)) % m

(* Reading a bit: squares what was read, and takes the base in for a one. *)
LEMMA SquareTimes ==
  ASSUME NEW m \in Nat, m > 0, NEW g \in Int, NEW n \in Nat,
         NEW f \in [0..n -> 0..(m - 1)], Times(m, g, n, f),
         NEW v \in Nat, NEW bit \in {0, 1}, NEW w \in 0..n, w = 2 * v + bit
  PROVE  SquaredInto(m, g, f, v, bit, w)
<1> DEFINE x == f[v]
           y == f[v + v]
           xx == x * x
<1>1. v + v \in 0..n /\ v \in 0..n /\ v + v = 2 * v /\ v + v <= n
  OBVIOUS
<1>2. x \in Int /\ y \in 0..(m - 1) /\ y \in Int /\ Same(m, y, xx)
  <2>1. Same(m, f[v + v], f[v] * f[v])
    BY <1>1, TimesAdd
  <2> QED
    BY <1>1, <2>1
<1>3. xx \in Int
  BY <1>2
<1>4. y % m = y
  <2> HIDE DEF y
  <2> QED
    BY <1>2, Remainder
<1>5. ASSUME bit = 0 PROVE f[2 * v + bit] = (f[v] * f[v] * (IF bit = 1 THEN g ELSE 1)) % m
  <2>1. 2 * v + bit = v + v
    BY <1>5
  <2>2. xx * (IF bit = 1 THEN g ELSE 1) = xx
    <3> HIDE DEF xx
    <3> QED
      BY <1>3, <1>5
  <2>3. y = xx % m
    BY <1>2, <1>4 DEF Same
  <2> HIDE DEF xx
  <2>4. f[2 * v + bit] = (xx * (IF bit = 1 THEN g ELSE 1)) % m
    BY <2>1, <2>2, <2>3
  <2> QED
    BY <2>4 DEF xx
<1>6. ASSUME bit = 1 PROVE f[2 * v + bit] = (f[v] * f[v] * (IF bit = 1 THEN g ELSE 1)) % m
  <2>1. 2 * v + bit \in 1..n /\ (2 * v + bit) - 1 = v + v
    BY <1>6
  <2>2. f[2 * v + bit] = (f[(2 * v + bit) - 1] * g) % m
    BY <2>1 DEF Times
  <2>3. f[2 * v + bit] = (y * g) % m
    BY <2>1, <2>2
  <2> HIDE DEF xx, y
  <2>4. Same(m, y * g, xx * g)
    BY <1>2, <1>3, SameTimes
  <2>5. f[2 * v + bit] = (xx * g) % m
    BY <2>3, <2>4 DEF Same
  <2>6. (IF bit = 1 THEN g ELSE 1) = g
    BY <1>6
  <2> QED
    BY <2>5, <2>6 DEF xx
<1>7. f[2 * v + bit] = (f[v] * f[v] * (IF bit = 1 THEN g ELSE 1)) % m
  BY <1>5, <1>6
<1> QED
  BY <1>7 DEF SquaredInto

(* The power read from the exponent's bits is the base taken as many times as the
   exponent says. *)
LEMMA PowerAgrees ==
  ASSUME Exp!ModExpParameters, NEW e \in Seq(0..(PowerOf(2, ByteBits) - 1)),
         NEW m \in Nat, m > 0, NEW g \in Int
  PROVE  PowerRead(m, g, Exp!ExponentBits(e)) = PowerTimes(m, g, Exp!Value(e))
<1> DEFINE bs == Exp!ExponentBits(e)
           size == ByteBits
           n == Len(e) * size
           value == Exp!Value(e)
<1>1. size \in Nat /\ size > 0 /\ Len(e) \in Nat /\ n \in Nat
  <2>1. size \in Nat /\ size > 0 /\ Len(e) \in Nat
    BY DEF Exp!ModExpParameters
  <2> QED
    BY <2>1
<1>2. PICK f \in [0..Len(e) -> Nat] : ValueReads(e, f)
  <2>2. PowerOf(2, ByteBits) \in Nat
    BY <1>1, PowersOfTwo
  <2> DEFINE top == PowerOf(2, ByteBits) - 1
  <2>3. \A x \in 0..top : x \in Nat
    BY <2>2
  <2> HIDE DEF top
  <2>4. e \in Seq(Nat)
    <3>1. e \in Seq(0..top)
      BY DEF top
    <3>2. 0..top \subseteq Nat
      BY <2>3
    <3> QED
      BY <3>1, <3>2, SeqWidens
  <2> QED
    BY <2>4, ValueUnfolded
<1>3. bs \in Seq({0, 1})
  BY BitsOfExponent
<1>4. PICK skipped \in 0..n : Skips(e, bs, skipped)
  BY BitsOfExponent
<1> DEFINE bv(k) == BitsValue(e, f, k)
           bit(k) == Exp!BitAt(e, k - 1)
<1>5. \A k \in 1..n : bit(k) \in {0, 1} /\ bv(k - 1) \in Nat /\ bv(k) = 2 * bv(k - 1) + bit(k)
  BY <1>2, BitsStep
<1>6. bv(0) = 0
  <2> DEFINE b0 == PowerOf(2, 0)
             z == 0
  <2>1. f[0] = 0 /\ b0 = 1
    BY <1>2, PowersOfTwo DEF ValueReads
  <2>2. z = size * z + z /\ z \in 0..(size - 1) /\ z \in Int
    BY <1>1
  <2> HIDE DEF z
  <2>3. z \div size = z /\ z % size = z
    BY <1>1, <2>2, DivisionUnique
  <2>4. bv(0) = f[0] * b0 + 0
    BY <2>3 DEF z, BitsValue
  <2> HIDE DEF b0, bv
  <2> QED
    BY <2>1, <2>4
<1>7. bv(n) = value /\ value \in Nat
  <2> DEFINE b0 == PowerOf(2, 0)
             z == 0
             l == Len(e)
  <2>1. l \in Nat /\ l \in Int /\ n = size * l + z /\ z \in 0..(size - 1) /\ n \in Int
    <3>1. l * size = size * l /\ size * l \in Int
      BY <1>1, SMTT(30)
    <3> QED
      BY <1>1, <3>1
  <2> HIDE DEF z, l, n
  <2>2. n \div size = l /\ n % size = z
    BY <1>1, <2>1, DivisionUnique
  <2>3. f[l] = value /\ f[l] \in Nat /\ b0 = 1
    <3>1. f[l] = value
      BY <1>2 DEF ValueReads, l
    <3>2. f[l] \in Nat
      <4>1. l \in 0..Len(e)
        BY <1>1 DEF l
      <4> QED
        BY <1>2, <4>1
    <3>3. b0 = 1
      BY PowersOfTwo
    <3> QED
      BY <3>1, <3>2, <3>3
  <2>4. bv(n) = f[l] * b0 + 0
    BY <2>2 DEF z, BitsValue
  <2> HIDE DEF b0, bv
  <2> QED
    BY <2>3, <2>4
<1> HIDE DEF bv, bit, n, value, bs, size
<1>8. \A k \in 0..n : bv(k) \in Nat
  <2> SUFFICES ASSUME NEW k \in 0..n PROVE bv(k) \in Nat
    OBVIOUS
  <2>1. CASE k = n
    BY <1>7, <2>1
  <2>2. CASE k # n
    <3>1. k + 1 \in 1..n /\ (k + 1) - 1 = k
      BY <1>1, <2>2
    <3>2. bv((k + 1) - 1) \in Nat
      BY <1>5, <3>1
    <3> QED
      BY <3>1, <3>2
  <2> QED
    BY <2>1, <2>2
<1>9. \A k \in 0..n : bv(k) <= value
  <2> DEFINE S == {j \in 0..n : bv(n - j) <= value}
  <2>1. 0 \in S
    BY <1>1, <1>7
  <2>2. ASSUME NEW j \in 1..n, j - 1 \in S PROVE j \in S
    <3> DEFINE k == n - (j - 1)
    <3>1. k \in 1..n /\ k - 1 = n - j /\ n - j \in 0..n
      BY <1>1
    <3>2. bv(k) = 2 * bv(k - 1) + bit(k) /\ bit(k) \in {0, 1} /\ bv(k - 1) \in Nat
      BY <1>5, <3>1
    <3>3. bv(k) <= value
      BY <2>2
    <3>4. bv(n - j) <= value
      <4> DEFINE c == bv(k - 1)
                 d == bit(k)
                 h == bv(k)
      <4>1. h = 2 * c + d /\ d >= 0 /\ d \in Int /\ c \in Nat /\ h <= value
        BY <3>2, <3>3
      <4> HIDE DEF c, d, h
      <4>2. c <= value
        BY <1>7, <4>1
      <4> QED
        BY <3>1, <4>2 DEF c
    <3> QED
      BY <3>4
  <2>3. 0..n \subseteq S
    <3> HIDE DEF S
    <3> QED
      BY <1>1, <2>1, <2>2, UpTo
  <2> SUFFICES ASSUME NEW k \in 0..n PROVE bv(k) <= value
    OBVIOUS
  <2>4. n - k \in S /\ n - (n - k) = k
    BY <1>1, <2>3
  <2> QED
    BY <2>4
<1>10. bv(skipped) = 0
  <2> DEFINE S == {k \in 0..skipped : bv(k) = 0}
  <2>1. 0 \in S
    BY <1>1, <1>6
  <2>2. ASSUME NEW k \in 1..skipped, k - 1 \in S PROVE k \in S
    <3>1. k \in 1..n /\ k \in 0..skipped
      BY <1>1
    <3>2. bit(k) = 0 /\ bv(k - 1) = 0
      BY <1>4, <2>2 DEF Skips, bit
    <3>3. bv(k) = 2 * bv(k - 1) + bit(k)
      BY <1>5, <3>1
    <3> QED
      BY <3>1, <3>2, <3>3
  <2>3. 0..skipped \subseteq S
    <3>1. skipped \in Nat
      BY <1>1
    <3> HIDE DEF S
    <3> QED
      BY <2>1, <2>2, <3>1, UpTo
  <2> QED
    BY <1>1, <2>3
<1>11. PICK pw \in [0..value -> 0..(m - 1)] : Times(m, g, value, pw)
  BY <1>7, TimesUnfolded
<1> DEFINE P(k) == PowerRead(m, g, SubSeq(bs, 1, k))
           U == {j \in 0..Len(bs) : P(j) = pw[bv(skipped + j)]}
<1>12. /\ P(0) = 1 % m /\ P(Len(bs)) = PowerRead(m, g, bs)
       /\ \A k \in 1..Len(bs) : P(k) = (P(k - 1) * P(k - 1) * (IF bs[k] = 1 THEN g ELSE 1)) % m
  BY <1>3, ReadStep
<1> HIDE DEF P
<1>13. /\ Len(bs) \in Nat /\ skipped \in Nat /\ Len(bs) = n - skipped
       /\ \A j \in 1..Len(bs) : bs[j] = bit(skipped + j)
  <2>1. Len(bs) \in Nat /\ skipped \in Nat
    BY <1>1, <1>3
  <2>2. Len(bs) = n - skipped
    BY <1>4 DEF Skips, n, size
  <2>3. \A j \in 1..Len(bs) : bs[j] = Exp!BitAt(e, skipped + j - 1)
    BY <1>4 DEF Skips
  <2> QED
    BY <2>1, <2>2, <2>3 DEF bit
<1>14. 0 \in U
  <2>1. skipped + 0 = skipped /\ pw[0] = 1 % m
    BY <1>11, <1>13 DEF Times
  <2> QED
    BY <1>10, <1>12, <1>13, <2>1
<1>15. ASSUME NEW j \in 1..Len(bs), j - 1 \in U PROVE j \in U
  <2> DEFINE k == skipped + j
             v == bv(k - 1)
             c == bit(k)
             x == pw[v]
  <2>1. k \in 1..n /\ k - 1 \in 0..n /\ k - 1 = skipped + (j - 1) /\ k \in 0..n /\ j \in 0..Len(bs)
    BY <1>1, <1>13
  <2>2. v \in Nat /\ c \in {0, 1} /\ bv(k) = 2 * v + c /\ bv(k) <= value
    BY <1>5, <1>9, <2>1
  <2>3. P(j - 1) = x /\ bs[j] = c
    BY <1>13, <1>15, <2>1
  <2>4. P(j) = (x * x * (IF c = 1 THEN g ELSE 1)) % m
    BY <1>12, <2>3
  <2> HIDE DEF k, v, c
  <2> DEFINE w == bv(k)
  <2>5. pw[w] = (pw[v] * pw[v] * (IF c = 1 THEN g ELSE 1)) % m
    <3>1. w \in 0..value /\ w = 2 * v + c /\ value \in Nat
      BY <1>7, <1>8, <2>1, <2>2
    <3>2. v \in Nat /\ c \in {0, 1}
      BY <2>2
    <3>3. SquaredInto(m, g, pw, v, c, w)
      <4> HIDE DEF w
      <4> QED
        BY <1>11, <3>1, <3>2, SquareTimes
    <3> QED
      BY <3>3 DEF SquaredInto
  <2>6. P(j) = pw[bv(k)]
    BY <2>2, <2>4, <2>5
  <2> QED
    BY <2>1, <2>6 DEF k
<1>16. Len(bs) \in U
  <2> HIDE DEF U
  <2>1. 0..Len(bs) \subseteq U
    BY <1>13, <1>14, <1>15, UpTo
  <2> QED
    BY <1>13, <2>1
<1>17. P(Len(bs)) = pw[value]
  <2>1. skipped + Len(bs) = n
    BY <1>1, <1>13
  <2> QED
    BY <1>7, <1>16, <2>1
<1>18. PowerTimes(m, g, value) = pw[value]
  BY <1>11 DEF Times
<1> QED
  BY <1>12, <1>17, <1>18 DEF bs, value
-------------------------------------------------------------------------------
(* The state of a call of modexp_public. *)

(* What a call with an odd modulus above the base computes with. *)
LEMMA ExpOddModulus ==
  ASSUME Exp!ModExpParameters, NEW m \in 0..(Exp!R - 1), m % 2 = 1,
         NEW g \in 0..(Exp!R - 1), g < m
  PROVE  /\ m \in 1..(Exp!R - 1) /\ m \in Nat /\ m > 0
         /\ g \in 0..(m - 1) /\ g \in Int
         /\ Exp!R \in Nat /\ Exp!R > 0
<1>1. Exp!R \in Nat /\ Exp!R > 0
  BY ExpSizes
<1>2. m # 0
  OBVIOUS
<1> QED
  BY <1>1, <1>2

(* The base in Montgomery form, on both paths. *)
LEMMA ToMontIs ==
  ASSUME Exp!ModExpParameters, NEW m \in 1..(Exp!R - 1), m % 2 = 1, NEW g \in 0..(m - 1)
  PROVE  /\ Exp!AsmToMont(g, m) \in 0..(m - 1)
         /\ Same(m, Exp!AsmToMont(g, m), g * Exp!R)
         /\ Exp!MontMul(g, Exp!RSquared(m), m) \in 0..(m - 1)
         /\ Same(m, Exp!MontMul(g, Exp!RSquared(m), m), g * Exp!R)
<1> DEFINE r == Exp!R
           rr == Exp!RSquared(m)
           z == Exp!MontMul(g, rr, m)
<1>1. r \in Nat /\ r > 0 /\ r \in Int
  BY ExpSizes
<1>2. m \in Nat /\ m > 0 /\ g \in Int /\ g \in 0..(r - 1)
  BY <1>1
<1>3. rr \in 0..m /\ Same(m, rr, r * r)
  BY RSquaredIs
<1>4. z \in 0..(m - 1) /\ Same(m, z * r, g * rr)
  <2>1. z \in 0..(m - 1)
    BY <1>2, <1>3, MontMulIs
  <2>2. Same(m, z * r, g * rr)
    BY <1>2, <1>3, MontMulIs
  <2> QED
    BY <2>1, <2>2
<1>5. PICK inv \in Int : Same(m, r * inv, 1)
  BY <1>2, RInvertible
<1>6. Exp!AsmToMont(g, m) = (g * r) % m
  BY DEF Exp!AsmToMont
<1> HIDE DEF r, rr, z
<1>7. g * r \in Int /\ r * r \in Int /\ (g * r) * r = g * (r * r) /\ (r * r) * g = g * (r * r)
      /\ rr \in Int /\ rr * g = g * rr /\ z \in Int
  <2>1. g * r \in Int /\ r * r \in Int /\ (g * r) * r = g * (r * r)
    BY <1>1, <1>2, Product3
  <2>2. rr \in Int /\ z \in Int
    BY <1>2, <1>3, <1>4
  <2> DEFINE s == r * r
  <2>3. s \in Int
    BY <2>1
  <2> HIDE DEF s
  <2>4. s * g = g * s /\ rr * g = g * rr
    BY <1>2, <2>2, <2>3
  <2> QED
    BY <2>1, <2>2, <2>4 DEF s
<1>8. (g * r) % m \in 0..(m - 1) /\ Same(m, (g * r) % m, g * r)
  BY <1>2, <1>7, Remainder
<1>9. Same(m, z, g * r)
  <2> DEFINE s == r * r
             u == g * r
  <2>1. Same(m, rr * g, s * g)
    <3>1. s \in Int /\ Same(m, rr, s)
      BY <1>3, <1>7
    <3> HIDE DEF s
    <3> QED
      BY <1>2, <1>7, <3>1, SameTimes
  <2>2. Same(m, z * r, u * r)
    <3>1. Same(m, z * r, rr * g)
      BY <1>4, <1>7
    <3>2. u * r = s * g
      BY <1>7
    <3> QED
      BY <2>1, <3>1, <3>2 DEF Same
  <2>3. u \in Int
    BY <1>7
  <2> HIDE DEF u, s
  <2>4. Same(m, z, u)
    BY <1>1, <1>2, <1>5, <1>7, <2>2, <2>3, SameCancel
  <2> QED
    BY <2>4 DEF u
<1> QED
  BY <1>4, <1>6, <1>8, <1>9 DEF r, rr, z

(* The power for the bits of an exponent up to its k-th. *)
ExpPrefix(m, g, bs, k) == PowerRead(m, g, SubSeq(bs, 1, k))

(* The power of the first bit is the base; a bit squares and takes the base in. *)
LEMMA PrefixStep ==
  ASSUME NEW m \in Nat, m > 0, NEW g \in Int, NEW bs \in Seq({0, 1})
  PROVE  /\ \A k \in 0..Len(bs) : ExpPrefix(m, g, bs, k) \in 0..(m - 1)
         /\ ExpPrefix(m, g, bs, Len(bs)) = PowerRead(m, g, bs)
         /\ \A k \in 1..Len(bs) :
              Same(m, ExpPrefix(m, g, bs, k),
                   (ExpPrefix(m, g, bs, k - 1) * ExpPrefix(m, g, bs, k - 1))
                      * (IF bs[k] = 1 THEN g ELSE 1))
         /\ Len(bs) >= 1 /\ bs[1] = 1 => Same(m, ExpPrefix(m, g, bs, 1), g)
<1> DEFINE P(k) == ExpPrefix(m, g, bs, k)
           X(k) == (P(k - 1) * P(k - 1)) * (IF bs[k] = 1 THEN g ELSE 1)
<1>1. /\ \A k \in 0..Len(bs) : P(k) \in 0..(m - 1)
      /\ P(0) = 1 % m
      /\ P(Len(bs)) = PowerRead(m, g, bs)
      /\ \A k \in 1..Len(bs) : P(k) = X(k) % m
  <2> DEFINE Q(k) == PowerRead(m, g, SubSeq(bs, 1, k))
  <2>1. \A k \in 0..Len(bs) : Q(k) \in 0..(m - 1)
    BY ReadStep
  <2>2. /\ Q(0) = 1 % m /\ Q(Len(bs)) = PowerRead(m, g, bs)
        /\ \A k \in 1..Len(bs) : Q(k) = (Q(k - 1) * Q(k - 1) * (IF bs[k] = 1 THEN g ELSE 1)) % m
    BY ReadStep
  <2>3. \A k : P(k) = Q(k)
    BY DEF ExpPrefix
  <2> HIDE DEF P, Q
  <2> QED
    BY <2>1, <2>2, <2>3
<1> HIDE DEF P
<1>2. Len(bs) \in Nat
  OBVIOUS
<1>3. \A k \in 1..Len(bs) : Same(m, P(k), X(k))
  <2> SUFFICES ASSUME NEW k \in 1..Len(bs) PROVE Same(m, P(k), X(k))
    OBVIOUS
  <2> DEFINE u == P(k - 1)
             c == IF bs[k] = 1 THEN g ELSE 1
             x == X(k)
  <2>1. k - 1 \in 0..Len(bs)
    BY <1>2
  <2>2. u \in Int /\ c \in Int
    <3>1. u \in 0..(m - 1)
      BY <1>1, <2>1
    <3> QED
      BY <3>1
  <2>3. x = (u * u) * c
    OBVIOUS
  <2>4. x \in Int
    <3> HIDE DEF u, c, x
    <3> QED
      BY <2>2, <2>3, Product3
  <2>5. P(k) = x % m
    BY <1>1
  <2> HIDE DEF x
  <2>6. Same(m, x % m, x)
    BY <2>4, Remainder
  <2> QED
    BY <2>5, <2>6 DEF x
<1>4. ASSUME Len(bs) >= 1, bs[1] = 1 PROVE Same(m, P(1), g)
  <2> DEFINE e1 == 1 % m
             one == 1
             ee == e1 * e1
  <2>1. P(1) = (ee * g) % m
    <3>1. 1 \in 1..Len(bs) /\ 1 - 1 = 0
      BY <1>2, <1>4
    <3>2. P(1) = X(1) % m
      BY <1>1, <3>1
    <3>3. X(1) = ee * g
      BY <1>1, <1>4, <3>1
    <3> QED
      BY <3>2, <3>3
  <2>2. e1 \in Int /\ one \in Int /\ Same(m, e1, one)
    BY Remainder
  <2>3. one * one = one /\ one * g = g
    OBVIOUS
  <2> HIDE DEF one, e1
  <2>4. Same(m, ee, one)
    <3>1. Same(m, e1 * e1, one * one)
      BY <2>2, SameProducts
    <3> QED
      BY <2>3, <3>1
  <2>5. ee \in Int
    BY <2>2, Product3
  <2> HIDE DEF ee
  <2>6. Same(m, ee * g, one * g)
    BY <2>2, <2>4, <2>5, SameTimes
  <2>7. ee * g \in Int
    BY <2>5, Product3
  <2> DEFINE x == ee * g
  <2>8. Same(m, x % m, x)
    <3>1. x \in Int
      BY <2>7
    <3> HIDE DEF x
    <3> QED
      BY <3>1, Remainder
  <2>9. Same(m, P(1), x)
    BY <2>1, <2>8
  <2> QED
    BY <2>3, <2>6, <2>9 DEF Same
<1> QED
  BY <1>1, <1>3, <1>4 DEF P

(* What is returned is the power, but for the cases the code answers otherwise. *)
ExpReturned(st, x, bs, way, m, g, e) ==
  CASE st = "ModulusEven"  -> m % 2 = 0
    [] st = "BaseTooLarge" -> m % 2 = 1 /\ g >= m
    [] OTHER -> \/ way = "asm" /\ bs = <<1>>
                \/ m = 1 /\ bs = <<>>
                \/ x = PowerTimes(m, g, Exp!Value(e))

(* The accumulator after the exponent's first k bits: their power in Montgomery
   form, or the power itself after the asm path's last product. *)
ExpAccumulated(x, bs, k, way, m, g) ==
  IF way = "asm" /\ 1 < k /\ k = Len(bs) /\ bs[k] = 1
  THEN Same(m, x, ExpPrefix(m, g, bs, k))
  ELSE Same(m, x, ExpPrefix(m, g, bs, k) * Exp!R)

(* The inputs, and the loop between its steps. *)
ExpInputs == /\ path \in {"portable", "asm"}
             /\ modulus \in 0..(Exp!R - 1) /\ base \in 0..(Exp!R - 1)
             /\ exponent \in Seq(0..(PowerOf(2, ByteBits) - 1))

ExpRuns == /\ modulus % 2 = 1 /\ base < modulus
           /\ bits = Exp!ExponentBits(exponent) /\ bits # <<>>
           /\ status = "running" /\ result = 0

ExpLoops == /\ pos >= 1 /\ acc \in 0..(Exp!Limit - 1)
            /\ baseMont \in 0..(modulus - 1) /\ Same(modulus, baseMont, base * Exp!R)

ExpSquared == /\ pos > 1 /\ bits[pos] = 1
              /\ Same(modulus, acc,
                      (ExpPrefix(modulus, base, bits, pos - 1) * ExpPrefix(modulus, base, bits, pos - 1))
                        * Exp!R)

ExpInv ==
  /\ ExpInputs
  /\ Exp!TypeOK
  /\ pc = "check" => bits = <<>> /\ status = "running" /\ result = 0
  /\ pc \in {"to_mont", "square", "multiply"} => ExpRuns
  /\ pc \in {"square", "multiply"} => ExpLoops
  /\ pc = "square" => ExpAccumulated(acc, bits, pos, path, modulus, base)
  /\ pc = "multiply" => ExpSquared
  /\ pc = "done" => ExpReturned(status, result, bits, path, modulus, base, exponent)

(* A call starts with nothing computed. *)
LEMMA ExpInitial == Exp!ModExpParameters /\ Exp!Init => ExpInv
<1> SUFFICES ASSUME Exp!ModExpParameters, Exp!Init PROVE ExpInv
  OBVIOUS
<1>1. Exp!R \in Nat /\ Exp!R > 0 /\ ByteBits \in Nat /\ \A v, n : Exp!PowerOf(v, n) = PowerOf(v, n)
  <2>1. Exp!R \in Nat /\ Exp!R > 0
    BY ExpSizes
  <2> QED
    BY <2>1 DEF Exp!ModExpParameters, Exp!PowerOf, PowerOf
<1>2. ExpInputs
  <2>1. Exponents \subseteq Seq(0..(PowerOf(2, ByteBits) - 1))
    <3>1. Exponents \subseteq Seq(0..(Exp!PowerOf(2, ByteBits) - 1))
      BY DEF Exp!ModExpParameters
    <3> QED
      BY <1>1, <3>1, Zenon
  <2>2. ExpModuli \subseteq 0..(Exp!R - 1) /\ Bases \subseteq 0..(Exp!R - 1)
    BY DEF Exp!ModExpParameters
  <2> QED
    BY <2>1, <2>2, Zenon DEF Exp!Init, ExpInputs
<1>3. Exp!TypeOK
  <2>1. 0 \in 0..(Exp!R - 1)
    BY <1>1
  <2> QED
    BY <2>1 DEF Exp!Init, Exp!TypeOK
<1>4. pc = "check" /\ bits = <<>> /\ status = "running" /\ result = 0
  BY DEF Exp!Init
<1> QED
  BY <1>2, <1>3, <1>4 DEF ExpInv

(* A reduced number is one of the words of a number. *)
LEMMA ReducedFits ==
  ASSUME Exp!ModExpParameters, NEW m \in 1..(Exp!R - 1)
  PROVE  0..(m - 1) \subseteq 0..(Exp!R - 1)
<1>1. Exp!R \in Nat
  BY ExpSizes
<1> QED
  BY <1>1

(* So is a product of the build, and a reduced number may be one. *)
LEMMA LimitFits ==
  ASSUME Exp!ModExpParameters, modulus \in 1..(Exp!R - 1)
  PROVE  0..(Exp!Limit - 1) \subseteq 0..(Exp!R - 1) /\ 0..(modulus - 1) \subseteq 0..(Exp!Limit - 1)
<1> DEFINE lim == Exp!Limit
           r == Exp!R
<1>1. r \in Nat /\ lim \in Nat /\ lim <= r /\ modulus \in Nat /\ modulus <= lim
  BY ExpSizes, LimitIs
<1> HIDE DEF lim, r
<1> QED
  BY <1>1 DEF lim, r

(* A zero exponent: the power is one, unless the modulus is. *)
LEMMA ZeroExponent ==
  ASSUME Exp!ModExpParameters, NEW m \in Nat, m % 2 = 1, m # 1, NEW g \in Int,
         NEW e \in Seq(0..(PowerOf(2, ByteBits) - 1)), Exp!ExponentBits(e) = <<>>
  PROVE  PowerTimes(m, g, Exp!Value(e)) = 1
<1>1. m > 0 /\ m > 1
  <2>1. m # 0
    OBVIOUS
  <2> QED
    BY <2>1
<1>2. PowerRead(m, g, <<>>) = PowerTimes(m, g, Exp!Value(e))
  BY <1>1, PowerAgrees
<1> DEFINE bs == <<>>
<1>3. bs \in Seq({0, 1}) /\ Len(bs) = 0
  OBVIOUS
<1> HIDE DEF bs
<1>4. PowerRead(m, g, bs) = 1 % m
  <2>1. Len(bs) \in Nat
    BY <1>3
  <2>2. PICK f \in [0..Len(bs) -> 0..(m - 1)] : Reads(m, g, bs, f)
    BY <1>1, <2>1, ReadUnfolded
  <2> QED
    BY <1>3, <2>2 DEF Reads
<1>5. 1 % m = 1
  <2> DEFINE one == 1
  <2>1. one \in 0..(m - 1)
    BY <1>1
  <2> HIDE DEF one
  <2>2. one % m = one
    BY <1>1, <2>1, Remainder
  <2> QED
    BY <2>2 DEF one
<1> QED
  BY <1>2, <1>4, <1>5 DEF bs

(* The checks return an error for the input it names, and 1 for a zero exponent. *)
LEMMA CheckInv ==
  ASSUME Exp!ModExpParameters, ExpInv, Exp!Check
  PROVE  ExpInv'
<1>1. pc = "check" /\ bits = <<>> /\ status = "running" /\ result = 0 /\ ExpInputs /\ Exp!TypeOK /\ UNCHANGED <<path, base, exponent, modulus>>
      /\ UNCHANGED <<pos, acc, baseMont>>
  BY DEF Exp!Check, Exp!Return, Exp!inputs, ExpInv
<1>2. ExpInputs'
  BY <1>1 DEF ExpInputs
<1>3. Exp!R \in Nat /\ Exp!R > 1
  <2>1. Exp!R \in Nat /\ Exp!R > 0
    BY ExpSizes
  <2>2. Exp!R # 1
    <3> DEFINE n == WordBits * Words
               k == n - 1
               h == PowerOf(2, k)
    <3>1. n \in Nat /\ n > 0
      <4>1. WordBits \in Nat /\ WordBits > 0 /\ Words \in Nat /\ Words > 0
        BY ExpSizes
      <4> QED
        BY <4>1, SMTT(30)
    <3>2. Exp!R = PowerOf(2, n)
      BY ExpSizes
    <3> HIDE DEF n
    <3>3. k \in Nat /\ k + 1 = n
      BY <3>1
    <3> HIDE DEF k
    <3>4. PowerOf(2, k + 1) = 2 * PowerOf(2, k) /\ h \in Nat
      BY <3>3, PowersOfTwo
    <3>5. Exp!R = 2 * h
      BY <3>2, <3>3, <3>4
    <3> HIDE DEF h
    <3> QED
      BY <3>4, <3>5
  <2> QED
    BY <2>1, <2>2
<1>4. ASSUME Exp!Return("ModulusEven", 0), modulus % 2 = 0 PROVE ExpInv'
  <2>1. pc' = "done" /\ status' = "ModulusEven" /\ result' = 0 /\ bits' = bits
    BY <1>4 DEF Exp!Return
  <2>2. Exp!TypeOK'
    <3>1. 0 \in 0..(Exp!R - 1)
      BY <1>3
    <3> QED
      BY <1>1, <2>1, <3>1 DEF Exp!TypeOK, Exp!R, Exp!WordSize, Exp!PowerOf
  <2>3. ExpReturned(status, result, bits, path, modulus, base, exponent)'
    BY <1>1, <1>4, <2>1 DEF ExpReturned
  <2> QED
    BY <1>2, <2>1, <2>2, <2>3 DEF ExpInv
<1>5. ASSUME Exp!Return("BaseTooLarge", 0), modulus % 2 = 1, base >= modulus PROVE ExpInv'
  <2>1. pc' = "done" /\ status' = "BaseTooLarge" /\ result' = 0 /\ bits' = bits
    BY <1>5 DEF Exp!Return
  <2>2. Exp!TypeOK'
    <3>1. 0 \in 0..(Exp!R - 1)
      BY <1>3
    <3> QED
      BY <1>1, <2>1, <3>1 DEF Exp!TypeOK, Exp!R, Exp!WordSize, Exp!PowerOf
  <2>3. ExpReturned(status, result, bits, path, modulus, base, exponent)'
    BY <1>1, <1>5, <2>1 DEF ExpReturned
  <2> QED
    BY <1>2, <2>1, <2>2, <2>3 DEF ExpInv
<1>6. ASSUME Exp!Return("Ok", 1), modulus % 2 = 1, Exp!ExponentBits(exponent) = <<>> PROVE ExpInv'
  <2>1. pc' = "done" /\ status' = "Ok" /\ result' = 1 /\ bits' = bits
    BY <1>6 DEF Exp!Return
  <2>2. Exp!TypeOK'
    <3>1. 1 \in 0..(Exp!R - 1)
      BY <1>3
    <3> QED
      BY <1>1, <2>1, <3>1 DEF Exp!TypeOK, Exp!R, Exp!WordSize, Exp!PowerOf
  <2>3. modulus = 1 \/ PowerTimes(modulus, base, Exp!Value(exponent)) = 1
    <3>1. modulus \in Nat /\ base \in Int /\ exponent \in Seq(0..(PowerOf(2, ByteBits) - 1))
      BY <1>1, <1>3 DEF ExpInputs
    <3> QED
      BY <1>6, <3>1, ZeroExponent
  <2>4. ExpReturned("Ok", 1, <<>>, path, modulus, base, exponent)
    BY <2>3 DEF ExpReturned
  <2>5. ExpReturned(status, result, bits, path, modulus, base, exponent)'
    BY <1>1, <2>1, <2>4
  <2> QED
    BY <1>2, <2>1, <2>2, <2>5 DEF ExpInv
<1>7. ASSUME modulus % 2 = 1, base < modulus, Exp!ExponentBits(exponent) # <<>>,
             bits' = Exp!ExponentBits(exponent), pc' = "to_mont", UNCHANGED <<status, result>>
      PROVE  ExpInv'
  <2>1. bits' \in Seq({0, 1})
    BY <1>1, <1>7, BitsOfExponent DEF ExpInputs
  <2>2. Exp!TypeOK'
    <3>1. pos = 0
      BY <1>1 DEF Exp!TypeOK
    <3>2. 0 \in 0..Len(bits')
      BY <2>1
    <3> QED
      BY <1>1, <1>7, <2>1, <3>1, <3>2 DEF Exp!TypeOK, Exp!R, Exp!WordSize, Exp!PowerOf
  <2>3. ExpRuns'
    BY <1>1, <1>7 DEF ExpRuns
  <2> QED
    BY <1>2, <1>7, <2>2, <2>3 DEF ExpInv
<1> QED
  BY <1>4, <1>5, <1>6, <1>7 DEF Exp!Check, Exp!inputs

(* What the loop of a call rests on. *)
LEMMA ExpLoopFacts ==
  ASSUME Exp!ModExpParameters, ExpInv, pc \in {"to_mont", "square", "multiply"}
  PROVE  /\ modulus \in 1..(Exp!R - 1) /\ modulus \in Nat /\ modulus > 0 /\ modulus % 2 = 1
         /\ base \in 0..(modulus - 1) /\ base \in Int
         /\ exponent \in Seq(0..(PowerOf(2, ByteBits) - 1))
         /\ Exp!R \in Nat /\ Exp!R > 0 /\ Exp!R \in Int
         /\ bits \in Seq({0, 1}) /\ Len(bits) \in Nat /\ Len(bits) >= 1 /\ bits[1] = 1
         /\ pos \in 0..Len(bits)
<1>1. ExpInputs /\ ExpRuns /\ Exp!TypeOK
  BY DEF ExpInv
<1>2. /\ modulus \in 1..(Exp!R - 1) /\ modulus \in Nat /\ modulus > 0
      /\ base \in 0..(modulus - 1) /\ base \in Int
      /\ Exp!R \in Nat /\ Exp!R > 0
  BY <1>1, ExpOddModulus DEF ExpInputs, ExpRuns
<1>3. bits \in Seq({0, 1}) /\ pos \in 0..Len(bits)
  BY <1>1 DEF Exp!TypeOK
<1>4. Len(bits) \in Nat /\ Len(bits) >= 1
  BY <1>1, <1>3 DEF ExpRuns
<1>5. bits[1] = 1
  <2>1. PICK skipped \in 0..(Len(exponent) * ByteBits) : Skips(exponent, Exp!ExponentBits(exponent), skipped)
    BY <1>1, BitsOfExponent DEF ExpInputs
  <2> QED
    BY <1>1, <2>1 DEF ExpRuns, Skips
<1> QED
  BY <1>1, <1>2, <1>3, <1>4, <1>5 DEF ExpInputs, ExpRuns

(* Into Montgomery form: the power for the first bit. *)
LEMMA ToMontInv ==
  ASSUME Exp!ModExpParameters, ExpInv, Exp!ToMont
  PROVE  ExpInv'
<1> DEFINE P(k) == ExpPrefix(modulus, base, bits, k)
<1>1. pc = "to_mont" /\ ExpInputs /\ Exp!TypeOK /\ ExpRuns
  BY DEF Exp!ToMont, ExpInv
<1>2. /\ UNCHANGED <<path, base, exponent, modulus, bits, status, result>>
      /\ acc' = baseMont' /\ pos' = 1 /\ pc' = "square"
      /\ baseMont' = IF path = "asm" THEN Exp!AsmToMont(base, modulus)
                     ELSE Exp!MontMul(base, Exp!RSquared(modulus), modulus)
  BY DEF Exp!ToMont, Exp!inputs
<1>3. /\ modulus \in 1..(Exp!R - 1) /\ modulus \in Nat /\ modulus > 0 /\ modulus % 2 = 1
      /\ base \in 0..(modulus - 1) /\ base \in Int
      /\ Exp!R \in Nat /\ Exp!R > 0 /\ Exp!R \in Int
      /\ bits \in Seq({0, 1}) /\ Len(bits) \in Nat /\ Len(bits) >= 1 /\ bits[1] = 1
  BY <1>1, ExpLoopFacts
<1>4. baseMont' \in 0..(modulus - 1) /\ Same(modulus, baseMont', base * Exp!R)
  BY <1>2, <1>3, ToMontIs
<1>5. ExpInputs' /\ ExpRuns'
  BY <1>1, <1>2 DEF ExpInputs, ExpRuns
<1>6. Exp!TypeOK'
  <2>1. acc' \in 0..(Exp!R - 1) /\ baseMont' \in 0..(Exp!R - 1)
    BY <1>2, <1>3, <1>4, ReducedFits
  <2>2. 1 \in 0..Len(bits)
    BY <1>3
  <2> QED
    BY <1>1, <1>2, <2>1, <2>2 DEF Exp!TypeOK
<1>7. ExpLoops'
  <2>1. 1 >= 1
    OBVIOUS
  <2>2. baseMont' \in 0..(Exp!Limit - 1)
    BY <1>3, <1>4, LimitFits
  <2>3. Exp!Limit' = Exp!Limit
    BY <1>2 DEF Exp!Limit
  <2> QED
    BY <1>2, <1>4, <2>1, <2>2, <2>3 DEF ExpLoops
<1>8. ExpAccumulated(acc', bits, 1, path, modulus, base)
  <2>1. Same(modulus, P(1), base) /\ P(1) \in Int
    <3>1. Same(modulus, P(1), base)
      BY <1>3, PrefixStep
    <3>2. P(1) \in 0..(modulus - 1)
      BY <1>3, PrefixStep
    <3> QED
      BY <1>3, <3>1, <3>2
  <2> HIDE DEF P
  <2>2. Same(modulus, P(1) * Exp!R, base * Exp!R)
    BY <1>3, <2>1, SameTimes
  <2>3. Same(modulus, acc', P(1) * Exp!R)
    BY <1>2, <1>4, <2>2 DEF Same
  <2>4. ~(1 < 1)
    OBVIOUS
  <2> QED
    BY <2>3, <2>4 DEF ExpAccumulated, P
<1>9. ExpAccumulated(acc, bits, pos, path, modulus, base)'
  BY <1>2, <1>8
<1> QED
  BY <1>2, <1>5, <1>6, <1>7, <1>9 DEF ExpInv

(* One squaring: what it leaves is the square of the power so far. *)
LEMMA SquaredIs ==
  ASSUME Exp!ModExpParameters, modulus \in 1..(Exp!R - 1), modulus % 2 = 1,
         NEW x \in 0..(Exp!Limit - 1), NEW u \in Int, Same(modulus, x, u * Exp!R)
  PROVE  /\ Exp!Product(x, x) \in 0..(Exp!Limit - 1)
         /\ Same(modulus, Exp!Product(x, x), (u * u) * Exp!R)
<1> DEFINE z == Exp!Product(x, x)
           m == modulus
           r == Exp!R
           lim == Exp!Limit
<1>1. r \in Nat /\ m \in Nat /\ m > 0 /\ r \in Int /\ x \in Int /\ lim \in Nat
  <2>1. r \in Nat /\ lim \in Nat
    BY ExpSizes, LimitIs
  <2> QED
    BY <2>1
<1>2. PICK inv \in Int : Same(m, r * inv, 1)
  BY <1>1, RInvertible
<1>3. IsProduct(m, lim, z, x, x)
  BY ProductIs
<1>4. z \in 0..(lim - 1) /\ Same(m, z * r, x * x) /\ z \in Int
  <2>1. z \in 0..(lim - 1) /\ Same(m, z * r, x * x)
    BY <1>3 DEF IsProduct
  <2> QED
    BY <1>1, <2>1
<1> HIDE DEF z, r, m, lim
<1>5. Same(m, z, (u * u) * r)
  <2>1. Same(m, x, u * r)
    BY DEF m, r
  <2> QED
    BY <1>1, <1>2, <1>4, <2>1, ProductStaysInForm
<1> QED
  BY <1>4, <1>5 DEF z, r, m, lim

(* One product: by the base in Montgomery form it stays there, by the base it leaves. *)
LEMMA MultipliedIs ==
  ASSUME Exp!ModExpParameters, modulus \in 1..(Exp!R - 1), modulus % 2 = 1,
         NEW x \in 0..(Exp!Limit - 1), NEW y \in 0..(Exp!Limit - 1),
         NEW u \in Int, NEW g \in Int, Same(modulus, x, u * Exp!R)
  PROVE  /\ Exp!Product(x, y) \in 0..(Exp!Limit - 1)
         /\ Same(modulus, y, g * Exp!R) => Same(modulus, Exp!Product(x, y), (u * g) * Exp!R)
         /\ Same(modulus, y, g) => Same(modulus, Exp!Product(x, y), u * g)
<1> DEFINE z == Exp!Product(x, y)
           m == modulus
           r == Exp!R
           lim == Exp!Limit
<1>1. r \in Nat /\ m \in Nat /\ m > 0 /\ r \in Int /\ x \in Int /\ y \in Int /\ lim \in Nat
  <2>1. r \in Nat /\ lim \in Nat
    BY ExpSizes, LimitIs
  <2> QED
    BY <2>1
<1>2. PICK inv \in Int : Same(m, r * inv, 1)
  BY <1>1, RInvertible
<1>3. IsProduct(m, lim, z, x, y)
  BY ProductIs
<1>4. z \in 0..(lim - 1) /\ Same(m, z * r, x * y) /\ z \in Int
  <2>1. z \in 0..(lim - 1) /\ Same(m, z * r, x * y)
    BY <1>3 DEF IsProduct
  <2> QED
    BY <1>1, <2>1
<1>5. Same(m, x, u * r)
  OBVIOUS
<1> HIDE DEF z, r, m, lim
<1>6. Same(m, y, g * r) => Same(m, z, (u * g) * r)
  BY <1>1, <1>2, <1>4, <1>5, ProductStaysInForm
<1>7. Same(m, y, g) => Same(m, z, u * g)
  BY <1>1, <1>2, <1>4, <1>5, ProductStaysInForm
<1> QED
  BY <1>4, <1>6, <1>7 DEF z, r, m, lim

(* A squaring reads a bit; for a zero, the power is that of the bits so far. *)
LEMMA SquareInv ==
  ASSUME Exp!ModExpParameters, ExpInv, Exp!Square
  PROVE  ExpInv'
<1> DEFINE P(k) == ExpPrefix(modulus, base, bits, k)
           q == pos + 1
           u == P(pos)
           z == Exp!Product(acc, acc)
<1>1. /\ pc = "square" /\ pos < Len(bits) /\ ExpInputs /\ Exp!TypeOK /\ ExpRuns /\ ExpLoops
      /\ ExpAccumulated(acc, bits, pos, path, modulus, base)
  BY DEF Exp!Square, ExpInv
<1>2. /\ UNCHANGED <<path, base, exponent, modulus, bits, baseMont, status, result>>
      /\ acc' = z /\ pos' = q /\ pc' = IF bits[q] = 1 THEN "multiply" ELSE "square"
  BY DEF Exp!Square, Exp!inputs
<1>3. /\ modulus \in 1..(Exp!R - 1) /\ modulus \in Nat /\ modulus > 0 /\ modulus % 2 = 1
      /\ base \in 0..(modulus - 1) /\ base \in Int
      /\ Exp!R \in Nat /\ Exp!R > 0 /\ Exp!R \in Int
      /\ bits \in Seq({0, 1}) /\ Len(bits) \in Nat /\ pos \in 0..Len(bits)
  BY <1>1, ExpLoopFacts
<1>4. q \in 1..Len(bits) /\ q > 1 /\ q - 1 = pos /\ pos # Len(bits) /\ pos >= 1
  BY <1>1, <1>3 DEF ExpLoops
<1>5. u \in Int /\ Same(modulus, acc, u * Exp!R)
  <2>1. u \in 0..(modulus - 1)
    BY <1>3, PrefixStep
  <2>2. Same(modulus, acc, u * Exp!R)
    BY <1>1, <1>4 DEF ExpAccumulated
  <2> QED
    BY <1>3, <2>1, <2>2
<1>6. z \in 0..(Exp!Limit - 1) /\ Same(modulus, z, (u * u) * Exp!R)
  <2> HIDE DEF u, z
  <2>1. acc \in 0..(Exp!Limit - 1)
    BY <1>1 DEF ExpLoops
  <2>2. Exp!Product(acc, acc) \in 0..(Exp!Limit - 1)
    BY <1>3, <1>5, <2>1, SquaredIs
  <2>3. Same(modulus, Exp!Product(acc, acc), (u * u) * Exp!R)
    BY <1>3, <1>5, <2>1, SquaredIs
  <2> QED
    BY <2>2, <2>3 DEF z
<1>7. Same(modulus, P(q), (P(q - 1) * P(q - 1)) * (IF bits[q] = 1 THEN base ELSE 1)) /\ P(q) \in Int
  <2>1. Same(modulus, P(q), (P(q - 1) * P(q - 1)) * (IF bits[q] = 1 THEN base ELSE 1))
    <3> HIDE DEF q
    <3> QED
      BY <1>3, <1>4, PrefixStep
  <2>2. P(q) \in 0..(modulus - 1)
    <3>1. q \in 0..Len(bits)
      BY <1>4
    <3> HIDE DEF q
    <3> QED
      BY <1>3, <3>1, PrefixStep
  <2> QED
    BY <1>3, <2>1, <2>2
<1> HIDE DEF z, P, q, u
<1>8. ExpInputs' /\ ExpRuns'
  BY <1>1, <1>2 DEF ExpInputs, ExpRuns
<1>9. Exp!TypeOK'
  <2>1. acc' \in 0..(Exp!R - 1)
    BY <1>2, <1>3, <1>6, LimitFits
  <2>2. pos' \in 0..Len(bits)
    BY <1>2, <1>3, <1>4
  <2>3. pc' \in {"check", "to_mont", "square", "multiply", "done"}
    BY <1>2
  <2> QED
    BY <1>1, <1>2, <2>1, <2>2, <2>3 DEF Exp!TypeOK
<1>10. ExpLoops'
  <2>1. q >= 1
    BY <1>3, <1>4
  <2> QED
    BY <1>1, <1>2, <1>6, <2>1 DEF ExpLoops, Exp!Limit, Exp!R, Exp!WordSize, Exp!PowerOf
<1>11. ASSUME bits[q] = 1 PROVE ExpSquared'
  <2>1. Same(modulus, acc', (P(q - 1) * P(q - 1)) * Exp!R)
    BY <1>2, <1>4, <1>6 DEF u
  <2>2. (q > 1 /\ bits[q] = 1
          /\ Same(modulus, acc', (ExpPrefix(modulus, base, bits, q - 1) * ExpPrefix(modulus, base, bits, q - 1)) * Exp!R))
    BY <1>4, <1>11, <2>1 DEF P
  <2> QED
    BY <1>2, <2>2 DEF ExpSquared
<1>12. ASSUME bits[q] # 1 PROVE ExpAccumulated(acc, bits, pos, path, modulus, base)'
  <2> DEFINE uu == u * u
  <2>1. uu \in Int /\ uu * 1 = uu
    <3>1. uu \in Int
      BY <1>5, Product3
    <3> HIDE DEF uu
    <3> QED
      BY <3>1
  <2>2. Same(modulus, P(q), uu)
    <3>1. Same(modulus, P(q), uu * 1)
      BY <1>4, <1>7, <1>12 DEF u
    <3> QED
      BY <2>1, <3>1
  <2>3. Same(modulus, acc', uu * Exp!R)
    BY <1>2, <1>6
  <2> HIDE DEF uu
  <2>4. Same(modulus, P(q) * Exp!R, uu * Exp!R)
    BY <1>3, <1>7, <2>1, <2>2, SameTimes
  <2>5. Same(modulus, acc', P(q) * Exp!R)
    BY <2>3, <2>4 DEF Same
  <2>6. ExpAccumulated(acc', bits, q, path, modulus, base)
    BY <1>12, <2>5 DEF ExpAccumulated, P
  <2> QED
    BY <1>2, <2>6
<1>13. CASE bits[q] = 1
  <2>1. pc' = "multiply"
    BY <1>2, <1>13
  <2> QED
    BY <1>8, <1>9, <1>10, <1>11, <1>13, <2>1 DEF ExpInv
<1>14. CASE bits[q] # 1
  <2>1. pc' = "square"
    BY <1>2, <1>14
  <2> QED
    BY <1>8, <1>9, <1>10, <1>12, <1>14, <2>1 DEF ExpInv
<1> QED
  BY <1>13, <1>14

(* The product completes the power for a one. *)
LEMMA MultiplyAccInv ==
  ASSUME Exp!ModExpParameters, ExpInv, Exp!Multiply
  PROVE  ExpInv'
<1> DEFINE P(k) == ExpPrefix(modulus, base, bits, k)
           h == P(pos - 1)
           u == h * h
           ug == u * base
           z == Exp!Product(acc, Exp!Factor)
<1>1. pc = "multiply" /\ ExpInputs /\ Exp!TypeOK /\ ExpRuns /\ ExpLoops /\ ExpSquared
  BY DEF Exp!Multiply, ExpInv
<1>2. /\ UNCHANGED <<path, base, exponent, modulus, bits, pos, baseMont, status, result>>
      /\ acc' = z /\ pc' = "square"
  BY DEF Exp!Multiply, Exp!inputs
<1>3. /\ modulus \in 1..(Exp!R - 1) /\ modulus \in Nat /\ modulus > 0 /\ modulus % 2 = 1
      /\ base \in 0..(modulus - 1) /\ base \in Int
      /\ Exp!R \in Nat /\ Exp!R > 0 /\ Exp!R \in Int
      /\ bits \in Seq({0, 1}) /\ Len(bits) \in Nat /\ pos \in 0..Len(bits)
  BY <1>1, ExpLoopFacts
<1>4. pos \in 1..Len(bits) /\ pos > 1 /\ bits[pos] = 1 /\ pos - 1 \in 0..Len(bits)
  BY <1>1, <1>3 DEF ExpSquared
<1>5. acc \in 0..(Exp!Limit - 1) /\ baseMont \in 0..(modulus - 1) /\ Same(modulus, baseMont, base * Exp!R)
  BY <1>1 DEF ExpLoops
<1>6. u \in Int /\ ug \in Int /\ Same(modulus, acc, u * Exp!R)
  <2>1. h \in 0..(modulus - 1)
    BY <1>3, <1>4, PrefixStep
  <2>2. Same(modulus, acc, u * Exp!R)
    BY <1>1 DEF ExpSquared
  <2>3. u \in Int
    <3>1. h \in Int
      BY <1>3, <2>1
    <3> HIDE DEF h
    <3> QED
      BY <3>1, Product3
  <2>4. ug \in Int
    <3> HIDE DEF u
    <3> QED
      BY <1>3, <2>3, Product3
  <2> QED
    BY <2>2, <2>3, <2>4
<1>7. Same(modulus, P(pos), ug) /\ P(pos) \in 0..(modulus - 1) /\ P(pos) \in Int
  <2>1. Same(modulus, P(pos), (P(pos - 1) * P(pos - 1)) * (IF bits[pos] = 1 THEN base ELSE 1))
    BY <1>3, <1>4, PrefixStep
  <2>2. P(pos) \in 0..(modulus - 1)
    BY <1>3, PrefixStep
  <2> QED
    BY <1>3, <1>4, <2>1, <2>2
<1>8. ASSUME NEW y \in 0..(modulus - 1)
      PROVE  /\ Exp!Product(acc, y) \in 0..(Exp!Limit - 1)
             /\ Same(modulus, y, base * Exp!R) => Same(modulus, Exp!Product(acc, y), ug * Exp!R)
             /\ Same(modulus, y, base) => Same(modulus, Exp!Product(acc, y), ug)
  <2> HIDE DEF u
  <2>0. y \in 0..(Exp!Limit - 1)
    BY <1>3, LimitFits
  <2>1. Exp!Product(acc, y) \in 0..(Exp!Limit - 1)
    BY <1>3, <1>5, <1>6, <2>0, MultipliedIs
  <2>2. Same(modulus, y, base * Exp!R) => Same(modulus, Exp!Product(acc, y), ug * Exp!R)
    BY <1>3, <1>5, <1>6, <2>0, MultipliedIs
  <2>3. Same(modulus, y, base) => Same(modulus, Exp!Product(acc, y), ug)
    BY <1>3, <1>5, <1>6, <2>0, MultipliedIs
  <2> QED
    BY <2>1, <2>2, <2>3
<1> HIDE DEF P, u, ug, h, z
<1>9. z \in 0..(Exp!Limit - 1) /\ ExpAccumulated(z, bits, pos, path, modulus, base)
  <2>1. CASE path = "asm" /\ pos = Len(bits)
    <3>1. z = Exp!Product(acc, base)
      BY <2>1 DEF z, Exp!Factor
    <3>2. z \in 0..(Exp!Limit - 1) /\ Same(modulus, z, ug)
      BY <1>3, <1>8, <3>1 DEF Same
    <3>4. Same(modulus, z, P(pos))
      BY <1>7, <3>2 DEF Same
    <3>5. 1 < pos
      BY <1>3, <1>4
    <3> QED
      BY <1>4, <2>1, <3>2, <3>4, <3>5 DEF ExpAccumulated, P
  <2>2. CASE ~(path = "asm" /\ pos = Len(bits))
    <3>1. z = Exp!Product(acc, baseMont)
      BY <2>2 DEF z, Exp!Factor
    <3>2. z \in 0..(Exp!Limit - 1) /\ Same(modulus, z, ug * Exp!R)
      BY <1>5, <1>8, <3>1
    <3>3. Same(modulus, P(pos) * Exp!R, ug * Exp!R)
      BY <1>3, <1>6, <1>7, SameTimes
    <3>4. Same(modulus, z, P(pos) * Exp!R)
      BY <3>2, <3>3 DEF Same
    <3> QED
      BY <2>2, <3>2, <3>4 DEF ExpAccumulated, P
  <2> QED
    BY <2>1, <2>2
<1>10. ExpInputs' /\ ExpRuns'
  BY <1>1, <1>2 DEF ExpInputs, ExpRuns
<1>11. Exp!TypeOK'
  <2>1. acc' \in 0..(Exp!R - 1)
    BY <1>2, <1>3, <1>9, LimitFits
  <2> QED
    BY <1>1, <1>2, <2>1 DEF Exp!TypeOK
<1>12. ExpLoops'
  BY <1>1, <1>2, <1>9 DEF ExpLoops, Exp!Limit, Exp!R, Exp!WordSize, Exp!PowerOf
<1>13. ExpAccumulated(acc, bits, pos, path, modulus, base)'
  BY <1>2, <1>9
<1> QED
  BY <1>2, <1>10, <1>11, <1>12, <1>13 DEF ExpInv

(* Out of Montgomery form: the power, but for the exponent 1 on the asm path. *)
LEMMA OutOfMontIs ==
  ASSUME Exp!ModExpParameters, ExpInv, pc = "square", pos = Len(bits)
  PROVE  /\ Exp!OutOfMont \in 0..(modulus - 1)
         /\ \/ path = "asm" /\ bits = <<1>>
            \/ Exp!OutOfMont = PowerTimes(modulus, base, Exp!Value(exponent))
<1> DEFINE m == modulus
           r == Exp!R
           power == ExpPrefix(m, base, bits, pos)
           whole == PowerTimes(m, base, Exp!Value(exponent))
           z == Exp!OutOfMont
           lim == Exp!Limit
<1>1. ExpInputs /\ Exp!TypeOK /\ ExpRuns /\ ExpLoops /\ ExpAccumulated(acc, bits, pos, path, modulus, base)
  BY DEF ExpInv
<1>2. /\ m \in 1..(r - 1) /\ m \in Nat /\ m > 0 /\ m % 2 = 1
      /\ base \in 0..(m - 1) /\ base \in Int
      /\ exponent \in Seq(0..(PowerOf(2, ByteBits) - 1))
      /\ r \in Nat /\ r > 0 /\ r \in Int
      /\ bits \in Seq({0, 1}) /\ Len(bits) \in Nat /\ Len(bits) >= 1 /\ bits[1] = 1
  BY ExpLoopFacts
<1>3. power \in 0..(m - 1) /\ power \in Int /\ power = whole
  <2>1. power \in 0..(m - 1)
    <3>1. pos \in 0..Len(bits)
      BY <1>2
    <3> QED
      BY <1>2, <3>1, PrefixStep
  <2>2. power = PowerRead(m, base, bits)
    BY <1>2, PrefixStep
  <2>3. PowerRead(m, base, Exp!ExponentBits(exponent)) = whole
    BY <1>2, PowerAgrees
  <2>4. bits = Exp!ExponentBits(exponent)
    BY <1>1 DEF ExpRuns
  <2>5. power \in Int
    BY <1>2, <2>1
  <2> QED
    BY <2>1, <2>2, <2>3, <2>4, <2>5, Zenon
<1>4. /\ acc \in 0..(lim - 1) /\ acc \in Int /\ acc \in Nat /\ acc \in 0..(r - 1)
      /\ lim \in Nat /\ lim <= 2 * m /\ lim <= r
  <2>1. acc \in 0..(lim - 1)
    BY <1>1 DEF ExpLoops
  <2>2. lim \in Nat /\ lim <= 2 * m /\ lim <= r
    BY <1>2, LimitIs
  <2> HIDE DEF lim, r
  <2> QED
    BY <1>2, <2>1, <2>2
<1>5. PICK inv \in Int : Same(m, r * inv, 1)
  BY <1>2, RInvertible
<1>6. /\ path = "asm" /\ 1 < pos /\ bits[pos] = 1 => Same(m, acc, power)
      /\ ~(path = "asm" /\ 1 < pos /\ bits[pos] = 1) => Same(m, acc, power * r)
  BY <1>1 DEF ExpAccumulated
<1>7. ASSUME NEW v \in 0..(m - 1), Same(m, v * r, acc), Same(m, acc, power * r)
      PROVE  v = power
  <2>1. v \in Int /\ Same(m, v * r, power * r)
    BY <1>2, <1>7 DEF Same
  <2> HIDE DEF power, r, m
  <2>2. Same(m, v, power)
    BY <1>2, <1>3, <1>5, <2>1, SameCancel
  <2> QED
    BY <1>2, <1>3, <2>2, ReducedAreEqual
<1>8. CASE path = "portable"
  <2> DEFINE one == 1
             v == Exp!MontMul(acc, one, m)
  <2>1. z = v
    BY <1>8 DEF Exp!OutOfMont
  <2>2. one \in 0..m /\ acc * one = acc
    <3>1. one \in 0..m
      BY <1>2
    <3> QED
      BY <1>4, <3>1
  <2> HIDE DEF one, v, m, r
  <2>3. v \in 0..(m - 1)
    BY <1>2, <1>4, <2>2, MontMulIs DEF v, r, m
  <2>4. Same(m, v * r, acc)
    <3>1. Same(m, v * r, acc * one)
      BY <1>2, <1>4, <2>2, MontMulIs DEF v, r, m
    <3> QED
      BY <2>2, <3>1
  <2>5. Same(m, acc, power * r)
    BY <1>6, <1>8
  <2> HIDE DEF power
  <2>6. v = power
    BY <1>7, <2>3, <2>4, <2>5
  <2> QED
    BY <1>3, <2>1, <2>3, <2>6 DEF m
<1>9. CASE path # "portable"
  <2>1. path = "asm"
    BY <1>1, <1>9 DEF ExpInputs
  <2>2. z = Exp!SubIfGte(IF bits[pos] = 0 THEN Exp!AsmRedc(acc, m) ELSE acc, m)
    BY <1>9 DEF Exp!OutOfMont
  <2>3. ASSUME NEW v \in 0..(lim - 1)
        PROVE  Exp!SubIfGte(v, m) \in 0..(m - 1) /\ Same(m, Exp!SubIfGte(v, m), v)
    <3>1. v \in 0..(2 * m) /\ v < 2 * m /\ v \in Int
      <4> HIDE DEF lim, m
      <4> QED
        BY <1>2, <1>4, <2>3
    <3> DEFINE w == Exp!SubIfGte(v, m)
    <3>2. w = IF v < m THEN v ELSE v - m
      BY <1>2, <3>1, ExpSubtracts
    <3> HIDE DEF w, m
    <3>3. w \in 0..(m - 1)
      BY <1>2, <3>1, <3>2
    <3>4. Same(m, w, v)
      <4>1. CASE v < m
        BY <3>2, <4>1 DEF Same
      <4>2. CASE ~(v < m)
        <5> DEFINE e == -1
        <5>1. e \in Int /\ w = v + e * m
          BY <1>2, <3>1, <3>2, <4>2
        <5> HIDE DEF e
        <5>2. Apart(m, w, v)
          BY <5>1 DEF Apart
        <5>3. m \in Nat /\ m > 0 /\ w \in Int /\ v \in Int
          BY <1>2, <3>1, <3>3
        <5> QED
          BY <5>2, <5>3, ApartSame
      <4> QED
        BY <4>1, <4>2
    <3> QED
      BY <3>3, <3>4 DEF w
  <2>10. lim = AsmLimit(m)
    BY <1>2, <2>1, LimitIs
  <2>4. CASE bits[pos] = 0
    <3> DEFINE v == Exp!AsmRedc(acc, m)
               w == Exp!SubIfGte(v, m)
    <3>1. acc <= (AsmLimit(m) - 1) * (r - 1)
      <4> HIDE DEF lim, r, m
      <4> DEFINE l1 == lim - 1
                 r1 == r - 1
      <4>1. l1 \in Nat /\ r1 \in Nat /\ r1 >= 1 /\ acc <= l1
        BY <1>2, <1>4
      <4> HIDE DEF l1, r1
      <4>2. l1 <= l1 * r1
        BY <4>1, SMTT(30)
      <4>3. l1 * r1 \in Int
        BY <4>1
      <4>4. acc <= l1 * r1
        BY <1>4, <4>1, <4>2, <4>3
      <4> QED
        BY <2>10, <4>4 DEF l1, r1
    <3>2. v \in 0..(AsmLimit(m) - 1)
      BY <1>2, <1>4, <3>1, AsmRedcIs
    <3>3. Same(m, v * r, acc)
      BY <1>2, <1>4, <3>1, AsmRedcIs
    <3>4. z = w
      BY <2>2, <2>4
    <3>5. v \in 0..(lim - 1)
      BY <2>10, <3>2
    <3> HIDE DEF v
    <3>6. w \in 0..(m - 1) /\ Same(m, w, v)
      BY <2>3, <3>5
    <3>7. v \in Int /\ w \in Int
      <4> HIDE DEF lim, w, m
      <4> QED
        BY <1>2, <1>4, <3>5, <3>6
    <3> HIDE DEF w
    <3>8. Same(m, w * r, v * r)
      <4> HIDE DEF m, r
      <4> QED
        BY <1>2, <3>6, <3>7, SameTimes
    <3>9. Same(m, w * r, acc)
      BY <3>3, <3>8 DEF Same
    <3>10. Same(m, acc, power * r)
      BY <1>6, <2>4
    <3> HIDE DEF power, z
    <3>11. w = power
      BY <1>7, <3>6, <3>9, <3>10
    <3> QED
      BY <1>3, <3>4, <3>6, <3>11 DEF z, m
  <2>5. CASE bits[pos] # 0
    <3>1. bits[pos] = 1
      BY <1>2, <2>5
    <3>2. z \in 0..(m - 1) /\ Same(m, z, acc)
      <4>1. z = Exp!SubIfGte(acc, m)
        BY <2>2, <2>5
      <4> QED
        BY <1>4, <2>3, <4>1
    <3>3. CASE pos = 1
      <4>1. bits = <<1>>
        <5> DEFINE one == <<1>>
        <5>1. Len(bits) = 1 /\ bits = [j \in 1..Len(bits) |-> bits[j]]
          <6>1. Len(bits) = 1
            BY <3>3
          <6>2. bits = [j \in 1..Len(bits) |-> bits[j]]
            <7> DEFINE T == {0, 1}
            <7>1. bits \in Seq(T)
              BY <1>2
            <7> HIDE DEF T
            <7> QED
              BY <7>1
          <6> QED
            BY <6>1, <6>2
        <5>2. one = [j \in 1..1 |-> one[j]] /\ one[1] = 1
          OBVIOUS
        <5>3. \A j \in 1..1 : bits[j] = one[j]
          BY <1>2, <5>2
        <5> HIDE DEF one
        <5>4. [j \in 1..1 |-> bits[j]] = [j \in 1..1 |-> one[j]]
          BY <5>3
        <5> QED
          BY <5>1, <5>2, <5>4 DEF one
      <4> QED
        BY <2>1, <3>2, <4>1
    <3>4. CASE pos # 1
      <4>1. 1 < pos
        BY <1>2, <3>4
      <4>2. Same(m, z, power)
        BY <1>6, <2>1, <3>1, <3>2, <4>1 DEF Same
      <4> HIDE DEF z, power, m
      <4>3. z = power
        BY <1>2, <1>3, <3>2, <4>2, ReducedAreEqual
      <4> QED
        BY <1>3, <3>2, <4>3 DEF z, m
    <3> QED
      BY <3>3, <3>4
  <2> QED
    BY <2>4, <2>5
<1> QED
  BY <1>8, <1>9

(* What is returned is the power. *)
LEMMA ConvertInv ==
  ASSUME Exp!ModExpParameters, ExpInv, Exp!Convert
  PROVE  ExpInv'
<1> DEFINE z == Exp!OutOfMont
<1>1. pc = "square" /\ pos = Len(bits) /\ ExpInputs /\ Exp!TypeOK
  BY DEF Exp!Convert, ExpInv
<1>2. /\ UNCHANGED <<path, base, exponent, modulus, bits, pos, acc, baseMont>>
      /\ pc' = "done" /\ status' = "Ok" /\ result' = z
  BY DEF Exp!Convert, Exp!Return, Exp!inputs
<1>3. /\ z \in 0..(modulus - 1)
      /\ (path = "asm" /\ bits = <<1>>) \/ z = PowerTimes(modulus, base, Exp!Value(exponent))
  <2>1. z \in 0..(modulus - 1)
    BY <1>1, OutOfMontIs
  <2>2. (path = "asm" /\ bits = <<1>>) \/ z = PowerTimes(modulus, base, Exp!Value(exponent))
    BY <1>1, OutOfMontIs
  <2> QED
    BY <2>1, <2>2
<1>4. modulus \in 1..(Exp!R - 1)
  BY <1>1, ExpLoopFacts
<1> HIDE DEF z
<1>5. ExpInputs'
  BY <1>1, <1>2 DEF ExpInputs
<1>6. Exp!TypeOK'
  <2>1. result' \in 0..(Exp!R - 1)
    BY <1>2, <1>3, <1>4, ReducedFits
  <2> QED
    BY <1>1, <1>2, <2>1 DEF Exp!TypeOK
<1>7. ExpReturned("Ok", z, bits, path, modulus, base, exponent)
  BY <1>3 DEF ExpReturned
<1>8. ExpReturned(status, result, bits, path, modulus, base, exponent)'
  BY <1>2, <1>7
<1> QED
  BY <1>2, <1>5, <1>6, <1>8 DEF ExpInv

(* Every step keeps the invariant. *)
LEMMA ExpStep ==
  ASSUME Exp!ModExpParameters, ExpInv, [Exp!Next]_(Exp!vars)
  PROVE  ExpInv'
<1>1. CASE Exp!Check
  BY <1>1, CheckInv
<1>2. CASE Exp!ToMont
  BY <1>2, ToMontInv
<1>3. CASE Exp!Square
  BY <1>3, SquareInv
<1>4. CASE Exp!Multiply
  BY <1>4, MultiplyAccInv
<1>5. CASE Exp!Convert
  BY <1>5, ConvertInv
<1>6. CASE UNCHANGED Exp!vars
  BY <1>6 DEF Exp!vars, ExpInv, ExpInputs, Exp!TypeOK, ExpRuns, ExpLoops, ExpSquared, Exp!Limit
<1> QED
  BY <1>1, <1>2, <1>3, <1>4, <1>5, <1>6 DEF Exp!Next

(* What the assumptions on the run and the shape of its steps say of this part. *)
LEMMA ExpHolds == Exp!ModExpParameters
BY ModularAssumption

LEMMA ExpSteps ==
  ASSUME [ModularNext]_modularVars, part = "modexp" \/ part' = "modexp"
  PROVE  part = "modexp" /\ part' = "modexp" /\ (Exp!Next \/ UNCHANGED modularVars)
BY DEF ModularNext, NumberNext, LatticeNext, FieldNext, ExpNext, ChainNext, SolinasNext,
       ProductNext, ScalarNext, LimbsNext, modularVars

(* The run's part that is modexp_public. *)
ExpPart == part = "modexp" => ExpInv

(* The invariant holds throughout every call. *)
LEMMA ExpAlways == ModularSpec => []ExpPart
<1>1. ModularInit => ExpPart
  <2>1. ModularInit /\ part = "modexp" => Exp!Init
    BY DEF ModularInit, NumberInit
  <2> QED
    BY <2>1, ExpHolds, ExpInitial DEF ExpPart
<1>2. ExpPart /\ [ModularNext]_modularVars => ExpPart'
  <2> SUFFICES ASSUME ExpPart, [ModularNext]_modularVars, part' = "modexp"
               PROVE  ExpInv'
    BY DEF ExpPart
  <2>1. part = "modexp" /\ [Exp!Next]_(Exp!vars)
    BY ExpSteps DEF modularVars, expVars, Exp!vars
  <2> QED
    BY <2>1, ExpHolds, ExpStep DEF ExpPart
<1> QED
  BY <1>1, <1>2, PTL DEF ModularSpec
-------------------------------------------------------------------------------
(* The stages of modexp_public, the exponent's bits and the numbers of words stay
   in their ranges, for every size of words, numbers and exponents. *)
THEOREM ModexpTypeCorrect == ModularSpec => [](part = "modexp" => ModularTypeOK)
<1>1. ExpPart => (part = "modexp" => ModularTypeOK)
  BY DEF ExpPart, ExpInv, ModularTypeOK
<1> QED
  BY <1>1, ExpAlways, PTL

(* modexp_public, for every odd modulus, base, exponent, word size and length:
   between two turns of its loop the accumulator is congruent to the power for the
   bits read so far, and below what bounds the build's products, the modulus or, on
   the asm path when the modulus' top bit is set, R; and what it returns is base^exponent mod modulus, on the portable and
   on the asm path, but for the cases ReturnsPower names. *)
THEOREM ModexpComputesPower == ModularSpec => []ComputesPower
<1>1. ASSUME ExpInv, pc = "square" PROVE Exp!PrefixPower
  <2> DEFINE power == ExpPrefix(modulus, base, bits, pos)
  <2>1. acc \in 0..(Exp!Limit - 1) /\ ExpAccumulated(acc, bits, pos, path, modulus, base)
    BY <1>1 DEF ExpInv, ExpLoops
  <2>2. /\ modulus \in Nat /\ modulus > 0 /\ base \in Int /\ modulus \in 1..(Exp!R - 1)
        /\ bits \in Seq({0, 1}) /\ pos \in 0..Len(bits)
    BY <1>1, ExpHolds, ExpLoopFacts
  <2>3. Exp!PowerOfBits(SubSeq(bits, 1, pos)) = power
    BY PowersAre DEF ExpPrefix
  <2>4. power % modulus = power
    <3>1. power \in 0..(modulus - 1)
      BY <2>2, PrefixStep
    <3> HIDE DEF power
    <3> QED
      BY <2>2, <3>1, Remainder
  <2>5. ~(path = "asm" /\ 1 < pos /\ pos = Len(bits) /\ bits[pos] = 1)
          => acc % modulus = (power * Exp!R) % modulus
    BY <2>1 DEF ExpAccumulated, Same
  <2>6. path = "asm" /\ 1 < pos /\ pos = Len(bits) /\ bits[pos] = 1 => acc % modulus = power
    BY <2>1, <2>4 DEF ExpAccumulated, Same
  <2>7. acc < Exp!Limit
    <3>1. Exp!Limit \in Nat
      BY <2>2, ExpHolds, LimitIs
    <3> QED
      BY <2>1, <3>1
  <2> HIDE DEF power
  <2> QED
    BY <2>3, <2>5, <2>6, <2>7 DEF Exp!PrefixPower
<1>2. ASSUME ExpInv PROVE Exp!PrefixPower /\ Exp!ReturnsPower
  <2>1. Exp!PrefixPower
    BY <1>1, <1>2 DEF Exp!PrefixPower
  <2>2. pc = "done" => ExpReturned(status, result, bits, path, modulus, base, exponent)
    BY <1>2 DEF ExpInv
  <2>3. Exp!Power = PowerTimes(modulus, base, Exp!Value(exponent))
    BY PowersAre
  <2>4. Exp!ReturnsPower
    BY <2>2, <2>3 DEF ExpReturned, Exp!ReturnsPower
  <2> QED
    BY <2>1, <2>4
<1>3. ExpPart => ComputesPower
  BY <1>2 DEF ExpPart, ComputesPower
<1> QED
  BY <1>3, ExpAlways, PTL
-------------------------------------------------------------------------------
(* The reductions of src/curve25519/ed25519.rs modulo the order of Ed25519. *)

(* The weights of words, and the numbers that the constants of the code are. *)
LEMMA ScalWeights ==
  ASSUME Scal!EdReductionParameters
  PROVE  /\ Scal!Weight(0) = 1
         /\ \A k \in Nat : Scal!Weight(k) \in Nat /\ Scal!Weight(k) > 0
         /\ \A k \in Nat : Scal!Weight(k + 1) = W * Scal!Weight(k)
<1>1. W \in Nat \ {0}
  BY DEF Scal!EdReductionParameters
<1>2. \A k : Scal!Weight(k) = PowerOf(W, k)
  BY DEF Scal!Weight, PowerOf
<1>3. /\ PowerOf(W, 0) = 1
      /\ \A n \in Nat : PowerOf(W, n) \in Nat /\ PowerOf(W, n) > 0
      /\ \A n \in Nat : PowerOf(W, n + 1) = W * PowerOf(W, n)
  BY <1>1, PowersStep
<1> QED
  BY <1>2, <1>3

LEMMA ScalSizes ==
  ASSUME Scal!EdReductionParameters
  PROVE  /\ W \in Nat /\ W > 0 /\ ScalarWords \in Nat /\ L \in Nat /\ L > 0
         /\ Scal!Capacity \in Nat /\ Scal!Capacity > 0 /\ 3 * L <= Scal!Capacity
         /\ Scal!LFACTOR \in 0..(W - 1) /\ (Scal!LFACTOR * L) % W = W - 1
<1>1. /\ W \in Nat /\ W > 0 /\ ScalarWords \in Nat /\ L \in Nat
      /\ L % 2 = 1 /\ 3 * L <= Scal!Capacity
  BY DEF Scal!EdReductionParameters
<1>2. L # 0
  <2>1. 0 % 2 = 0
    OBVIOUS
  <2> QED
    BY <1>1, <2>1
<1>3. Scal!Capacity \in Nat /\ Scal!Capacity > 0
  BY <1>1, ScalWeights DEF Scal!Capacity
<1>4. Scal!LFACTOR \in 0..(W - 1) /\ (Scal!LFACTOR * L) % W = W - 1
  BY DEF Scal!EdReductionParameters, Scal!LFACTOR
<1> QED
  BY <1>1, <1>2, <1>3, <1>4

(* R and RR are the capacity and its square, reduced. *)
LEMMA ScalRadix ==
  ASSUME Scal!EdReductionParameters
  PROVE  /\ Scal!R \in 0..(L - 1) /\ Same(L, Scal!R, Scal!Capacity)
         /\ Scal!RR \in 0..(L - 1) /\ Same(L, Scal!RR, Scal!Capacity * Scal!Capacity)
<1> DEFINE c == Scal!Capacity
           u == Scal!R
           v == Scal!RR
           uu == u * u
<1>1. c \in Int /\ L \in Nat /\ L > 0
  BY ScalSizes
<1>2. u = c % L /\ v = uu % L
  BY DEF Scal!R, Scal!RR
<1> HIDE DEF c, u, v
<1>3. u \in 0..(L - 1) /\ Same(L, u, c)
  BY <1>1, <1>2, Remainder
<1>4. uu \in Int /\ Same(L, uu, c * c)
  <2>1. u \in Int
    BY <1>1, <1>3
  <2>2. Same(L, u * u, c * c)
    BY <1>1, <1>3, <2>1, SameProducts
  <2> QED
    BY <2>1, <2>2
<1> DEFINE cc == c * c
<1>5. v \in 0..(L - 1) /\ Same(L, v, uu)
  <2> HIDE DEF uu
  <2> QED
    BY <1>1, <1>2, <1>4, Remainder
<1>6. Same(L, v, cc)
  BY <1>4, <1>5 DEF Same
<1> QED
  BY <1>3, <1>5, <1>6 DEF c, u, v

(* The capacity has an inverse modulo the order. *)
LEMMA ScalInvertible ==
  ASSUME Scal!EdReductionParameters
  PROVE  \E inv \in Int : Same(L, Scal!Capacity * inv, 1)
<1> DEFINE f == Scal!LFACTOR
           fl == f * L
           q == fl \div W
           h == q + 1
           wh == W * h
           one == 1
<1>1. W \in Nat \ {0} /\ W > 0 /\ ScalarWords \in Nat /\ L \in Nat /\ L > 0 /\ f \in Nat /\ fl \in Nat
  BY ScalSizes
<1>2. fl % W = W - 1
  BY ScalSizes
<1>3. q \in Int /\ fl = W * q + (W - 1)
  <2> HIDE DEF fl
  <2> QED
    BY <1>1, <1>2, NatDivision
<1>4. wh \in Int /\ h \in Int /\ wh = one + f * L
  <2>1. W * (q + 1) = W * q + W
    <3> HIDE DEF q
    <3> QED
      BY <1>1, <1>3, SMTT(30)
  <2> QED
    BY <1>1, <1>3, <2>1
<1>5. Same(L, wh, one)
  <2>1. Apart(L, wh, one)
    BY <1>1, <1>4 DEF Apart
  <2>2. wh \in Int /\ one \in Int /\ L \in Nat /\ L > 0
    BY <1>1, <1>4
  <2> HIDE DEF wh, one
  <2> QED
    BY <2>1, <2>2, ApartSame
<1>6. \E inv \in Int : Same(L, PowerOf(W, ScalarWords) * inv, one)
  <2> HIDE DEF h, one
  <2>1. Same(L, W * h, 1)
    BY <1>5 DEF one
  <2> QED
    BY <1>1, <1>4, <2>1, PowersInvertible DEF one
<1>7. Scal!Capacity = PowerOf(W, ScalarWords)
  BY DEF Scal!Capacity, Scal!Weight, PowerOf
<1> QED
  BY <1>6, <1>7

(* The last step of a reduction subtracts L once, when it may. *)
LEMMA SubLIs ==
  ASSUME Scal!EdReductionParameters, NEW v \in 0..(3 * L - 1)
  PROVE  Scal!SubL(v) = IF v < L THEN v ELSE v - L
<1> DEFINE c == Scal!Capacity
           y == v - L
           back == IF v < L THEN L ELSE 0
<1>1. c \in Nat /\ c > 0 /\ L \in Nat /\ L > 0 /\ 3 * L <= c /\ y \in Int
  BY ScalSizes
<1>2. Scal!SubL(v) = ((y % c) + back) % c
  BY DEF Scal!SubL
<1> HIDE DEF c
<1>3. \A x \in 0..(c - 1) : x % c = x
  BY <1>1, Remainder
<1>4. CASE v < L
  <2> DEFINE x == y + c
             one == 1
  <2>1. y \in Int /\ x \in 0..(c - 1) /\ x = y + one * c /\ one \in Int /\ x \in Int
    BY <1>1, <1>4
  <2> HIDE DEF x, y, one
  <2>2. x % c = y % c
    BY <1>1, <2>1, SameRemainder
  <2>3. y % c = x
    BY <1>3, <2>1, <2>2
  <2> DEFINE s == x + L
  <2>4. s = v + one * c /\ v \in Int /\ s \in Int
    BY <1>1, <1>4, <2>1 DEF x, y, one
  <2>5. v \in 0..(c - 1)
    BY <1>1
  <2> HIDE DEF s
  <2>6. s % c = v % c
    BY <1>1, <2>1, <2>4, SameRemainder
  <2>7. (y % c) + back = s
    BY <1>4, <2>3 DEF s
  <2> QED
    BY <1>2, <1>3, <1>4, <2>5, <2>6, <2>7
<1>5. CASE v >= L
  <2>1. y \in 0..(c - 1) /\ y + 0 = y
    BY <1>1, <1>5
  <2>2. y % c = y
    BY <1>3, <2>1
  <2>3. back = 0 /\ ~(v < L)
    BY <1>1, <1>5
  <2> HIDE DEF y, back
  <2>4. ((y % c) + back) % c = y
    BY <2>1, <2>2, <2>3
  <2> QED
    BY <1>2, <2>3, <2>4 DEF y
<1> QED
  BY <1>1, <1>4, <1>5
-------------------------------------------------------------------------------
(* A multiple of the order that clears a low word d. *)
LEMMA WordCleared ==
  ASSUME NEW w \in Nat, w > 0, NEW d \in Nat, NEW f \in Nat, NEW m \in Nat,
         (f * m) % w = w - 1
  PROVE  Same(w, d + (((d % w) * f) % w) * m, 0)
<1> DEFINE x == (d % w) * f
           y == x % w
           fm == f * m
           q == fm \div w
<1>1. x \in Int /\ Same(w, x, d * f)
  <2> DEFINE r == d % w
  <2>1. r \in Int /\ Same(w, r, d)
    BY NatDivision, Remainder
  <2>2. d \in Int /\ f \in Int
    OBVIOUS
  <2> HIDE DEF r
  <2>3. Same(w, r * f, d * f)
    BY <2>1, <2>2, SameTimes
  <2>4. x = r * f
    BY DEF r
  <2> QED
    BY <2>1, <2>2, <2>3, <2>4
<1>2. y \in Int /\ Same(w, y, x)
  <2> HIDE DEF x
  <2> QED
    BY <1>1, Remainder
<1>3. fm \in Nat /\ q \in Int /\ fm = w * q + (w - 1)
  <2>1. fm \in Nat /\ fm % w = w - 1
    OBVIOUS
  <2> HIDE DEF fm
  <2> QED
    BY <2>1, NatDivision
<1> DEFINE df == d * f
<1>4. df \in Int /\ Same(w, y, df)
  BY <1>1, <1>2 DEF Same
<1> HIDE DEF x, y, fm, q
<1>5. Same(w, y * m, df * m)
  <2> HIDE DEF df
  <2>1. y \in Int /\ m \in Int
    BY <1>2
  <2> QED
    BY <1>4, <2>1, SameTimes
<1> DEFINE ym == y * m
           dfm == df * m
<1>6. ym \in Int /\ dfm \in Int
  BY <1>2, <1>4
<1>7. dfm + d = 0 + (d * (q + 1)) * w
  <2>1. (d * f) * m = d * fm
    BY Product3 DEF fm
  <2>2. d * (w * q + (w - 1)) + d = (d * (q + 1)) * w
    BY <1>3, SMTT(30)
  <2> QED
    BY <1>3, <2>1, <2>2
<1> HIDE DEF df
<1> HIDE DEF ym, dfm
<1> DEFINE s == ym + d
           z == dfm + d
           zero == 0
<1>8. Same(w, s, z)
  <2>1. Same(w, ym, dfm)
    BY <1>5 DEF ym, dfm
  <2>2. d \in Int
    OBVIOUS
  <2> QED
    BY <1>6, <2>1, <2>2, SamePlus
<1>9. Same(w, z, zero)
  <2>1. d * (q + 1) \in Int /\ z \in Int /\ zero \in Int
    BY <1>3, <1>6
  <2>2. Apart(w, z, zero)
    BY <1>7, <2>1 DEF Apart
  <2> HIDE DEF z, zero
  <2> QED
    BY <2>1, <2>2, ApartSame
<1>10. s = d + y * m
  BY <1>2, <1>6 DEF ym
<1> QED
  BY <1>8, <1>9, <1>10 DEF Same, x, y
-------------------------------------------------------------------------------
(* A word's weight is at most that of the whole number. *)
LEMMA WeightFits ==
  ASSUME Scal!EdReductionParameters, NEW k \in 0..ScalarWords
  PROVE  Scal!Weight(k) <= Scal!Capacity
<1> DEFINE j == ScalarWords - k
           u == Scal!Weight(k)
           v == Scal!Weight(j)
           c == Scal!Capacity
<1>1. W \in Nat \ {0} /\ k \in Nat /\ j \in Nat /\ ScalarWords = k + j
  BY ScalSizes
<1>2. PowerOf(W, k + j) = PowerOf(W, k) * PowerOf(W, j)
  <2> HIDE DEF j
  <2> QED
    BY <1>1, PowersAdd
<1>3. c = u * v
  <2>1. \A n : Scal!Weight(n) = PowerOf(W, n)
    BY DEF Scal!Weight, PowerOf
  <2> QED
    BY <1>1, <1>2, <2>1 DEF Scal!Capacity
<1>4. u \in Nat /\ v \in Nat /\ v > 0
  BY <1>1, ScalWeights
<1> HIDE DEF u, v, c
<1>5. u <= c
  BY <1>3, <1>4, SMTT(30)
<1> QED
  BY <1>5 DEF u, c

(* montgomery_reduce with k words cleared, of a number that was below fac times
   the order times the capacity. *)
ScalAt(x, k, fac) ==
  /\ x \in Nat
  /\ x < fac * (L * Scal!Capacity) + (Scal!Weight(k) - 1) * L
  /\ \E d \in Nat : x = Scal!Weight(k) * d

(* Nothing is carried out of its 2N words. *)
LEMMA ScalFits ==
  ASSUME Scal!EdReductionParameters, NEW fac \in 1..2, NEW k \in 0..ScalarWords, NEW x,
         ScalAt(x, k, fac)
  PROVE  /\ x \in 0..(Scal!Capacity * Scal!Capacity - 1)
         /\ x < (fac + 1) * (L * Scal!Capacity)
<1> DEFINE c == Scal!Capacity
           u == Scal!Weight(k)
           lc == L * c
           ul == (u - 1) * L
           cc == c * c
<1>1. c \in Nat /\ c > 0 /\ L \in Nat /\ L > 0 /\ 3 * L <= c
  BY ScalSizes
<1>2. u \in Nat /\ u <= c
  <2>1. k \in Nat
    OBVIOUS
  <2>2. u \in Nat
    BY <2>1, ScalWeights
  <2>3. u <= c
    BY WeightFits
  <2> QED
    BY <2>2, <2>3
<1>3. x \in Nat /\ x < fac * lc + ul
  BY DEF ScalAt
<1> HIDE DEF c, u
<1>4. lc \in Nat /\ ul \in Int /\ ul < lc
  <2>1. ul = u * L - L /\ u * L <= c * L /\ c * L = L * c /\ u * L \in Int /\ c * L \in Int
    BY <1>1, <1>2, SMTT(30)
  <2> DEFINE a1 == u * L
             a2 == c * L
  <2>2. ul = a1 - L /\ a1 <= a2 /\ a2 = lc /\ a1 \in Int /\ a2 \in Int
    BY <2>1
  <2>3. lc >= 0
    BY <1>1, SMTT(30)
  <2> HIDE DEF a1, a2, ul, lc
  <2> QED
    BY <1>1, <2>2, <2>3
<1>5. 3 * lc <= cc /\ cc \in Nat
  <2>1. (3 * L) * c <= c * c /\ (3 * L) * c = 3 * (L * c) /\ c * c \in Nat
    BY <1>1, SMTT(30)
  <2> QED
    BY <2>1
<1> HIDE DEF lc, ul, cc
<1>6. fac * lc + ul < (fac + 1) * lc /\ fac * lc + ul < 3 * lc /\ fac * lc \in Int
  <2>1. CASE fac = 1
    BY <1>4, <2>1
  <2>2. CASE fac = 2
    BY <1>4, <2>2
  <2> QED
    BY <2>1, <2>2
<1>7. x < (fac + 1) * lc /\ x \in 0..(cc - 1)
  <2> DEFINE a3 == fac * lc
             a4 == (fac + 1) * lc
  <2>1. a3 \in Int /\ a3 + ul < a4 /\ a3 + ul < 3 * lc /\ x < a3 + ul /\ a4 \in Int
    BY <1>3, <1>4, <1>6
  <2> HIDE DEF a3, a4
  <2>2. x < a4 /\ x \in 0..(cc - 1)
    BY <1>3, <1>4, <1>5, <2>1
  <2> QED
    BY <2>2 DEF a4
<1> QED
  BY <1>7 DEF lc, cc, c

(* One turn clears one more word, and adds a multiple of the order. *)
LEMMA ClearWordIs ==
  ASSUME Scal!EdReductionParameters, NEW fac \in 1..2, NEW k \in 0..(ScalarWords - 1), NEW x,
         ScalAt(x, k, fac)
  PROVE  ScalAt(Scal!ClearWord(x, k), k + 1, fac) /\ Same(L, Scal!ClearWord(x, k), x)
<1> DEFINE c == Scal!Capacity
           u == Scal!Weight(k)
           u1 == Scal!Weight(k + 1)
           f == Scal!LFACTOR
           cc == c * c
           z == Scal!ClearWord(x, k)
<1>1. /\ W \in Nat /\ W > 0 /\ ScalarWords \in Nat /\ L \in Nat /\ L > 0
      /\ c \in Nat /\ c > 0 /\ f \in Nat
  BY ScalSizes
<1>2. (f * L) % W = W - 1
  BY ScalSizes
<1>3. k \in Nat /\ k + 1 \in 0..ScalarWords
  BY <1>1
<1>4. u \in Nat /\ u > 0 /\ u1 \in Nat /\ u1 = W * u
  BY <1>3, ScalWeights
<1>5. PICK d \in Nat : x = u * d
  BY DEF ScalAt
<1>6. x \in Nat /\ x < fac * (L * c) + (u - 1) * L
  BY DEF ScalAt
<1> DEFINE m == ((d % W) * f) % W
           y == x + m * L * u
<1>7. z = y % cc
  <2>1. z = (x + ((((x \div u) % W) * f) % W) * L * u) % cc
    BY DEF Scal!ClearWord
  <2>2. x \div u = d
    <3> DEFINE zero == 0
    <3>1. x = u * d + zero /\ zero \in 0..(u - 1) /\ d \in Int /\ x \in Int
      BY <1>4, <1>5, <1>6
    <3> HIDE DEF zero, u
    <3> QED
      BY <1>4, <3>1, DivisionUnique
  <2> QED
    BY <2>1, <2>2
<1>8. m \in 0..(W - 1)
  <2> DEFINE r == (d % W) * f
  <2>1. d % W \in 0..(W - 1)
    BY <1>1, NatDivision
  <2>2. r \in Int
    BY <1>1, <2>1
  <2> HIDE DEF r
  <2>3. r % W \in 0..(W - 1)
    BY <1>1, <2>2, Division
  <2> QED
    BY <2>3 DEF r
<1>9. Same(W, d + m * L, 0)
  <2> HIDE DEF f
  <2> QED
    BY <1>1, <1>2, WordCleared
<1> HIDE DEF c, u, u1, f, z, m
<1> DEFINE ml == m * L
           s == d + ml
           e == s \div W
<1>10. s \in Nat /\ e \in Nat /\ s = W * e
  <2>1. ml \in Nat
    BY <1>1, <1>8, SMTT(30)
  <2>2. s \in Nat
    BY <2>1
  <2>3. s % W = 0
    <3> DEFINE zero == 0
    <3>1. zero \in 0..(W - 1)
      BY <1>1
    <3> HIDE DEF zero
    <3>2. zero % W = zero
      BY <1>1, <3>1, Remainder
    <3> QED
      BY <1>9, <3>2 DEF Same, zero
  <2> HIDE DEF s
  <2>4. e \in Nat /\ s = W * e + (s % W)
    BY <1>1, <2>2, NatDivision
  <2>5. W * e \in Int
    BY <1>1, <2>4
  <2> QED
    BY <2>2, <2>3, <2>4, <2>5
<1> HIDE DEF e
<1>11. y = u1 * e /\ y \in Nat
  <2>1. m * L * u = ml * u /\ ml \in Nat
    BY <1>1, <1>8, SMTT(30)
  <2> HIDE DEF ml
  <2>2. u * d + ml * u = u * (d + ml)
    BY <1>4, <2>1, SMTT(30)
  <2>3. y = u * s
    BY <1>5, <2>1, <2>2
  <2> HIDE DEF s
  <2>4. u * (W * e) = (W * u) * e
    BY <1>1, <1>4, <1>10, SMTT(30)
  <2>5. y = u1 * e
    BY <1>4, <1>10, <2>3, <2>4
  <2> HIDE DEF y
  <2> QED
    BY <1>4, <1>10, <2>5, SMTT(30)
<1>12. y < fac * (L * c) + (u1 - 1) * L
  <2> DEFINE lu == L * u
             b1 == (u - 1) * L
             b2 == (u1 - 1) * L
             b3 == m * L * u
             b4 == (W - 1) * lu
             b5 == fac * (L * c)
  <2>1. b3 = m * lu /\ lu \in Nat
    BY <1>1, <1>4, <1>8, SMTT(30)
  <2>2. b3 <= b4 /\ b3 \in Int /\ b4 \in Int
    <3> HIDE DEF lu, b3
    <3> QED
      BY <1>1, <1>8, <2>1, SMTT(30)
  <2>3. b2 = b1 + b4 /\ b1 \in Int
    <3>1. ((W * u) - 1) * L = (u - 1) * L + (W - 1) * (L * u)
      BY <1>1, <1>4, SMTT(30)
    <3> QED
      BY <1>1, <1>4, <3>1
  <2>4. b5 \in Int
    BY <1>1
  <2>5. y = x + b3 /\ x < b5 + b1 /\ x \in Int
    BY <1>6
  <2> HIDE DEF b1, b2, b3, b4, b5, y
  <2>6. y < b5 + b2
    BY <2>2, <2>3, <2>4, <2>5
  <2> QED
    BY <2>6 DEF b2, b5
<1>13. ScalAt(y, k + 1, fac)
  <2> HIDE DEF y
  <2> QED
    BY <1>10, <1>11, <1>12 DEF ScalAt, u1, c
<1>14. z = y
  <2> HIDE DEF y
  <2>1. y \in 0..(cc - 1)
    BY <1>3, <1>13, ScalFits DEF c
  <2>2. cc \in Nat /\ cc > 0
    BY <1>1, SMTT(30)
  <2> HIDE DEF cc
  <2> QED
    BY <1>7, <2>1, <2>2, Remainder
<1>15. Same(L, y, x)
  <2>1. m * L * u = (m * u) * L /\ m * u \in Int
    BY <1>1, <1>4, <1>8, SMTT(30)
  <2>2. Apart(L, y, x)
    BY <2>1 DEF Apart
  <2>3. y \in Int /\ x \in Int
    BY <1>6, <1>11
  <2> HIDE DEF y
  <2> QED
    BY <1>1, <2>2, <2>3, ApartSame
<1> HIDE DEF y
<1> QED
  BY <1>13, <1>14, <1>15 DEF z

(* What is left at the end is the number over the capacity, almost reduced. *)
LEMMA UpperHalfIs ==
  ASSUME Scal!EdReductionParameters, NEW fac \in 1..2, NEW x, ScalAt(x, ScalarWords, fac)
  PROVE  /\ Scal!SubL(x \div Scal!Capacity) \in 0..(fac * L - 1)
         /\ Same(L, Scal!SubL(x \div Scal!Capacity) * Scal!Capacity, x)
<1> DEFINE c == Scal!Capacity
           v == x \div c
           z == Scal!SubL(v)
<1>1. ScalarWords \in Nat /\ L \in Nat /\ L > 0 /\ c \in Nat /\ c > 0
  BY ScalSizes
<1>2. PICK d \in Nat : x = c * d
  BY DEF ScalAt, Scal!Capacity
<1>3. x \in Nat /\ x < (fac + 1) * (L * c)
  BY <1>1, ScalFits DEF ScalAt
<1> DEFINE bound == (fac + 1) * L
<1>4. bound \in Nat /\ x < bound * c /\ bound = fac * L + L /\ fac * L \in Int
  <2>1. (fac + 1) * (L * c) = bound * c
    <3> HIDE DEF c
    <3> QED
      BY <1>1, SMTT(30)
  <2>2. bound \in Nat /\ bound = fac * L + L /\ fac * L \in Int
    <3>1. CASE fac = 1
      BY <1>1, <3>1
    <3>2. CASE fac = 2
      BY <1>1, <3>2
    <3> QED
      BY <3>1, <3>2
  <2> QED
    BY <1>3, <2>1, <2>2
<1>5. v \in 0..(bound - 1) /\ v = d
  <2> HIDE DEF c, bound
  <2>1. v \in 0..(bound - 1)
    BY <1>1, <1>3, <1>4, QuotientBound
  <2> DEFINE zero == 0
  <2>2. x = c * d + zero /\ zero \in 0..(c - 1) /\ d \in Int /\ x \in Int
    BY <1>1, <1>2, <1>3
  <2> HIDE DEF zero
  <2>3. v = d
    BY <1>1, <2>2, DivisionUnique
  <2> QED
    BY <2>1, <2>3
<1>6. fac * L \in Int /\ bound <= 3 * L /\ L <= fac * L
  <2>1. CASE fac = 1
    BY <1>1, <2>1
  <2>2. CASE fac = 2
    BY <1>1, <2>2
  <2> QED
    BY <2>1, <2>2
<1> DEFINE fl == fac * L
<1> HIDE DEF bound
<1>7. z = IF v < L THEN v ELSE v - L
  <2>1. v \in 0..(3 * L - 1)
    BY <1>1, <1>4, <1>5, <1>6
  <2> HIDE DEF v
  <2> QED
    BY <2>1, SubLIs
<1>8. z \in 0..(fl - 1)
  <2>1. bound = fl + L /\ fl \in Int /\ L <= fl
    BY <1>4, <1>6
  <2> HIDE DEF fl, z, v
  <2> QED
    BY <1>1, <1>5, <1>7, <2>1
<1>9. Same(L, z * c, x)
  <2>1. PICK one \in {0, 1} : z = d - one * L
    <3> HIDE DEF z, v
    <3>1. CASE v < L
      <4>1. z = d - 0 * L /\ 0 \in {0, 1}
        BY <1>1, <1>5, <1>7, <3>1
      <4> QED
        BY <4>1
    <3>2. CASE ~(v < L)
      <4>1. z = d - 1 * L /\ 1 \in {0, 1}
        BY <1>1, <1>5, <1>7, <3>2
      <4> QED
        BY <4>1
    <3> QED
      BY <3>1, <3>2
  <2> HIDE DEF z, c
  <2>2. (d - one * L) * c = c * d + (-(one * c)) * L /\ -(one * c) \in Int
    BY <1>1, SMTT(30)
  <2> DEFINE zc == z * c
  <2>3. Apart(L, zc, x)
    BY <1>2, <2>1, <2>2 DEF Apart
  <2>4. zc \in Int /\ x \in Int
    <3>1. z \in Int
      BY <1>1, <2>1
    <3> QED
      BY <1>1, <1>3, <3>1
  <2> HIDE DEF zc
  <2>5. Same(L, zc, x)
    BY <1>1, <2>3, <2>4, ApartSame
  <2> QED
    BY <2>5 DEF zc
<1> QED
  BY <1>8, <1>9 DEF fl, z, v, c
-------------------------------------------------------------------------------
ScalFactor(call) == IF call = "wide" THEN 2 ELSE 1

ScalValue(call, x, y) == IF call = "mul" THEN x * y ELSE x

(* What montgomery_reduce works on, modulo the order: the value times the capacity,
   but for the product that goes through it twice. *)
ScalGoal(call, x, y, done) ==
  IF call = "mul" /\ done = 0 THEN x * y ELSE ScalValue(call, x, y) * Scal!Capacity

ScalRuns(call, x, y, k, v, done) ==
  /\ done = 0 \/ (done = 1 /\ call = "mul")
  /\ ScalAt(v, k, ScalFactor(call))
  /\ Same(L, v, ScalGoal(call, x, y, done))

ScalReturned(call, x, y, v) ==
  /\ v \in 0..(ScalFactor(call) * L - 1)
  /\ Same(L, v, ScalValue(call, x, y))

ScalInputs == path \in {"reduce", "wide", "mul"} /\ base \in Nat /\ exponent \in Nat

(* The inductive invariant of the reductions. *)
ScalInv ==
  /\ ScalInputs
  /\ Scal!TypeOK
  /\ pos \in 0..ScalarWords => ScalRuns(path, base, exponent, pos, acc, modulus)
  /\ pos = ScalarWords + 1 => ScalReturned(path, base, exponent, result)

(* A number below the bound of its call is where the reduction starts. *)
LEMMA ScalStarts ==
  ASSUME Scal!EdReductionParameters, NEW fac \in 1..2, NEW x \in Nat,
         x < fac * (L * Scal!Capacity)
  PROVE  ScalAt(x, 0, fac)
<1> DEFINE u == Scal!Weight(0)
           b1 == fac * (L * Scal!Capacity)
<1>1. u = 1
  BY ScalWeights
<1>2. (u - 1) * L = 0 /\ x = u * x
  <2>1. L \in Nat
    BY ScalSizes
  <2> HIDE DEF u
  <2> QED
    BY <1>1, <2>1
<1>3. b1 \in Int
  BY ScalSizes
<1> HIDE DEF u, b1
<1>4. x < b1 + (u - 1) * L
  <2>1. x < b1
    BY DEF b1
  <2> QED
    BY <1>2, <1>3, <2>1
<1> QED
  BY <1>2, <1>4 DEF ScalAt, u, b1

(* A product of a number of N words and a reduced one. *)
LEMMA ScalProduct ==
  ASSUME Scal!EdReductionParameters, NEW x \in 0..(Scal!Capacity - 1), NEW y \in 0..(L - 1)
  PROVE  x * y \in Nat /\ x * y < L * Scal!Capacity
<1> DEFINE c == Scal!Capacity
<1>1. c \in Nat /\ c > 0 /\ L \in Nat /\ L > 0 /\ x \in 0..(c - 1)
  BY ScalSizes
<1> HIDE DEF c
<1>2. x * y \in Nat
  BY <1>1, SMTT(30)
<1>3. x * y < L * c
  <2>1. x * y <= x * L /\ x * L \in Int
    BY <1>1, SMTT(30)
  <2>2. x * L <= (c - 1) * L /\ (c - 1) * L = L * c - L /\ L * c \in Int
    BY <1>1, SMTT(30)
  <2> DEFINE a1 == x * y
             a2 == x * L
             a3 == L * c
  <2>3. a1 <= a2 /\ a2 <= a3 - L /\ a1 \in Int /\ a2 \in Int /\ a3 \in Int
    BY <1>2, <2>1, <2>2
  <2> HIDE DEF a1, a2, a3
  <2>4. a1 < a3
    BY <1>1, <2>3
  <2> QED
    BY <2>4 DEF a1, a3
<1> QED
  BY <1>2, <1>3 DEF c

(* The two products that from_bytes_mod_order_wide adds. *)
LEMMA WideTermsAre ==
  ASSUME Scal!EdReductionParameters,
         NEW x \in 0..(Scal!Capacity * Scal!Capacity - 1)
  PROVE  /\ Scal!WideTerms(x) \in Nat
         /\ Scal!WideTerms(x) < 2 * (L * Scal!Capacity)
         /\ Same(L, Scal!WideTerms(x), x * Scal!Capacity)
<1> DEFINE c == Scal!Capacity
           cc == c * c
           lo == x % c
           hi == x \div c
           u == Scal!R
           v == Scal!RR
<1>1. c \in Nat /\ c > 0 /\ L \in Nat /\ L > 0
  BY ScalSizes
<1>2. u \in 0..(L - 1) /\ Same(L, u, c)
  BY ScalRadix
<1>3. v \in 0..(L - 1) /\ Same(L, v, cc)
  BY ScalRadix
<1>4. x \in Nat /\ x < c * c
  <2>1. cc \in Int
    BY <1>1
  <2>2. x \in 0..(cc - 1)
    OBVIOUS
  <2> HIDE DEF cc
  <2>3. x \in Nat /\ x < cc
    BY <2>1, <2>2
  <2> QED
    BY <2>3 DEF cc
<1>5. lo \in 0..(c - 1) /\ hi \in 0..(c - 1) /\ x = c * hi + lo
  <2> HIDE DEF c
  <2>1. lo \in 0..(c - 1) /\ x = c * hi + lo
    BY <1>1, <1>4, NatDivision
  <2>2. hi \in 0..(c - 1)
    BY <1>1, <1>4, QuotientBound
  <2> QED
    BY <2>1, <2>2
<1> DEFINE lu == lo * u
           hv == hi * v
           lc == L * c
           loc == lo * c
           hicc == hi * cc
<1> HIDE DEF lo, hi, u, v
<1>6. lu \in Nat /\ lu < lc /\ hv \in Nat /\ hv < lc
  BY <1>2, <1>3, <1>5, ScalProduct
<1>7. Scal!WideTerms(x) = lu + hv
  BY DEF Scal!WideTerms, lo, hi, u, v
<1>8. lu + hv \in Nat /\ lu + hv < 2 * lc
  <2>1. lc \in Int
    BY <1>1
  <2> HIDE DEF lu, hv, lc
  <2> QED
    BY <1>6, <2>1
<1>9. Same(L, lu, loc)
  <2>1. u \in Int /\ c \in Int /\ lo \in Int
    BY <1>1, <1>2, <1>5
  <2> HIDE DEF c
  <2>2. Same(L, u * lo, c * lo)
    BY <1>1, <1>2, <2>1, SameTimes
  <2>3. u * lo = lu /\ c * lo = loc
    BY <2>1, Product3
  <2> QED
    BY <2>2, <2>3
<1>10. Same(L, hv, hicc)
  <2>1. v \in Int /\ cc \in Int /\ hi \in Int
    BY <1>1, <1>3, <1>5
  <2> HIDE DEF cc
  <2>2. Same(L, v * hi, cc * hi)
    BY <1>1, <1>3, <2>1, SameTimes
  <2>3. v * hi = hv /\ cc * hi = hicc
    BY <2>1, Product3
  <2> QED
    BY <2>2, <2>3
<1>11. /\ lu \in Int /\ hv \in Int /\ loc \in Int /\ hicc \in Int /\ hicc + loc = x * c
       /\ lu + hv = hv + lu
  <2>1. lo \in Int /\ hi \in Int
    BY <1>1, <1>5
  <2>2. (c * hi + lo) * c = hi * (c * c) + lo * c /\ hi * (c * c) \in Int /\ lo * c \in Int
    <3> HIDE DEF c
    <3> QED
      BY <1>1, <2>1, SMTT(30)
  <2> QED
    BY <1>5, <1>6, <2>2
<1> DEFINE s1 == lu + hv
           s2 == loc + hv
           s3 == hv + loc
           s4 == hicc + loc
<1>12. Same(L, s1, s2)
  <2> HIDE DEF lu, hv, loc, hicc
  <2> QED
    BY <1>1, <1>9, <1>11, SamePlus
<1>13. Same(L, s3, s4)
  <2> HIDE DEF lu, hv, loc, hicc
  <2> QED
    BY <1>1, <1>10, <1>11, SamePlus
<1>14. s2 = s3
  <2> HIDE DEF lu, hv, loc, hicc
  <2> QED
    BY <1>11
<1>15. Same(L, s1, x * c)
  <2>1. s4 = x * c
    BY <1>11
  <2> HIDE DEF s1, s2, s3, s4
  <2> QED
    BY <1>12, <1>13, <1>14, <2>1 DEF Same
<1> QED
  BY <1>7, <1>8, <1>15

(* What each call loads is below its bound, and congruent to its value. *)
LEMMA ScalInitial ==
  ASSUME Scal!EdReductionParameters, Scal!Init
  PROVE  ScalInv
<1> DEFINE c == Scal!Capacity
<1>1. c \in Nat /\ c > 0 /\ L \in Nat /\ L > 0 /\ ScalarWords \in Nat
  BY ScalSizes
<1>2. pos = 0 /\ modulus = 0 /\ result = 0 /\ acc = Scal!Loaded
  BY DEF Scal!Init
<1>3. Wides \subseteq 0..(c * c - 1) /\ Narrows \subseteq 0..(c - 1)
  BY DEF Scal!EdReductionParameters
<1>4. c * c \in Nat
  BY <1>1, SMTT(30)
<1>5. ASSUME ScalInputs, acc \in Nat, acc < ScalFactor(path) * (L * c),
             Same(L, acc, ScalGoal(path, base, exponent, 0))
      PROVE  ScalInv
  <2>1. ScalFactor(path) \in 1..2
    BY DEF ScalFactor
  <2>2. ScalAt(acc, 0, ScalFactor(path))
    BY <1>5, <2>1, ScalStarts
  <2>3. ScalRuns(path, base, exponent, pos, acc, modulus)
    BY <1>2, <1>5, <2>2 DEF ScalRuns
  <2>4. Scal!TypeOK
    <3> DEFINE zero == 0
    <3>1. zero \in 0..ScalarWords
      BY <1>1
    <3> HIDE DEF zero
    <3>2. acc \in 0..(c * c - 1)
      BY <2>1, <2>2, <3>1, ScalFits DEF zero
    <3>3. pos \in 0..(ScalarWords + 1) /\ modulus \in 0..2 /\ result \in 0..(c - 1)
      BY <1>1, <1>2
    <3> QED
      BY <3>2, <3>3 DEF Scal!TypeOK
  <2>5. pos # ScalarWords + 1
    BY <1>1, <1>2
  <2> QED
    BY <1>5, <2>3, <2>4, <2>5 DEF ScalInv
<1>6. CASE path = "reduce"
  <2>1. base \in Narrows /\ exponent = 0
    BY <1>6 DEF Scal!Init
  <2>2. base \in 0..(c - 1) /\ ScalInputs
    <3>1. base \in 0..(c - 1)
      BY <1>3, <2>1
    <3> QED
      BY <1>1, <1>6, <2>1, <3>1 DEF ScalInputs
  <2> DEFINE u == Scal!R
  <2>3. u \in 0..(L - 1) /\ Same(L, u, c)
    BY ScalRadix
  <2>4. acc = base * u
    BY <1>2, <1>6 DEF Scal!Loaded
  <2> HIDE DEF u
  <2>5. acc \in Nat /\ acc < L * c
    BY <2>2, <2>3, <2>4, ScalProduct
  <2>6. ScalFactor(path) * (L * c) = L * c
    <3>1. L * c \in Int
      BY <1>1
    <3> QED
      BY <1>6, <3>1 DEF ScalFactor
  <2>7. Same(L, acc, ScalGoal(path, base, exponent, 0))
    <3>1. u \in Int /\ base \in Int /\ c \in Int
      BY <1>1, <2>2, <2>3
    <3> HIDE DEF c
    <3>2. Same(L, u * base, c * base)
      BY <1>1, <2>3, <3>1, SameTimes
    <3>3. u * base = acc /\ c * base = base * c
      BY <2>4, <3>1, Product3
    <3>4. ScalGoal(path, base, exponent, 0) = base * c
      BY <1>6 DEF ScalGoal, ScalValue, c
    <3> QED
      BY <3>2, <3>3, <3>4
  <2> QED
    BY <1>5, <2>2, <2>5, <2>6, <2>7
<1>7. CASE path = "wide"
  <2>1. base \in Wides /\ exponent = 0
    BY <1>7 DEF Scal!Init
  <2>2. base \in 0..(c * c - 1)
    BY <1>3, <2>1
  <2>3. ScalInputs
    <3> DEFINE cc == c * c
    <3>1. base \in 0..(cc - 1)
      BY <2>2
    <3> HIDE DEF cc
    <3>2. base \in Nat
      BY <3>1
    <3> QED
      BY <1>7, <2>1, <3>2 DEF ScalInputs
  <2>4. acc = Scal!WideTerms(base)
    BY <1>2, <1>7 DEF Scal!Loaded
  <2>5. acc \in Nat /\ acc < 2 * (L * c)
    BY <2>2, <2>4, WideTermsAre
  <2>6. Same(L, acc, base * c)
    BY <2>2, <2>4, WideTermsAre
  <2>7. ScalFactor(path) = 2 /\ ScalGoal(path, base, exponent, 0) = base * c
    BY <1>7 DEF ScalFactor, ScalGoal, ScalValue
  <2> QED
    BY <1>5, <2>3, <2>5, <2>6, <2>7
<1>8. CASE path = "mul"
  <2>1. base \in Narrows /\ exponent \in Narrows /\ base * exponent < L * c
    BY <1>8 DEF Scal!Init
  <2>2. base \in 0..(c - 1) /\ exponent \in 0..(c - 1)
    BY <1>3, <2>1
  <2>3. base \in Nat /\ exponent \in Nat
    BY <1>1, <2>2
  <2>4. acc = base * exponent
    BY <1>2, <1>8 DEF Scal!Loaded
  <2>5. acc \in Nat /\ acc < L * c
    <3>1. base * exponent \in Nat
      BY <2>3, SMTT(30)
    <3> QED
      BY <2>1, <2>4, <3>1
  <2>6. ScalFactor(path) * (L * c) = L * c
    <3>1. L * c \in Int
      BY <1>1
    <3> QED
      BY <1>8, <3>1 DEF ScalFactor
  <2>7. Same(L, acc, ScalGoal(path, base, exponent, 0))
    BY <1>8, <2>4 DEF ScalGoal, Same
  <2>8. ScalInputs
    BY <1>8, <2>3 DEF ScalInputs
  <2> QED
    BY <1>5, <2>5, <2>6, <2>7, <2>8
<1>9. path = "reduce" \/ path = "wide" \/ path = "mul"
  BY DEF Scal!Init
<1> QED
  BY <1>6, <1>7, <1>8, <1>9
-------------------------------------------------------------------------------
(* A turn of montgomery_reduce. *)
LEMMA ReduceWordInv ==
  ASSUME Scal!EdReductionParameters, ScalInv, Scal!ReduceWord
  PROVE  ScalInv'
<1> DEFINE c == Scal!Capacity
           fac == ScalFactor(path)
           z == Scal!ClearWord(acc, pos)
<1>1. ScalarWords \in Nat
  BY ScalSizes
<1>2. /\ pos \in 0..(ScalarWords - 1) /\ pos \in 0..ScalarWords
      /\ pos' \in 0..ScalarWords /\ pos' = pos + 1 /\ pos' # ScalarWords + 1
  <2>1. pos < ScalarWords /\ pos' = pos + 1
    BY DEF Scal!ReduceWord
  <2>2. pos \in 0..(ScalarWords + 1)
    BY DEF ScalInv, Scal!TypeOK
  <2> QED
    BY <1>1, <2>1, <2>2
<1>3. acc' = z /\ UNCHANGED <<path, base, exponent, modulus, result>>
  BY DEF Scal!ReduceWord
<1>4. /\ modulus = 0 \/ (modulus = 1 /\ path = "mul")
      /\ ScalAt(acc, pos, fac) /\ Same(L, acc, ScalGoal(path, base, exponent, modulus))
  BY <1>2 DEF ScalInv, ScalRuns
<1>5. fac \in 1..2
  BY DEF ScalFactor
<1>6. ScalAt(z, pos', fac) /\ Same(L, z, acc)
  <2> HIDE DEF fac
  <2>1. ScalAt(z, pos + 1, fac) /\ Same(L, z, acc)
    BY <1>2, <1>4, <1>5, ClearWordIs
  <2> QED
    BY <1>2, <2>1
<1>7. z \in 0..(c * c - 1)
  <2> HIDE DEF fac, z
  <2> QED
    BY <1>2, <1>5, <1>6, ScalFits
<1> HIDE DEF z, c
<1>8. ScalRuns(path, base, exponent, pos', z, modulus)
  BY <1>4, <1>6 DEF ScalRuns, Same
<1>9. ScalInputs'
  BY <1>3 DEF ScalInv, ScalInputs
<1>10. Scal!TypeOK'
  <2>1. pos' \in 0..(ScalarWords + 1)
    BY <1>1, <1>2
  <2> QED
    BY <1>3, <1>7, <2>1 DEF ScalInv, Scal!TypeOK, c
<1>11. ScalRuns(path, base, exponent, pos, acc, modulus)'
  BY <1>3, <1>8
<1> QED
  BY <1>2, <1>9, <1>10, <1>11 DEF ScalInv

(* The end of montgomery_reduce, for all that have gone through it often enough. *)
LEMMA LastReducedInv ==
  ASSUME Scal!EdReductionParameters, ScalInv, Scal!Reduced, ~(path = "mul" /\ modulus = 0)
  PROVE  ScalInv'
<1> DEFINE c == Scal!Capacity
           fac == ScalFactor(path)
           fl == fac * L
           z == Scal!SubL(acc \div c)
           value == ScalValue(path, base, exponent)
           one == 1
<1>1. /\ ScalarWords \in Nat /\ L \in Nat /\ L > 0 /\ c \in Nat /\ c > 0
      /\ 3 * L <= c /\ one \in Int
  BY ScalSizes
<1>2. pos = ScalarWords /\ pos \in 0..ScalarWords
  BY <1>1 DEF Scal!Reduced
<1>3. /\ result' = z /\ pos' = ScalarWords + 1 /\ modulus' = modulus + 1
      /\ UNCHANGED <<path, base, exponent, acc>>
  BY DEF Scal!Reduced
<1>4. /\ modulus = 0 \/ (modulus = 1 /\ path = "mul")
      /\ ScalAt(acc, ScalarWords, fac) /\ Same(L, acc, value * c)
  BY <1>2 DEF ScalInv, ScalRuns, ScalGoal
<1>5. fac \in 1..2 /\ fl \in Nat /\ fl <= c
  <2>1. fac \in 1..2
    BY DEF ScalFactor
  <2>2. CASE fac = 1
    BY <1>1, <2>2
  <2>3. CASE fac = 2
    BY <1>1, <2>3
  <2> QED
    BY <2>1, <2>2, <2>3
<1>6. z \in 0..(fl - 1) /\ Same(L, z * c, acc)
  <2> HIDE DEF fac
  <2> QED
    BY <1>4, <1>5, UpperHalfIs
<1>7. value \in Int
  <2>1. base \in Nat /\ exponent \in Nat
    BY DEF ScalInv, ScalInputs
  <2>2. base * exponent \in Int
    BY <2>1, SMTT(30)
  <2> QED
    BY <2>1, <2>2 DEF ScalValue
<1>8. PICK inv \in Int : Same(L, c * inv, one)
  BY ScalInvertible
<1> HIDE DEF z, c, fl, value
<1>9. Same(L, z, value)
  <2>1. z \in Int /\ c \in Int
    BY <1>1, <1>5, <1>6
  <2>2. Same(L, z * c, value * c)
    BY <1>4, <1>6 DEF Same
  <2> QED
    BY <1>1, <1>7, <1>8, <2>1, <2>2, SameCancel DEF one
<1>10. ScalReturned(path, base, exponent, z)
  BY <1>6, <1>9 DEF ScalReturned, fl, value
<1>11. ScalInputs'
  BY <1>3 DEF ScalInv, ScalInputs
<1>12. Scal!TypeOK'
  <2>1. pos' \in 0..(ScalarWords + 1) /\ modulus' \in 0..2
    BY <1>1, <1>3, <1>4
  <2>2. z \in 0..(c - 1)
    BY <1>1, <1>5, <1>6
  <2> QED
    BY <1>3, <2>1, <2>2 DEF ScalInv, Scal!TypeOK, c
<1>13. ScalReturned(path, base, exponent, result)'
  BY <1>3, <1>10
<1>14. pos' \notin 0..ScalarWords
  BY <1>1, <1>3
<1> QED
  BY <1>11, <1>12, <1>13, <1>14 DEF ScalInv

(* The reduced product of two factors, times RR, goes through it again. *)
LEMMA FirstReducedInv ==
  ASSUME Scal!EdReductionParameters, ScalInv, Scal!Reduced, path = "mul" /\ modulus = 0
  PROVE  ScalInv'
<1> DEFINE c == Scal!Capacity
           fac == ScalFactor(path)
           v == Scal!SubL(acc \div c)
           rr == Scal!RR
           z == v * rr
           xy == base * exponent
           cc == c * c
           zero == 0
<1>1. /\ ScalarWords \in Nat /\ L \in Nat /\ L > 0 /\ c \in Nat /\ c > 0
      /\ 3 * L <= c
  BY ScalSizes
<1>2. pos = ScalarWords /\ pos \in 0..ScalarWords
  BY <1>1 DEF Scal!Reduced
<1>3. /\ acc' = z /\ pos' = 0 /\ modulus' = 1
      /\ UNCHANGED <<path, base, exponent, result>>
  BY DEF Scal!Reduced
<1>4. ScalAt(acc, ScalarWords, fac) /\ Same(L, acc, xy) /\ fac = 1
  BY <1>2 DEF ScalInv, ScalRuns, ScalGoal, ScalFactor
<1>5. v \in 0..(L - 1) /\ Same(L, v * c, acc)
  <2>1. fac \in 1..2 /\ fac * L = L
    BY <1>1, <1>4
  <2> HIDE DEF fac
  <2>2. v \in 0..(fac * L - 1) /\ Same(L, v * c, acc)
    BY <1>4, <2>1, UpperHalfIs
  <2> QED
    BY <2>1, <2>2
<1>6. rr \in 0..(L - 1) /\ Same(L, rr, cc)
  BY ScalRadix
<1>7. z \in Nat /\ z < L * c
  <2>1. v \in 0..(c - 1)
    BY <1>1, <1>5
  <2> HIDE DEF v, rr
  <2> QED
    BY <1>6, <2>1, ScalProduct
<1>8. Same(L, z, xy * c)
  <2> DEFINE vc == v * c
  <2>1. v \in Int /\ rr \in Int /\ cc \in Int /\ vc \in Int /\ c \in Int /\ xy \in Int
    <3>1. v \in Int /\ rr \in Int /\ c \in Int
      BY <1>1, <1>5, <1>6
    <3>2. base \in Nat /\ exponent \in Nat
      BY DEF ScalInv, ScalInputs
    <3> HIDE DEF v, rr, c
    <3> QED
      BY <3>1, <3>2, SMTT(30)
  <2>2. Same(L, vc, xy)
    BY <1>4, <1>5 DEF Same
  <2> HIDE DEF v, rr, xy
  <2>3. Same(L, rr * v, cc * v)
    <3> HIDE DEF cc
    <3> QED
      BY <1>1, <1>6, <2>1, SameTimes
  <2>4. rr * v = z /\ cc * v = vc * c
    <3>1. rr * v = z
      BY <2>1, Product3
    <3>2. (c * c) * v = (c * v) * c /\ c * v = v * c
      BY <2>1, Product3
    <3> QED
      BY <3>1, <3>2
  <2>5. Same(L, vc * c, xy * c)
    <3> HIDE DEF vc
    <3> QED
      BY <1>1, <2>1, <2>2, SameTimes
  <2> QED
    BY <2>3, <2>4, <2>5 DEF Same
<1> HIDE DEF z, c
<1>9. ScalAt(z, zero, fac)
  <2>1. L * c \in Int
    BY <1>1
  <2>2. fac \in 1..2 /\ z < fac * (L * c)
    BY <1>4, <1>7, <2>1
  <2> HIDE DEF fac
  <2> QED
    BY <1>7, <2>2, ScalStarts DEF c
<1>10. ScalRuns(path, base, exponent, zero, z, 1)
  <2>1. ScalGoal(path, base, exponent, 1) = xy * c
    BY DEF ScalGoal, ScalValue, c
  <2> QED
    BY <1>8, <1>9, <2>1 DEF ScalRuns
<1>11. ScalInputs'
  BY <1>3 DEF ScalInv, ScalInputs
<1>12. zero \in 0..ScalarWords /\ pos' = zero /\ zero # ScalarWords + 1
  BY <1>1, <1>3
<1>13. z \in 0..(c * c - 1)
  <2>1. fac \in 1..2
    BY <1>4
  <2> HIDE DEF fac, zero
  <2> QED
    BY <1>9, <1>12, <2>1, ScalFits DEF c
<1>14. Scal!TypeOK'
  <2>1. pos' \in 0..(ScalarWords + 1) /\ modulus' \in 0..2
    BY <1>1, <1>3
  <2> QED
    BY <1>3, <1>13, <2>1 DEF ScalInv, Scal!TypeOK, c
<1>15. ScalRuns(path, base, exponent, pos, acc, modulus)'
  BY <1>3, <1>10, <1>12
<1> QED
  BY <1>11, <1>12, <1>14, <1>15 DEF ScalInv

(* Every step keeps the invariant. *)
LEMMA ScalStep ==
  ASSUME Scal!EdReductionParameters, ScalInv, [Scal!Next]_(Scal!vars)
  PROVE  ScalInv'
<1>1. CASE Scal!ReduceWord
  BY <1>1, ReduceWordInv
<1>2. CASE Scal!Reduced
  BY <1>2, LastReducedInv, FirstReducedInv
<1>3. CASE UNCHANGED Scal!vars
  BY <1>3 DEF Scal!vars, ScalInv, ScalInputs, Scal!TypeOK
<1> QED
  BY <1>1, <1>2, <1>3 DEF Scal!Next

LEMMA ScalHolds == Scal!EdReductionParameters
BY ModularAssumption

LEMMA ScalSteps ==
  ASSUME [ModularNext]_modularVars, part = "scalar" \/ part' = "scalar"
  PROVE  part = "scalar" /\ part' = "scalar" /\ (Scal!Next \/ UNCHANGED modularVars)
BY DEF ModularNext, NumberNext, LatticeNext, FieldNext, ExpNext, ChainNext, SolinasNext,
       ProductNext, ScalarNext, LimbsNext, modularVars

(* The run's part that reduces scalars. *)
ScalPart == part = "scalar" => ScalInv

LEMMA ScalAlways == ModularSpec => []ScalPart
<1>1. ModularInit => ScalPart
  <2>1. ModularInit /\ part = "scalar" => Scal!Init
    BY DEF ModularInit, NumberInit
  <2> QED
    BY <2>1, ScalHolds, ScalInitial DEF ScalPart
<1>2. ScalPart /\ [ModularNext]_modularVars => ScalPart'
  <2> SUFFICES ASSUME ScalPart, [ModularNext]_modularVars, part' = "scalar"
               PROVE  ScalInv'
    BY DEF ScalPart
  <2>1. part = "scalar" /\ [Scal!Next]_(Scal!vars)
    BY ScalSteps DEF modularVars, expVars, Scal!vars
  <2> QED
    BY <2>1, ScalHolds, ScalStep DEF ScalPart
<1> QED
  BY <1>1, <1>2, PTL DEF ModularSpec
-------------------------------------------------------------------------------
(* No word of a reduction, no count and no result is out of its range: nothing is
   carried out of the 2N words of montgomery_reduce (ed25519.rs), for every order,
   word size and length that the assumption names. *)
THEOREM ScalarsTypeCorrect == ModularSpec => [](part = "scalar" => ModularTypeOK)
<1>1. ScalPart => (part = "scalar" => ModularTypeOK)
  BY DEF ScalPart, ScalInv, ModularTypeOK
<1> QED
  BY <1>1, ScalAlways, PTL

(* reduce and Mul of Scalar return the remainder modulo the order, and
   from_bytes_mod_order_wide a number below twice the order with that remainder:
   one subtraction is enough after each montgomery_reduce, and enough to reduce but
   for 512 bits. *)
THEOREM ScalarsKeepResidue == ModularSpec => [](part = "scalar" => KeepsResidue)
<1>1. ASSUME ScalInv PROVE Scal!ResultIsResidue
  <2> SUFFICES ASSUME pos = ScalarWords + 1 PROVE Scal!ResultIsResidue
    BY DEF Scal!ResultIsResidue
  <2>1. ScalReturned(path, base, exponent, result)
    BY <1>1 DEF ScalInv
  <2>2. result % L = ScalValue(path, base, exponent) % L
    BY <2>1 DEF ScalReturned, Same
  <2>3. result < ScalFactor(path) * L
    <3>1. L \in Nat
      BY ScalHolds, ScalSizes
    <3>2. CASE path = "wide"
      BY <2>1, <3>1, <3>2 DEF ScalReturned, ScalFactor
    <3>3. CASE path # "wide"
      BY <2>1, <3>1, <3>3 DEF ScalReturned, ScalFactor
    <3> QED
      BY <3>2, <3>3
  <2>4. ScalFactor(path) * L = IF path = "wide" THEN 2 * L ELSE L
    <3>1. L \in Nat
      BY ScalHolds, ScalSizes
    <3> QED
      BY <3>1 DEF ScalFactor
  <2> QED
    BY <2>2, <2>3, <2>4 DEF Scal!ResultIsResidue, ScalValue
<1>2. ScalPart => (part = "scalar" => KeepsResidue)
  BY <1>1 DEF ScalPart, KeepsResidue
<1> QED
  BY <1>2, ScalAlways, PTL
-------------------------------------------------------------------------------
(* ML-KEM's residues. *)

(* The values of two words, and what may be reduced: numbers too large for a leaf
   that reads them digit by digit. *)
DoubleWord == 4294967296
Reducible(v) == -1500000000 <= v /\ v <= 1500000000
Modest(v) == -135000000 <= v /\ v <= 135000000
LowPart(v) == 0 <= v /\ v <= 65535

(* The numbers that Plantard's multiplication works for: q times a twiddle is small
   modulo 2^32, and the rest of that product is what the twiddle stands for. *)
Twists(tt, d, m) == -3328 <= d /\ d <= 3328 /\ m \in Int /\ tt * 3329 = d + m * DoubleWord

IsTwiddle(tt) == tt \in Int /\ \E d, m \in Int : Twists(tt, d, m)

TwistsLittle(tt) == (tt * 3329) % DoubleWord <= 3328

LEMMA TwistsNegated ==
  ASSUME NEW tt \in Int, NEW d \in Int, NEW m \in Int, Twists(tt, d, m)
  PROVE  /\ -d \in Int /\ -m \in Int /\ -tt \in Int
         /\ Twists(-tt, -d, -m)
<1> DEFINE radix == DoubleWord
           nd == -d
           nm == -m
           nt == -tt
           w == m * radix
<1>1. radix \in Int
  BY SMTT(30) DEF DoubleWord
<1> HIDE DEF radix
<1>2. -3328 <= d /\ d <= 3328 /\ tt * 3329 = d + w
  BY DEF Twists, radix
<1>3. w \in Int /\ nm * radix = -w
  BY <1>1, SMTT(30)
<1>4. -3328 <= nd /\ nd <= 3328 /\ nm \in Int /\ nd \in Int /\ nt \in Int
  BY <1>2
<1>5. nt * 3329 = nd + nm * radix
  <2> HIDE DEF w
  <2> QED
    BY <1>2, <1>3, SMTT(30)
<1> HIDE DEF nd, nm, nt
<1>6. Twists(nt, nd, nm)
  BY <1>4, <1>5, SMTT(30) DEF Twists, radix
<1> QED
  BY <1>4, <1>6 DEF nd, nm, nt

LEMMA TwistsOf ==
  ASSUME NEW tt \in Int, NEW d \in Int, NEW m \in Int, Twists(tt, d, m)
  PROVE  IsTwiddle(tt) /\ IsTwiddle(-tt)
<1> DEFINE nd == -d
           nm == -m
           nt == -tt
<1>1. nd \in Int /\ nm \in Int /\ nt \in Int /\ Twists(nt, nd, nm)
  BY TwistsNegated
<1> HIDE DEF nd, nm
<1>2. IsTwiddle(nt)
  <2> HIDE DEF nt
  <2> QED
    BY <1>1 DEF IsTwiddle
<1> QED
  BY <1>2 DEF IsTwiddle

LEMMA SmallIsTwiddle ==
  ASSUME NEW tt \in Int, TwistsLittle(tt)
  PROVE  IsTwiddle(tt) /\ IsTwiddle(-tt)
<1> DEFINE radix == DoubleWord
           x == tt * 3329
           d == x % radix
           m == x \div radix
<1>1. x \in Int /\ radix \in Nat /\ radix > 0
  BY SMTT(30) DEF DoubleWord
<1>2. d <= 3328
  BY DEF TwistsLittle
<1>3. d \in Int /\ 0 <= d /\ m \in Int /\ x = radix * m + d
  <2> HIDE DEF x, radix
  <2> QED
    BY <1>1, SMTT(30)
<1> HIDE DEF d, m
<1>4. -3328 <= d /\ d <= 3328
  BY <1>2, <1>3
<1>5. tt * 3329 = d + m * radix
  <2>1. x = tt * 3329
    OBVIOUS
  <2> HIDE DEF x, radix
  <2>2. radix * m = m * radix
    BY <1>1, <1>3
  <2> QED
    BY <1>1, <1>3, <2>1, <2>2
<1> HIDE DEF x
<1>6. Twists(tt, d, m)
  BY <1>3, <1>4, <1>5, SMTT(30) DEF Twists, radix
<1> HIDE DEF radix
<1> QED
  BY <1>3, <1>6, TwistsOf

(* The tables hold such numbers. *)
LEMMA TablesAreTwiddles ==
  /\ \A k \in 1..128 : IsTwiddle(ZETAS_ASM[k])
  /\ \A k \in 1..127 : IsTwiddle(ZETAS_INV_CT_ASM[k])
  /\ \A k \in 1..64 : IsTwiddle(ZETAS_BASEMUL[k]) /\ IsTwiddle(-ZETAS_BASEMUL[k])
<1>1. ASSUME NEW k \in 1..128 PROVE IsTwiddle(ZETAS_ASM[k])
  <2> DEFINE tt == ZETAS_ASM[k]
  <2>1. TwistsLittle(tt)
    BY SMTT(60) DEF ZETAS_ASM, DoubleWord, TwistsLittle
  <2>2. tt \in Int
    BY TwiddlesAreNumbers
  <2> HIDE DEF tt
  <2> QED
    BY <2>1, <2>2, SmallIsTwiddle DEF tt
<1>2. ASSUME NEW k \in 1..127 PROVE IsTwiddle(ZETAS_INV_CT_ASM[k])
  <2> DEFINE tt == ZETAS_INV_CT_ASM[k]
  <2>1. TwistsLittle(tt)
    BY SMTT(60) DEF ZETAS_INV_CT_ASM, DoubleWord, TwistsLittle
  <2>2. tt \in Int
    BY SMTT(60) DEF ZETAS_INV_CT_ASM
  <2> HIDE DEF tt
  <2> QED
    BY <2>1, <2>2, SmallIsTwiddle DEF tt
<1>3. ASSUME NEW k \in 1..64 PROVE IsTwiddle(ZETAS_BASEMUL[k]) /\ IsTwiddle(-ZETAS_BASEMUL[k])
  <2> DEFINE tt == ZETAS_BASEMUL[k]
  <2>1. TwistsLittle(tt)
    BY SMTT(60) DEF ZETAS_BASEMUL, DoubleWord, TwistsLittle
  <2>2. tt \in Int
    BY TwiddlesAreNumbers
  <2> HIDE DEF tt
  <2> QED
    BY <2>1, <2>2, SmallIsTwiddle DEF tt
<1> QED
  BY <1>1, <1>2, <1>3

(* The rounding of the middle word gives the exact quotient. *)
HasQuotient(middle, low, e, g) ==
  /\ LowPart(low)
  /\ Reducible(e)
  /\ 65536 * (middle * 3329) = e - low * 3329 + DoubleWord * g

LEMMA RoundedIs ==
  ASSUME NEW middle \in Int, NEW low \in Int, NEW e \in Int, NEW g \in Int,
         HasQuotient(middle, low, e, g)
  PROVE  Rounded(middle) = g
<1> DEFINE x == middle * 3329
           y == x + 26632
           s == y - 65536 * g
           radix == 65536
<1>1. x \in Int /\ y \in Int /\ s \in Int /\ y = 65536 * g + s
  OBVIOUS
<1>2. 0 <= low /\ low <= 65535 /\ Reducible(e)
  BY DEF HasQuotient, LowPart
<1>3. 65536 * s = e - low * 3329 + 65536 * 26632
  <2>1. 65536 * x = e - low * 3329 + 65536 * 65536 * g
    BY SMTT(30) DEF HasQuotient, DoubleWord
  <2> HIDE DEF x
  <2> QED
    BY <1>1, <2>1, SMTT(30)
<1> HIDE DEF x, y, s
<1>4. 0 <= s /\ s <= 65535
  BY <1>1, <1>2, <1>3, SMTT(30) DEF Reducible
<1>5. radix \in Nat /\ radix > 0 /\ s \in 0..(radix - 1) /\ y = radix * g + s
  <2>1. radix \in Nat /\ radix > 0 /\ radix - 1 = 65535
    OBVIOUS
  <2>2. y = radix * g + s
    BY <1>1
  <2> HIDE DEF radix
  <2>3. s \in 0..(radix - 1)
    BY <1>1, <1>4, <2>1
  <2> QED
    BY <2>1, <2>2, <2>3
<1> HIDE DEF radix
<1>6. y \div radix = g
  BY <1>1, <1>5, DivisionUnique
<1> QED
  BY <1>6 DEF Rounded, y, x, radix, KYBER_Q

(* The upper word of a double word, as a signed number. *)
LEMMA WrapIs ==
  ASSUME NEW x \in Int
  PROVE  \E k \in Int : x = Wrap(x) + 65536 * k
<1> DEFINE y == x + 32768
           k == y \div 65536
<1>1. k \in Int /\ y = 65536 * k + (y % 65536) /\ y % 65536 \in Int
  OBVIOUS
<1>2. Wrap(x) = (y % 65536) - 32768
  BY DEF Wrap
<1> HIDE DEF k
<1>3. x = Wrap(x) + 65536 * k
  BY <1>1, <1>2
<1> QED
  BY <1>1, <1>3

(* plant_mul multiplies by what the twiddle stands for. *)
LEMMA PlantMulIs ==
  ASSUME NEW x \in Int, -32768 <= x, x <= 32768, NEW tt \in Int, NEW d \in Int, NEW m \in Int,
         Twists(tt, d, m)
  PROVE  Same(KYBER_Q, PlantMul(x, tt), x * m)
<1> DEFINE th == tt \div 65536
           tl == tt % 65536
           tlx == tl * x
           thx == th * x
           c == tlx \div 65536
           low == tlx % 65536
           whole == thx + c
           middle == Wrap(whole)
           e == x * d
           xm == x * m
<1>1. /\ th \in Int /\ tl \in Int /\ tt = 65536 * th + tl
  OBVIOUS
<1>2. tlx \in Int /\ thx \in Int /\ tt * x = 65536 * thx + tlx
  <2> HIDE DEF th, tl
  <2> QED
    BY <1>1, SMTT(30)
<1>3. c \in Int /\ low \in Int /\ LowPart(low) /\ tlx = 65536 * c + low
  <2> HIDE DEF tlx
  <2> QED
    BY <1>2, SMTT(30) DEF LowPart
<1>4. whole \in Int /\ tt * x = 65536 * whole + low
  <2> HIDE DEF c, low, tlx, thx
  <2> QED
    BY <1>2, <1>3
<1>5. middle \in Int
  <2> HIDE DEF whole
  <2> QED
    BY <1>4, WrapRange
<1>6. PICK k \in Int : whole = middle + 65536 * k
  <2> HIDE DEF whole
  <2> QED
    BY <1>4, WrapIs
<1>7. PlantMul(x, tt) = Rounded(middle)
  BY DEF PlantMul, Rounded
<1>8. /\ -3328 <= d /\ d <= 3328 /\ tt * 3329 = d + m * DoubleWord
  BY DEF Twists
<1>9. e \in Int /\ Reducible(e)
  <2>1. -3328 <= d /\ d <= 3328
    BY <1>8
  <2>2. x * d <= 32768 * 3328 /\ -(32768 * 3328) <= x * d
    <3>1. CASE x >= 0
      <4>1. x * d <= x * 3328 /\ x * (-3328) <= x * d
        BY <2>1, <3>1, SMTT(30)
      <4> QED
        BY <3>1, <4>1
    <3>2. CASE x < 0
      <4>1. x * d <= x * (-3328) /\ x * 3328 <= x * d
        BY <2>1, <3>2, SMTT(30)
      <4> QED
        BY <3>2, <4>1
    <3> QED
      BY <3>1, <3>2
  <2> HIDE DEF e
  <2>3. e <= 32768 * 3328 /\ -(32768 * 3328) <= e
    BY <2>2 DEF e
  <2> QED
    BY <2>3, SMTT(30) DEF Reducible, e
<1> DEFINE g == xm - 3329 * k
<1>10. xm \in Int /\ g \in Int
  BY <1>6
<1>11. 65536 * (middle * 3329) = e - low * 3329 + DoubleWord * g
  <2>1. (tt * x) * 3329 = x * (tt * 3329)
    BY SMTT(30)
  <2>2. x * (tt * 3329) = e + xm * DoubleWord
    <3> DEFINE radix == DoubleWord
    <3>1. radix \in Int
      BY SMTT(30) DEF DoubleWord
    <3> HIDE DEF radix
    <3>2. x * (d + m * radix) = x * d + (x * m) * radix
      BY <3>1, SMTT(30)
    <3>3. tt * 3329 = d + m * radix
      BY <1>8 DEF radix
    <3> QED
      BY <3>2, <3>3 DEF radix
  <2> DEFINE tx == tt * x
  <2>3. tx * 3329 = e + xm * DoubleWord /\ tx = 65536 * whole + low
    BY <1>4, <2>1, <2>2
  <2> HIDE DEF tx, whole, middle, low, e, xm
  <2>4. DoubleWord * g = 65536 * 65536 * xm - 65536 * 65536 * 3329 * k /\ DoubleWord * xm = 65536 * 65536 * xm
    BY <1>6, <1>10, SMTT(30) DEF DoubleWord
  <2>5. xm * DoubleWord = 65536 * 65536 * xm
    BY <1>10, SMTT(30) DEF DoubleWord
  <2> HIDE DEF g
  <2> QED
    BY <1>3, <1>4, <1>5, <1>6, <1>9, <1>10, <2>3, <2>4, <2>5, SMTT(30)
<1>12. PlantMul(x, tt) = g
  <2> HIDE DEF middle, low, e, g
  <2>1. HasQuotient(middle, low, e, g)
    BY <1>3, <1>9, <1>11 DEF HasQuotient
  <2>2. low \in Int
    BY <1>3
  <2> QED
    BY <1>5, <1>7, <1>9, <1>10, <2>1, <2>2, RoundedIs
<1>13. Apart(KYBER_Q, g, xm)
  <2>1. g = xm + (-k) * KYBER_Q /\ -k \in Int
    BY <1>6, <1>10 DEF KYBER_Q
  <2> HIDE DEF g, xm
  <2> QED
    BY <2>1 DEF Apart
<1>14. KYBER_Q \in Nat /\ KYBER_Q > 0
  BY DEF KYBER_Q
<1> HIDE DEF g, xm
<1>15. Same(KYBER_Q, g, xm)
  BY <1>10, <1>13, <1>14, ApartSame
<1> QED
  BY <1>12, <1>15 DEF xm

(* plant_red multiplies by one constant. *)
HighWord(val, high, low, k) ==
  /\ LowPart(low) /\ k \in Int
  /\ val * 1806234369 = 65536 * high + low + DoubleWord * k

LEMMA PlantHighIs ==
  ASSUME NEW val \in Int
  PROVE  \E low, k \in Int : HighWord(val, PlantHigh(val), low, k)
<1> DEFINE high == val \div 65536
           low == val % 65536
           l1 == low \div 256
           l0 == low % 256
           s == low * 243 + l1
           carry == s \div 256
           h1 == (high * 62209) % 65536
           h2 == (low * 27560) % 65536
           whole == h1 + h2 + carry
           s0 == s % 256
           over == 256 * s0 + l0
<1>1. high \in Int /\ low \in Int /\ val = 65536 * high + low
  OBVIOUS
<1>0. high \in Int /\ low \in Int
  BY <1>1
<1>2. PlantHigh(val) = Wrap(whole)
  BY DEF PlantHigh
<1> HIDE DEF high, low
<1>3. /\ s \in Int /\ carry \in Int /\ low * 62209 = 65536 * carry + over
      /\ over \in Int /\ LowPart(over)
  <2>1. l1 \in Int /\ l0 \in Int /\ 0 <= l0 /\ l0 <= 255 /\ low = 256 * l1 + l0
    BY <1>0, SMTT(30)
  <2> HIDE DEF l1, l0
  <2>2. l1 \in Int /\ l0 \in Int
    BY <2>1
  <2>3. low * 243 \in Int
    BY <1>0
  <2>4. s \in Int
    BY <2>2, <2>3
  <2>5. low * 62209 = 256 * s + l0
    BY <1>0, <2>1, SMTT(30)
  <2> HIDE DEF s
  <2>6. carry \in Int /\ s0 \in Int /\ 0 <= s0 /\ s0 <= 255 /\ s = 256 * carry + s0
    BY <2>4, SMTT(30)
  <2> HIDE DEF carry, s0
  <2>7. over \in Int /\ 0 <= over /\ over <= 65535
    BY <2>1, <2>6, SMTT(30)
  <2>8. LowPart(over)
    BY <2>7 DEF LowPart
  <2>9. low * 62209 = 65536 * carry + over
    BY <2>5, <2>6, <2>2, SMTT(30)
  <2> HIDE DEF over
  <2> QED
    BY <2>4, <2>6, <2>7, <2>8, <2>9
<1>4. PICK k1 \in Int : high * 62209 = 65536 * k1 + h1
  <2> DEFINE z == high * 62209
             k1 == z \div 65536
  <2>1. z \in Int
    BY <1>1
  <2>2. k1 \in Int /\ z = 65536 * k1 + (z % 65536)
    <3> HIDE DEF z
    <3> QED
      BY <2>1
  <2> HIDE DEF k1
  <2> QED
    BY <2>2
<1>5. PICK k2 \in Int : low * 27560 = 65536 * k2 + h2
  <2> DEFINE z == low * 27560
             k2 == z \div 65536
  <2>1. z \in Int
    BY <1>1
  <2>2. k2 \in Int /\ z = 65536 * k2 + (z % 65536)
    <3> HIDE DEF z
    <3> QED
      BY <2>1
  <2> HIDE DEF k2
  <2> QED
    BY <2>2
<1>6. h1 \in Int /\ h2 \in Int
  BY <1>1
<1> HIDE DEF s, carry, h1, h2, over
<1>7. whole \in Int
  BY <1>3, <1>6
<1>8. PICK k3 \in Int : whole = Wrap(whole) + 65536 * k3
  <2> HIDE DEF whole
  <2> QED
    BY <1>7, WrapIs
<1>9. Wrap(whole) \in Int
  <2> HIDE DEF whole
  <2> QED
    BY <1>7, WrapRange
<1> DEFINE k == high * 27560 + k1 + k2 + k3
           w == Wrap(whole)
<1>10. k \in Int
  BY <1>1, <1>4, <1>5, <1>8
<1>11. val * 1806234369 = 65536 * w + over + DoubleWord * k
  <2>1. w \in Int /\ h1 + h2 + carry = w + 65536 * k3
    BY <1>8, <1>9
  <2> HIDE DEF w
  <2> QED
    BY <1>1, <1>3, <1>4, <1>5, <1>6, <1>8, <2>1, SMTT(60) DEF DoubleWord
<1>12. LowPart(over) /\ over \in Int
  BY <1>3
<1> HIDE DEF k, w
<1>13. HighWord(val, w, over, k)
  BY <1>10, <1>11, <1>12, SMTT(30) DEF HighWord
<1>14. HighWord(val, PlantHigh(val), over, k)
  BY <1>2, <1>13 DEF w
<1> QED
  BY <1>10, <1>12, <1>14

(* What a reduction by plant_red multiplies by: 1806234369 * q = 1 + 1400 * 2^32. *)
LEMMA PlantRedIs ==
  ASSUME NEW val \in Int, Reducible(val)
  PROVE  Same(KYBER_Q, PlantRed(val), val * 1400)
<1> DEFINE middle == PlantHigh(val)
<1>0. PICK low, k \in Int : HighWord(val, middle, low, k)
  BY PlantHighIs
<1>1. /\ LowPart(low) /\ k \in Int
      /\ val * 1806234369 = 65536 * middle + low + DoubleWord * k
  BY <1>0 DEF HighWord
<1>2. middle \in Int
  <2> DEFINE whole == (((val \div 65536) * 62209) % 65536) + (((val % 65536) * 27560) % 65536)
                        + (((val % 65536) * 243 + ((val % 65536) \div 256)) \div 256)
  <2>1. middle = Wrap(whole)
    BY DEF PlantHigh
  <2>2. whole \in Int
    OBVIOUS
  <2> HIDE DEF whole
  <2> QED
    BY <2>1, <2>2, WrapRange
<1>3. PlantRed(val) = Rounded(middle)
  BY DEF PlantRed, Rounded
<1> DEFINE g == val * 1400 - 3329 * k
<1>4. 65536 * (middle * 3329) = val - low * 3329 + DoubleWord * g
  <2> HIDE DEF middle
  <2> QED
    BY <1>1, <1>2, SMTT(60) DEF DoubleWord
<1>5. g \in Int /\ LowPart(low)
  BY <1>1
<1>6. PlantRed(val) = g
  <2> HIDE DEF middle, g
  <2>1. HasQuotient(middle, low, val, g)
    BY <1>4, <1>5, SMTT(30) DEF HasQuotient
  <2>2. Rounded(middle) = g
    BY <1>2, <1>5, <2>1, RoundedIs
  <2> QED
    BY <1>3, <2>2
<1> DEFINE x == val * 1400
<1>7. Apart(KYBER_Q, g, x) /\ x \in Int
  <2>1. g = x + (-k) * KYBER_Q /\ -k \in Int /\ x \in Int
    BY <1>1 DEF KYBER_Q
  <2> HIDE DEF g, x
  <2> QED
    BY <2>1 DEF Apart
<1>8. KYBER_Q \in Nat /\ KYBER_Q > 0
  BY DEF KYBER_Q
<1> HIDE DEF g, x
<1>9. Same(KYBER_Q, g, x)
  BY <1>5, <1>7, <1>8, ApartSame
<1> QED
  BY <1>6, <1>9 DEF x
-------------------------------------------------------------------------------
LEMMA QIsPositive == KYBER_Q \in Nat /\ KYBER_Q > 0
BY DEF KYBER_Q

LEMMA WordBounds ==
  ASSUME NEW x \in Int, x \in Int16
  PROVE  -32768 <= x /\ x <= 32768
BY WordRange

(* What a twiddle stands for, as the run's history computes it. *)
LEMMA MeaningIs ==
  ASSUME NEW tt \in Int, NEW d \in Int, NEW m \in Int, Twists(tt, d, m)
  PROVE  Meaning(tt) \in 0..(KYBER_Q - 1) /\ Same(KYBER_Q, Meaning(tt), m)
<1> DEFINE one == 1
           x == PlantMul(one, tt)
<1>1. one \in Int /\ -32768 <= one /\ one <= 32768 /\ one * m = m
  OBVIOUS
<1>2. Meaning(tt) = x % KYBER_Q
  BY DEF Meaning
<1> HIDE DEF one
<1>3. Same(KYBER_Q, x, one * m)
  BY <1>1, PlantMulIs
<1>4. x \in Int
  BY <1>1, PlantMulRange DEF Halved
<1> HIDE DEF x
<1>5. x % KYBER_Q \in 0..(KYBER_Q - 1) /\ Same(KYBER_Q, x % KYBER_Q, x)
  BY <1>4, QIsPositive, Remainder
<1>6. Same(KYBER_Q, x, m)
  BY <1>1, <1>3
<1> QED
  BY <1>2, <1>5, <1>6 DEF Same

LEMMA MeaningIsNumber ==
  ASSUME NEW tt, IsTwiddle(tt)
  PROVE  Meaning(tt) \in Int
<1>1. PICK d, m \in Int : Twists(tt, d, m)
  BY DEF IsTwiddle
<1>2. Meaning(tt) \in 0..(KYBER_Q - 1)
  BY <1>1, MeaningIs DEF IsTwiddle
<1> QED
  BY <1>2, QIsPositive

LEMMA TwiddleProduct ==
  ASSUME NEW tt, IsTwiddle(tt), NEW x \in Int, x \in Int16, NEW v \in Int,
         Same(KYBER_Q, x, v)
  PROVE  /\ PlantMul(x, tt) \in Int
         /\ Same(KYBER_Q, PlantMul(x, tt), v * Meaning(tt))
<1> DEFINE q == KYBER_Q
           z == Meaning(tt)
           w == PlantMul(x, tt)
<1>1. PICK d, m \in Int : Twists(tt, d, m)
  BY DEF IsTwiddle
<1>2. tt \in Int /\ q \in Nat /\ q > 0
  BY QIsPositive DEF IsTwiddle
<1>3. -32768 <= x /\ x <= 32768
  BY WordBounds
<1>4. Same(q, w, x * m)
  BY <1>1, <1>2, <1>3, PlantMulIs
<1>5. z \in Int /\ Same(q, z, m)
  <2>1. z \in 0..(q - 1) /\ Same(q, z, m)
    BY <1>1, <1>2, MeaningIs
  <2> QED
    BY <1>2, <2>1
<1>6. w \in Int
  BY <1>2, PlantMulRange DEF Halved
<1> HIDE DEF q, z, w
<1>7. Same(q, v * z, x * m)
  <2>1. Same(q, v, x)
    BY DEF Same, q
  <2> QED
    BY <1>2, <1>5, <2>1, SameProducts
<1>8. Same(q, w, v * z)
  BY <1>4, <1>7 DEF Same
<1> QED
  BY <1>6, <1>8 DEF q, z, w

(* The factor of a reduction, likewise. *)
LEMMA PlantRinvIs == PlantRinv \in 0..(KYBER_Q - 1) /\ Same(KYBER_Q, PlantRinv, 1400)
<1> DEFINE one == 1
           x == PlantRed(one)
           c == 1400
<1>1. one \in Int /\ Reducible(one) /\ one * 1400 = c /\ c \in Int
  BY SMTT(30) DEF Reducible
<1>2. PlantRinv = x % KYBER_Q
  BY DEF PlantRinv
<1> HIDE DEF one
<1>3. Same(KYBER_Q, x, one * 1400)
  BY <1>1, PlantRedIs
<1>4. x \in Int
  BY <1>1, PlantRedRange DEF Halved
<1> HIDE DEF x, c
<1>5. x % KYBER_Q \in 0..(KYBER_Q - 1) /\ Same(KYBER_Q, x % KYBER_Q, x)
  BY <1>4, QIsPositive, Remainder
<1>6. Same(KYBER_Q, x, c)
  BY <1>1, <1>3
<1>7. Same(KYBER_Q, PlantRinv, c)
  BY <1>2, <1>5, <1>6 DEF Same
<1> QED
  BY <1>2, <1>5, <1>7 DEF c

LEMMA ReductionProduct ==
  ASSUME NEW val \in Int, Reducible(val), NEW v \in Int,
         Same(KYBER_Q, val, v)
  PROVE  /\ PlantRed(val) \in Int
         /\ Same(KYBER_Q, PlantRed(val), v * PlantRinv)
<1> DEFINE q == KYBER_Q
           z == PlantRinv
           w == PlantRed(val)
           c == 1400
<1>1. q \in Nat /\ q > 0 /\ c \in Int
  BY QIsPositive
<1>2. Same(q, w, val * c)
  BY PlantRedIs
<1>3. z \in Int /\ Same(q, z, c)
  <2>1. z \in 0..(q - 1) /\ Same(q, z, c)
    BY PlantRinvIs
  <2> QED
    BY <1>1, <2>1
<1>4. w \in Int
  BY PlantRedRange DEF Halved
<1> HIDE DEF q, z, w, c
<1>5. Same(q, v * z, val * c)
  <2>1. Same(q, v, val)
    BY DEF Same, q
  <2> QED
    BY <1>1, <1>3, <2>1, SameProducts
<1>6. Same(q, w, v * z)
  BY <1>2, <1>5 DEF Same
<1> QED
  BY <1>4, <1>6 DEF q, z, w

(* The butterflies, and the residues beside them. *)
LEMMA ButterflyTracks ==
  ASSUME NEW tt, IsTwiddle(tt), NEW x \in Int, NEW y \in Int, y \in Int16,
         NEW u \in Int, NEW v \in Int, x % KYBER_Q = u % KYBER_Q, y % KYBER_Q = v % KYBER_Q
  PROVE  /\ (x + PlantMul(y, tt)) % KYBER_Q = (u + v * Meaning(tt)) % KYBER_Q
         /\ (x - PlantMul(y, tt)) % KYBER_Q = (u - v * Meaning(tt)) % KYBER_Q
<1> DEFINE q == KYBER_Q
           w == PlantMul(y, tt)
           vz == v * Meaning(tt)
<1>1. w \in Int /\ Same(q, w, vz)
  BY TwiddleProduct DEF Same
<1>2. vz \in Int /\ q \in Nat /\ q > 0
  BY MeaningIsNumber, QIsPositive
<1>3. Same(q, x, u)
  BY DEF Same
<1> HIDE DEF q, w, vz
<1>4. Same(q, x + w, u + vz) /\ Same(q, x - w, u - vz)
  BY <1>1, <1>2, <1>3, SameSums
<1> QED
  BY <1>4 DEF Same, q, w, vz

LEMMA InverseButterflyTracks ==
  ASSUME NEW tt, IsTwiddle(tt), NEW x \in Int, NEW y \in Int,
         NEW u \in Int, NEW v \in Int, x % KYBER_Q = u % KYBER_Q, y % KYBER_Q = v % KYBER_Q
  PROVE  /\ (x + y) % KYBER_Q = (u + v) % KYBER_Q
         /\ x - y \in Int16 =>
              PlantMul(x - y, tt) % KYBER_Q = ((u - v) * Meaning(tt)) % KYBER_Q
<1> DEFINE q == KYBER_Q
           d == x - y
           e == u - v
<1>1. q \in Nat /\ q > 0 /\ Same(q, x, u) /\ Same(q, y, v) /\ d \in Int /\ e \in Int
  BY QIsPositive DEF Same
<1> HIDE DEF q
<1>2. Same(q, x + y, u + v) /\ Same(q, d, e)
  BY <1>1, SameSums
<1> HIDE DEF d, e
<1>3. d \in Int16 => Same(q, PlantMul(d, tt), e * Meaning(tt))
  BY <1>1, <1>2, TwiddleProduct DEF q
<1> QED
  BY <1>2, <1>3 DEF Same, q, d, e
-------------------------------------------------------------------------------
(* What is computed beside the coefficients. *)

Shaped(f, v, S) == f \in [S -> Int16] /\ v \in [S -> 0..(KYBER_Q - 1)]

Follows(f, v, S) == \A j \in S : f[j] % KYBER_Q = v[j]

Canonical(f, S) == \A j \in S : f[j] \in 0..(KYBER_Q - 1)

KemKept(S) == /\ Shaped(kemPoly, kemVal, S)
              /\ ~ kemLost => Follows(kemPoly, kemVal, S)
              /\ ~ kemLost /\ kemReduced => Canonical(kemPoly, S)

LEMMA ResidueRange ==
  ASSUME NEW x \in Int
  PROVE  x % KYBER_Q \in 0..(KYBER_Q - 1) /\ x % KYBER_Q \in Int
<1>1. x % KYBER_Q \in 0..(KYBER_Q - 1)
  BY QIsPositive, Remainder
<1>2. KYBER_Q \in Nat
  BY QIsPositive
<1> QED
  BY <1>1, <1>2

LEMMA WordsAreNumbers ==
  ASSUME NEW x \in Int16
  PROVE  x \in Int /\ -32768 <= x /\ x <= 32767
<1>1. HalfWord = 32768 /\ HalfWord \in Int
  BY DEF HalfWord
<1>2. x \in Int
  BY <1>1 DEF Int16
<1> QED
  BY <1>2, WordRange

LEMMA ShapedIs ==
  ASSUME NEW f, NEW v, NEW S, Shaped(f, v, S), NEW j \in S
  PROVE  /\ f[j] \in Int /\ f[j] \in Int16
         /\ v[j] \in Int /\ v[j] \in 0..(KYBER_Q - 1) /\ v[j] % KYBER_Q = v[j]
<1> DEFINE x == f[j]
           u == v[j]
<1>1. x \in Int16 /\ u \in 0..(KYBER_Q - 1)
  BY DEF Shaped
<1>2. KYBER_Q \in Nat /\ KYBER_Q > 0
  BY QIsPositive
<1> HIDE DEF x, u
<1>3. x \in Int
  BY <1>1, WordsAreNumbers
<1>4. u \in Int
  BY <1>1, <1>2
<1>5. u % KYBER_Q = u
  BY <1>1, <1>2, Remainder
<1> QED
  BY <1>1, <1>3, <1>4, <1>5 DEF x, u

(* One coefficient after the other. *)
Kept(x, u, lost) == /\ x \in Int16 /\ u \in 0..(KYBER_Q - 1)
                    /\ ~ lost => x % KYBER_Q = u

LEMMA KeptPointwise ==
  ASSUME NEW f, NEW v, NEW S, f = [j \in S |-> f[j]], v = [j \in S |-> v[j]],
         NEW lost \in BOOLEAN, \A j \in S : Kept(f[j], v[j], lost)
  PROVE  Shaped(f, v, S) /\ (~ lost => Follows(f, v, S))
<1>1. ASSUME NEW j \in S
      PROVE  /\ f[j] \in Int16 /\ v[j] \in 0..(KYBER_Q - 1)
             /\ ~ lost => f[j] % KYBER_Q = v[j]
  <2>1. Kept(f[j], v[j], lost)
    OBVIOUS
  <2> QED
    BY <2>1, Zenon DEF Kept
<1>2. f \in [S -> Int16]
  BY <1>1
<1>3. v \in [S -> 0..(KYBER_Q - 1)]
  BY <1>1
<1>4. ~ lost => Follows(f, v, S)
  BY <1>1, Zenon DEF Follows
<1> QED
  BY <1>2, <1>3, <1>4 DEF Shaped
-------------------------------------------------------------------------------
(* The blocks of the transforms. *)

LEMMA BlockIndices ==
  ASSUME NEW len \in Nat, len > 0, kemLen = len, NEW s \in Nat, kemStart = s,
         s + 2 * len <= 256, NEW j \in Index
  PROVE  /\ j \in Lower => j + len \in Index
         /\ j \in Upper => j - len \in Index
BY DEF Lower, Upper, Index

(* Of a block of either transform: one coefficient, from the two that it is
   computed from. *)
LEMMA ForwardCoefficient ==
  ASSUME NEW tt, IsTwiddle(tt), NEW x \in Int, NEW y \in Int, y \in Int16,
         NEW u \in Int, NEW v \in Int, NEW lost \in BOOLEAN,
         u \in 0..(KYBER_Q - 1), v \in 0..(KYBER_Q - 1),
         ~ lost => x % KYBER_Q = u /\ y % KYBER_Q = v
  PROVE  /\ x + PlantMul(y, tt) \in Int16 =>
              Kept(x + PlantMul(y, tt), (u + v * Meaning(tt)) % KYBER_Q, lost)
         /\ x - PlantMul(y, tt) \in Int16 =>
              Kept(x - PlantMul(y, tt), (u - v * Meaning(tt)) % KYBER_Q, lost)
<1> DEFINE q == KYBER_Q
           z == Meaning(tt)
           w == PlantMul(y, tt)
<1>1. q \in Nat /\ q > 0 /\ u \in 0..(q - 1) /\ v \in 0..(q - 1)
  BY QIsPositive
<1>3. z \in Int
  BY MeaningIsNumber
<1>4. u % q = u /\ v % q = v
  BY <1>1, Remainder
<1>5. ~ lost => /\ (x + w) % q = (u + v * z) % q
                /\ (x - w) % q = (u - v * z) % q
  <2> SUFFICES ASSUME ~ lost
               PROVE  (x + w) % q = (u + v * z) % q /\ (x - w) % q = (u - v * z) % q
    OBVIOUS
  <2>2. x % KYBER_Q = u % KYBER_Q /\ y % KYBER_Q = v % KYBER_Q
    BY <1>4
  <2>3. Same(q, x, u) /\ Same(q, y, v)
    BY <2>2 DEF Same
  <2>4. w \in Int /\ Same(q, w, v * z)
    BY <2>3, TwiddleProduct
  <2> HIDE DEF q, z, w
  <2>5. v * z \in Int
    BY <1>3
  <2>6. Same(q, x + w, u + v * z) /\ Same(q, x - w, u - v * z)
    BY <1>1, <2>3, <2>4, <2>5, SameSums
  <2> QED
    BY <2>6 DEF Same
<1> HIDE DEF z, w
<1>6. u + v * z \in Int /\ u - v * z \in Int
  BY <1>1, <1>3
<1>7. (u + v * z) % q \in 0..(q - 1) /\ (u - v * z) % q \in 0..(q - 1)
  BY <1>6, ResidueRange
<1> HIDE DEF q
<1> QED
  BY <1>5, <1>7 DEF Kept, q, z, w

LEMMA InverseCoefficient ==
  ASSUME NEW tt, IsTwiddle(tt), NEW x \in Int16, NEW y \in Int16,
         NEW u \in 0..(KYBER_Q - 1), NEW v \in 0..(KYBER_Q - 1), NEW lost \in BOOLEAN,
         ~ lost => x % KYBER_Q = u /\ y % KYBER_Q = v
  PROVE  /\ (~ lost => x + y \in Int16) =>
              Kept(Wrap(x + y), (u + v) % KYBER_Q, lost)
         /\ (~ lost => x - y \in Int16) =>
              Kept(PlantMul(Wrap(x - y), tt), ((u - v) * Meaning(tt)) % KYBER_Q, lost)
<1> DEFINE q == KYBER_Q
           z == Meaning(tt)
           d == x - y
           e == x + y
           w == PlantMul(Wrap(d), tt)
<1>1. q \in Nat /\ q > 0 /\ u \in 0..(q - 1) /\ v \in 0..(q - 1)
  BY QIsPositive
<1>2. x \in Int /\ y \in Int /\ d \in Int /\ e \in Int
  BY WordsAreNumbers
<1>3. z \in Int /\ tt \in Int
  BY MeaningIsNumber DEF IsTwiddle
<1>4. u % q = u /\ v % q = v /\ u \in Int /\ v \in Int
  BY <1>1, Remainder
<1>5. /\ Wrap(d) \in Int /\ Wrap(e) \in Int16
      /\ (d \in Int16 => Wrap(d) = d) /\ (e \in Int16 => Wrap(e) = e)
  <2> HIDE DEF d, e
  <2> QED
    BY <1>2, WrapRange
<1>6. w \in Int16
  <2>1. Halved(w)
    BY <1>3, <1>5, PlantMulRange
  <2> HIDE DEF w
  <2>2. w \in Int /\ -32768 <= w /\ w <= 32767
    BY <2>1 DEF Halved
  <2> QED
    BY <2>2, WordRange
<1>7. ~ lost => /\ e % q = (u + v) % q
                /\ d \in Int16 => PlantMul(d, tt) % q = ((u - v) * z) % q
  <2> SUFFICES ASSUME ~ lost
               PROVE  /\ e % q = (u + v) % q
                      /\ d \in Int16 => PlantMul(d, tt) % q = ((u - v) * z) % q
    OBVIOUS
  <2>1. x % KYBER_Q = u % KYBER_Q /\ y % KYBER_Q = v % KYBER_Q
    BY <1>4
  <2> QED
    BY <1>2, <1>4, <2>1, InverseButterflyTracks
<1>8. (u + v) % q \in 0..(q - 1) /\ ((u - v) * z) % q \in 0..(q - 1)
  <2>1. u + v \in Int /\ (u - v) * z \in Int
    <3> HIDE DEF z
    <3> QED
      BY <1>3, <1>4
  <2> QED
    BY <2>1, ResidueRange
<1>9. ~ lost /\ d \in Int16 => w = PlantMul(d, tt)
  BY <1>5
<1>10. (~ lost => e \in Int16) => Kept(Wrap(e), (u + v) % q, lost)
  <2> HIDE DEF q, e
  <2> QED
    BY <1>5, <1>7, <1>8 DEF Kept, q
<1>11. (~ lost => d \in Int16) => Kept(w, ((u - v) * z) % q, lost)
  <2> HIDE DEF q, d, w, z
  <2> QED
    BY <1>6, <1>7, <1>8, <1>9 DEF Kept, q
<1> QED
  BY <1>10, <1>11

(* What is known of the coefficients a block reads. *)
LEMMA ReadCoefficient ==
  ASSUME NEW S, Shaped(kemPoly, kemVal, S), ~ kemLost => Follows(kemPoly, kemVal, S),
         NEW j \in S
  PROVE  /\ kemPoly[j] \in Int /\ kemPoly[j] \in Int16
         /\ kemVal[j] \in Int /\ kemVal[j] \in 0..(KYBER_Q - 1)
         /\ ~ kemLost => kemPoly[j] % KYBER_Q = kemVal[j]
<1>1. ~ kemLost => kemPoly[j] % KYBER_Q = kemVal[j]
  BY Zenon DEF Follows
<1>2. /\ kemPoly[j] \in Int /\ kemPoly[j] \in Int16
      /\ kemVal[j] \in Int /\ kemVal[j] \in 0..(KYBER_Q - 1)
  BY ShapedIs
<1> QED
  BY <1>1, <1>2

LEMMA ForwardKept ==
  ASSUME ForwardInv, ForwardBlock, Shaped(kemPoly, kemVal, Index),
         ~ kemLost => Follows(kemPoly, kemVal, Index)
  PROVE  Shaped(kemPoly', kemVal', Index) /\ (~ kemLost' => Follows(kemPoly', kemVal', Index))
<1>1. /\ kemLen \in Nat /\ kemLen > 0 /\ kemStart \in Nat /\ kemStart + 2 * kemLen <= 256
      /\ kemK + 1 \in 1..128
  BY DEF ForwardInv, ForwardBlock, Position, Lengths, Longer
<1>2. IsTwiddle(ZETAS_ASM[kemK + 1])
  BY <1>1, TablesAreTwiddles, Zenon
<1> DEFINE tt == ZETAS_ASM[kemK + 1]
           f == [j \in Index |->
                  IF j \in Lower THEN kemPoly[j] + PlantMul(kemPoly[j + kemLen], tt)
                  ELSE IF j \in Upper THEN kemPoly[j - kemLen] - PlantMul(kemPoly[j], tt)
                  ELSE kemPoly[j]]
           v == [j \in Index |->
                  IF j \in Lower THEN (kemVal[j] + kemVal[j + kemLen] * Meaning(tt)) % KYBER_Q
                  ELSE IF j \in Upper
                  THEN (kemVal[j - kemLen] - kemVal[j] * Meaning(tt)) % KYBER_Q
                  ELSE kemVal[j]]
<1>3. Writes(f) /\ kemVal' = v
  BY DEF ForwardBlock
<1>4. ~ kemLost' /\ ~ kemLost /\ kemLost' \in BOOLEAN
  <2>1. ~ kemLost'
    BY ForwardStep DEF ForwardInv
  <2>2. ~ kemLost
    BY DEF ForwardInv
  <2>3. kemLost' \in BOOLEAN
    BY <1>3, Zenon DEF Writes
  <2> QED
    BY <2>1, <2>2, <2>3
<1>5. DOMAIN f = Index
  OBVIOUS
<1>6. ASSUME NEW j \in Index PROVE f[j] \in Int16 /\ f[j] \in Int
  <2>1. f[j] \in Int16
    <3> HIDE DEF f
    <3> QED
      BY <1>3, <1>4, <1>5, Zenon DEF Writes
  <2> HIDE DEF f
  <2> QED
    BY <2>1, WordsAreNumbers
<1>7. ASSUME NEW j \in Index PROVE Kept(f[j], v[j], kemLost')
  <2>1. f[j] \in Int16
    BY <1>6
  <2>2. j \in Lower => j + kemLen \in Index
    BY <1>1, BlockIndices
  <2>3. j \in Upper => j - kemLen \in Index
    BY <1>1, BlockIndices
  <2> HIDE DEF tt
  <2>4. CASE j \in Lower
    <3> DEFINE x == kemPoly[j]
               y == kemPoly[j + kemLen]
               u == kemVal[j]
               w == kemVal[j + kemLen]
               d == PlantMul(y, tt)
    <3>1. f[j] = x + d /\ v[j] = (u + w * Meaning(tt)) % KYBER_Q
      BY <2>4
    <3>2. /\ x \in Int /\ u \in Int /\ u \in 0..(KYBER_Q - 1)
          /\ ~ kemLost => x % KYBER_Q = u
      BY ReadCoefficient
    <3>3. /\ y \in Int /\ y \in Int16 /\ w \in Int /\ w \in 0..(KYBER_Q - 1)
          /\ ~ kemLost => y % KYBER_Q = w
      BY <2>2, <2>4, ReadCoefficient
    <3> HIDE DEF x, y, u, w, f, v
    <3>4. x + d \in Int16
      BY <2>1, <3>1
    <3>5. Kept(x + PlantMul(y, tt), (u + w * Meaning(tt)) % KYBER_Q, kemLost')
      BY <1>2, <1>4, <3>2, <3>3, <3>4, ForwardCoefficient DEF tt
    <3> QED
      BY <3>1, <3>5
  <2>5. CASE j \notin Lower /\ j \in Upper
    <3> DEFINE x == kemPoly[j - kemLen]
               y == kemPoly[j]
               u == kemVal[j - kemLen]
               w == kemVal[j]
               d == PlantMul(y, tt)
    <3>1. f[j] = x - d /\ v[j] = (u - w * Meaning(tt)) % KYBER_Q
      BY <2>5
    <3>2. /\ x \in Int /\ u \in Int /\ u \in 0..(KYBER_Q - 1)
          /\ ~ kemLost => x % KYBER_Q = u
      BY <2>3, <2>5, ReadCoefficient
    <3>3. /\ y \in Int /\ y \in Int16 /\ w \in Int /\ w \in 0..(KYBER_Q - 1)
          /\ ~ kemLost => y % KYBER_Q = w
      BY ReadCoefficient
    <3> HIDE DEF x, y, u, w, f, v
    <3>4. x - d \in Int16
      BY <2>1, <3>1
    <3>5. Kept(x - PlantMul(y, tt), (u - w * Meaning(tt)) % KYBER_Q, kemLost')
      BY <1>2, <1>4, <3>2, <3>3, <3>4, ForwardCoefficient DEF tt
    <3> QED
      BY <3>1, <3>5
  <2>6. CASE j \notin Lower /\ j \notin Upper
    <3>1. f[j] = kemPoly[j] /\ v[j] = kemVal[j]
      BY <2>6
    <3>2. kemVal[j] \in 0..(KYBER_Q - 1) /\ kemPoly[j] % KYBER_Q = kemVal[j]
      BY <1>4, ReadCoefficient
    <3> HIDE DEF f, v
    <3> QED
      BY <2>1, <3>1, <3>2 DEF Kept
  <2> QED
    BY <2>4, <2>5, <2>6
<1>8. DOMAIN v = Index /\ v = [j \in Index |-> v[j]]
  OBVIOUS
<1> HIDE DEF f, v
<1>9. kemPoly' = f
  <2>1. kemPoly' = [j \in Index |-> Wrap(f[j])]
    BY <1>3, <1>5 DEF Writes
  <2>2. ASSUME NEW j \in Index PROVE Wrap(f[j]) = f[j]
    BY <1>6, WrapRange
  <2>3. f = [j \in Index |-> f[j]]
    BY <1>5 DEF f
  <2> QED
    BY <2>1, <2>2, <2>3
<1>10. f = [j \in Index |-> f[j]]
  BY DEF f
<1>11. Shaped(f, v, Index) /\ (~ kemLost' => Follows(f, v, Index))
  BY <1>4, <1>7, <1>8, <1>10, KeptPointwise
<1> QED
  BY <1>3, <1>9, <1>11

LEMMA InverseKept ==
  ASSUME kemLen \in Nat, kemLen > 0, kemStart \in Nat, kemStart + 2 * kemLen <= 256,
         kemK + 1 \in 1..127,
         InverseBlock, Shaped(kemPoly, kemVal, Index),
         ~ kemLost => Follows(kemPoly, kemVal, Index)
  PROVE  Shaped(kemPoly', kemVal', Index) /\ (~ kemLost' => Follows(kemPoly', kemVal', Index))
<1>2. IsTwiddle(ZETAS_INV_CT_ASM[kemK + 1])
  BY TablesAreTwiddles, Zenon
<1> DEFINE tt == ZETAS_INV_CT_ASM[kemK + 1]
           f == [j \in Index |->
                  IF j \in Lower THEN kemPoly[j] + kemPoly[j + kemLen]
                  ELSE IF j \in Upper THEN kemPoly[j - kemLen] - kemPoly[j]
                  ELSE kemPoly[j]]
           h == [j \in Index |-> IF j \in Upper THEN PlantMul(Wrap(f[j]), tt) ELSE Wrap(f[j])]
           v == [j \in Index |->
                  IF j \in Lower THEN (kemVal[j] + kemVal[j + kemLen]) % KYBER_Q
                  ELSE IF j \in Upper
                  THEN ((kemVal[j - kemLen] - kemVal[j]) * Meaning(tt)) % KYBER_Q
                  ELSE kemVal[j]]
<1>3. kemPoly' = h /\ kemVal' = v
  BY DEF InverseBlock
<1>4. kemLost' = (kemLost \/ \E j \in Index : f[j] \notin Int16)
  BY DEF InverseBlock
<1>5. kemLost' \in BOOLEAN
  BY <1>4, Zenon
<1>6. ASSUME NEW j \in Index PROVE ~ kemLost' => f[j] \in Int16 /\ ~ kemLost
  <2> HIDE DEF f
  <2> QED
    BY <1>4, Zenon
<1>7. ASSUME NEW j \in Index PROVE Kept(h[j], v[j], kemLost')
  <2>1. ~ kemLost' => f[j] \in Int16 /\ ~ kemLost
    BY <1>6
  <2>2. j \in Lower => j + kemLen \in Index
    BY BlockIndices
  <2>3. j \in Upper => j - kemLen \in Index
    BY BlockIndices
  <2>0. ~ (j \in Lower /\ j \in Upper)
    BY DEF Lower, Upper, Index
  <2> HIDE DEF tt
  <2>4. CASE j \in Lower
    <3> DEFINE x == kemPoly[j]
               y == kemPoly[j + kemLen]
               u == kemVal[j]
               w == kemVal[j + kemLen]
    <3>1. h[j] = Wrap(x + y) /\ v[j] = (u + w) % KYBER_Q /\ f[j] = x + y
      BY <2>0, <2>4
    <3>2. /\ x \in Int16 /\ u \in 0..(KYBER_Q - 1)
          /\ ~ kemLost => x % KYBER_Q = u
      BY ReadCoefficient
    <3>3. /\ y \in Int16 /\ w \in 0..(KYBER_Q - 1)
          /\ ~ kemLost => y % KYBER_Q = w
      BY <2>2, <2>4, ReadCoefficient
    <3> HIDE DEF x, y, u, w, f, v, h
    <3>4. /\ ~ kemLost' => x % KYBER_Q = u /\ y % KYBER_Q = w
          /\ ~ kemLost' => x + y \in Int16
      BY <2>1, <3>1, <3>2, <3>3
    <3>5. Kept(Wrap(x + y), (u + w) % KYBER_Q, kemLost')
      BY <1>2, <1>5, <3>2, <3>3, <3>4, InverseCoefficient DEF tt
    <3> QED
      BY <3>1, <3>5
  <2>5. CASE j \in Upper
    <3> DEFINE x == kemPoly[j - kemLen]
               y == kemPoly[j]
               u == kemVal[j - kemLen]
               w == kemVal[j]
    <3>1. /\ h[j] = PlantMul(Wrap(x - y), tt)
          /\ v[j] = ((u - w) * Meaning(tt)) % KYBER_Q /\ f[j] = x - y
      BY <2>0, <2>5
    <3>2. /\ x \in Int16 /\ u \in 0..(KYBER_Q - 1)
          /\ ~ kemLost => x % KYBER_Q = u
      BY <2>3, <2>5, ReadCoefficient
    <3>3. /\ y \in Int16 /\ w \in 0..(KYBER_Q - 1)
          /\ ~ kemLost => y % KYBER_Q = w
      BY ReadCoefficient
    <3> HIDE DEF x, y, u, w, f, v, h
    <3>4. /\ ~ kemLost' => x % KYBER_Q = u /\ y % KYBER_Q = w
          /\ ~ kemLost' => x - y \in Int16
      BY <2>1, <3>1, <3>2, <3>3
    <3>5. Kept(PlantMul(Wrap(x - y), tt), ((u - w) * Meaning(tt)) % KYBER_Q, kemLost')
      BY <1>2, <1>5, <3>2, <3>3, <3>4, InverseCoefficient DEF tt
    <3> QED
      BY <3>1, <3>5
  <2>6. CASE j \notin Lower /\ j \notin Upper
    <3>1. h[j] = Wrap(kemPoly[j]) /\ v[j] = kemVal[j]
      BY <2>6
    <3>2. /\ kemVal[j] \in 0..(KYBER_Q - 1) /\ (~ kemLost => kemPoly[j] % KYBER_Q = kemVal[j])
          /\ kemPoly[j] \in Int /\ kemPoly[j] \in Int16
      BY ReadCoefficient
    <3>3. Wrap(kemPoly[j]) = kemPoly[j]
      BY <3>2, WrapRange
    <3> HIDE DEF f, v, h
    <3>4. h[j] = kemPoly[j]
      BY <3>1, <3>3
    <3> QED
      BY <2>1, <3>1, <3>2, <3>4 DEF Kept
  <2> QED
    BY <2>4, <2>5, <2>6
<1>8. v = [j \in Index |-> v[j]] /\ h = [j \in Index |-> h[j]]
  OBVIOUS
<1> HIDE DEF h, v
<1>9. Shaped(h, v, Index) /\ (~ kemLost' => Follows(h, v, Index))
  BY <1>5, <1>7, <1>8, KeptPointwise
<1> QED
  BY <1>3, <1>9
-------------------------------------------------------------------------------
(* The loops of the inverse transform, whose lengths double. *)

InverseLengths == {2, 4, 8, 16, 32, 64, 128}

InversePosition == /\ kemLen \in InverseLengths \cup {256}
                   /\ kemStart \in 0..255
                   /\ kemLen \in InverseLengths => kemStart + 2 * kemLen <= 256
                   /\ kemK \in 0..127
                   /\ (2 * kemLen) * kemK = 256 * kemLen - 512 + kemStart
                   /\ kemLen = 256 => kemStart = 0

LEMMA InverseNext ==
  ASSUME InversePosition, kemLen <= 128, NextBlock(2 * kemLen)
  PROVE  InversePosition' /\ kemK + 1 \in 1..127
<1>1. kemK' = kemK + 1 /\ kemK \in 0..127 /\ kemStart \in 0..255
  BY DEF InversePosition, NextBlock
<1>2. kemLen \in InverseLengths /\ kemStart + 2 * kemLen <= 256
  BY DEF InversePosition, InverseLengths
<1>3. (2 * kemLen) * kemK = 256 * kemLen - 512 + kemStart
  BY DEF InversePosition
<1>4. kemK + 1 \in 1..127
  <2>1. ASSUME NEW len \in InverseLengths, kemLen = len PROVE kemK + 1 \in 1..127
    BY <1>1, <1>2, <1>3, <2>1, SMTT(30) DEF InverseLengths
  <2> QED
    BY <1>2, <2>1, Zenon
<1>5. CASE kemStart + 2 * kemLen < 256
  <2>1. kemLen' = kemLen /\ kemStart' = kemStart + 2 * kemLen
    BY <1>5 DEF NextBlock
  <2>2. ASSUME NEW len \in InverseLengths, kemLen = len
        PROVE  /\ kemStart + 2 * len \in 0..255 /\ (kemStart + 2 * len) + 2 * len <= 256
               /\ (2 * len) * (kemK + 1) = 256 * len - 512 + (kemStart + 2 * len)
    BY <1>1, <1>2, <1>3, <1>5, <2>2, SMTT(30) DEF InverseLengths
  <2>3. /\ kemStart + 2 * kemLen \in 0..255 /\ (kemStart + 2 * kemLen) + 2 * kemLen <= 256
        /\ (2 * kemLen) * (kemK + 1) = 256 * kemLen - 512 + (kemStart + 2 * kemLen)
    BY <1>2, <2>2, ZenonT(60)
  <2>4. kemLen # 256
    BY <1>2 DEF InverseLengths
  <2> QED
    BY <1>1, <1>2, <1>4, <2>1, <2>3, <2>4 DEF InversePosition, InverseLengths
<1>6. CASE ~ (kemStart + 2 * kemLen < 256)
  <2>1. kemLen' = 2 * kemLen /\ kemStart' = 0
    BY <1>6 DEF NextBlock
  <2>2. ASSUME NEW len \in InverseLengths, kemLen = len
        PROVE  /\ 2 * len \in InverseLengths \cup {256}
               /\ 2 * len \in InverseLengths => 0 + 2 * (2 * len) <= 256
               /\ (2 * (2 * len)) * (kemK + 1) = 256 * (2 * len) - 512 + 0
    BY <1>1, <1>2, <1>3, <1>6, <2>2, SMTT(30) DEF InverseLengths
  <2>3. /\ 2 * kemLen \in InverseLengths \cup {256}
        /\ 2 * kemLen \in InverseLengths => 0 + 2 * (2 * kemLen) <= 256
        /\ (2 * (2 * kemLen)) * (kemK + 1) = 256 * (2 * kemLen) - 512 + 0
    BY <1>2, <2>2, ZenonT(60)
  <2> QED
    BY <1>1, <1>2, <1>4, <2>1, <2>3 DEF InversePosition, InverseLengths
<1> QED
  BY <1>4, <1>5, <1>6
-------------------------------------------------------------------------------
(* The operations on pairs. *)

(* What the roots of a slot's two pairs stand for. *)
LEMMA RootIs ==
  ASSUME kemStart \in 0..127
  PROVE  /\ Root(kemStart) \in Int
         /\ IsTwiddle(Zeta(kemStart))
         /\ Same(KYBER_Q, Meaning(Zeta(kemStart)), Root(kemStart))
<1> DEFINE q == KYBER_Q
           tt == ZETAS_BASEMUL[kemStart \div 2 + 1]
           z == Meaning(tt)
           y == Meaning(-tt)
<1>1. kemStart \div 2 + 1 \in 1..64
  OBVIOUS
<1>2. IsTwiddle(tt) /\ IsTwiddle(-tt) /\ tt \in Int /\ q \in Nat /\ q > 0
  <2>1. IsTwiddle(tt) /\ IsTwiddle(-tt)
    BY <1>1, TablesAreTwiddles, Zenon
  <2> QED
    BY <2>1, QIsPositive DEF IsTwiddle
<1>3. Zeta(kemStart) = IF kemStart % 2 = 0 THEN tt ELSE -tt
  BY DEF Zeta
<1>4. Root(kemStart) = IF kemStart % 2 = 0 THEN z ELSE q - z
  BY DEF Root
<1> HIDE DEF tt
<1>5. PICK d, m \in Int : Twists(tt, d, m)
  BY <1>2 DEF IsTwiddle
<1> DEFINE nd == -d
           nm == -m
           nt == -tt
<1>6. nd \in Int /\ nm \in Int /\ nt \in Int /\ Twists(nt, nd, nm)
  BY <1>2, <1>5, TwistsNegated
<1>7. z \in 0..(q - 1) /\ Same(q, z, m)
  BY <1>2, <1>5, MeaningIs
<1>8. y \in 0..(q - 1) /\ Same(q, y, nm)
  <2>1. y = Meaning(nt)
    OBVIOUS
  <2> HIDE DEF nd, nm, nt, y
  <2> QED
    BY <1>6, <2>1, MeaningIs
<1> HIDE DEF y, z, q
<1>9. Same(q, q - z, nm)
  <2>1. Same(q, q, 0)
    <3>1. Apart(q, q, 0) 
      <4>1. q = 0 + 1 * q /\ 1 \in Int
        BY <1>2
      <4> QED
        BY <4>1 DEF Apart
    <3> DEFINE o == 0
    <3>2. o \in Int /\ q \in Int /\ Apart(q, q, o)
      BY <1>2, <3>1
    <3> HIDE DEF o
    <3>3. Same(q, q, o)
      BY <1>2, <3>2, ApartSame
    <3> QED
      BY <3>3 DEF o
  <2> DEFINE o == 0
  <2>2. o \in Int /\ Same(q, q, o) /\ z \in Int /\ q \in Int /\ o - m = nm
    BY <1>2, <1>5, <1>7, <2>1
  <2> HIDE DEF o, nm
  <2>3. Same(q, q - z, o - m)
    BY <1>2, <1>5, <1>7, <2>2, SameSums
  <2> QED
    BY <2>2, <2>3
<1>10. Same(q, y, q - z)
  BY <1>8, <1>9 DEF Same
<1>11. z \in Int /\ q - z \in Int
  BY <1>2, <1>7
<1>12. CASE kemStart % 2 = 0
  <2>1. Zeta(kemStart) = tt /\ Root(kemStart) = z
    BY <1>3, <1>4, <1>12
  <2>2. Same(q, z, z)
    BY DEF Same
  <2> QED
    BY <1>2, <1>11, <2>1, <2>2 DEF q, z
<1>13. CASE ~ (kemStart % 2 = 0)
  <2>1. Zeta(kemStart) = -tt /\ Root(kemStart) = q - z
    BY <1>3, <1>4, <1>13
  <2> QED
    BY <1>2, <1>10, <1>11, <2>1 DEF q, y
<1> QED
  BY <1>12, <1>13

(* Numbers that are small enough for a reduction. *)
LEMMA ProductBound ==
  ASSUME NEW x \in Int, -32768 <= x, x <= 32768, NEW y \in Int, -4095 <= y, y <= 4095
  PROVE  x * y \in Int /\ Modest(x * y)
<1>1. x * y <= 32768 * 4095 /\ -(32768 * 4095) <= x * y
  <2>1. CASE x >= 0
    <3>1. x * y <= x * 4095 /\ x * (-4095) <= x * y
      BY <2>1, SMTT(30)
    <3> QED
      BY <2>1, <3>1
  <2>2. CASE x < 0
    <3>1. x * y <= x * (-4095) /\ x * 4095 <= x * y
      BY <2>2, SMTT(30)
    <3> QED
      BY <2>2, <3>1
  <2> QED
    BY <2>1, <2>2
<1>2. x * y \in Int
  OBVIOUS
<1> DEFINE xy == x * y
<1>3. xy \in Int /\ xy <= 32768 * 4095 /\ -(32768 * 4095) <= xy
  BY <1>1, <1>2
<1> HIDE DEF xy
<1>4. Modest(xy)
  BY <1>3, SMTT(30) DEF Modest
<1> QED
  BY <1>3, <1>4 DEF xy

(* A pair of coefficients, and what they stand for. *)
Stands(e, v) == /\ e \in Int /\ v \in Int /\ Same(KYBER_Q, e, v)

Word(e) == -32768 <= e /\ e <= 32768
Twelve(e) == -4095 <= e /\ e <= 4095

LEMMA StandsProduct ==
  ASSUME NEW e, NEW v, NEW l, NEW w, Stands(e, v), Stands(l, w)
  PROVE  Stands(e * l, v * w)
BY QIsPositive, SameProducts DEF Stands

LEMMA StandsSum ==
  ASSUME NEW e, NEW v, NEW l, NEW w, Stands(e, v), Stands(l, w)
  PROVE  Stands(e + l, v + w) /\ Stands(e - l, v - w)
BY QIsPositive, SameSums DEF Stands

LEMMA StandsReduced ==
  ASSUME NEW e, NEW v, Stands(e, v)
  PROVE  Stands(e, v % KYBER_Q)
<1>1. v \in Int /\ Same(KYBER_Q, v % KYBER_Q, v) /\ v % KYBER_Q \in Int
  BY QIsPositive, Remainder, ResidueRange DEF Stands
<1> QED
  BY <1>1 DEF Stands, Same

LEMMA StandsTwiddled ==
  ASSUME NEW x, NEW v, Stands(x, v), Twelve(x), kemStart \in 0..127
  PROVE  /\ Stands(PlantMul(x, Zeta(kemStart)), v * Root(kemStart))
         /\ Twelve(PlantMul(x, Zeta(kemStart)))
<1> DEFINE tt == Zeta(kemStart)
           w == PlantMul(x, tt)
           z == Meaning(tt)
           y == Root(kemStart)
<1>1. IsTwiddle(tt) /\ y \in Int /\ Same(KYBER_Q, z, y)
  BY RootIs
<1>2. x \in Int /\ v \in Int /\ Same(KYBER_Q, x, v) /\ x \in Int16
  <2>1. x \in Int /\ -32768 <= x /\ x <= 32767
    BY DEF Stands, Twelve
  <2> QED
    BY <2>1, WordRange DEF Stands
<1>3. z \in Int /\ tt \in Int
  BY <1>1, MeaningIsNumber DEF IsTwiddle
<1>4. w \in Int /\ Same(KYBER_Q, w, v * z)
  BY <1>1, <1>2, TwiddleProduct
<1>5. Halved(w)
  BY <1>2, <1>3, PlantMulRange
<1> HIDE DEF tt, w, z, y
<1>6. Same(KYBER_Q, v * z, v * y) /\ v * y \in Int
  <2>1. Same(KYBER_Q, v, v)
    BY DEF Same
  <2> QED
    BY <1>1, <1>2, <1>3, <2>1, QIsPositive, SameProducts
<1>7. Stands(w, v * y)
  BY <1>4, <1>6 DEF Stands, Same
<1>8. Twelve(w)
  BY <1>5 DEF Halved, Twelve
<1> QED
  BY <1>7, <1>8 DEF w, y, tt

LEMMA StandsReducedProduct ==
  ASSUME NEW val, NEW v, Stands(val, v), Reducible(val)
  PROVE  Stands(PlantRed(val), v * PlantRinv) /\ Halved(PlantRed(val))
<1>1. PlantRed(val) \in Int /\ Same(KYBER_Q, PlantRed(val), v * PlantRinv)
  BY ReductionProduct DEF Stands
<1>2. PlantRinv \in Int
  BY PlantRinvIs, QIsPositive
<1>3. Halved(PlantRed(val))
  BY PlantRedRange DEF Stands
<1> QED
  BY <1>1, <1>2, <1>3 DEF Stands

(* What Kept says of a number that stands for another. *)
LEMMA StandsKept ==
  ASSUME NEW x, NEW u, Stands(x, u), x \in Int16
  PROVE  Kept(x, u % KYBER_Q, FALSE)
<1>1. u % KYBER_Q \in 0..(KYBER_Q - 1)
  BY ResidueRange DEF Stands
<1> QED
  BY <1>1 DEF Stands, Same, Kept

LEMMA HalvedIsWord ==
  ASSUME NEW x, Halved(x)
  PROVE  x \in Int16
<1>1. x \in Int /\ -32768 <= x /\ x <= 32767
  BY DEF Halved
<1> QED
  BY <1>1, WordRange

(* A product of pairs stands for the product modulo X^2 - zeta, times the factor of
   the reductions. *)
LEMMA BasemulTracks ==
  ASSUME kemStart \in 0..127, NEW e, NEW l, NEW v, NEW w,
         \A j \in Sides : Stands(e[j], v[j]) /\ Word(e[j]),
         \A j \in Sides : Stands(l[j], w[j]) /\ Twelve(l[j])
  PROVE  \A j \in Sides : /\ Stands(Basemul(e, l)[j], BasemulVal(v, w)[j])
                          /\ Halved(Basemul(e, l)[j])
                          /\ BasemulVal(v, w)[j] \in 0..(KYBER_Q - 1)
<1> DEFINE e0 == e[0]
           e1 == e[1]
           l0 == l[0]
           l1 == l[1]
           v0 == v[0]
           v1 == v[1]
           w0 == w[0]
           w1 == w[1]
           m == PlantMul(l1, Zeta(kemStart))
           z == Root(kemStart)
           rinv == PlantRinv
           first == e0 * l0 + e1 * m
           second == e0 * l1 + e1 * l0
           q == KYBER_Q
           v11 == ((v1 * w1) % q) * z
           vfirst == (v0 * w0 + v11) % q
           vsecond == (v0 * w1 + v1 * w0) % q
<1>1. 0 \in Sides /\ 1 \in Sides
  BY DEF Sides
<1>2. /\ Stands(e0, v0) /\ Stands(e1, v1) /\ Stands(l0, w0) /\ Stands(l1, w1)
      /\ Word(e0) /\ Word(e1) /\ Twelve(l0) /\ Twelve(l1)
  BY <1>1
<1>3. /\ Basemul(e, l) = [j \in Sides |-> IF j = 0 THEN PlantRed(first) ELSE PlantRed(second)]
      /\ BasemulVal(v, w) = [j \in Sides |-> IF j = 0 THEN (vfirst * rinv) % q
                                             ELSE (vsecond * rinv) % q]
  BY DEF Basemul, BasemulVal, Pair
<1> HIDE DEF e0, e1, l0, l1, v0, v1, w0, w1
<1>4. Stands(m, w1 * z) /\ Twelve(m)
  BY <1>2, StandsTwiddled
<1>5. z \in Int
  BY RootIs
<1> HIDE DEF m, z
<1>6. Stands(e1 * m, v11)
  <2>1. Stands(e1 * m, v1 * (w1 * z))
    BY <1>2, <1>4, StandsProduct
  <2>2. Same(q, v1 * (w1 * z), v11) /\ v11 \in Int
    <3>1. v1 \in Int /\ w1 \in Int /\ v1 * w1 \in Int
      BY <1>2 DEF Stands
    <3> DEFINE vw == v1 * w1
    <3>2. vw \in Int /\ vw % q \in Int /\ Same(q, vw, vw % q)
      BY <3>1, QIsPositive, Remainder, ResidueRange DEF Same
    <3>3. v1 * (w1 * z) = vw * z
      BY <1>5, <3>1, Product3
    <3> DEFINE r == vw % q
    <3>5. q \in Nat /\ q > 0 /\ r \in Int /\ Same(q, vw, r)
      BY <3>2, QIsPositive
    <3> HIDE DEF vw, q, r
    <3>7. vw \in Int
      BY <3>2
    <3>8. Same(q, vw * z, r * z)
      BY <1>5, <3>7, <3>5, SameTimes
    <3>9. r * z \in Int
      BY <1>5, <3>5
    <3>6. Same(q, vw * z, r * z) /\ r * z \in Int
      BY <3>8, <3>9
    <3>4. Same(q, vw * z, (vw % q) * z) /\ (vw % q) * z \in Int
      BY <3>6 DEF r
    <3> QED
      BY <3>3, <3>4 DEF vw
  <2> HIDE DEF v11
  <2> QED
    BY <2>1, <2>2 DEF Stands, Same
<1> HIDE DEF v11
<1>7. Stands(first, vfirst) /\ Stands(second, vsecond)
  <2>1. Stands(e0 * l0, v0 * w0) /\ Stands(e0 * l1, v0 * w1) /\ Stands(e1 * l0, v1 * w0)
    BY <1>2, StandsProduct
  <2> QED
    BY <1>6, <2>1, StandsSum, StandsReduced
<1>8. /\ Reducible(first) /\ Reducible(second)
  <2>1. /\ e0 \in Int /\ e1 \in Int /\ l0 \in Int /\ l1 \in Int /\ m \in Int
        /\ -32768 <= e0 /\ e0 <= 32768 /\ -32768 <= e1 /\ e1 <= 32768
        /\ -4095 <= l0 /\ l0 <= 4095 /\ -4095 <= l1 /\ l1 <= 4095
        /\ -4095 <= m /\ m <= 4095
    BY <1>2, <1>4 DEF Stands, Word, Twelve
  <2> DEFINE s00 == e0 * l0
             s1m == e1 * m
             s01 == e0 * l1
             s10 == e1 * l0
  <2>2. /\ s00 \in Int /\ Modest(s00)
        /\ s1m \in Int /\ Modest(s1m)
        /\ s01 \in Int /\ Modest(s01)
        /\ s10 \in Int /\ Modest(s10)
    BY <2>1, ProductBound
  <2> HIDE DEF s00, s1m, s01, s10
  <2>3. first = s00 + s1m /\ second = s01 + s10
    BY DEF s00, s1m, s01, s10
  <2> HIDE DEF first, second
  <2> QED
    BY <2>2, <2>3, SMTT(30) DEF Modest, Reducible
<1> HIDE DEF first, second, vfirst, vsecond
<1>9. /\ Stands(PlantRed(first), vfirst * rinv) /\ Halved(PlantRed(first))
      /\ Stands(PlantRed(second), vsecond * rinv) /\ Halved(PlantRed(second))
  BY <1>7, <1>8, StandsReducedProduct
<1> DEFINE rf == PlantRed(first)
           rs == PlantRed(second)
           vf == (vfirst * rinv) % q
           vs == (vsecond * rinv) % q
<1>10. /\ Stands(rf, vf) /\ Halved(rf) /\ vf \in 0..(q - 1)
       /\ Stands(rs, vs) /\ Halved(rs) /\ vs \in 0..(q - 1)
  <2>1. vfirst * rinv \in Int /\ vsecond * rinv \in Int
    BY <1>9 DEF Stands
  <2> QED
    BY <1>9, <2>1, StandsReduced, ResidueRange
<1> HIDE DEF rf, rs, vf, vs
<1>11. ASSUME NEW j \in Sides
       PROVE  \/ Basemul(e, l)[j] = rf /\ BasemulVal(v, w)[j] = vf
              \/ Basemul(e, l)[j] = rs /\ BasemulVal(v, w)[j] = vs
  BY <1>3, Zenon DEF rf, rs, vf, vs
<1> QED
  BY <1>10, <1>11, Zenon DEF q
-------------------------------------------------------------------------------
LEMMA PairStands ==
  ASSUME ~ kemLost, Shaped(kemPoly, kemVal, Sides),
         ~ kemLost => Follows(kemPoly, kemVal, Sides), NEW j \in Sides
  PROVE  Stands(kemPoly[j], kemVal[j]) /\ Word(kemPoly[j])
<1>1. /\ kemPoly[j] \in Int /\ kemPoly[j] \in Int16
      /\ kemVal[j] \in Int /\ kemVal[j] \in 0..(KYBER_Q - 1)
      /\ kemPoly[j] % KYBER_Q = kemVal[j]
  BY ReadCoefficient
<1> DEFINE x == kemPoly[j]
           u == kemVal[j]
<1>2. x \in Int /\ x \in Int16 /\ u \in Int /\ u \in 0..(KYBER_Q - 1) /\ x % KYBER_Q = u
  BY <1>1
<1> HIDE DEF x, u
<1>3. u % KYBER_Q = u
  BY <1>2, QIsPositive, Remainder
<1>4. Stands(x, u)
  BY <1>2, <1>3 DEF Stands, Same
<1>5. Word(x)
  BY <1>2, WordRange DEF Word
<1> QED
  BY <1>4, <1>5 DEF x, u

LEMMA ClientStands ==
  ASSUME KemAssumption, NEW l \in KemPairs, NEW j \in Sides
  PROVE  /\ Stands(l[j], Residues(l)[j]) /\ Stands(l[j], l[j])
         /\ Twelve(l[j]) /\ Word(l[j])
<1> DEFINE x == l[j]
<1>1. x \in Int /\ -1665 <= x /\ x <= 4095
  BY ClientPair
<1>2. Residues(l)[j] = x % KYBER_Q
  <2>1. DOMAIN l = Sides
    BY DEF KemAssumption
  <2> QED
    BY <2>1 DEF Residues
<1> HIDE DEF x
<1>3. Stands(x, x)
  BY <1>1 DEF Stands, Same
<1>4. Stands(x, x % KYBER_Q)
  BY <1>3, StandsReduced
<1>5. Twelve(x) /\ Word(x)
  BY <1>1 DEF Twelve, Word
<1> QED
  BY <1>2, <1>3, <1>4, <1>5 DEF x

(* A word that stands for a residue. *)
LEMMA KeptResidue ==
  ASSUME NEW x, NEW u, x \in Int16, u \in 0..(KYBER_Q - 1), Stands(x, u), NEW lost \in BOOLEAN
  PROVE  Kept(x, u, lost)
<1>1. u % KYBER_Q = u
  BY QIsPositive, Remainder
<1> QED
  BY <1>1 DEF Stands, Same, Kept

LEMMA BasemulKept ==
  ASSUME KemAssumption, kemStart \in 0..127, Shaped(kemPoly, kemVal, Sides),
         ~ kemLost => Follows(kemPoly, kemVal, Sides),
         NEW l \in KemPairs, BasemulPair(l)
  PROVE  Shaped(kemPoly', kemVal', Sides) /\ Follows(kemPoly', kemVal', Sides)
<1> DEFINE f == Basemul(kemPoly, l)
           v == BasemulVal(kemVal, Residues(l))
<1>1. ~ kemLost /\ kemPoly' = f /\ kemVal' = v
  BY DEF BasemulPair
<1>2. \A j \in Sides : Stands(kemPoly[j], kemVal[j]) /\ Word(kemPoly[j])
  BY <1>1, PairStands
<1>3. \A j \in Sides : Stands(l[j], Residues(l)[j]) /\ Twelve(l[j])
  BY ClientStands
<1>4. \A j \in Sides : Stands(f[j], v[j]) /\ Halved(f[j]) /\ v[j] \in 0..(KYBER_Q - 1)
  BY <1>2, <1>3, BasemulTracks
<1>5. f = [j \in Sides |-> f[j]] /\ v = [j \in Sides |-> v[j]]
  BY DEF Basemul, BasemulVal, Pair
<1> HIDE DEF f, v
<1> DEFINE lost == FALSE
<1>6. lost \in BOOLEAN /\ ~ lost
  OBVIOUS
<1> HIDE DEF lost
<1>7. ASSUME NEW j \in Sides PROVE Kept(f[j], v[j], lost)
  BY <1>4, <1>6, HalvedIsWord, KeptResidue
<1>8. Shaped(f, v, Sides) /\ Follows(f, v, Sides)
  BY <1>5, <1>6, <1>7, KeptPointwise
<1> QED
  BY <1>1, <1>8

LEMMA AccumulateKept ==
  ASSUME KemAssumption, kemStart \in 0..127, Shaped(kemPoly, kemVal, Sides),
         ~ kemLost => Follows(kemPoly, kemVal, Sides),
         NEW e \in KemPairs, NEW l \in KemPairs, AccumulatePair(e, l)
  PROVE  /\ Shaped(kemPoly', kemVal', Sides)
         /\ ~ kemLost' => Follows(kemPoly', kemVal', Sides)
<1> DEFINE product == Basemul(e, l)
           value == BasemulVal(Residues(e), Residues(l))
           f == [j \in Sides |-> kemPoly[j] + product[j]]
           h == [j \in Sides |-> Wrap(f[j])]
           v == [j \in Sides |-> (kemVal[j] + value[j]) % KYBER_Q]
<1>1. ~ kemLost /\ Writes(f) /\ kemVal' = v
  BY DEF AccumulatePair
<1>2. DOMAIN f = Sides
  OBVIOUS
<1>3. kemPoly' = h /\ kemLost' = (kemLost \/ \E j \in Sides : f[j] \notin Int16)
  <2> HIDE DEF f
  <2> QED
    BY <1>1, <1>2 DEF Writes
<1>4. \A j \in Sides : Stands(kemPoly[j], kemVal[j])
  BY <1>1, PairStands
<1>5. \A j \in Sides : Stands(e[j], Residues(e)[j]) /\ Word(e[j])
  BY ClientStands
<1>6. \A j \in Sides : Stands(l[j], Residues(l)[j]) /\ Twelve(l[j])
  BY ClientStands
<1>7. \A j \in Sides : Stands(product[j], value[j])
  BY <1>5, <1>6, BasemulTracks
<1> HIDE DEF product, value
<1>8. ASSUME NEW j \in Sides PROVE Stands(f[j], kemVal[j] + value[j])
  <2>1. Stands(kemPoly[j] + product[j], kemVal[j] + value[j])
    BY <1>4, <1>7, StandsSum
  <2> QED
    BY <2>1
<1>9. \A j \in Sides : h[j] = Wrap(f[j]) /\ v[j] = (kemVal[j] + value[j]) % KYBER_Q
  OBVIOUS
<1>10. h = [j \in Sides |-> h[j]] /\ v = [j \in Sides |-> v[j]]
  OBVIOUS
<1>11. kemLost' \in BOOLEAN
  BY <1>3, Zenon
<1> HIDE DEF f, h, v
<1>12. ASSUME NEW j \in Sides PROVE Kept(h[j], v[j], kemLost')
  <2> DEFINE x == f[j]
             u == kemVal[j] + value[j]
  <2>1. Stands(x, u)
    BY <1>8
  <2>2. h[j] = Wrap(x) /\ v[j] = u % KYBER_Q
    BY <1>9
  <2>3. ~ kemLost' => x \in Int16
    BY <1>3
  <2> HIDE DEF x, u
  <2>4. Wrap(x) \in Int16 /\ (x \in Int16 => Wrap(x) = x)
    BY <2>1, WrapRange DEF Stands
  <2>5. u % KYBER_Q \in 0..(KYBER_Q - 1)
    BY <2>1, ResidueRange DEF Stands
  <2>6. x % KYBER_Q = u % KYBER_Q
    BY <2>1 DEF Stands, Same
  <2>7. Kept(Wrap(x), u % KYBER_Q, kemLost')
    BY <2>3, <2>4, <2>5, <2>6 DEF Kept
  <2> QED
    BY <2>2, <2>7
<1>13. Shaped(h, v, Sides) /\ (~ kemLost' => Follows(h, v, Sides))
  BY <1>10, <1>11, <1>12, KeptPointwise
<1> QED
  BY <1>1, <1>3, <1>13

(* barrett_reduce takes a multiple of q away. *)
LEMMA BarrettTracks ==
  ASSUME NEW x \in Int
  PROVE  Same(KYBER_Q, BarrettReduce(x), x) /\ BarrettReduce(x) \in Int
<1> DEFINE q == KYBER_Q
           k == Quotient(x)
           rem == x - k * q
           rem2 == IF rem < 0 THEN rem + q ELSE rem
           r == IF rem2 >= q THEN rem2 - q ELSE rem2
<1>1. q \in Nat /\ q > 0
  BY QIsPositive
<1>2. k \in Int
  BY DEF Quotient
<1>3. BarrettReduce(x) = r
  BY DEF BarrettReduce
<1> HIDE DEF k, q
<1>4. \E g \in Int : r = x + g * q
  <2> DEFINE kq == k * q
  <2>1. kq \in Int /\ rem = x - kq
    BY <1>1, <1>2
  <2> HIDE DEF kq
  <2>2. \/ r = x - kq \/ r = (x - kq) + q \/ r = (x - kq) - q
    BY <1>1, <2>1
  <2>3. /\ x - kq = x + (-k) * q
        /\ (x - kq) + q = x + (1 - k) * q
        /\ (x - kq) - q = x + (-1 - k) * q
    BY <1>1, <1>2, SMTT(30) DEF kq
  <2> DEFINE k0 == -k
             k1 == 1 - k
             k2 == -1 - k
  <2>4. k0 \in Int /\ k1 \in Int /\ k2 \in Int
    BY <1>2
  <2>5. \/ r = x + k0 * q \/ r = x + k1 * q \/ r = x + k2 * q
    BY <2>2, <2>3
  <2> HIDE DEF k0, k1, k2, r
  <2> QED
    BY <2>4, <2>5
<1>5. r \in Int
  <2>1. k * q \in Int
    BY <1>1, <1>2
  <2> QED
    BY <1>1, <2>1
<1> HIDE DEF r
<1>6. Same(q, r, x)
  BY <1>1, <1>4, <1>5, ApartSame DEF Apart
<1> QED
  BY <1>3, <1>5, <1>6 DEF q

LEMMA ReducesKept ==
  ASSUME NEW f, NEW val, Reduces(f, val), \A j \in Sides : Stands(f[j], val[j])
  PROVE  /\ Shaped(kemPoly', kemVal', Sides)
         /\ ~ kemLost' => Follows(kemPoly', kemVal', Sides) /\ Canonical(kemPoly', Sides)
<1> DEFINE h == [j \in Sides |-> BarrettReduce(Wrap(f[j]))]
           v == [j \in Sides |-> val[j] % KYBER_Q]
<1>1. /\ kemPoly' = h /\ kemVal' = v
      /\ kemLost' = \E j \in Sides : Overflows(f[j])
  BY DEF Reduces
<1>2. kemLost' \in BOOLEAN
  BY <1>1, Zenon
<1>3. \A j \in Sides : h[j] = BarrettReduce(Wrap(f[j])) /\ v[j] = val[j] % KYBER_Q
  OBVIOUS
<1>4. h = [j \in Sides |-> h[j]] /\ v = [j \in Sides |-> v[j]]
  OBVIOUS
<1> HIDE DEF h, v
<1>5. ASSUME NEW j \in Sides PROVE Kept(h[j], v[j], kemLost') /\ h[j] \in 0..(KYBER_Q - 1)
  <2> DEFINE x == f[j]
             u == val[j]
             r == BarrettReduce(Wrap(x))
  <2>1. Stands(x, u) /\ h[j] = r /\ v[j] = u % KYBER_Q
    BY <1>3
  <2>2. ~ kemLost' => x \in Int16
    BY <1>1 DEF Overflows
  <2> HIDE DEF x, u
  <2>3. Wrap(x) \in Int /\ Wrap(x) \in Int16 /\ (x \in Int16 => Wrap(x) = x)
    BY <2>1, WrapRange DEF Stands
  <2>4. r \in Int /\ 0 <= r /\ r < KYBER_Q /\ Same(KYBER_Q, r, Wrap(x))
    BY <2>3, BarrettRange, BarrettTracks
  <2> HIDE DEF r
  <2>5. r \in 0..(KYBER_Q - 1) /\ r \in Int16
    <3>1. r \in 0..(KYBER_Q - 1)
      BY <2>4, QIsPositive
    <3>2. -32768 <= r /\ r <= 32767
      BY <2>4 DEF KYBER_Q
    <3> QED
      BY <2>4, <3>1, <3>2, WordRange
  <2>6. u % KYBER_Q \in 0..(KYBER_Q - 1)
    BY <2>1, ResidueRange DEF Stands
  <2>7. ~ kemLost' => r % KYBER_Q = u % KYBER_Q
    BY <2>1, <2>2, <2>3, <2>4 DEF Stands, Same
  <2>8. Kept(r, u % KYBER_Q, kemLost')
    BY <2>5, <2>6, <2>7 DEF Kept
  <2> QED
    BY <2>1, <2>5, <2>8
<1>6. Shaped(h, v, Sides) /\ (~ kemLost' => Follows(h, v, Sides))
  BY <1>2, <1>4, <1>5, KeptPointwise
<1>7. Canonical(h, Sides)
  BY <1>5 DEF Canonical
<1> QED
  BY <1>1, <1>6, <1>7
-------------------------------------------------------------------------------
(* Twelve bits of each coefficient are both coefficients. *)
LEMMA BytesAre ==
  ASSUME NEW x, NEW y, x \in 0..LastTwelve, y \in 0..LastTwelve
  PROVE  Bytes(x, y) = Pair(x, y)
<1> DEFINE c0 == x % 4096
           c1 == y % 4096
           b0 == c0 % 256
           b1 == c0 \div 256 + (c1 % 16) * 16
           b2 == c1 \div 16
           r0 == b0 + (b1 % 16) * 256
           r1 == b1 \div 16 + b2 * 16
<1>1. c0 = x /\ c1 = y /\ x \in 0..4095 /\ y \in 0..4095
  <2>1. LastTwelve = 4095
    BY DEF LastTwelve
  <2>2. x \in 0..4095 /\ y \in 0..4095
    BY <2>1
  <2> QED
    BY <2>2
<1>2. Bytes(x, y) = [j \in Sides |-> IF j = 0 THEN r0 ELSE r1]
  BY DEF Bytes, Pair
<1> HIDE DEF c0, c1
<1> DEFINE h == x \div 256
           n == y % 16
<1>3. h \in 0..15 /\ x = 256 * h + (x % 256) /\ n \in 0..15 /\ y = 16 * (y \div 16) + n
  BY <1>1
<1>4. b1 = h + n * 16 /\ b0 = x % 256 /\ b2 = y \div 16
  BY <1>1
<1> HIDE DEF h, n, b1
<1>5. b1 % 16 = h /\ b1 \div 16 = n
  <2>1. h \in 0..15 /\ n \in 0..15 /\ b1 = h + n * 16
    BY <1>3, <1>4
  <2> QED
    BY <2>1
<1>6. r0 = x /\ r1 = y
  BY <1>3, <1>4, <1>5
<1> HIDE DEF r0, r1
<1> QED
  BY <1>2, <1>6 DEF Pair

LEMMA BytesKept ==
  ASSUME BytesPair, kemPoly \in [Sides -> Int]
  PROVE  kemPoly' = kemPoly /\ kemVal' = kemVal /\ ~ kemLost' /\ ~ kemReduced' /\ ~ kemLost
<1> DEFINE x == kemPoly[0]
           y == kemPoly[1]
<1>1. kemPoly' = Bytes(x, y) /\ kemVal' = kemVal /\ ~ kemLost' /\ ~ kemReduced' /\ ~ kemLost
  BY DEF BytesPair
<1>2. x \in 0..LastTwelve /\ y \in 0..LastTwelve
  <2>1. 0 \in Sides /\ 1 \in Sides
    BY DEF Sides
  <2> QED
    BY <2>1 DEF BytesPair
<1>3. kemPoly = Pair(x, y)
  BY DEF Sides, Pair
<1> HIDE DEF x, y
<1>4. Bytes(x, y) = Pair(x, y)
  BY <1>2, BytesAre
<1> QED
  BY <1>1, <1>3, <1>4
-------------------------------------------------------------------------------
KemPairKept == /\ KemKept(Sides)
               /\ kemLen = 0 /\ kemStart \in 0..127 /\ kemK \in 0..127

KemKeptInv == /\ kemJob = "pair" => KemPairKept
              /\ kemJob # "pair" => KemKept(Index) /\ ~ kemReduced
              /\ kemJob = "transformed" => kemLen = 1 /\ kemStart = 0 /\ kemK \in 0..127
              /\ kemJob \in {"inverse", "back"} => InversePosition

LEMMA PairKeptStep ==
  ASSUME KemAssumption, KemPairKept, PairNext
  PROVE  KemPairKept'
<1>1. /\ kemStart \in 0..127 /\ kemK \in 0..127 /\ kemLen = 0
      /\ Shaped(kemPoly, kemVal, Sides) /\ (~ kemLost => Follows(kemPoly, kemVal, Sides))
  BY DEF KemPairKept, KemKept
<1>2. ASSUME NEW l \in KemPairs, BasemulPair(l)
      PROVE  /\ Shaped(kemPoly', kemVal', Sides)
             /\ ~ kemLost' => Follows(kemPoly', kemVal', Sides)
             /\ kemReduced' => Canonical(kemPoly', Sides)
  <2>1. ~ kemReduced'
    BY <1>2 DEF BasemulPair
  <2> QED
    BY <1>1, <1>2, <2>1, BasemulKept
<1>3. ASSUME NEW e \in KemPairs, NEW l \in KemPairs, AccumulatePair(e, l)
      PROVE  /\ Shaped(kemPoly', kemVal', Sides)
             /\ ~ kemLost' => Follows(kemPoly', kemVal', Sides)
             /\ kemReduced' => Canonical(kemPoly', Sides)
  <2>1. ~ kemReduced'
    BY <1>3 DEF AccumulatePair
  <2> QED
    BY <1>1, <1>3, <2>1, AccumulateKept
<1>4. ASSUME ~ kemLost, NEW j \in Sides PROVE Stands(kemPoly[j], kemVal[j])
  BY <1>1, <1>4, PairStands
<1>5. ASSUME NEW l \in KemPairs, AddPair(l)
      PROVE  /\ Shaped(kemPoly', kemVal', Sides)
             /\ ~ kemLost' => Follows(kemPoly', kemVal', Sides) /\ Canonical(kemPoly', Sides)
  <2> DEFINE f == [j \in Sides |-> kemPoly[j] + l[j]]
             val == [j \in Sides |-> kemVal[j] + l[j]]
  <2>1. Reduces(f, val) /\ ~ kemLost
    BY <1>5 DEF AddPair, Reduces
  <2>2. ASSUME NEW j \in Sides PROVE Stands(f[j], val[j])
    <3>1. Stands(kemPoly[j] + l[j], kemVal[j] + l[j])
      BY <1>4, <2>1, ClientStands, StandsSum
    <3> QED
      BY <3>1
  <2> HIDE DEF f, val
  <2> QED
    BY <2>1, <2>2, ReducesKept
<1>6. ASSUME NEW l \in KemPairs, SubPair(l)
      PROVE  /\ Shaped(kemPoly', kemVal', Sides)
             /\ ~ kemLost' => Follows(kemPoly', kemVal', Sides) /\ Canonical(kemPoly', Sides)
  <2> DEFINE f == [j \in Sides |-> kemPoly[j] - l[j]]
             val == [j \in Sides |-> kemVal[j] - l[j]]
  <2>1. Reduces(f, val) /\ ~ kemLost
    BY <1>6 DEF SubPair, Reduces
  <2>2. ASSUME NEW j \in Sides PROVE Stands(f[j], val[j])
    <3>1. Stands(kemPoly[j] - l[j], kemVal[j] - l[j])
      BY <1>4, <2>1, ClientStands, StandsSum
    <3> QED
      BY <3>1
  <2> HIDE DEF f, val
  <2> QED
    BY <2>1, <2>2, ReducesKept
<1>7. ASSUME ReducePair
      PROVE  /\ Shaped(kemPoly', kemVal', Sides)
             /\ ~ kemLost' => Follows(kemPoly', kemVal', Sides) /\ Canonical(kemPoly', Sides)
  <2>1. Reduces(kemPoly, kemVal) /\ ~ kemLost
    BY <1>7 DEF ReducePair, Reduces
  <2> QED
    BY <1>4, <2>1, ReducesKept
<1>8. ASSUME BytesPair
      PROVE  /\ Shaped(kemPoly', kemVal', Sides)
             /\ ~ kemLost' => Follows(kemPoly', kemVal', Sides)
             /\ kemReduced' => Canonical(kemPoly', Sides)
  <2>1. kemPoly \in [Sides -> Int]
    <3>1. \A j \in Sides : kemPoly[j] \in Int
      BY <1>1, ShapedIs
    <3>2. kemPoly = [j \in Sides |-> kemPoly[j]]
      BY <1>1 DEF Shaped
    <3> QED
      BY <3>1, <3>2
  <2>2. kemPoly' = kemPoly /\ kemVal' = kemVal /\ ~ kemLost' /\ ~ kemReduced' /\ ~ kemLost
    BY <1>8, <2>1, BytesKept
  <2> QED
    BY <1>1, <2>2
<1>9. /\ Shaped(kemPoly', kemVal', Sides)
      /\ ~ kemLost' => Follows(kemPoly', kemVal', Sides)
      /\ ~ kemLost' /\ kemReduced' => Canonical(kemPoly', Sides)
  <2>1. ASSUME NEW ab \in KemProducts PROVE ab[1] \in KemPairs /\ ab[2] \in KemPairs
    BY DEF KemAssumption
  <2> QED
    BY <1>2, <1>3, <1>5, <1>6, <1>7, <1>8, <2>1 DEF PairNext
<1>10. kemLen' = 0 /\ kemStart' = kemStart /\ kemK' \in 0..127
  <2>1. KemMaxOps \in 0..127
    BY DEF KemAssumption
  <2>2. /\ kemLen' = kemLen /\ kemStart' = kemStart
        /\ kemK' = kemK \/ (kemK < KemMaxOps /\ kemK' = kemK + 1)
    BY DEF PairNext, BasemulPair, AddPair, SubPair, ReducePair, Reduces, AccumulatePair,
           BytesPair
  <2> QED
    BY <1>1, <2>1, <2>2
<1> QED
  BY <1>1, <1>9, <1>10 DEF KemPairKept, KemKept, Sides

LEMMA KemKeptStep ==
  ASSUME KemAssumption, KemIInv, KemKeptInv, [KemNext]_kemVars
  PROVE  KemKeptInv'
<1>1. CASE ForwardBlock
  <2>1. kemJob = "forward" /\ kemJob' = "forward" /\ kemReduced' = kemReduced
    BY <1>1 DEF ForwardBlock
  <2>2. /\ Shaped(kemPoly, kemVal, Index) /\ (~ kemLost => Follows(kemPoly, kemVal, Index))
        /\ ~ kemReduced
    BY <2>1 DEF KemKeptInv, KemKept
  <2>3. Shaped(kemPoly', kemVal', Index) /\ (~ kemLost' => Follows(kemPoly', kemVal', Index))
    BY <1>1, <2>1, <2>2, ForwardKept DEF KemIInv
  <2> QED
    BY <2>1, <2>2, <2>3 DEF KemKeptInv, KemKept, Index
<1>2. CASE ForwardReturn
  <2>1. /\ kemJob = "forward" /\ kemLen < 2 /\ kemJob' = "transformed"
        /\ kemPoly' = kemPoly /\ kemVal' = kemVal /\ kemLost' = kemLost
        /\ kemReduced' = kemReduced /\ kemLen' = kemLen /\ kemStart' = kemStart /\ kemK' = kemK
    BY <1>2 DEF ForwardReturn
  <2>2. kemLen = 1 /\ kemStart = 0 /\ kemK \in 0..127
    BY <2>1 DEF KemIInv, ForwardInv, Position, Lengths, Longer
  <2>3. KemKept(Index) /\ ~ kemReduced
    BY <2>1 DEF KemKeptInv
  <2> QED
    BY <2>1, <2>2, <2>3 DEF KemKeptInv, KemKept, Index
<1>3. CASE InverseCall
  <2>1. /\ kemJob = "transformed" /\ kemJob' = "inverse"
        /\ kemPoly' = kemPoly /\ kemVal' = kemVal /\ kemLost' = kemLost
        /\ kemReduced' = kemReduced /\ kemLen' = 2 /\ kemStart' = 0 /\ kemK' = 0
    BY <1>3 DEF InverseCall
  <2>2. KemKept(Index) /\ ~ kemReduced
    BY <2>1 DEF KemKeptInv
  <2>3. InversePosition'
    BY <2>1 DEF InversePosition, InverseLengths
  <2> QED
    BY <2>1, <2>2, <2>3 DEF KemKeptInv, KemKept, Index
<1>4. CASE InverseBlock
  <2>1. /\ kemJob = "inverse" /\ kemJob' = "inverse" /\ kemReduced' = kemReduced
        /\ kemLen <= 128 /\ NextBlock(2 * kemLen)
    BY <1>4 DEF InverseBlock
  <2>2. /\ Shaped(kemPoly, kemVal, Index) /\ (~ kemLost => Follows(kemPoly, kemVal, Index))
        /\ ~ kemReduced /\ InversePosition
    BY <2>1 DEF KemKeptInv, KemKept
  <2>3. InversePosition' /\ kemK + 1 \in 1..127
    BY <2>1, <2>2, InverseNext
  <2>4. kemLen \in Nat /\ kemLen > 0 /\ kemStart \in Nat /\ kemStart + 2 * kemLen <= 256
    BY <2>1, <2>2 DEF InversePosition, InverseLengths
  <2>5. Shaped(kemPoly', kemVal', Index) /\ (~ kemLost' => Follows(kemPoly', kemVal', Index))
    BY <1>4, <2>2, <2>3, <2>4, InverseKept
  <2> QED
    BY <2>1, <2>2, <2>3, <2>5 DEF KemKeptInv, KemKept, Index
<1>5. CASE InverseReturn
  <2>1. /\ kemJob = "inverse" /\ kemJob' = "back"
        /\ kemPoly' = kemPoly /\ kemVal' = kemVal /\ kemLost' = kemLost
        /\ kemReduced' = kemReduced /\ kemLen' = kemLen /\ kemStart' = kemStart /\ kemK' = kemK
    BY <1>5 DEF InverseReturn
  <2>2. KemKept(Index) /\ ~ kemReduced /\ InversePosition
    BY <2>1 DEF KemKeptInv
  <2>3. InversePosition'
    BY <2>1, <2>2 DEF InversePosition, InverseLengths
  <2> QED
    BY <2>1, <2>2, <2>3 DEF KemKeptInv, KemKept, Index
<1>6. CASE kemJob = "pair" /\ PairNext
  <2>1. kemJob' = "pair"
    BY <1>6 DEF PairNext, BasemulPair, AddPair, SubPair, ReducePair, Reduces, AccumulatePair,
                BytesPair
  <2>2. KemPairKept'
    BY <1>6, PairKeptStep DEF KemKeptInv
  <2> QED
    BY <2>1, <2>2 DEF KemKeptInv
<1>7. CASE UNCHANGED kemVars
  <2>1. /\ kemJob' = kemJob /\ kemPoly' = kemPoly /\ kemVal' = kemVal /\ kemLost' = kemLost
        /\ kemReduced' = kemReduced /\ kemLen' = kemLen /\ kemStart' = kemStart /\ kemK' = kemK
    BY <1>7 DEF kemVars
  <2>2. InversePosition => InversePosition'
    BY <2>1 DEF InversePosition, InverseLengths
  <2>3. (KemKept(Index) => KemKept(Index)') /\ (KemPairKept => KemPairKept')
    BY <2>1 DEF KemKept, KemPairKept, Index, Sides
  <2> QED
    BY <2>1, <2>2, <2>3 DEF KemKeptInv
<1> QED
  BY <1>1, <1>2, <1>3, <1>4, <1>5, <1>6, <1>7 DEF KemNext

(* What a computation starts with stands for its residues. *)
LEMMA KeptAtFirst ==
  ASSUME NEW S, kemPoly \in [S -> Int], kemVal = Residues(kemPoly),
         \A j \in S : kemPoly[j] \in Int16, ~ kemReduced
  PROVE  KemKept(S)
<1>1. DOMAIN kemPoly = S
  OBVIOUS
<1>2. kemVal = [j \in S |-> kemPoly[j] % KYBER_Q]
  BY <1>1 DEF Residues
<1>3. \A j \in S : kemPoly[j] % KYBER_Q \in 0..(KYBER_Q - 1)
  BY ResidueRange
<1>4. kemVal \in [S -> 0..(KYBER_Q - 1)]
  BY <1>2, <1>3
<1>5. kemPoly \in [S -> Int16]
  OBVIOUS
<1>6. Follows(kemPoly, kemVal, S)
  BY <1>2, Zenon DEF Follows
<1> QED
  BY <1>4, <1>5, <1>6 DEF KemKept, Shaped

LEMMA KemKeptInitial ==
  ASSUME KemAssumption, KemInit
  PROVE  KemKeptInv
<1>1. KemIInv
  BY KemInitial
<1>2. kemVal = Residues(kemPoly) /\ kemReduced = FALSE /\ kemK = 0
  BY DEF KemInit
<1>3. CASE kemJob = "forward"
  <2>1. ForwardInv
    BY <1>1, <1>3 DEF KemIInv
  <2>2. kemPoly \in [Index -> Int]
    BY <2>1 DEF ForwardInv
  <2>3. ASSUME NEW j \in Index PROVE kemPoly[j] \in Int16
    <3>1. kemPoly \in KemInputs
      BY <1>3 DEF KemInit
    <3>2. LastTwelve = 4095 /\ LastTwelve \in Int
      BY DEF LastTwelve
    <3> DEFINE x == kemPoly[j]
    <3>3. x \in 0..LastTwelve
      BY <3>1 DEF KemAssumption
    <3> HIDE DEF x
    <3>4. x \in Int /\ -32768 <= x /\ x <= 32767
      BY <3>2, <3>3
    <3> QED
      BY <3>4, WordRange DEF x
  <2>4. KemKept(Index)
    BY <1>2, <2>2, <2>3, KeptAtFirst
  <2> QED
    BY <1>2, <1>3, <2>4 DEF KemKeptInv
<1>4. CASE kemJob = "pair"
  <2>1. PairInv
    BY <1>1, <1>4 DEF KemIInv
  <2>2. kemPoly \in [Sides -> Int] /\ kemStart \in 0..127
    BY <2>1 DEF PairInv
  <2>3. kemPoly \in KemPairs /\ kemLen = 0
    BY <1>4 DEF KemInit
  <2>4. ASSUME NEW j \in Sides PROVE kemPoly[j] \in Int16
    <3> DEFINE x == kemPoly[j]
    <3>1. x \in Int /\ -1665 <= x /\ x <= 4095
      BY <2>3, ClientPair
    <3> HIDE DEF x
    <3> QED
      BY <3>1, WordRange DEF x
  <2>5. KemKept(Sides)
    BY <1>2, <2>2, <2>4, KeptAtFirst
  <2> QED
    BY <1>2, <1>4, <2>2, <2>3, <2>5 DEF KemKeptInv, KemPairKept
<1> QED
  BY <1>3, <1>4 DEF KemInit
-------------------------------------------------------------------------------
(* The two properties. *)
LEMMA KeptIsTyped ==
  ASSUME KemIInv, KemKeptInv
  PROVE  KemTypeOK
<1>1. kemJob \in {"forward", "transformed", "inverse", "back", "pair"}
  BY DEF KemIInv
<1>2. ASSUME NEW S, KemKept(S)
      PROVE  \A j \in DOMAIN kemPoly : kemPoly[j] \in Int16 /\ kemVal[j] \in 0..(KYBER_Q - 1)
  <2>1. Shaped(kemPoly, kemVal, S)
    BY <1>2 DEF KemKept
  <2>2. DOMAIN kemPoly = S
    BY <2>1 DEF Shaped
  <2> QED
    BY <2>1, <2>2, ShapedIs
<1>3. \A j \in DOMAIN kemPoly : kemPoly[j] \in Int16 /\ kemVal[j] \in 0..(KYBER_Q - 1)
  <2>1. KemKept(Sides) \/ KemKept(Index)
    BY DEF KemKeptInv, KemPairKept
  <2> QED
    BY <1>2, <2>1
<1>4. /\ kemLen \in {0, 1, 2, 4, 8, 16, 32, 64, 128, 256}
      /\ kemStart \in Index /\ kemK \in 0..127
  <2>1. CASE kemJob = "forward"
    BY <2>1 DEF KemIInv, ForwardInv, Position, Lengths, Longer, Index
  <2>2. CASE kemJob = "transformed"
    BY <2>2 DEF KemKeptInv, Index
  <2>3. CASE kemJob \in {"inverse", "back"}
    BY <2>3 DEF KemKeptInv, InversePosition, InverseLengths, Index
  <2>4. CASE kemJob = "pair"
    BY <2>4 DEF KemKeptInv, KemPairKept, Index
  <2> QED
    BY <1>1, <2>1, <2>2, <2>3, <2>4
<1> QED
  BY <1>1, <1>3, <1>4 DEF KemTypeOK

LEMMA KeptIsKept ==
  ASSUME KemKeptInv
  PROVE  KemKeepsResidue
<1> SUFFICES ASSUME ~ kemLost
             PROVE  /\ \A j \in DOMAIN kemPoly : kemPoly[j] % KYBER_Q = kemVal[j]
                    /\ kemReduced => kemPoly = kemVal
  BY DEF KemKeepsResidue
<1>1. KemKept(Sides) \/ KemKept(Index)
  BY DEF KemKeptInv, KemPairKept
<1>2. ASSUME NEW S, KemKept(S)
      PROVE  /\ \A j \in DOMAIN kemPoly : kemPoly[j] % KYBER_Q = kemVal[j]
             /\ kemReduced => kemPoly = kemVal
  <2>1. /\ Shaped(kemPoly, kemVal, S) /\ Follows(kemPoly, kemVal, S)
        /\ (kemReduced => Canonical(kemPoly, S))
    BY <1>2 DEF KemKept
  <2>2. DOMAIN kemPoly = S /\ DOMAIN kemVal = S
    BY <2>1 DEF Shaped
  <2>3. \A j \in S : kemPoly[j] % KYBER_Q = kemVal[j]
    BY <2>1, Zenon DEF Follows
  <2>4. ASSUME kemReduced PROVE kemPoly = kemVal
    <3>1. ASSUME NEW j \in S PROVE kemPoly[j] = kemVal[j]
      <4> DEFINE x == kemPoly[j]
      <4>1. x \in 0..(KYBER_Q - 1) /\ x % KYBER_Q = kemVal[j]
        BY <2>1, <2>3, <2>4 DEF Canonical
      <4> HIDE DEF x
      <4>2. x % KYBER_Q = x
        BY <4>1, QIsPositive, Remainder
      <4> QED
        BY <4>1, <4>2 DEF x
    <3>2. kemPoly = [j \in S |-> kemPoly[j]] /\ kemVal = [j \in S |-> kemVal[j]]
      BY <2>1 DEF Shaped
    <3> QED
      BY <3>1, <3>2
  <2> QED
    BY <2>2, <2>3, <2>4
<1> QED
  BY <1>1, <1>2
-------------------------------------------------------------------------------
KemPart == part = "kem" => KemIInv /\ KemKeptInv

LEMMA KemAlways == ModularSpec => []KemPart
<1>1. KemAssumption
  BY KemAssumption
<1>2. ModularInit => KemPart
  <2>1. ModularInit /\ part = "kem" => KemInit
    BY DEF ModularInit, NumberInit
  <2> QED
    BY <1>1, <2>1, KemInitial, KemKeptInitial DEF KemPart
<1>3. KemPart /\ [ModularNext]_modularVars => KemPart'
  <2> SUFFICES ASSUME KemPart, [ModularNext]_modularVars, part' = "kem"
               PROVE  KemIInv' /\ KemKeptInv'
    BY DEF KemPart
  <2>1. part = "kem" /\ [KemNext]_kemVars
    <3>1. CASE NumberNext /\ UNCHANGED latticeVars
      BY <3>1 DEF NumberNext, FieldNext, ExpNext, ChainNext, SolinasNext, ProductNext,
                  ScalarNext, LimbsNext, latticeVars
    <3>2. CASE LatticeNext
      BY <3>2 DEF LatticeNext
    <3>3. CASE UNCHANGED modularVars
      BY <3>3 DEF modularVars, latticeVars
    <3> QED
      BY <3>1, <3>2, <3>3 DEF ModularNext
  <2> QED
    BY <1>1, <2>1, KemStep, KemKeptStep DEF KemPart
<1> QED
  BY <1>2, <1>3, PTL DEF ModularSpec
-------------------------------------------------------------------------------
(* No coefficient, residue or variable of the loops of ML-KEM's transforms and
   operations on pairs is out of its range: the inverse transform, whose sums may
   wrap, stays within its words and its tables (src/mlkem.rs). *)
THEOREM KemTypeCorrect == ModularSpec => [](part = "kem" => ModularTypeOK)
<1>1. KemPart => (part = "kem" => ModularTypeOK)
  BY KeptIsTyped DEF KemPart, ModularTypeOK
<1> QED
  BY <1>1, KemAlways, PTL

(* As long as every sum fits its word, each coefficient of ML-KEM stands for the
   residue that exact arithmetic modulo q gives: the reductions of Plantard and of
   Barrett multiply by what the tables' words stand for and lose no remainder, on
   every path through the transforms and the operations on pairs. *)
THEOREM KemResiduesKept == ModularSpec => [](part = "kem" => KeepsResidue)
<1>1. KemPart => (part = "kem" => KeepsResidue)
  BY KeptIsKept DEF KemPart, KeepsResidue
<1> QED
  BY <1>1, KemAlways, PTL
===============================================================================
