-------------------------------- MODULE Solinas --------------------------------
(***************************************************************************)
(* Field arithmetic of src/secp256k1.rs modulo p = R - omega, where        *)
(* omega = W + Low is a little more than a word: add, sub, neg, and        *)
(* secp256k1_reduce, which folds the upper half of a product into the      *)
(* lower one by R = omega (mod p), twice, and a last carry after that.     *)
(* A slice of words is modelled by the number it holds.                    *)
(***************************************************************************)
EXTENDS Integers

CONSTANTS W,    \* the number of values of a word: 2^32 in the code
          N,    \* words of a number: 8
          Pow,  \* Pow[j] is W^j
          Low   \* 0x3D1

R == Pow[N]
Omega == W + Low
P == R - Omega   \* SECP256K1_P

(* The last carry can be folded without another one. *)
SolinasParameters ==
  /\ W \in Nat /\ W > 1 /\ N \in Nat /\ Low \in Nat
  /\ R \in Nat /\ Omega * (Omega + 1) <= R

VARIABLES x, y,    \* the operands; x takes each result
          job,     \* "ready", or what runs
          hi, lo,  \* product[8..15] and product[0..7], then tmp[8..9] and res
          carry    \* c1 or c2

vars == <<x, y, job, hi, lo, carry>>

Jobs == {"add", "sub", "neg", "mul"}
Stages == {"fold", "fold again", "fold carry", "correct"}

Init == /\ x \in 0..(P - 1) /\ y \in 0..(P - 1)   \* from_bytes_be lets no other pass
        /\ job = "ready" /\ hi = 0 /\ lo = 0 /\ carry = 0
-------------------------------------------------------------------------------
(* Mutant of AddMod: a sum that needs one bit more is not reduced. *)
AddModNoCarry(a, b) == LET sum == (a + b) % R IN IF sum >= P THEN sum - P ELSE sum

AddMod(a, b) == LET sum   == (a + b) % R
                    large == (a + b) \div R
                IN  IF large # 0 \/ sum >= P THEN (sum - P) % R ELSE sum

SubMod(a, b) == IF a < b THEN (((a - b) % R) + P) % R ELSE a - b

Neg(a) == IF a = 0 THEN a ELSE SubMod(0, a)

(* One turn of sub_p_if_gte, which takes two; the second is left at once when
   the first subtracts nothing. *)
SubIfGte(a) == IF a >= P THEN a - P ELSE a

Call == /\ job = "ready"
        /\ job' \in Jobs
        /\ UNCHANGED <<x, y, hi, lo, carry>>

Return(v) == /\ x' = v /\ job' = "ready"
             /\ hi' = 0 /\ lo' = 0 /\ carry' = 0 /\ UNCHANGED y

Add == job = "add" /\ Return(AddMod(x, y))
Sub == job = "sub" /\ Return(SubMod(x, y))
Negate == job = "neg" /\ Return(Neg(x))

(* comba_mul_8 or comba_sqr_8 (see Comba), or the assembly product. *)
Multiply == /\ job = "mul" /\ job' = "fold"
            /\ hi' = (x * y) \div R /\ lo' = (x * y) % R
            /\ UNCHANGED <<x, y, carry>>

(* Steps 1 and 2: tmp = omega * hi; res = lo + tmp[0..7], with carry c1. *)
Fold == /\ job = "fold" /\ job' = "fold again"
        /\ LET tmp == Omega * hi
               sum == lo + (tmp % R)
           IN  hi' = tmp \div R /\ lo' = sum % R /\ carry' = sum \div R
        /\ UNCHANGED <<x, y>>

(* Steps 3 and 4: tmp2 = omega * (tmp[8..9] + c1) is added, with carry c2. *)
FoldAgain == /\ job = "fold again" /\ job' = "fold carry"
             /\ LET tmp2 == (Omega * hi + Omega * carry) % R
                    sum  == lo + tmp2
                IN  hi' = 0 /\ lo' = sum % R /\ carry' = sum \div R
             /\ UNCHANGED <<x, y>>

(* Mutant of CarryFolded: c2 is dropped. *)
CarryDropped(res, c) == res

(* c2 * omega is added; a carry out of this would be lost. *)
CarryFolded(res, c) == (res + c * Omega) % R

FoldCarry == /\ job = "fold carry" /\ job' = "correct"
             /\ lo' = CarryFolded(lo, carry) /\ carry' = 0
             /\ UNCHANGED <<x, y, hi>>

Correct == job = "correct" /\ Return(SubIfGte(SubIfGte(lo)))

Next == Call \/ Add \/ Sub \/ Negate \/ Multiply \/ Fold \/ FoldAgain \/ FoldCarry \/ Correct

Spec == Init /\ [][Next]_vars
-------------------------------------------------------------------------------
TypeOK == /\ x \in Nat /\ y \in Nat
          /\ job \in Jobs \cup Stages \cup {"ready"}
          /\ hi \in Nat /\ lo \in 0..(R - 1) /\ carry \in Nat

(* The number that the words and carries of a product stand for: carries weigh
   R, as does what is left to fold. *)
Pending == lo + R * (hi + carry)

(* However long operations are chained, operands stay below p, and no fold loses
   a carry: what is pending stays congruent to the product (FieldElement,
   secp256k1_reduce). *)
KeepsResidue == /\ x < P /\ y < P
                /\ job \in Stages => (Pending - x * y) % P = 0

ReturnsModP == /\ job = "add" => x' = (x + y) % P
               /\ job = "sub" => x' = (x - y) % P
               /\ job = "neg" => x' = (0 - x) % P
               /\ job = "correct" => x' = (x * y) % P

(* Each operation returns the sum, difference, opposite or product mod p. *)
ComputesModP == [][ReturnsModP]_vars
==============================================================================
