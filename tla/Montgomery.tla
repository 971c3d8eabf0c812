------------------------------ MODULE Montgomery ------------------------------
(***************************************************************************)
(* The arithmetic of src/backend/portable.rs on numbers of N words: the    *)
(* Montgomery product mul_mont word by word (CIOS), and add_mod, sub_mod   *)
(* and div2_n, each of which ends in one conditional correction.           *)
(* A slice of words is modelled by the number it holds, the word after it  *)
(* (the carry, t[n]) included.  A caller (Fe, Scalar) keeps applying       *)
(* operations to a result: a is the running value, b the other operand.    *)
(***************************************************************************)
EXTENDS Integers

CONSTANTS W,       \* the number of values of a word: 2^32 in the code
          N,       \* words of a number
          Pow,     \* Pow[j] is W^j
          Moduli   \* the moduli p

R == Pow[N]

ASSUME MontgomeryAssumption ==
  /\ W \in Nat /\ W > 1
  /\ N \in Nat /\ N > 0
  /\ Pow \in [0..N -> Nat]
  /\ Pow[0] = 1
  /\ \A j \in 0..(N - 1) : Pow[j + 1] = W * Pow[j]
  /\ Moduli \subseteq 2..(R - 1)

VARIABLES p, n0inv,   \* the modulus and -p^-1 mod W, constants of the curve
          a, b,       \* the operands
          op,         \* the operation that runs, "ready" between two
          i, t,       \* mul_mont's word index and its accumulator t[0..n]
          rest        \* the words b[i], ..., b[n-1], as a number

vars == <<p, n0inv, a, b, op, i, t, rest>>

Ops == {"add", "sub", "div2", "mul"}

Init == /\ p \in Moduli
        /\ n0inv \in {x \in 0..(W - 1) : (x * p) % W = W - 1}
        /\ a \in 0..(p - 1) /\ b \in 0..(p - 1)
        /\ op = "ready" /\ i = 0 /\ t = 0 /\ rest = 0
-------------------------------------------------------------------------------
(* Mutant of CondSub: the carry word is not looked at. *)
CondSubNoCarry(x) == LET low == x % R IN IF low < p THEN low ELSE low - p

(* x - p, unless the carry word cannot pay for the borrow: cond_sub_p. *)
CondSub(x) ==
  LET low    == x % R
      borrow == IF low < p THEN 1 ELSE 0
  IN  IF x \div R < borrow THEN low ELSE (low - p) % R

(* Mutant of SubMod: p is never added back. *)
SubModRaw(x, y) == (x - y) % R

(* a - b, with p added back when it borrows: sub_mod. *)
SubMod(x, y) == (((x - y) % R) + (IF x < y THEN p ELSE 0)) % R

(* x or x + p, whichever is even, shifted right with its carry: div2_n. *)
Div2(x) == (IF x % 2 = 1 THEN x + p ELSE x) \div 2

(* t + a*b[i]: the first inner loop, in n + 2 words. *)
Accumulate(x, word) == x + a * word

(* Mutant of ReduceWord: the carry into the top word is lost. *)
ReduceWordNoTop(x) == LET m == ((x % W) * n0inv) % W
                      IN  ((x + m * p) \div W) % R

(* The multiple of p that clears the low word is added, the word is dropped,
   and t[n] takes what is left of the carry, wrapping: the second loop. *)
ReduceWord(x) == LET m == ((x % W) * n0inv) % W
                 IN  ((x + m * p) \div W) % (W * R)

-------------------------------------------------------------------------------
Call == /\ op = "ready"
        /\ op' \in Ops
        /\ i' = 0 /\ t' = 0 /\ rest' = b
        /\ UNCHANGED <<p, n0inv, a, b>>

Return(x) == /\ a' = x
             /\ op' = "ready" /\ i' = 0 /\ t' = 0 /\ rest' = 0
             /\ UNCHANGED <<p, n0inv, b>>

Add == op = "add" /\ Return(CondSub(a + b))

Sub == op = "sub" /\ Return(SubMod(a, b))

Halve == op = "div2" /\ p % 2 = 1 /\ Return(Div2(a))

(* One turn of mul_mont's outer loop. *)
MulWord == /\ op = "mul" /\ i < N
           /\ t' = ReduceWord(Accumulate(t, rest % W))
           /\ rest' = rest \div W
           /\ i' = i + 1
           /\ UNCHANGED <<p, n0inv, a, b, op>>

MulReturn == op = "mul" /\ i = N /\ Return(CondSub(t))

Next == Call \/ Add \/ Sub \/ Halve \/ MulWord \/ MulReturn

Spec == Init /\ [][Next]_vars
-------------------------------------------------------------------------------
TypeOK == /\ p \in Moduli /\ n0inv \in 0..(W - 1)
          /\ a \in Nat /\ b \in Nat /\ t \in Nat /\ rest \in Nat
          /\ op \in Ops \cup {"ready"}
          /\ i \in 0..N

(* However long operations are chained, operands stay below p, and "CIOS leaves
   t < 2p", so that the extra word is 0 or 1 and one conditional subtraction
   is enough (mul_mont). *)
Reduced == a < p /\ b < p /\ t < 2 * p

(* An addition and a subtraction return the sum and the difference mod p, a
   halving the number whose double is the operand (add_mod, sub_mod, div2_n). *)
AddsSubtractsHalves ==
  [][/\ op = "add" /\ op' = "ready" => a' = (a + b) % p
     /\ op = "sub" /\ op' = "ready" => a' = (a - b) % p
     /\ op = "div2" /\ op' = "ready" => (a' + a') % p = a]_vars

(* A product returns a * b * R^-1 mod p, R = W^N (mul_mont). *)
MultipliesMontgomery ==
  [][op = "mul" /\ op' = "ready" => (a' * R) % p = (a * b) % p]_vars
==============================================================================
