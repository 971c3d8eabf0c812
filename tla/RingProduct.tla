------------------------------ MODULE RingProduct -----------------------------
(***************************************************************************)
(* mul_ring of src/mlkem.rs and src/mldsa.rs on the portable build: the    *)
(* schoolbook product of two polynomials modulo X^N + 1 and q.  The two    *)
(* are the same code with accumulators of 32 and of 64 bits.  A turn of    *)
(* the outer loop is a step; an addition the accumulator cannot hold ends  *)
(* the call, as it does with overflow checks (without, it wraps).          *)
(***************************************************************************)
EXTENDS Integers

CONSTANTS RingN,     \* coefficients of a polynomial: 256
          RingQ,     \* the modulus: 3329 or 8380417
          AccMax,    \* the greatest accumulator: 2^31 - 1 or 2^63 - 1
          RingPolys  \* bound: the factors, with reduced coefficients

Degrees == 0..(RingN - 1)

ASSUME RingAssumption ==
  /\ RingN \in Nat \ {0} /\ RingQ \in Nat \ {0} /\ AccMax \in Nat
  /\ RingPolys \subseteq [Degrees -> 0..(RingQ - 1)]

VARIABLES lhs, rhs,   \* self and other
          turn,       \* the outer loop's i
          prod,       \* the 2N accumulators
          stage,      \* "multiply", "returned" or "overflow"
          out         \* the coefficients returned

ringVars == <<lhs, rhs, turn, prod, stage, out>>

Slots == 0..(2 * RingN - 1)

RingInit == /\ lhs \in RingPolys /\ rhs \in RingPolys
            /\ turn = 0
            /\ prod = [k \in Slots |-> 0]
            /\ stage = "multiply"
            /\ out = [k \in Degrees |-> 0]

(* Mutant of Term: the inner loop stops one coefficient early. *)
TermShort(k) == IF k - turn \in 0..(RingN - 2) THEN lhs[turn] * rhs[k - turn] ELSE 0

(* What this turn adds to accumulator k. *)
Term(k) == IF k - turn \in Degrees THEN lhs[turn] * rhs[k - turn] ELSE 0

RingTurn ==
  /\ stage = "multiply" /\ turn < RingN
  /\ IF \E k \in Slots : prod[k] > AccMax - Term(k)
     THEN stage' = "overflow" /\ UNCHANGED <<turn, prod>>
     ELSE /\ prod' = [k \in Slots |-> prod[k] + Term(k)]
          /\ turn' = turn + 1
          /\ UNCHANGED stage
  /\ UNCHANGED <<lhs, rhs, out>>

(* The remainder of the language, with the sign of the dividend. *)
Rem(x, m) == IF x < 0 THEN -((-x) % m) ELSE x % m

(* Mutant of Folded: a negative remainder is returned. *)
FoldedRaw(k) == Rem(prod[k] - prod[k + RingN], RingQ)

(* X^N = -1, and the remainder in [0, q). *)
Folded(k) == LET c == Rem(prod[k] - prod[k + RingN], RingQ)
             IN  IF c < 0 THEN c + RingQ ELSE c

RingReturn ==
  /\ stage = "multiply" /\ turn = RingN
  /\ out' = [k \in Degrees |-> Folded(k)]
  /\ stage' = "returned"
  /\ UNCHANGED <<lhs, rhs, turn, prod>>

RingNext == RingTurn \/ RingReturn

RingSpec == RingInit /\ [][RingNext]_ringVars
-------------------------------------------------------------------------------
(* Reference: the coefficient of X^k in the product modulo X^N + 1 and q. *)
Coefficient(k) ==
  LET Summand(i) == IF i <= k THEN lhs[i] * rhs[k - i]
                    ELSE RingQ * RingQ - lhs[i] * rhs[k + RingN - i]
      sum[n \in 0..RingN] == IF n = 0 THEN 0 ELSE (sum[n - 1] + Summand(n - 1)) % RingQ
  IN  sum[RingN]

(* "Full ring multiplication c(X) = a(X) b(X) (mod X^256 + 1) (mod 3329)" for
   reduced factors: the call returns, and returns the product (mul_ring). *)
ReturnsProduct ==
  /\ stage # "overflow"
  /\ stage = "returned" => \A k \in Degrees : out[k] = Coefficient(k)
-------------------------------------------------------------------------------
(* The factors with the greatest sums, for a run at the size of ML-KEM. *)
GreatestPolys == {[k \in Degrees |-> RingQ - 1]}
===============================================================================
