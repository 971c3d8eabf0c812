------------------------------ MODULE EdReduction ------------------------------
(***************************************************************************)
(* The reductions of src/curve25519/ed25519.rs one word at a time: reduce, *)
(* from_bytes_mod_order_wide, and Mul, which reduces twice.                *)
(***************************************************************************)
EXTENDS EdScalar

CONSTANTS Wides,  \* bound: the inputs of from_bytes_mod_order_wide
          Narrows \* bound: those of from_bytes_mod_order, and factors

(* Three times the order fits in N words, and minus its inverse in one. *)
EdReductionParameters ==
  /\ W \in Nat \ {0} /\ N \in Nat
  /\ L \in Nat /\ L % 2 = 1 /\ 3 * L <= Capacity
  /\ \E f \in 0..(W - 1) : (f * L) % W = W - 1
  /\ Wides \subseteq 0..(Capacity * Capacity - 1) /\ Narrows \subseteq 0..(Capacity - 1)

VARIABLES call,   \* "reduce", "wide" or "mul"
          a, b,   \* the input, or the factors
          i, t,   \* montgomery_reduce's loop index and its words t[0..2N]
          passes, \* reductions done
          result

vars == <<call, a, b, i, t, passes, result>>

Loaded == CASE call = "reduce" -> a * R
            [] call = "wide"   -> WideTerms(a)
            [] call = "mul"    -> a * b

(* Factors are as large as the first reduction of Mul takes. *)
Init == /\ \/ call = "reduce" /\ a \in Narrows /\ b = 0
           \/ call = "wide" /\ a \in Wides /\ b = 0
           \/ call = "mul" /\ a \in Narrows /\ b \in Narrows /\ a * b < L * Capacity
        /\ i = 0 /\ passes = 0 /\ result = 0
        /\ t = Loaded
-------------------------------------------------------------------------------
ReduceWord ==
  /\ i < N
  /\ t' = ClearWord(t, i)
  /\ i' = i + 1
  /\ UNCHANGED <<call, a, b, passes, result>>

(* The upper half, less L.  A product of two scalars goes through again, times RR. *)
Reduced ==
  /\ i = N
  /\ IF call = "mul" /\ passes = 0
     THEN t' = SubL(t \div Capacity) * RR /\ i' = 0 /\ UNCHANGED result
     ELSE result' = SubL(t \div Capacity) /\ i' = N + 1 /\ UNCHANGED t
  /\ passes' = passes + 1
  /\ UNCHANGED <<call, a, b>>

Next == ReduceWord \/ Reduced

Spec == Init /\ [][Next]_vars
-------------------------------------------------------------------------------
TypeOK == /\ i \in 0..(N + 1) /\ t \in 0..(Capacity * Capacity - 1) /\ passes \in 0..2
          /\ result \in 0..(Capacity - 1)

(* A scalar is what it should be modulo L, and below L, which is what
   from_canonical_bytes compares with, except from 2N words: those may leave
   a number below 2 L (reduce, Mul, from_bytes_mod_order_wide). *)
ResultIsResidue ==
  i = N + 1 =>
    LET value == IF call = "mul" THEN a * b ELSE a
    IN  /\ result % L = value % L
        /\ result < IF call = "wide" THEN 2 * L ELSE L
==============================================================================
