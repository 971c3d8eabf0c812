-------------------------------- MODULE EdScalar --------------------------------
(***************************************************************************)
(* Scalar of src/curve25519/ed25519.rs: arithmetic modulo the group order  *)
(* L, by products that are not reduced and a Montgomery reduction word by  *)
(* word that ends with one subtraction of L.  Constant expressions;        *)
(* EdReduction runs them one word at a time.                               *)
(***************************************************************************)
EXTENDS Integers

CONSTANTS W, N,   \* the number of values of a word, words of a scalar
          L       \* the order, odd

(* The weight of word k of a number. *)
Weight(k) == LET w[j \in 0..k] == IF j = 0 THEN 1 ELSE W * w[j - 1] IN w[k]

Capacity == Weight(N)
R == Capacity % L
RR == (R * R) % L
LFACTOR == CHOOSE f \in 0..(W - 1) : (f * L) % W = W - 1

(* Mutant of SubL: nothing is added back. *)
SubLRaw(v) == (v - L) % Capacity

(* Sub of L from any number of N words: L is added back when it borrows. *)
SubL(v) == (((v - L) % Capacity) + (IF v < L THEN L ELSE 0)) % Capacity

(* One turn of montgomery_reduce: word i of t becomes zero. *)
ClearWord(t, i) ==
  LET m == (((t \div Weight(i)) % W) * LFACTOR) % W
  IN  (t + m * L * Weight(i)) % (Capacity * Capacity)

MontgomeryReduce(t) ==
  LET cleared[i \in 0..N] == IF i = 0 THEN t ELSE ClearWord(cleared[i - 1], i - 1)
  IN  SubL(cleared[N] \div Capacity)

(* raw_mul returns the product, which always fits: "debug_assert_eq!(carry, 0)". *)
Reduce(v) == MontgomeryReduce(v * R)

(* The sum of the two products that from_bytes_mod_order_wide reduces. *)
WideTerms(v) == (v % Capacity) * R + (v \div Capacity) * RR

FromBytesModOrderWide(v) == MontgomeryReduce(WideTerms(v))

(* from_canonical_bytes returns a scalar. *)
Canonical(v) == v < Capacity \div 2 /\ Reduce(v) = v
==============================================================================
