--------------------------------- MODULE Comb ----------------------------------
(***************************************************************************)
(* mul_base of src/point.rs, k G by a fixed-base comb, in its two forms:   *)
(* PointJacobian::mul_base, which keeps the accumulator when a digit is    *)
(* zero, and Point::mul_base with comb_iteration, which adds the identity  *)
(* entry.  One step is one table entry; the additions are Curve's.         *)
(***************************************************************************)
EXTENDS Curve

CONSTANTS D, T,     \* bits of a block, number of tables (comb_d, comb_t)
          CombScalars   \* bound: the scalars tried

Blocks == 0..3
Bits   == 0..(4 * D * T - 1)
BitOf(k, j) == (k \div 2 ^ j) % 2

(* The multiple of G that an entry is: gen_comb.py's sum of 2^shift G. *)
EntryMultiple(t, digit) ==
  LET sum[b \in 0..4] ==
        IF b = 4 THEN 0
        ELSE BitOf(digit, b) * 2 ^ ((t * 4 + b) * D) + sum[b + 1]
  IN  sum[0] % Order

(* Only entry 0 is the identity: the sums stay below the order on the real
   curves, and are not multiples of it here. *)
CombParameters ==
  /\ D \in Nat \ {0} /\ T \in Nat \ {0}
  /\ CombScalars \subseteq 0..(2 ^ (4 * D * T) - 1)
  /\ \A t \in 0..(T - 1), digit \in 1..15 : EntryMultiple(t, digit) # 0

VARIABLES form,  \* "jacobian" or "homogeneous"
          k,     \* the scalar, any value of its limbs
          i, t,  \* the bit of each block, the table; i < 0 at the end
          acc    \* the accumulator

vars == <<form, k, i, t, acc>>

Init == /\ form \in {"jacobian", "homogeneous"} /\ k \in CombScalars
        /\ i = D - 1 /\ t = 0 /\ acc = Identity

(* Bit i of each of the four blocks of table t. *)
Digit == BitOf(k, (t * 4) * D + i) + 2 * BitOf(k, (t * 4 + 1) * D + i)
           + 4 * BitOf(k, (t * 4 + 2) * D + i) + 8 * BitOf(k, (t * 4 + 3) * D + i)

(* Mutant of EntryAffine: the identity is stored as (0, 0). *)
EntryAffineZero(digit) ==
  IF digit = 0 THEN <<0, 0>> ELSE Multiple[EntryMultiple(t, digit)]

(* The table entry: affine, and (0, 1) for digit 0. *)
EntryAffine(digit) ==
  IF digit = 0 THEN <<0, 1>> ELSE Multiple[EntryMultiple(t, digit)]

(* The digit selects the entry; digit 0 pairs it with Z = 0, or leaves the
   accumulator as it was. *)
AddEntry(form_, a, digit) ==
  LET e == EntryAffine(digit)
  IN  IF form_ = "homogeneous"
      THEN PointAdd(a, Pt(e[1], e[2], IF digit = 0 THEN 0 ELSE 1))
      ELSE IF digit = 0 THEN a ELSE JacAddMixed(a, e[1], e[2])

Doubled(form_, a) == IF form_ = "homogeneous" THEN PointAdd(a, a) ELSE JacDouble(a)

Iterate ==
  /\ i >= 0
  /\ acc' = AddEntry(form, IF t = 0 THEN Doubled(form, acc) ELSE acc, Digit)
  /\ IF t + 1 < T THEN t' = t + 1 /\ UNCHANGED i ELSE t' = 0 /\ i' = i - 1
  /\ UNCHANGED <<form, k>>

Next == Iterate

Spec == Init /\ [][Next]_vars
-------------------------------------------------------------------------------
Affine == IF form = "homogeneous" THEN PointToAffine(acc) ELSE JacToAffine(acc)

TypeOK == /\ i \in -1..(D - 1) /\ t \in 0..(T - 1)
          /\ {acc.x, acc.y, acc.z} \subseteq Field

(* The bits of the scalar that have been read, each at the weight it has now:
   bit j of a block, read when i = j, is doubled once for every turn since. *)
Read ==
  LET shift(j) == (j \div D) * D + (j % D) - i - IF t = 0 THEN 1 ELSE 0
      read == {j \in Bits : j % D > i \/ (j % D = i /\ (j \div D) \div 4 < t)}
      sum[n \in 0..(4 * D * T)] ==
        IF n = 0 THEN 0
        ELSE sum[n - 1] + IF n - 1 \in read THEN BitOf(k, n - 1) * 2 ^ shift(n - 1)
                          ELSE 0
  IN  sum[4 * D * T]

(* At every table entry the accumulator is the multiple of G that the bits read
   so far stand for, in both forms and whatever zero digits, repeated points
   or opposite points come up on the way; at the end it is k G. *)
ComputesMultiple ==
  /\ Affine = Multiple[Read % Order]
  /\ i < 0 => Affine = Multiple[k % Order]
==============================================================================
