------------------------------- MODULE MulScalar -------------------------------
(***************************************************************************)
(* PointJacobian::mul_scalar of src/point.rs: the signed odd recoding of   *)
(* an odd scalar into digits of four bits, and the ladder over a table of  *)
(* the odd multiples P, 3P, ..., 15P.  A point is the multiple of P it is, *)
(* modulo the order of P; PointArith checks the additions.                 *)
(***************************************************************************)
EXTENDS Integers

CONSTANTS Order,      \* order of P, an odd prime (CurveParams.order)
          NumNibbles  \* digits of a scalar (8 N in the code)

Pow16(n) == LET p[m \in 0..n] == IF m = 0 THEN 1 ELSE 16 * p[m - 1] IN p[n]

MulScalarParameters ==
  /\ NumNibbles \in Nat /\ NumNibbles > 1
  /\ Order \in Nat /\ Order % 2 = 1 /\ 1 < Order /\ Order < Pow16(NumNibbles)

VARIABLES phase,  \* "start", "recode", "ladder", "done"
          k,      \* the scalar, below the order: every caller has checked it
          kOdd,   \* k, or n - k when k is even
          e,      \* the digits, least significant first
          i,      \* the loop index of the phase
          acc     \* the accumulator

vars == <<phase, k, kOdd, e, i, acc>>

Index == 0..(NumNibbles - 1)

Init == /\ phase = "start" /\ k \in 0..(Order - 1)
        /\ kOdd = 0 /\ e = [j \in Index |-> 0] /\ i = 0 /\ acc = 0

(* k = 0 returns the identity; otherwise k_odd and its nibbles. *)
Start ==
  /\ phase = "start"
  /\ IF k = 0 THEN phase' = "done" /\ UNCHANGED <<kOdd, e, i>>
     ELSE /\ phase' = "recode" /\ i' = 1
          /\ kOdd' = IF k % 2 = 1 THEN k ELSE Order - k
          /\ e' = [j \in Index |-> (kOdd' \div Pow16(j)) % 16]
  /\ UNCHANGED <<k, acc>>

(* One turn of the recoding loop: an even digit takes one from the digit below
   and becomes odd. *)
Recode ==
  /\ phase = "recode" /\ i < NumNibbles
  /\ e' = IF e[i] % 2 = 0
          THEN [e EXCEPT ![i - 1] = @ - 16, ![i] = @ + 1] ELSE e
  /\ i' = i + 1
  /\ UNCHANGED <<phase, k, kOdd, acc>>

Abs(d) == IF d < 0 THEN -d ELSE d

(* table[j], for j in 0..7: P, then 2P more than the entry before. *)
TableEntry(j) == (2 * j + 1) % Order

(* The table is built, and the top digit starts the accumulator. *)
BeginLadder ==
  /\ phase = "recode" /\ i = NumNibbles
  /\ phase' = "ladder"
  /\ acc' = TableEntry(e[NumNibbles - 1] \div 2)
  /\ i' = NumNibbles - 2
  /\ UNCHANGED <<k, kOdd, e>>

(* Four doublings, and the table entry with the digit's sign. *)
Ladder ==
  /\ phase = "ladder" /\ i >= 0
  /\ LET entry == TableEntry(Abs(e[i]) \div 2)
     IN  acc' = (16 * acc + (IF e[i] < 0 THEN Order - entry ELSE entry)) % Order
  /\ i' = i - 1
  /\ UNCHANGED <<phase, k, kOdd, e>>

(* Mutant of End: the result for n - k is not negated. *)
EndUnsigned ==
  /\ phase = "ladder" /\ i < 0
  /\ phase' = "done"
  /\ UNCHANGED <<k, kOdd, e, i, acc>>

(* The result is negated for an even k. *)
End ==
  /\ phase = "ladder" /\ i < 0
  /\ phase' = "done"
  /\ acc' = IF k % 2 = 0 THEN (Order - acc) % Order ELSE acc
  /\ UNCHANGED <<k, kOdd, e, i>>

Next == Start \/ Recode \/ BeginLadder \/ Ladder \/ End

Spec == Init /\ [][Next]_vars
-------------------------------------------------------------------------------
(* The integer that the digits from j up stand for. *)
Values ==
  LET v[m \in 0..NumNibbles] ==
        IF m = NumNibbles THEN 0 ELSE e[m] + 16 * v[m + 1]
  IN  v

ValueFrom(j) == Values[j]

(* A digit fits an i8 and, once the recoding has passed it, is odd and within
   the table: |digit| / 2 is an index in 0..7, and the top digit is positive. *)
TypeOK ==
  /\ phase \in {"start", "recode", "ladder", "done"}
  /\ k \in 0..(Order - 1) /\ acc \in 0..(Order - 1)
  /\ i \in -1..NumNibbles
  /\ \A j \in Index : e[j] \in -16..16
  /\ phase = "ladder" =>
       /\ \A j \in Index : e[j] % 2 = 1 /\ Abs(e[j]) \div 2 \in 0..7
       /\ e[NumNibbles - 1] > 0

(* No turn of the recoding changes the number that the digits stand for. *)
RecodingPreservesValue == phase \in {"recode", "ladder"} => ValueFrom(0) = kOdd

(* The accumulator is the part of the scalar the ladder has read, at every
   turn, and the whole scalar at the end, for even scalars too. *)
LadderComputesMultiple ==
  /\ phase = "ladder" => acc = ValueFrom(i + 1) % Order
  /\ phase = "done" => acc = k
==============================================================================
