--------------------------------- MODULE Comba ---------------------------------
(***************************************************************************)
(* The double-length products of src/secp256k1.rs, a column at a time:     *)
(* comba_mul_8, and comba_sqr_8, which adds each product off the diagonal  *)
(* once and doubles.  The accumulator is two words (acc) and a third (r2)  *)
(* that counts its overflows.                                              *)
(***************************************************************************)
EXTENDS Integers

CONSTANTS W,    \* the number of values of a word: 2^32 in the code
          N     \* words of an operand: 8

CombaParameters == W \in Nat /\ N \in Nat /\ N > 0 /\ N < W

(* The weight of word n. *)
Weight(n) == LET w[j \in 0..n] == IF j = 0 THEN 1 ELSE W * w[j - 1] IN w[n]

(* The sum of f[j] for j below n. *)
Total(f, n) == LET sum[j \in 0..n] == IF j = 0 THEN 0 ELSE sum[j - 1] + f[j - 1] IN sum[n]

Places == 0..(N - 1)

VARIABLES kind,  \* "mul" or "sqr"
          a, b,  \* the operands, as numbers
          i,     \* the column
          acc,   \* acc, the low two words between columns
          out    \* out[0..i-1], as a number

vars == <<kind, a, b, i, acc, out>>

Init == /\ kind \in {"mul", "sqr"}
        /\ a \in 0..(Weight(N) - 1)
        /\ b \in IF kind = "sqr" THEN {a} ELSE 0..(Weight(N) - 1)
        /\ i = 0 /\ acc = 0 /\ out = 0
-------------------------------------------------------------------------------
Word(v, j) == (v \div Weight(j)) % W

(* The rows that meet in the column. *)
Rows == {j \in Places : i - j \in Places}

(* The products of some rows of the column; a square's second operand is its first. *)
Products(rows) ==
  Total([j \in Places |-> IF j \in rows THEN Word(a, j) * Word(b, i - j) ELSE 0], N)

(* overflowing_add on two words: what is left, and the count r2. *)
Overflow(total) == [acc |-> total % (W * W), r2 |-> (total \div (W * W)) % W]

MulColumn == Overflow(acc + Products(Rows))

OffDiagonal == Products({j \in Rows : j < i - j})

Diagonal == IF i % 2 = 0 THEN Word(a, i \div 2) * Word(a, i \div 2) ELSE 0

(* Mutant of SqrColumn: the bit that the doubling shifts out is lost. *)
SqrColumnShort == Overflow((acc + Diagonal) + ((2 * OffDiagonal) % (W * W)))

(* off_diag is doubled into three words; the diagonal is there in even columns. *)
SqrColumn == Overflow((acc + 2 * OffDiagonal) + Diagonal)

(* One column: its low word goes out, the other two are carried on. *)
Column ==
  /\ i < 2 * N - 1
  /\ LET col == IF kind = "mul" THEN MulColumn ELSE SqrColumn
     IN  /\ out' = out + (col.acc % W) * Weight(i)
         /\ acc' = (col.acc \div W) + W * col.r2
  /\ i' = i + 1
  /\ UNCHANGED <<kind, a, b>>

Last == /\ i = 2 * N - 1
        /\ out' = out + (acc % W) * Weight(i) /\ acc' = 0 /\ i' = i + 1
        /\ UNCHANGED <<kind, a, b>>

Next == Column \/ Last

Spec == Init /\ [][Next]_vars
-------------------------------------------------------------------------------
TypeOK == /\ i \in 0..(2 * N) /\ acc \in 0..(W * W - 1)
          /\ out \in 0..(Weight(i) - 1)

(* After every column, what went out and what is carried are the products of the
   columns so far; both routines end with a * b (comba_mul_8, comba_sqr_8). *)
ColumnsAddUp ==
  /\ out + acc * Weight(i) =
       Total([j \in Places |-> Word(a, j) * Weight(j) *
                Total([l \in Places |-> IF j + l < i THEN Word(b, l) * Weight(l) ELSE 0], N)], N)
  /\ i = 2 * N => out = a * b
==============================================================================
