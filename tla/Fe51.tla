---------------------------------- MODULE Fe51 ----------------------------------
(***************************************************************************)
(* Fe51 of src/curve25519/portable.rs: K limbs of log2(M) bits modulo      *)
(* M^K - C, with room above them, so that sums and differences are not     *)
(* carried.  A caller multiplies sums, differences and products, as the    *)
(* ladder and the Edwards formulas do: what it adds or subtracts is a      *)
(* product or came from bytes.                                             *)
(***************************************************************************)
EXTENDS Integers

CONSTANTS M, K, C,   \* 2^51, 5, 19
          Corners,   \* bound: limbs of the numbers that come from bytes
          Rounds     \* bound: products in a row

(* The weight of limb n. *)
Weight(n) == LET w[j \in 0..n] == IF j = 0 THEN 1 ELSE M * w[j - 1] IN w[n]

P == Weight(K) - C

Fe51Parameters == /\ M \in Nat /\ K \in Nat /\ C \in Nat /\ K > 1 /\ C > 1
                  /\ 9 * K * C * C < M   \* carries fold into one limb, as at 2^51
                  /\ Corners \subseteq 0..(M - 1)

Index == 0..(K - 1)

(* The sum of f[i] for i below n. *)
Total(f, n) == LET sum[i \in 0..n] == IF i = 0 THEN 0 ELSE sum[i - 1] + f[i - 1] IN sum[n]

Value(a) == Total([i \in Index |-> a[i] * Weight(i)], K)

Add(a, b) == [i \in Index |-> a[i] + b[i]]

(* Mutant of Sub: p is added once. *)
SubOnce(a, b) == [i \in Index |-> a[i] + (M - (IF i = 0 THEN C ELSE 1)) - b[i]]

(* sub adds 2 p, limb by limb. *)
Sub(a, b) == [i \in Index |-> a[i] + 2 * (M - (IF i = 0 THEN C ELSE 1)) - b[i]]

(* The carry that leaves limb i of r, all below it carried. *)
CarryOut(r) ==
  LET carry[i \in Index] == (r[i] + (IF i = 0 THEN 0 ELSE carry[i - 1])) \div M
  IN  carry

(* Mutant of Carried: what leaves limb 0 after the fold is dropped. *)
CarriedShort(r) ==
  LET carry == CarryOut(r)
      low   == (r[0] % M) + carry[K - 1] * C
  IN  [i \in Index |-> IF i = 0 THEN low % M ELSE (r[i] + carry[i - 1]) % M]

(* One pass of carries from limb 0 up, the top one folded with C into limb 0,
   what leaves that into limb 1. *)
Carried(r) ==
  LET carry == CarryOut(r)
      low   == (r[0] % M) + carry[K - 1] * C
  IN  [i \in Index |-> IF i = 0 THEN low % M
                       ELSE ((r[i] + carry[i - 1]) % M) + (IF i = 1 THEN low \div M ELSE 0)]

(* mul: columns K and above come down times C. *)
Mul(a, b) ==
  LET Column(n) == Total([i \in Index |-> LET j == n - i
                                          IN  IF j \in Index THEN a[i] * b[j] ELSE 0], K)
  IN  Carried([n \in Index |-> Column(n) + C * Column(n + K)])

MulScalar(a, s) == Carried([i \in Index |-> a[i] * s])

(* One of to_bytes' two passes: the top carry stays in limb 0. *)
Pass(t) ==
  LET carry == CarryOut(t)
  IN  [i \in Index |-> IF i = 0 THEN (t[0] % M) + carry[K - 1] * C
                       ELSE (t[i] + carry[i - 1]) % M]

(* Mutant of Passes: a single one. *)
PassesOne(a) == Pass(a)

Passes(a) == Pass(Pass(a))

(* to_bytes: the words that the limbs pack into, less p if adding C to them
   overflows. *)
ToBytes(a) == LET w == Value(Passes(a)) IN IF w + C >= Weight(K) THEN w + C - Weight(K) ELSE w
-------------------------------------------------------------------------------
VARIABLES x, y,     \* two numbers the caller holds
          vx, vy,   \* the residues they stand for
          left      \* products to come

vars == <<x, y, vx, vy, left>>

(* What a caller multiplies or turns into bytes, and its residue. *)
Forms == {"x", "y", "x + y", "x - y", "y - x"}

Limbs(f) == CASE f = "x" -> x [] f = "y" -> y
              [] f = "x + y" -> Add(x, y)
              [] f = "x - y" -> Sub(x, y) [] f = "y - x" -> Sub(y, x)

Residue(f) == CASE f = "x" -> vx [] f = "y" -> vy
                [] f = "x + y" -> (vx + vy) % P
                [] f = "x - y" -> (vx - vy) % P [] f = "y - x" -> (vy - vx) % P

Init == /\ x \in [Index -> Corners] /\ y \in [Index -> Corners]
        /\ vx = Value(x) % P /\ vy = Value(y) % P
        /\ left = Rounds

(* The product of two residues, digit by digit: P * M fits TLC's integers. *)
Times(u, v) ==
  LET acc[n \in 0..K] ==
        IF n = 0 THEN 0 ELSE (acc[n - 1] * M + u * ((v \div Weight(K - n)) % M)) % P
  IN  acc[K]

Multiply == \E f, g \in Forms : /\ x' = Mul(Limbs(f), Limbs(g))
                                /\ vx' = Times(Residue(f), Residue(g))
                                /\ UNCHANGED <<y, vy>>

Scale == \E f \in Forms, s \in {1, M - 1} : /\ y' = MulScalar(Limbs(f), s)
                                            /\ vy' = Times(Residue(f), s)
                                            /\ UNCHANGED <<x, vx>>

Next == left > 0 /\ left' = left - 1 /\ (Multiply \/ Scale)
-------------------------------------------------------------------------------
(* Products have limbs below M, but for limb 1, which may hold a little more. *)
TypeOK == \A a \in {x, y} : \A i \in Index : a[i] \in 0..(IF i = 1 THEN 2 * M - 3 ELSE M - 1)

(* Nothing that a caller makes of products borrows from a limb, its bytes are the
   residue it stands for, below p, and the limbs that are packed do not overlap. *)
KeepsResidue ==
  \A f \in Forms :
    /\ \A i \in Index : Limbs(f)[i] >= 0 /\ Passes(Limbs(f))[i] < M
    /\ ToBytes(Limbs(f)) = Residue(f)
==============================================================================
