------------------------------- MODULE CortexM4 -------------------------------
(***************************************************************************)
(* src/backend/cortex_m4/p256.rs: the products of P-256 on Cortex-M4 and   *)
(* the inverse modulo its order.  k G reads four bits in each of two       *)
(* places of an odd scalar per turn; k Q goes down a recoding by slide_257 *)
(* (Slide), verify's u1 G + u2 Q down two; mod_n_inv runs rounds of        *)
(* division steps.  The additions and the products of matrices are         *)
(* assembly: external, and modelled from how this file calls them.  A      *)
(* point is the multiple of G that it is, modulo the order.                *)
(***************************************************************************)
EXTENDS Integers

CONSTANTS Columns,      \* turns of scalarmult_fixed_base (32)
          FixedOrder,   \* order of the group it works in
          FixedScalars, \* bound: its scalars
          SlideBits,    \* bits of a scalar that slide_257 reads (256)
          SlideOrder,   \* order of the group of the ladders
          BasePoints,   \* bound: which multiples of G the point Q is
          PartnerScalars, \* bound: the scalars of G in verify
          InvOrder,     \* the modulus of mod_n_inv
          DivWord,      \* division steps of a round (31)
          Rounds        \* rounds (24)

VARIABLES op,      \* "fixed", "variable", "joint" or "inverse"
          k, k2,   \* the scalars; the input of mod_n_inv
          q,       \* the point Q
          s1, s2,  \* slide_257's states, for k and k2
          phase,   \* "start", "slide1", "slide2", "scan", "ladder", "done"
          i,       \* max_i, then the loop index
          acc      \* current_point; state, delta and the inverse of mod_n_inv

vars == <<op, k, k2, q, s1, s2, phase, i, acc>>

Slide1 == INSTANCE Slide WITH NumBits <- SlideBits, k <- k, st <- s1
Slide2 == INSTANCE Slide WITH NumBits <- SlideBits, k <- k2, st <- s2

Pow2(n) == Slide1!Pow2(n)

CortexParameters ==
  /\ Columns \in Nat \ {0}
  /\ FixedOrder \in Nat /\ FixedOrder % 2 = 1
  /\ Pow2(6 * Columns + 1) < FixedOrder /\ FixedOrder < Pow2(8 * Columns)
  /\ FixedScalars \subseteq 0..(FixedOrder - 1)
  /\ SlideBits \in Nat /\ SlideBits > 1
  /\ SlideOrder \in Nat /\ SlideOrder > 30 /\ SlideOrder <= Pow2(SlideBits)
  /\ \A j \in 0..7, n \in 1..(SlideOrder - 1) : ((2 * j + 1) * n) % SlideOrder # 0
  /\ BasePoints \subseteq 1..(SlideOrder - 1) /\ PartnerScalars \subseteq 0..(SlideOrder - 1)

BitsOf(n, count) == [j \in 0..(count - 1) |-> (n \div Pow2(j)) % 2]
SlideScalar(n) == BitsOf(n, SlideBits)
Number(r) == Slide1!ValueFrom(r, 0)

GroupOrder == IF op = "fixed" THEN FixedOrder ELSE SlideOrder

(* P256_double_j, P256_negate_mod_p_if and P256_add_sub_j: the last takes equal
   and opposite points, and an accumulator at infinity, but reads a second
   operand at infinity as a point it is not. *)
Broken == -1
Double(a) == IF a = Broken THEN Broken ELSE (2 * a) % GroupOrder
Negated(a) == IF a = Broken THEN Broken ELSE (GroupOrder - a) % GroupOrder
Added(a, b) == IF Broken \in {a, b} \/ b = 0 THEN Broken ELSE (a + b) % GroupOrder
-------------------------------------------------------------------------------
(* scalarmult_fixed_base.  An odd number of 8 C bits is a sum of powers of two
   with signs, the sign of 2^j given by its bit j + 1; those of four positions
   2 C apart select an entry of a table and its sign. *)
C == Columns
Sign(bit) == 2 * bit - 1

(* P256_BASEPOINT_PRECOMP2[table][mask]: 2^(6 C) G plus or minus three more. *)
FixedEntry(table, mask) ==
  (Pow2(table * C) * (Pow2(6 * C) + Sign(mask[2]) * Pow2(4 * C)
                        + Sign(mask[1]) * Pow2(2 * C) + Sign(mask[0]))) % GroupOrder

Mask(n, at) == [b \in 0..2 |-> n[at + 2 * b * C]]

(* The mask is complemented, and the entry negated, when the fourth bit is 0. *)
FixedSelected(n, table, at) ==
  LET mask == Mask(n, at)
  IN  IF n[at + 6 * C] = 1 THEN FixedEntry(table, mask)
      ELSE Negated(FixedEntry(table, [b \in 0..2 |-> 1 - mask[b]]))

IsEven == k % 2 = 0
OddScalar == BitsOf(IF IsEven THEN FixedOrder - k ELSE k, 8 * C)

(* Mutant of FixedTurn: the first turn doubles and reads a sign like the others,
   one bit below the one it needs. *)
FixedTurnTopSign ==
  /\ op = "fixed" /\ phase = "ladder" /\ i >= 0
  /\ LET high == IF i = C - 1 THEN FixedSelected(OddScalar, 1, i + C)
                 ELSE Added(Double(acc), FixedSelected(OddScalar, 1, i + C + 1))
     IN  acc' = Added(high, FixedSelected(OddScalar, 0, i + 1))
  /\ i' = i - 1
  /\ UNCHANGED <<op, k, k2, q, s1, s2, phase>>

(* One turn: the upper table starts the sum, and later adds to its double; then
   the lower one.  The sign the first turn would need is bit 8 C, and not read. *)
FixedTurn ==
  /\ op = "fixed" /\ phase = "ladder" /\ i >= 0
  /\ LET high == IF i = C - 1 THEN FixedEntry(1, Mask(OddScalar, i + C + 1))
                 ELSE Added(Double(acc), FixedSelected(OddScalar, 1, i + C + 1))
     IN  acc' = Added(high, FixedSelected(OddScalar, 0, i + 1))
  /\ i' = i - 1
  /\ UNCHANGED <<op, k, k2, q, s1, s2, phase>>

FixedEnd ==
  /\ op = "fixed" /\ phase = "ladder" /\ i < 0
  /\ acc' = IF IsEven THEN Negated(acc) ELSE acc
  /\ phase' = "done"
  /\ UNCHANGED <<op, k, k2, q, s1, s2, i>>
-------------------------------------------------------------------------------
(* The odd multiples of Q: two_p is read from the last slot before each of them
   is written, the last slot included. *)
OddMultiples ==
  LET t[j \in 0..7] == IF j = 0 THEN q ELSE Added(Double(q), t[j - 1])
  IN  t

(* P256_BASEPOINT_PRECOMP *)
BaseMultiples == [j \in 0..7 |-> (2 * j + 1) % GroupOrder]

Abs(d) == IF d < 0 THEN -d ELSE d

Selected(table, d) ==
  IF d > 0 THEN table[d \div 2] ELSE Negated(table[Abs(d) \div 2])

AddDigit(a, table, d) == IF d = 0 THEN a ELSE Added(a, Selected(table, d))

(* A zero scalar leaves before it is recoded; the ladder of verify has none. *)
Start ==
  /\ op \in {"variable", "joint"} /\ phase = "start"
  /\ phase' = IF op = "variable" /\ \A j \in DOMAIN k : k[j] = 0 THEN "done" ELSE "slide1"
  /\ UNCHANGED <<op, k, k2, q, s1, s2, i, acc>>

RunSlide1 ==
  /\ phase = "slide1"
  /\ \/ Slide1!Next /\ UNCHANGED phase
     \/ /\ s1.at = "done" /\ UNCHANGED <<k, s1>>
        /\ phase' = IF op = "joint" THEN "slide2" ELSE "scan"
  /\ UNCHANGED <<op, k2, q, s2, i, acc>>

RunSlide2 ==
  /\ phase = "slide2"
  /\ \/ Slide2!Next /\ UNCHANGED phase
     \/ s2.at = "done" /\ UNCHANGED <<k2, s2>> /\ phase' = "scan"
  /\ UNCHANGED <<op, k, q, s1, i, acc>>

(* max_i: variable starts from the digit it stops at, verify from infinity. *)
ScanTop ==
  /\ phase = "scan"
  /\ IF i > 0 /\ s1.r[i] = 0 /\ (op = "joint" => s2.r[i] = 0)
     THEN i' = i - 1 /\ UNCHANGED <<phase, acc>>
     ELSE /\ phase' = "ladder"
          /\ IF op = "joint" THEN UNCHANGED <<i, acc>>
             ELSE i' = i - 1 /\ acc' = Selected(OddMultiples, s1.r[i])
  /\ UNCHANGED <<op, k, k2, q, s1, s2>>

Ladder ==
  /\ op \in {"variable", "joint"} /\ phase = "ladder"
  /\ IF i < 0 THEN phase' = "done" /\ UNCHANGED <<i, acc>>
     ELSE /\ acc' = IF op = "variable"
                    THEN AddDigit(Double(acc), OddMultiples, s1.r[i])
                    ELSE AddDigit(AddDigit(Double(acc), BaseMultiples, s2.r[i]),
                                  OddMultiples, s1.r[i])
          /\ i' = i - 1
          /\ UNCHANGED phase
  /\ UNCHANGED <<op, k, k2, q, s1, s2>>
-------------------------------------------------------------------------------
(* mod_n_inv keeps f, g, x and y as a magnitude and a flag that negates it. *)
Flagged(flip, v) == [flip |-> flip, val |-> v]
Actual(w) == IF w.flip THEN -w.val ELSE w.val

(* P256_divsteps2_31 sees the low words of f and g only. *)
Low(w) == Actual(w) % Pow2(DivWord + 1)

DivStep(s) ==
  LET swap == s.delta > 0 /\ s.g % 2 = 1
      t == IF swap THEN [delta |-> -s.delta, f |-> s.g, g |-> -s.f,
                         u |-> s.q, v |-> s.r, q |-> -s.u, r |-> -s.v]
           ELSE s
      odd == t.g % 2
  IN  [delta |-> t.delta + 1, f |-> t.f, g |-> (t.g + odd * t.f) \div 2,
       u |-> 2 * t.u, v |-> 2 * t.v, q |-> t.q + odd * t.u, r |-> t.r + odd * t.v]

DivSteps(count, delta, f, g) ==
  LET s[j \in 0..count] ==
        IF j = 0 THEN [delta |-> delta, f |-> f, g |-> g, u |-> 1, v |-> 0, q |-> 0, r |-> 1]
        ELSE DivStep(s[j - 1])
  IN  s[count]

(* The order is a prime, and as many steps as all rounds take bring g to 0 for every
   input, when nothing is cut off: for 256 bits 742 are known to be enough. *)
InverseParameters ==
  /\ InvOrder \in Nat /\ InvOrder % 2 = 1 /\ \A d \in 2..(InvOrder - 1) : InvOrder % d # 0
  /\ DivWord \in Nat \ {0} /\ Rounds \in Nat /\ Pow2(Rounds) < InvOrder
  /\ \A n \in 1..(InvOrder - 1) : DivSteps(Rounds * DivWord, 1, InvOrder, n).g = 0

(* P256_matrix_mul_fg_9 and P256_matrix_mul_mod_n: a w0 + b w1, divided by 2^31
   exactly, or by 2^32 modulo n.  The flag is that of b w1. *)
Flip(b, w1) == (b < 0) # w1.flip
Unsigned(flip, v) == IF flip THEN -v ELSE v

MatrixMulFG(a, b, w0, w1) ==
  LET flip == Flip(b, w1)
  IN  Flagged(flip, Unsigned(flip, (a * Actual(w0) + b * Actual(w1)) \div Pow2(DivWord)))

MatrixMulModN(a, b, w0, w1) ==
  LET flip == Flip(b, w1)
      sum  == Unsigned(flip, a * Actual(w0) + b * Actual(w1)) % InvOrder
  IN  Flagged(flip, CHOOSE z \in 0..(InvOrder - 1) :
                      (z * Pow2(DivWord + 1)) % InvOrder = sum)

(* Two rounds of a turn of the loop differ in the half of state they write. *)
InverseRound ==
  /\ op = "inverse" /\ phase = "ladder" /\ i < Rounds
  /\ LET m == DivSteps(DivWord, acc.delta, Low(acc.f), Low(acc.g))
     IN  acc' = [acc EXCEPT !.delta = m.delta,
                            !.f = MatrixMulFG(m.u, m.v, acc.f, acc.g),
                            !.g = MatrixMulFG(m.q, m.r, acc.f, acc.g),
                            !.x = MatrixMulModN(m.u, m.v, acc.x, acc.y),
                            !.y = MatrixMulModN(m.q, m.r, acc.x, acc.y)]
  /\ i' = i + 1
  /\ UNCHANGED <<op, k, k2, q, s1, s2, phase>>

(* Mutant of ShouldNeg: the flag of x is forgotten. *)
ShouldNegWithoutX == acc.f.flip # (acc.f.val < 0)

ShouldNeg == acc.x.flip # (acc.f.flip # (acc.f.val < 0))

InverseEnd ==
  /\ op = "inverse" /\ phase = "ladder" /\ i = Rounds
  /\ acc' = [acc EXCEPT !.out = IF ShouldNeg THEN InvOrder - acc.x.val ELSE acc.x.val]
  /\ phase' = "done"
  /\ UNCHANGED <<op, k, k2, q, s1, s2, i>>
-------------------------------------------------------------------------------
NoSlides == k2 = 0 /\ q = 0 /\ s1 = 0 /\ s2 = 0

(* mul_base answers for 0 itself; every caller refuses n and more. *)
FixedInit == /\ op = "fixed" /\ k \in FixedScalars /\ NoSlides /\ acc = 0
             /\ i = C - 1 /\ phase = IF k = 0 THEN "done" ELSE "ladder"

SlideInit == /\ op \in {"variable", "joint"}
             /\ k \in {SlideScalar(n) : n \in (IF op = "joint" THEN 1 ELSE 0)..(SlideOrder - 1)}
             /\ k2 \in {SlideScalar(n) : n \in IF op = "joint" THEN PartnerScalars ELSE {0}}
             /\ q \in BasePoints
             /\ s1 = Slide1!Fresh(k) /\ s2 = Slide2!Fresh(k2)
             /\ phase = "start" /\ i = SlideBits /\ acc = 0

InverseInit == /\ op = "inverse" /\ k \in 1..(InvOrder - 1) /\ NoSlides
               /\ phase = "ladder" /\ i = 0
               /\ acc = [delta |-> 1, f |-> Flagged(FALSE, InvOrder), g |-> Flagged(FALSE, k),
                         x |-> Flagged(FALSE, 0), y |-> Flagged(FALSE, Pow2(Rounds)), out |-> 0]

Init == FixedInit \/ SlideInit \/ InverseInit

Next == \/ FixedTurn \/ FixedEnd
        \/ Start \/ RunSlide1 \/ RunSlide2 \/ ScanTop \/ Ladder
        \/ InverseRound \/ InverseEnd

Spec == Init /\ [][Next]_vars
-------------------------------------------------------------------------------
(* The accumulator is a point, so that nothing was ever added as a second operand
   at infinity, and table indices are in 0..7; f and g fit the words that hold
   them, and x and y are reduced (the nine words of FGInteger, one bit of sign). *)
TypeOK ==
  /\ op \in {"fixed", "variable", "joint", "inverse"}
  /\ phase \in {"start", "slide1", "slide2", "scan", "ladder", "done"}
  /\ op # "inverse" => acc \in 0..(GroupOrder - 1)
  /\ op \in {"variable", "joint"} =>
       /\ i \in -1..SlideBits
       /\ Slide1!TypeOK /\ Slide2!TypeOK
       /\ phase = "ladder" =>
            \A j \in 0..SlideBits : {Abs(s1.r[j]) \div 2, Abs(s2.r[j]) \div 2} \subseteq 0..7
  /\ op = "inverse" =>
       /\ {Abs(acc.f.val), Abs(acc.g.val)} \subseteq 0..InvOrder
       /\ {acc.x.val, acc.y.val} \subseteq 0..(InvOrder - 1)

(* The part of an odd scalar that the turns down to i have read. *)
Digit(n, j) == IF j = 8 * C - 1 THEN 1 ELSE Sign(n[j + 1])

FixedRead(n, from) ==
  LET term == [j \in 0..(8 * C - 1) |-> IF j % C >= from THEN Digit(n, j) * Pow2(j) ELSE 0]
      sum[j \in 0..(8 * C)] == IF j = 0 THEN 0 ELSE sum[j - 1] + term[j - 1]
  IN  sum[8 * C]

(* The multiple for what was read of the scalars; at the end k G, k Q, or
   u1 G + u2 Q, for even, zero and extreme scalars. *)
ComputesMultiple ==
  /\ op = "fixed" /\ phase = "ladder" =>
       (acc * Pow2(i + 1)) % FixedOrder = FixedRead(OddScalar, i + 1) % FixedOrder
  /\ op = "fixed" /\ phase = "done" => acc = k % FixedOrder
  /\ op \in {"variable", "joint"} /\ phase = "ladder" =>
       acc = (Slide1!ValueFrom(s1.r, i + 1) * q + Slide2!ValueFrom(s2.r, i + 1)) % SlideOrder
  /\ op \in {"variable", "joint"} /\ phase = "done" =>
       acc = (Number(Slide1!Fresh(k).r) * q + Number(Slide2!Fresh(k2).r)) % SlideOrder

RecodingPreservesValue ==
  op \in {"variable", "joint"} => Slide1!ValuePreserved /\ Slide2!ValuePreserved

(* x is f over the input, up to the powers of two still to be divided out, and
   the rounds are enough for f to be 1 or -1: the inverse is one. *)
Inverts ==
  op = "inverse" =>
    /\ (k * Actual(acc.x)) % InvOrder = (Pow2(Rounds - i) * Actual(acc.f)) % InvOrder
    /\ phase = "done" => (k * acc.out) % InvOrder = 1 /\ acc.g.val = 0
==============================================================================
