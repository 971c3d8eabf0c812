-------------------------------- MODULE Lincomb --------------------------------
(***************************************************************************)
(* PointJacobian::lincomb of src/point.rs: k1 P1 + k2 P2 by one ladder     *)
(* over both scalars, each recoded by slide (two instances of Slide).  A   *)
(* point is the multiple of P1's generator that it is, modulo the order;   *)
(* the additions are those PointArith checks.                              *)
(***************************************************************************)
EXTENDS Integers

CONSTANTS NumBits,  \* bits of a scalar (32 k1.len())
          Order,    \* order of the group, an odd prime
          Seconds,  \* bound: which multiples P2 is; P1 is the generator or 0
          SecondScalars  \* bound: the values of k2; k1 is any scalar

VARIABLES k1, k2,    \* the scalars, as their bits
          s1, s2,    \* slide's states
          p1, p2,    \* the points
          phase,     \* "start", "slide1", "slide2", "scan", "ladder", "done"
          i,         \* max_i, then the loop index
          acc        \* the accumulator

vars == <<k1, k2, s1, s2, p1, p2, phase, i, acc>>

Slide1 == INSTANCE Slide WITH k <- k1, st <- s1
Slide2 == INSTANCE Slide WITH k <- k2, st <- s2

LincombParameters ==
  /\ NumBits \in Nat /\ NumBits > 1
  /\ Order \in Nat /\ Order > 30 /\ Order < Slide1!Pow2(NumBits)
  /\ Seconds \subseteq 0..(Order - 1) /\ SecondScalars \subseteq 0..(Order - 1)

BitsOf(n) == [j \in 0..(NumBits - 1) |-> (n \div Slide1!Pow2(j)) % 2]
IsZero(k) == \A j \in DOMAIN k : k[j] = 0
Number(r) == Slide1!ValueFrom(r, 0)

Init == /\ k1 \in {BitsOf(n) : n \in 0..(Order - 1)}
        /\ k2 \in {BitsOf(n) : n \in SecondScalars}
        /\ s1 = Slide1!Fresh(k1) /\ s2 = Slide2!Fresh(k2)
        /\ p1 \in {0, 1} /\ p2 \in Seconds
        /\ phase = "start" /\ i = NumBits /\ acc = 0

(* A zero scalar or an identity point leaves one product, which mul_scalar
   computes (MulScalar), or none. *)
Start ==
  /\ phase = "start"
  /\ LET none1 == IsZero(k1) \/ p1 = 0
         none2 == IsZero(k2) \/ p2 = 0
     IN  IF none1 /\ none2 THEN phase' = "done" /\ acc' = 0
         ELSE IF none1 THEN /\ phase' = "done"
                            /\ acc' = (Number(s2.r) * p2) % Order
         ELSE IF none2 THEN /\ phase' = "done"
                            /\ acc' = (Number(s1.r) * p1) % Order
         ELSE phase' = "slide1" /\ UNCHANGED acc
  /\ UNCHANGED <<k1, k2, s1, s2, p1, p2, i>>

RunSlide1 ==
  /\ phase = "slide1"
  /\ \/ Slide1!Next /\ UNCHANGED phase
     \/ s1.at = "done" /\ phase' = "slide2" /\ UNCHANGED <<k1, s1>>
  /\ UNCHANGED <<k2, s2, p1, p2, i, acc>>

RunSlide2 ==
  /\ phase = "slide2"
  /\ \/ Slide2!Next /\ UNCHANGED phase
     \/ s2.at = "done" /\ phase' = "scan" /\ UNCHANGED <<k2, s2>>
  /\ UNCHANGED <<k1, s1, p1, p2, i, acc>>

(* Mutant of ScanTop: the scan starts one slot too low. *)
ScanTopShort ==
  /\ phase = "scan"
  /\ IF i = NumBits \/ (i > 0 /\ s1.r[i] = 0 /\ s2.r[i] = 0)
     THEN i' = i - 1 /\ UNCHANGED phase
     ELSE phase' = "ladder" /\ UNCHANGED i
  /\ UNCHANGED <<k1, k2, s1, s2, p1, p2, acc>>

(* while max_i > 0 && s1[max_i] == 0 && s2[max_i] == 0 *)
ScanTop ==
  /\ phase = "scan"
  /\ IF i > 0 /\ s1.r[i] = 0 /\ s2.r[i] = 0
     THEN i' = i - 1 /\ UNCHANGED phase
     ELSE phase' = "ladder" /\ UNCHANGED i
  /\ UNCHANGED <<k1, k2, s1, s2, p1, p2, acc>>

Abs(d) == IF d < 0 THEN -d ELSE d

(* The entry of a table of odd multiples of p that a digit selects, with the
   digit's sign: t[|d| / 2], or its negation. *)
Selected(d, p) ==
  LET entry == ((2 * (Abs(d) \div 2) + 1) * p) % Order
  IN  IF d = 0 THEN 0 ELSE IF d > 0 THEN entry ELSE (Order - entry) % Order

(* One doubling and up to two additions. *)
Ladder ==
  /\ phase = "ladder"
  /\ IF i < 0 THEN phase' = "done" /\ UNCHANGED <<i, acc>>
     ELSE /\ acc' = (2 * acc + Selected(s1.r[i], p1)
                             + Selected(s2.r[i], p2)) % Order
          /\ i' = i - 1
          /\ UNCHANGED phase
  /\ UNCHANGED <<k1, k2, s1, s2, p1, p2>>

Next == Start \/ RunSlide1 \/ RunSlide2 \/ ScanTop \/ Ladder

Spec == Init /\ [][Next]_vars
-------------------------------------------------------------------------------
(* Table indices are in 0..7 whenever the ladder uses them. *)
TypeOK ==
  /\ i \in -1..NumBits /\ acc \in 0..(Order - 1)
  /\ phase \in {"start", "slide1", "slide2", "scan", "ladder", "done"}
  /\ phase = "ladder" =>
       \A j \in 0..NumBits : {Abs(s1.r[j]) \div 2, Abs(s2.r[j]) \div 2} \subseteq 0..7

(* The accumulator is the part of both scalars the ladder has read, so that
   nothing above the slot the scan stopped at was left out, and at the end it
   is k1 P1 + k2 P2, for zero scalars and identity points too. *)
From(r, j) == Slide1!ValueFrom(r, j)

ComputesCombination ==
  /\ phase = "ladder" =>
       acc = (From(s1.r, i + 1) * p1 + From(s2.r, i + 1) * p2) % Order
  /\ phase = "done" =>
       acc = (Number(Slide1!Fresh(k1).r) * p1
                + Number(Slide2!Fresh(k2).r) * p2) % Order
==============================================================================
