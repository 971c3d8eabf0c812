------------------------------- MODULE MCLadders -------------------------------
(***************************************************************************)
(* The point arithmetic of src/point.rs and the three ways it multiplies   *)
(* by a scalar, one of which runs: single operations chosen by a client    *)
(* (PointArith), the fixed-base comb (Comb), the signed odd ladder         *)
(* (MulScalar) and the joint sliding-window ladder (Lincomb, with two      *)
(* copies of Slide); the ladders that go bit by bit (BitLadder); and what  *)
(* a Cortex-M4 does in their place for P-256 (CortexM4).  They share no    *)
(* state in the code; a variable that the routine does not use holds 0     *)
(* here.                                                                   *)
(*                                                                         *)
(* The instance: point operations on the 17 points of y^2 = x^3 - 3x + 15  *)
(* over 23 elements, with every Z a second operand can have; the comb with *)
(* two tables of three bits a block on the same curve, for scalars spread  *)
(* over all 24 bits (17 does not divide the step); the odd ladder over     *)
(* every 12-bit scalar; the joint ladder over every nine-bit k1; the       *)
(* ladder of secp256k1 over every seven-bit scalar, that of X25519 for     *)
(* every eight-bit scalar and every u-coordinate modulo 2^7 - 19.  On      *)
(* Cortex-M4: two columns, for small, large and spread 16-bit scalars;     *)
(* every seven-bit scalar of three points; and the inverse of every number *)
(* below 251, by 28 division steps where 27 are known to be enough (742    *)
(* for 256 bits, where the code takes 744).                                *)
(***************************************************************************)
EXTENDS Curve

CONSTANTS Scalings,                                    \* PointArith
          D, T, CombScalars,                           \* Comb
          MulOrder, NumNibbles,                        \* MulScalar
          NumBits, LinOrder, Seconds, SecondScalars,   \* Lincomb
          SecpP, SecpB, SecpOrder, SecpGx, SecpGy, SecpLimit, SecpMultiple,
          SecpBits, SecpStarts,                        \* BitLadder
          XP, XA24, XULimit, XBaseU, XBits, XStarts,
          Columns, FixedOrder, FixedScalars, SlideBits, SlideOrder, BasePoints,
          PartnerScalars, InvOrder, DivWord, Rounds    \* CortexM4

VARIABLES routine,  \* "formulas", "mul_base", "mul_scalar", "lincomb", "bits" or
                    \* "cortex_m4"
          rep, reg, m,          \* PointArith
          form, t,              \* Comb
          k, i, acc, phase,     \* shared by name
          kOdd, e,              \* MulScalar
          k2, s1, s2, p1, p2,   \* Lincomb
          curve                 \* BitLadder

vars == <<routine, rep, reg, m, form, t, k, i, acc, phase, kOdd, e, k2, s1, s2, p1, p2,
          curve>>

Formulas == INSTANCE PointArith WITH form <- rep
MulBase == INSTANCE Comb
Mul     == INSTANCE MulScalar WITH Order <- MulOrder
Lin     == INSTANCE Lincomb WITH Order <- LinOrder, k1 <- k
Bits    == INSTANCE BitLadder
M4      == INSTANCE CortexM4 WITH op <- form, q <- p2

ASSUME LaddersAssumption == /\ MulBase!CombParameters
                            /\ Mul!MulScalarParameters
                            /\ Lin!LincombParameters
                            /\ Bits!BitLadderParameters
                            /\ M4!CortexParameters
                            /\ M4!InverseParameters

FormulasRest == rep = 0 /\ reg = 0 /\ m = 0
CombRests    == form = 0 /\ t = 0
MulRests     == kOdd = 0 /\ e = 0
LinRests     == k2 = 0 /\ s1 = 0 /\ s2 = 0 /\ p1 = 0 /\ p2 = 0

Init ==
  \/ /\ routine = "formulas" /\ Formulas!Init /\ curve = 0
     /\ CombRests /\ MulRests /\ LinRests
     /\ k = 0 /\ i = 0 /\ acc = 0 /\ phase = "unused"
  \/ /\ routine = "mul_base" /\ MulBase!Init /\ curve = 0
     /\ FormulasRest /\ MulRests /\ LinRests /\ phase = "unused"
  \/ /\ routine = "mul_scalar" /\ Mul!Init /\ curve = 0
     /\ FormulasRest /\ CombRests /\ LinRests
  \/ /\ routine = "lincomb" /\ Lin!Init /\ curve = 0
     /\ FormulasRest /\ CombRests /\ MulRests
  \/ /\ routine = "bits" /\ Bits!Init
     /\ rep = 0 /\ reg = 0 /\ CombRests /\ MulRests /\ LinRests /\ phase = "unused"
  \/ /\ routine = "cortex_m4" /\ M4!Init /\ curve = 0
     /\ FormulasRest /\ MulRests /\ t = 0 /\ p1 = 0

Next ==
  \/ /\ routine = "formulas" /\ Formulas!Next
     /\ UNCHANGED <<routine, form, t, k, i, acc, phase, kOdd, e, k2, s1, s2, p1, p2, curve>>
  \/ /\ routine = "mul_base" /\ MulBase!Next
     /\ UNCHANGED <<routine, rep, reg, m, phase, kOdd, e, k2, s1, s2, p1, p2, curve>>
  \/ /\ routine = "mul_scalar" /\ Mul!Next
     /\ UNCHANGED <<routine, rep, reg, m, form, t, k2, s1, s2, p1, p2, curve>>
  \/ /\ routine = "lincomb" /\ Lin!Next
     /\ UNCHANGED <<routine, rep, reg, m, form, t, kOdd, e, curve>>
  \/ /\ routine = "bits" /\ Bits!Next
     /\ UNCHANGED <<routine, rep, reg, form, t, phase, kOdd, e, k2, s1, s2, p1, p2>>
  \/ /\ routine = "cortex_m4" /\ M4!Next
     /\ UNCHANGED <<routine, rep, reg, m, t, kOdd, e, p1, curve>>

(* A loop that can go on does; mul_base's counts down and needs no proof, and a
   client may stop applying operations. *)
Fairness == WF_vars(routine \in {"mul_scalar", "lincomb"} /\ Next)

Spec == Init /\ [][Next]_vars /\ Fairness
-------------------------------------------------------------------------------
(* Coordinates are reduced, digits are odd and within their tables, and no
   carry of a recoding leaves its array. *)
TypeOK == CASE routine = "formulas"   -> Formulas!TypeOK
            [] routine = "mul_base"   -> MulBase!TypeOK
            [] routine = "mul_scalar" -> Mul!TypeOK
            [] routine = "lincomb"    -> /\ Lin!TypeOK
                                         /\ Lin!Slide1!TypeOK /\ Lin!Slide2!TypeOK
            [] routine = "bits"       -> Bits!TypeOK
            [] routine = "cortex_m4"  -> M4!TypeOK

(* Whatever operations a client applies, the point represents the multiple it
   should: no exceptional case of an addition goes wrong, and the identity never
   becomes (0 : 0 : 0), "which is not a point" (Point::add,
   PointJacobian::double, add, add_mixed, the conversions). *)
RepresentsMultiple ==
  routine = "formulas" => Formulas!RepresentsMultiple /\ Formulas!NeverDegenerate

(* No step of a recoding changes the number that its digits stand for, a carry
   that is still travelling counted where it is (mul_scalar, slide, slide_257). *)
RecodingPreservesValue ==
  /\ routine = "mul_scalar" => Mul!RecodingPreservesValue
  /\ routine = "lincomb" => Lin!Slide1!ValuePreserved /\ Lin!Slide2!ValuePreserved
  /\ routine = "cortex_m4" => M4!RecodingPreservesValue

(* At every turn of a ladder the accumulator is the multiple for the part of the
   scalars it has read; at the end it is k G in both forms of the comb, k P for
   even scalars and zero too, and k1 P1 + k2 P2 with zero scalars and identity
   points (mul_base, mul_scalar, lincomb; scalarmult of secp256k1 and X25519;
   on Cortex-M4 scalarmult_fixed_base, scalarmult_variable_base, and verify). *)
ComputesMultiples ==
  CASE routine = "mul_base"   -> MulBase!ComputesMultiple
    [] routine = "mul_scalar" -> Mul!LadderComputesMultiple
    [] routine = "lincomb"    -> Lin!ComputesCombination
    [] routine = "bits"       -> Bits!ComputesMultiple
    [] routine = "cortex_m4"  -> M4!ComputesMultiple
    [] OTHER                  -> TRUE

(* Between any two rounds of division steps x is f over the input, up to the
   powers of two still to be divided out; the rounds are enough for f to become 1
   or -1 and the flags for its sign, so that the result is the inverse modulo the
   order (Cortex-M4's mod_n_inv). *)
InvertsScalars == routine = "cortex_m4" => M4!Inverts

(* mul_scalar and lincomb return, although slide's inner loops move their index
   back and forth (slide). *)
Returns == routine \in {"mul_scalar", "lincomb"} ~> phase = "done"
-------------------------------------------------------------------------------
MCCombScalars == {n * 8191 : n \in 0..2047} \cup 0..300

(* The table of multiples, which does not depend on the parameter it is for. *)
SecpTable == INSTANCE Koblitz
             WITH P <- SecpP, B <- SecpB, Order <- SecpOrder, Gx <- SecpGx, Gy <- SecpGy,
                  Limit <- SecpLimit, Multiple <- {}
MCSecpMultiple == SecpTable!MultiplesOfG

MCXStarts == 0..108

MCFixedScalars == 0..300 \cup {n * 61 : n \in 0..1074} \cup 65400..65520
==============================================================================
