--------------------------------- MODULE MlDsa --------------------------------
(***************************************************************************)
(* The arithmetic of src/mldsa.rs on the portable build, where every       *)
(* operation but mul_ring (see RingProduct) works on one coefficient at a  *)
(* time: a client keeps applying operations to a polynomial of which dsaX  *)
(* is one coefficient.  Sums are never reduced by the code, so that the    *)
(* client must; dsaTerms counts how many numbers below q were summed since *)
(* it last did.                                                            *)
(***************************************************************************)
EXTENDS Integers

CONSTANTS DsaW,        \* the number of values of a coefficient: 2^32
          DsaQ,        \* q
          DsaQinv,     \* MLDSA_QINV, q^-1 modulo DsaW
          DsaH,        \* 2^22, half the power of two that reduce32 divides by
          DsaSizes,    \* bound: sizes of coefficients of other polynomials
          DsaMaxTerms  \* bound: sums without a reduction

Half == DsaW \div 2
Turns == DsaW \div (4 * DsaH)   \* the most q's that reduce32 takes away

ASSUME DsaAssumption ==
  /\ DsaW \in Nat \ {0} /\ DsaH \in Nat \ {0} /\ DsaW = 4 * DsaH * Turns
  /\ DsaQ \in Nat /\ 1 < DsaQ /\ DsaQ <= 2 * DsaH
  /\ DsaH + Turns * (2 * DsaH - DsaQ) < DsaQ
  /\ DsaQinv \in Int /\ (DsaQ * DsaQinv) % DsaW = 1
  /\ DsaSizes \subseteq 0..(DsaQ - 1) /\ 0 \in DsaSizes
  /\ DsaMaxTerms \in Nat

VARIABLES dsaX,       \* a coefficient
          dsaY, dsaZ, \* the coefficients of the polynomials it meets
          dsaOp,      \* the operation that runs, "ready" between two, or "overflow"
          dsaTerms,   \* history: numbers below q summed in dsaX
          dsaCanonical \* history: was the last operation caddq, on one term?

DsaOperands == DsaSizes \cup {-x : x \in DsaSizes}

dsaVars == <<dsaX, dsaY, dsaZ, dsaOp, dsaTerms, dsaCanonical>>

Word32 == (-Half)..(Half - 1)

(* as i32 *)
Signed(x) == ((x + Half) % DsaW) - Half

(* Mutant of MontgomeryReduce: the multiple of q is added, as for -q^-1. *)
MontgomeryReduceAdding(x) ==
  LET t == Signed(Signed(x) * DsaQinv) IN Signed((x + t * DsaQ) \div DsaW)

(* montgomery_reduce: x less the multiple of q that clears its low word. *)
MontgomeryReduce(x) ==
  LET t == Signed(Signed(x) * DsaQinv) IN Signed((x - t * DsaQ) \div DsaW)

(* reduce32_portable, but for the overflow of its sum. *)
Reduced32(x) == x - ((x + DsaH) \div (2 * DsaH)) * DsaQ

DsaInit == /\ dsaX \in DsaOperands /\ dsaY = 0 /\ dsaZ = 0
           /\ dsaOp = "ready" /\ dsaTerms = 1 /\ dsaCanonical = FALSE

DsaOps == {"pointwise", "accumulate", "add", "sub", "reduce32", "caddq"}

DsaCall == /\ dsaOp = "ready"
           /\ dsaOp' \in DsaOps
           /\ dsaTerms < DsaMaxTerms \/ dsaOp' \in {"pointwise", "reduce32", "caddq"}
           /\ dsaY' \in DsaOperands
           /\ dsaZ' \in IF dsaOp' = "accumulate" THEN DsaOperands ELSE {0}
           /\ UNCHANGED <<dsaX, dsaTerms, dsaCanonical>>

(* x is the result, unless a word cannot hold it: with overflow checks the
   call panics. *)
DsaReturn(x, terms) ==
  /\ IF x \in Word32 THEN dsaX' = x /\ dsaOp' = "ready" /\ dsaTerms' = terms
     ELSE /\ dsaOp' = "overflow" /\ UNCHANGED dsaX
          /\ dsaTerms' = IF terms < dsaTerms THEN dsaTerms ELSE terms
  /\ dsaCanonical' = (dsaOp = "caddq" /\ terms = 1)
  /\ dsaY' = 0 /\ dsaZ' = 0

PointwiseMont == /\ dsaOp = "pointwise"
                 /\ DsaReturn(MontgomeryReduce(dsaX * dsaY), 1)

(* The accumulator wraps; that loses the residue and is counted as overflow. *)
PointwiseAccMont ==
  /\ dsaOp = "accumulate"
  /\ DsaReturn(dsaX + MontgomeryReduce(dsaY * dsaZ), dsaTerms + 1)

DsaAdd == dsaOp = "add" /\ DsaReturn(dsaX + dsaY, dsaTerms + 1)

DsaSub == dsaOp = "sub" /\ DsaReturn(dsaX - dsaY, dsaTerms + 1)

(* Mutant of Reduce32: the sum's overflow aside, it rounds down. *)
Reduce32Floor ==
  /\ dsaOp = "reduce32"
  /\ DsaReturn(dsaX - (dsaX \div (2 * DsaH)) * DsaQ, 1)

(* reduce32: the sum with 2^22 overflows before anything is reduced. *)
Reduce32 ==
  /\ dsaOp = "reduce32"
  /\ DsaReturn(IF dsaX + DsaH \in Word32 THEN Reduced32(dsaX) ELSE dsaX + DsaH, 1)

Caddq == /\ dsaOp = "caddq"
         /\ DsaReturn(IF dsaX < 0 THEN dsaX + DsaQ ELSE dsaX, dsaTerms)

DsaNext == \/ DsaCall \/ PointwiseMont \/ PointwiseAccMont \/ DsaAdd \/ DsaSub
           \/ Reduce32 \/ Caddq

DsaSpec == DsaInit /\ [][DsaNext]_dsaVars
-------------------------------------------------------------------------------
DsaTypeOK == /\ dsaX \in Word32
             /\ dsaY \in DsaOperands /\ dsaZ \in DsaOperands
             /\ dsaOp \in DsaOps \cup {"ready", "overflow"}
             /\ dsaTerms \in Nat \ {0} /\ dsaCanonical \in BOOLEAN

(* A coefficient is no greater than what was counted, after overflows too; as
   many sums as leave room for 2^22 cannot overflow, in the operation that makes
   them or in a later reduce32, which starts the count anew, as a product does,
   from numbers of either sign below q; and caddq after either makes them
   canonical (add, sub, pointwise_acc_mont, reduce32, caddq). *)
SumsLeaveRoom ==
  /\ dsaX \in (-(dsaTerms * (DsaQ - 1)))..(dsaTerms * (DsaQ - 1))
  /\ dsaOp = "overflow" => dsaTerms * (DsaQ - 1) + DsaH >= Half
  /\ dsaOp = "ready" /\ dsaCanonical => dsaX \in 0..(DsaQ - 1)

(* Between overflows every operation computes in the integers modulo q: a
   product with 2^-32, sums and reductions as they are (montgomery_reduce,
   reduce32_portable and their callers). *)
DsaComputesModQ ==
  [][dsaOp # "ready" /\ dsaOp' = "ready" =>
       \/ dsaOp = "pointwise" /\ (dsaX' * DsaW) % DsaQ = (dsaX * dsaY) % DsaQ
       \/ dsaOp = "accumulate" /\ ((dsaX' - dsaX) * DsaW) % DsaQ = (dsaY * dsaZ) % DsaQ
       \/ dsaOp = "add" /\ dsaX' % DsaQ = (dsaX + dsaY) % DsaQ
       \/ dsaOp = "sub" /\ dsaX' % DsaQ = (dsaX - dsaY) % DsaQ
       \/ dsaOp \in {"reduce32", "caddq"} /\ dsaX' % DsaQ = dsaX % DsaQ]_dsaVars
===============================================================================
