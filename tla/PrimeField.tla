------------------------------ MODULE PrimeField ------------------------------
(***************************************************************************)
(* The field of P elements, P a prime: FieldElement (src/secp256k1.rs), and *)
(* Fe51 (src/curve25519/portable.rs) up to the multiple of P its limbs may *)
(* hold.  Solinas and FermatChains model how these operations are computed.*)
(***************************************************************************)
EXTENDS Integers

CONSTANT P   \* the prime (CurveParams.field)

Field == 0..(P - 1)

FAdd(a, b) == (a + b) % P
FSub(a, b) == (a + (P - b)) % P
FMul(a, b) == (a * b) % P
FSqr(a)    == FMul(a, a)
FNeg(a)    == FSub(0, a)

Power(a, e) ==
  LET pow[n \in 0..e] ==
        IF n = 0 THEN 1
        ELSE FMul(FSqr(pow[n \div 2]), IF n % 2 = 1 THEN a ELSE 1)
  IN  pow[e]

FInvert(a) == Power(a, P - 2)
==============================================================================
