------------------------------ MODULE MCModular -------------------------------
(***************************************************************************)
(* The arithmetic the crate rests on, one part of which runs: a chain of   *)
(* field operations of src/backend/portable.rs (Montgomery) or of          *)
(* src/secp256k1.rs (Solinas, Comba), a call of modexp_public of           *)
(* src/rsa.rs (ModExp), an inverse or a square root (FermatChains), a      *)
(* reduction modulo the order of Ed25519 (EdReduction), sums and products  *)
(* of limbs modulo 2^255 - 19 (Fe51), or the polynomials of ML-KEM and     *)
(* ML-DSA (RingProduct, MlDsa, MlKem).  The parts share no state in the    *)
(* code; here the variables of ModExp serve most of them, and one that the *)
(* part that runs does not use rests at its first value.                   *)
(*                                                                         *)
(* The instance: field operations on three words of two bits, those of     *)
(* secp256k1 modulo 64 - 7; exponentiation on two words of four bits, by   *)
(* every exponent of at most three bytes of two bits; the inverses and     *)
(* square roots at their real sizes; scalars of five words of two bits     *)
(* modulo 263, where R is close to L and R + RR is more than L, as at the  *)
(* real size; three limbs of seven bits modulo 2^21 - 2; products of three *)
(* coefficients modulo 17 whose sums may just fill the accumulator; ML-DSA *)
(* on words of 11 bits modulo 2^8 - 2^4 + 1, where as many sums fit as     *)
(* 2^11 bounds; ML-KEM at its real size, on chosen polynomials.            *)
(***************************************************************************)
EXTENDS Montgomery, RingProduct, MlDsa, MlKem, Sequences

CONSTANTS WordBits, Words, NewtonSteps, ByteBits, ExpModuli, Bases, Exponents,  \* ModExp
          Low,                                                              \* Solinas
          ScalarWords, L, Wides, Narrows,                                   \* EdReduction
          LimbM, LimbK, LimbC, LimbCorners, LimbRounds                      \* Fe51

VARIABLES part,
          path, base, exponent, modulus, pc, bits, pos, acc, baseMont, status, result

Exp == INSTANCE ModExp WITH N <- Words
Chains == INSTANCE FermatChains WITH chain <- path, pc <- pos, left <- acc, reg <- result
Sol == INSTANCE Solinas WITH x <- base, y <- exponent, job <- path,
                             hi <- acc, lo <- baseMont, carry <- pos
Prod == INSTANCE Comba WITH kind <- path, a <- base, b <- exponent, i <- pos,
                            out <- result
Scal == INSTANCE EdReduction WITH N <- ScalarWords, call <- path, a <- base, b <- exponent,
                               i <- pos, t <- acc, passes <- modulus
Limb == INSTANCE Fe51 WITH M <- LimbM, K <- LimbK, C <- LimbC, Corners <- LimbCorners,
                           Rounds <- LimbRounds, x <- base, y <- exponent,
                           vx <- acc, vy <- baseMont, left <- pos

ASSUME ModularAssumption == /\ Exp!ModExpParameters
                            /\ Sol!SolinasParameters
                            /\ Prod!CombaParameters
                            /\ Scal!EdReductionParameters
                            /\ Limb!Fe51Parameters

expVars == <<path, base, exponent, modulus, pc, bits, pos, acc, baseMont, status, result>>

latticeVars == <<ringVars, dsaVars, kemVars>>

modularVars == <<vars, part, expVars, latticeVars>>

FieldRests == /\ p = CHOOSE q \in Moduli : TRUE
              /\ n0inv = 0 /\ a = 0 /\ b = 0
              /\ op = "ready" /\ i = 0 /\ t = 0 /\ rest = 0

ExpRests == /\ path = 0 /\ base = 0 /\ exponent = 0 /\ modulus = 0 /\ pc = 0 /\ bits = 0
            /\ pos = 0 /\ acc = 0 /\ baseMont = 0 /\ status = 0 /\ result = 0

RingRests == /\ lhs = <<>> /\ rhs = <<>> /\ turn = 0 /\ prod = <<>>
             /\ stage = "none" /\ out = <<>>

DsaRests == /\ dsaX = 0 /\ dsaY = 0 /\ dsaZ = 0
            /\ dsaOp = "ready" /\ dsaTerms = 1 /\ dsaCanonical = FALSE

KemRests == /\ kemJob = "none" /\ kemInput = <<>> /\ kemPoly = <<>> /\ kemVal = <<>>
            /\ kemLen = 0 /\ kemStart = 0 /\ kemK = 0 /\ kemTerms = 0
            /\ kemReduced = FALSE /\ kemLost = FALSE

NumberInit ==
  \/ part = "field" /\ Init /\ ExpRests
  \/ part = "modexp" /\ FieldRests /\ Exp!Init
  \/ /\ part = "chain" /\ FieldRests /\ Chains!Init
     /\ base = 0 /\ exponent = 0 /\ modulus = 0 /\ pc = 0 /\ bits = 0
     /\ baseMont = 0 /\ status = 0
  \/ /\ part = "solinas" /\ FieldRests /\ Sol!Init
     /\ modulus = 0 /\ pc = 0 /\ bits = 0 /\ status = 0 /\ result = 0
  \/ /\ part = "product" /\ FieldRests /\ Prod!Init
     /\ modulus = 0 /\ pc = 0 /\ bits = 0 /\ baseMont = 0 /\ status = 0
  \/ /\ part = "scalar" /\ FieldRests /\ Scal!Init
     /\ pc = 0 /\ bits = 0 /\ baseMont = 0 /\ status = 0
  \/ /\ part = "limbs" /\ FieldRests /\ Limb!Init
     /\ path = 0 /\ modulus = 0 /\ pc = 0 /\ bits = 0 /\ status = 0 /\ result = 0

ModularInit ==
  \/ NumberInit /\ RingRests /\ DsaRests /\ KemRests
  \/ /\ FieldRests /\ ExpRests
     /\ \/ part = "ring" /\ RingInit /\ DsaRests /\ KemRests
        \/ part = "dsa" /\ DsaInit /\ RingRests /\ KemRests
        \/ part = "kem" /\ KemInit /\ RingRests /\ DsaRests

FieldNext == part = "field" /\ Next /\ UNCHANGED <<part, expVars>>

ExpNext == part = "modexp" /\ Exp!Next /\ UNCHANGED <<vars, part>>

ChainNext == /\ part = "chain" /\ Chains!Next
             /\ UNCHANGED <<vars, part, base, exponent, modulus, pc, bits, baseMont, status>>

SolinasNext == /\ part = "solinas" /\ Sol!Next
               /\ UNCHANGED <<vars, part, modulus, pc, bits, status, result>>

ProductNext == /\ part = "product" /\ Prod!Next
               /\ UNCHANGED <<vars, part, modulus, pc, bits, baseMont, status>>

ScalarNext == /\ part = "scalar" /\ Scal!Next
              /\ UNCHANGED <<vars, part, pc, bits, baseMont, status>>

LimbsNext == /\ part = "limbs" /\ Limb!Next
             /\ UNCHANGED <<vars, part, path, modulus, pc, bits, status, result>>

NumberNext == \/ FieldNext \/ ExpNext \/ ChainNext
              \/ SolinasNext \/ ProductNext \/ ScalarNext \/ LimbsNext

LatticeNext == /\ \/ part = "ring" /\ RingNext /\ UNCHANGED <<dsaVars, kemVars>>
                  \/ part = "dsa" /\ DsaNext /\ UNCHANGED <<ringVars, kemVars>>
                  \/ part = "kem" /\ KemNext /\ UNCHANGED <<ringVars, dsaVars>>
               /\ UNCHANGED <<vars, part, expVars>>

ModularNext == \/ NumberNext /\ UNCHANGED latticeVars
               \/ LatticeNext

ModularSpec == ModularInit /\ [][ModularNext]_modularVars
-------------------------------------------------------------------------------
(* Words, indices and stages of the part that runs are in their ranges, and
   nothing overflows what holds it. *)
ModularTypeOK == CASE part = "field"   -> TypeOK
                   [] part = "modexp"  -> Exp!TypeOK
                   [] part = "chain"   -> Chains!TypeOK
                   [] part = "solinas" -> Sol!TypeOK
                   [] part = "product" -> Prod!TypeOK
                   [] part = "scalar"  -> Scal!TypeOK
                   [] part = "limbs"   -> Limb!TypeOK
                   [] part = "ring"    -> stage \in {"multiply", "returned", "overflow"}
                   [] part = "dsa"     -> DsaTypeOK
                   [] part = "kem"     -> KemTypeOK

(* At every turn of the loop the accumulator is congruent to the power for the
   exponent's bits read so far, and reduced but for what the asm path's products
   leave of a modulus whose top bit is set; what is returned is base^exponent mod
   modulus, on both paths, but for the exponent 1 on the asm path and the modulus 1
   (modexp_public). *)
ComputesPower == part = "modexp" => Exp!PrefixPower /\ Exp!ReturnsPower

(* "Compute base^exponent mod modulus for public exponents", rsa.rs:54. *)
DocumentedPower == part = "modexp" => Exp!DocumentedPower

(* Each chain raises its input to the exponent it is there for (Fe::invert,
   Fe::sqrt, Scalar::invert, Fe51::invert, FieldElement::invert and sqrt,
   pow_p_plus_3_over_8). *)
RaisesToExponent == part = "chain" => Chains!RaisesToExponent

(* No fold, column or conditional subtraction loses a carry: what a product has
   pending is congruent to it at every step, results are reduced as far as
   their callers need, and no limb borrows (secp256k1_reduce, comba_mul_8,
   comba_sqr_8; montgomery_reduce and its callers in ed25519.rs; Fe51; the
   Plantard and Barrett reductions of mlkem.rs and their callers). *)
KeepsResidue == /\ part = "solinas" => Sol!KeepsResidue
                /\ part = "product" => Prod!ColumnsAddUp
                /\ part = "scalar"  => Scal!ResultIsResidue
                /\ part = "limbs"   => Limb!KeepsResidue
                /\ part = "kem"     => KemKeepsResidue

(* Each operation on secp256k1 field elements returns the sum, difference,
   opposite or product mod p (FieldElement::add, sub, neg, mul). *)
ComputesModP == [][part = "solinas" => Sol!ReturnsModP]_modularVars
-------------------------------------------------------------------------------
MCPow == [j \in 0..N |-> W^j]

MCWides == {971 * k : k \in 0..1079}
MCNarrows == {7 * k : k \in 0..40} \cup 1018..1023

MCRingPolys == [0..2 -> {0, 1, 9, 16}]

MCKemInputs == {KemMonomial(2), [j \in Index |-> 4095],
                [j \in Index |-> (77 * j * j + 13 * j + 5) % 3329]}
MCKemPairs == {Pair(3329, -1664), Pair(3328, 3328), Pair(2047, 4095), Pair(1, 3328),
               Pair(2047, 2)}
MCKemProducts == {<<Pair(2047, 4095), Pair(1, 3328)>>, <<Pair(3328, 3328), Pair(2047, 2)>>}
MCKemMaxTerms == <<16, 1, 0>>

MCExponents == UNION {[1..n -> 0..3] : n \in 0..3}
===============================================================================
