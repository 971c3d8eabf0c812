----------------------------- MODULE MCSignatures -----------------------------
(***************************************************************************)
(* The two signature schemes of the crate and the driver over the first,   *)
(* one of which is used: ECDSA (Ecdsa), Ed25519, or Driver.  They share no *)
(* state in the code; here they use the variables of Ecdsa.  The challenge *)
(* of Ed25519 is hash and its nonce signed; of the driver, sig is its r    *)
(* and s, signed the last answer of ecdsa::sign, verdict what it returns.  *)
(*                                                                         *)
(* The instance: ECDSA on the curve y^2 = x^3 - 3x + 15 over 23 elements,  *)
(* with 17 points: three of its x-coordinates are 17 or more (17, 19, 21), *)
(* so that r = 0, r = 2 and r = 4 come from reduced ones, and r = 2 and 4  *)
(* from no other.  Ed25519 over 2^11 - 19 elements, on a curve of 8 * 263  *)
(* points; the digests give the scalars 0, 125, 260 and 263 (unreduced),   *)
(* and others at random.                                                   *)
(***************************************************************************)
EXTENDS Ecdsa

CONSTANTS EdP, EdD, EdSqrtM1, EdYLimit, EdBx, EdBy, EdScalarBits, EdW, EdN, EdL,
          EdHalves, EdDigests, EdKeyLogs, EdRLogs, EdKeyTorsions, EdRTorsions, EdOffsets,
          EdTorsion, EdUndecodable,
          DriverKeys, DriverHashes, MaxDraws, OtherXs, OtherYs, Rs   \* Driver

VARIABLES scheme,                       \* "ecdsa", "ed25519" or "driver"
          phase, nonce, draws, usable   \* Driver

Ed == INSTANCE Ed25519
        WITH P <- EdP, D <- EdD, SqrtM1 <- EdSqrtM1, YLimit <- EdYLimit,
             Bx <- EdBx, By <- EdBy, ScalarBits <- EdScalarBits,
             W <- EdW, N <- EdN, L <- EdL,
             Halves <- EdHalves, Digests <- EdDigests, KeyLogs <- EdKeyLogs,
             RLogs <- EdRLogs, KeyTorsions <- EdKeyTorsions,
             RTorsions <- EdRTorsions, Offsets <- EdOffsets,
             Torsion <- EdTorsion, Undecodable <- EdUndecodable,
             challenge <- hash, nonce <- signed

Drv == INSTANCE Driver
         WITH Keys <- DriverKeys, Hashes <- DriverHashes,
              rs <- sig, result <- signed, ret <- verdict

ASSUME SignaturesAssumption == Ed!Ed25519Parameters /\ Drv!DriverParameters

driverVars == <<phase, nonce, draws, usable>>
allVars == <<vars, scheme, driverVars>>

NoDriver == phase = "none" /\ nonce = 0 /\ draws = 0 /\ usable = FALSE

SchemeInit == \/ scheme = "ecdsa" /\ Init /\ NoDriver
              \/ scheme = "ed25519" /\ Ed!Init /\ NoDriver
              \/ scheme = "driver" /\ Drv!Init /\ query = <<>>

SchemeNext == /\ UNCHANGED scheme
              /\ \/ scheme = "ecdsa" /\ Next /\ UNCHANGED driverVars
                 \/ scheme = "ed25519" /\ Ed!Next /\ UNCHANGED driverVars
                 \/ scheme = "driver" /\ Drv!Next /\ UNCHANGED query

(* The driver's loop is straight-line code, and the generator answers every
   call. *)
SignLoop == /\ scheme = "driver" /\ UNCHANGED <<scheme, query>>
            /\ Drv!EndSign \/ \E k \in Bytes : Drv!Draw(k)

SchemeSpec == SchemeInit /\ [][SchemeNext]_allVars /\ WF_allVars(SignLoop)
-------------------------------------------------------------------------------
(* Signatures hold scalars in range (below 2 L for Ed25519) and encodings. *)
SignatureTypeOK == CASE scheme = "ecdsa"   -> TypeOK
                     [] scheme = "ed25519" -> Ed!TypeOK
                     [] scheme = "driver"  -> Drv!TypeOK

(* Whatever sign returns verifies under the signer's key: for ECDSA in either
   encoding, also when the nonce's point has an x-coordinate of n or more, and
   whatever Z lincomb ends with; for Ed25519 exactly when its scalar was reduced
   and its nonce not zero (ecdsa.rs and ed25519.rs, sign and verify). *)
WhatIsSignedVerifies == CASE scheme = "ecdsa"   -> SignedVerifies
                          [] scheme = "ed25519" -> Ed!SignedVerifies
                          [] OTHER              -> TRUE

(* verify accepts what its standard accepts: for ECDSA exactly the pairs of FIPS
   186-4; for Ed25519 nothing but RFC 8032's, without small orders or unreduced
   scalars, and all of it in the subgroup of order L (verify). *)
AcceptsTheStandard == CASE scheme = "ecdsa"   -> VerifyIsStandard
                        [] scheme = "ed25519" -> Ed!VerifyIsStandard
                        [] OTHER              -> TRUE

(* What the driver's sign returns is a signature of its digest under its key,
   with s at most n/2, although s was negated after ecdsa::sign made the pair
   (embassy.rs, sign and low_s). *)
ReturnsLowSignature == scheme = "driver" => Drv!ReturnsLowSignature

(* The driver's sign fails only on an invalid key, or when every nonce it was
   given was unusable and it had asked for all eight: it never gives up early
   and never drops a signature it made (embassy.rs, sign). *)
GivesUpOnlyWhenUnlucky == scheme = "driver" => Drv!GivesUpOnlyWhenUnlucky

(* No nonce is left in its buffer, by whichever path the driver's sign is left
   (embassy.rs, sign). *)
NonceWiped == scheme = "driver" => Drv!NonceWiped

(* Every call of the driver's sign returns, however bad the nonces are
   (embassy.rs, sign). *)
SignReturns == (phase = "drawing") ~> (phase = "returned")

(* The module's own account of ECDSA's verify, "checking `r * Z == X (mod p)`"
   (src/ecdsa.rs, line 7), for the point in the coordinates verify has it. *)
DocumentedEcdsa == scheme = "ecdsa" => DocumentedEquation

(* The comment in Ed25519's sign, "S = (r + k * a) mod L" (src/curve25519/
   ed25519.rs, line 647). *)
DocumentedEd25519 == scheme = "ed25519" => Ed!DocumentedScalar
-------------------------------------------------------------------------------
MCBadKeys == {[len |-> "full", tag |-> 4, x |-> 1, y |-> 7],
              [len |-> "half", tag |-> 2, x |-> 24, y |-> 0],
              [len |-> "other", tag |-> 4, x |-> 1, y |-> 6]}

MCTorsion == <<543, 971>>

MCUndecodable == {[y |-> 2029, sign |-> 0], [y |-> 2047, sign |-> 1], [y |-> 2, sign |-> 0]}
===============================================================================
