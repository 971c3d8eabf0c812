-------------------------------- MODULE Ecdsa --------------------------------
(***************************************************************************)
(* A signer and a verifier using src/ecdsa.rs.  The signer signs one       *)
(* message hash with one nonce; the verifier is given its signature, or    *)
(* any other pair of integers that fit the buffers.  The Jacobian point    *)
(* lincomb returns has some Z that depends on the order of its additions:  *)
(* verify, which inverts nothing, must not depend on it.  Either of them   *)
(* may be a Cortex-M4.                                                     *)
(***************************************************************************)
EXTENDS Curve

CONSTANTS Keys,    \* bound: private keys
          Hashes,  \* bound: message hashes, as the integers they encode
          Zs,      \* bound: Z coordinates of the point verify computes
          BadKeys  \* bound: encodings given to verify that no point has

ASSUME EcdsaAssumption ==
  /\ Keys \subseteq Bytes /\ Hashes \subseteq Bytes
  /\ Zs \subseteq 1..(P - 1) /\ BadKeys \subseteq Encoding

VARIABLES key,     \* the signer's private key
          hash,    \* the message hash
          sig,     \* what sign wrote: empty, or <<r, s>>
          signed,  \* what sign returned
          query,   \* the arguments of verify, and the point it computed
          verdict  \* what verify returned

vars == <<key, hash, sig, signed, query, verdict>>

Init == /\ key \in Keys /\ hash \in Hashes
        /\ sig = <<>> /\ signed = "none"
        /\ query = <<>> /\ verdict = "none"

Sign(k) ==
  /\ signed = "none"
  /\ \E outcome \in {SignOutcome(key, hash, k), M4SignOutcome(key, hash, k)} :
       IF outcome.ok THEN signed' = "Ok" /\ sig' = <<outcome.r, outcome.s>>
       ELSE signed' = outcome.err /\ UNCHANGED sig
  /\ UNCHANGED <<key, hash, query, verdict>>

Verify(e, r, s, z) ==
  /\ verdict = "none"
  /\ \E outcome \in {VerifyOutcome(e, hash, r, s, z), M4VerifyOutcome(e, hash, r, s, z)} :
       /\ query' = <<e, r, s, outcome.pt>>
       /\ verdict' = outcome.res
  /\ UNCHANGED <<key, hash, sig, signed>>

PublicKeys == IF InRange(key) THEN KeyEncodings(key) ELSE {}

Next ==
  \/ verdict = "none" /\ \E k \in Bytes : Sign(k)
  \/ /\ verdict = "none" /\ sig # <<>>
     /\ \E e \in PublicKeys, z \in Zs : Verify(e, sig[1], sig[2], z)
  \/ /\ verdict = "none" /\ signed = "none"
     /\ \E e \in PublicKeys \cup BadKeys, r, s \in Bytes, z \in Zs :
          Verify(e, r, s, z)

Spec == Init /\ [][Next]_vars
-------------------------------------------------------------------------------
(* A signature that leaves sign has both halves in [1, n-1]. *)
TypeOK ==
  /\ key \in Keys /\ hash \in Hashes
  /\ sig = <<>> \/ sig \in (1..(Order - 1)) \X (1..(Order - 1))
  /\ signed \in {"none", "Ok", "BadScalar"}
  /\ query = <<>> \/ query \in Encoding \X Bytes \X Bytes
                              \X [x : Field, y : Field, z : Field]
  /\ verdict \in {"none", "Ok", "BadLength", "BadPoint", "BadSignature"}

(* Whatever sign returns verifies under the signer's key in either encoding,
   also when the nonce's point has an x-coordinate of n or more, and whatever
   Z lincomb ends with (sign, verify). *)
SignedVerifies ==
  sig # <<>> /\ query # <<>> /\ query[1] \in PublicKeys
    /\ <<query[2], query[3]>> = sig
  => verdict = "Ok"

(* verify accepts exactly the pairs that FIPS 186-4 accepts: the test without
   inversion, with its second candidate r + n, neither rejects nor accepts
   more (verify). *)
VerifyIsStandard ==
  query # <<>> =>
    (verdict = "Ok" <=> Standard(query[1], hash, query[2], query[3]))

(* The module's own account of verify, "checking `r * Z == X (mod p)`"
   (src/ecdsa.rs, line 7), for the point in the coordinates verify has it. *)
DocumentedEquation ==
  verdict = "Ok" =>
    LET r == query[2]  pt == query[4]
    IN  FMul(r, pt.z) = pt.x \/ FMul(r + Order, pt.z) = pt.x
==============================================================================
