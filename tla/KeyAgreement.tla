----------------------------- MODULE KeyAgreement -----------------------------
(***************************************************************************)
(* Two parties agreeing on a key: with src/ecdh.rs, with src/secp256k1.rs, *)
(* or with src/curve25519/x25519.rs through its driver in src/embassy.rs.  *)
(* They use one of three families of curves; each derives its public key,  *)
(* and computes a secret from whatever arrives in place of the peer's.     *)
(* For P-256 a Cortex-M4 has functions of its own in place of ecdh.rs's;   *)
(* each call is made by one build or by the other.                         *)
(***************************************************************************)
EXTENDS Curve

CONSTANTS Secrets, Malformed,                                      \* ecdh.rs
          SecpP, SecpB, SecpOrder, SecpGx, SecpGy, SecpLimit, SecpMultiple,
          SecpSecrets, SecpMalformed,                              \* secp256k1.rs
          XP, XA24, XULimit, XBaseU, XBits, XSecrets, XArrivals    \* x25519.rs
          \* ...Secrets: bound, the secrets parties are given, as integers
          \* ...Malformed, XArrivals: bound, the encodings that arrive instead

Secp == INSTANCE Koblitz
          WITH P <- SecpP, B <- SecpB, Order <- SecpOrder, Gx <- SecpGx, Gy <- SecpGy,
               Limit <- SecpLimit, Multiple <- SecpMultiple
Mont == INSTANCE X25519
          WITH P <- XP, A24 <- XA24, ULimit <- XULimit, BaseU <- XBaseU, Bits <- XBits

(* No clamped scalar is a multiple of the order of X25519's BASEPOINT. *)
ASSUME KeyAgreementAssumption ==
  /\ Secrets \subseteq 0..(Limit - 1) /\ Malformed \subseteq Encoding
  /\ Secp!KoblitzParameters /\ Secp!KoblitzGroup
  /\ SecpSecrets \subseteq 0..(SecpLimit - 1) /\ SecpMalformed \subseteq Secp!Encoding
  /\ Mont!X25519Parameters /\ XSecrets \cup XArrivals \subseteq Nat
  /\ \A k \in XSecrets : Mont!TimesU(Mont!Clamp(k), XBaseU) # None

Party == {"a", "b"}
Peer(p) == IF p = "a" THEN "b" ELSE "a"

VARIABLES family,   \* "nist", "secp256k1" or "x25519"
          secret,   \* each party's secret, as the integer its bytes encode
          pub,      \* each party's public key: Untouched, or <<encoding>>
          heard,    \* the encoding each party took for its peer's key
          out,      \* each party's shared secret
          result    \* what its last call returned

agreementVars == <<family, secret, pub, heard, out, result>>

Untouched == <<>>

AgreementInit ==
  /\ \/ family = "nist" /\ secret \in [Party -> Secrets]
     \/ family = "secp256k1" /\ secret \in [Party -> SecpSecrets]
     \/ family = "x25519" /\ secret \in [Party -> XSecrets]
  /\ pub    = [p \in Party |-> Untouched]
  /\ heard  = [p \in Party |-> Untouched]
  /\ out    = [p \in Party |-> Untouched]
  /\ result = [p \in Party |-> "none"]

(* A call writes its output or leaves it as it was. *)
Written(bytes) == [result |-> "Ok", bytes |-> <<bytes>>]
Failed(err)    == [result |-> err, bytes |-> Untouched]
-------------------------------------------------------------------------------
(* Mutant of ScalarInRange: only zero is refused. *)
ScalarNonzero(k) == 0 < k

ScalarInRange(k) == 0 < k /\ k < Order

Encode(compress, pt) == IF compress THEN EncodeHalf(pt) ELSE EncodeFull(pt)

(* derive_public_key and derive_public_key_compressed; lengthsOk says whether
   both buffers have the length the function asks for. *)
NistPublic(k, compress, lengthsOk) ==
  LET pt == Multiple[k % Order]
  IN  IF ~lengthsOk THEN Failed("BadLength")
      ELSE IF ~ScalarInRange(k) THEN Failed("BadScalar")
      ELSE IF pt = None THEN Failed("BadPoint")
      ELSE Written(Encode(compress, pt))

(* shared_secret(secret, e, out). *)
NistShared(k, e, lengthsOk) ==
  LET peer == Decode(e)
  IN  IF ~lengthsOk THEN Failed("BadLength")
      ELSE IF ~ScalarInRange(k) THEN Failed("BadScalar")
      ELSE IF ~peer.ok THEN Failed(peer.err)
      ELSE LET shared == ScalarMul(k, peer.pt)
           IN  IF shared = None THEN Failed("BadPoint") ELSE Written(shared[1])

(* derive_public_key, its compressed form and ecdh_shared_secret of Cortex-M4: no
   point at infinity is looked for, as none can come of a scalar in range. *)
M4Public(k, compress, lengthsOk) ==
  IF ~lengthsOk THEN Failed("BadLength")
  ELSE IF ~ScalarInRange(k) THEN Failed("BadScalar")
  ELSE Written(Encode(compress, Multiple[k % Order]))

M4Shared(k, e, lengthsOk) ==
  LET peer == M4Decode(e)
  IN  IF ~lengthsOk THEN Failed("BadLength")
      ELSE IF ~ScalarInRange(k) THEN Failed("BadScalar")
      ELSE IF ~peer.ok THEN Failed(peer.err)
      ELSE Written(ScalarMul(k, peer.pt)[1])

(* public_key_from_secret: only zero is refused before it is multiplied. *)
SecpPublic(k, compress) ==
  LET pt == SecpMultiple[k % SecpOrder]
  IN  IF k = 0 THEN Failed("InvalidScalar")
      ELSE IF pt = None THEN Failed("PointAtInfinity")
      ELSE Written(Secp!Encode(pt, compress))

(* Mutant of SecpShared: the other coordinate. *)
SecpSharedY(k, e) ==
  LET peer   == Secp!Decode(e)
      shared == Secp!ScalarMul(k, peer.pt)
  IN  IF ~peer.ok THEN Failed(peer.err)
      ELSE IF shared = None THEN Failed("PointAtInfinity")
      ELSE Written(shared[2])

(* from_sec1_bytes, then ecdh, which looks at the scalar no more. *)
SecpShared(k, e) ==
  LET peer   == Secp!Decode(e)
      shared == Secp!ScalarMul(k, peer.pt)
  IN  IF ~peer.ok THEN Failed(peer.err)
      ELSE IF shared = None THEN Failed("PointAtInfinity")
      ELSE Written(shared[1])

(* X25519::public_key and shared_secret take every 32 bytes. *)
XPublic(k)    == Written(Mont!PublicKey(k))
XShared(k, u) == Written(Mont!Scalarmult(k, u))
-------------------------------------------------------------------------------
Derive(p, r) == /\ pub' = [pub EXCEPT ![p] = r.bytes]
                /\ result' = [result EXCEPT ![p] = r.result]
                /\ UNCHANGED <<family, secret, heard, out>>

Share(p, e, r) == /\ heard' = [heard EXCEPT ![p] = <<e>>]
                  /\ out' = [out EXCEPT ![p] = r.bytes]
                  /\ result' = [result EXCEPT ![p] = r.result]
                  /\ UNCHANGED <<family, secret, pub>>

DeriveKey(p) ==
  /\ pub[p] = Untouched
  /\ \/ family = "nist" /\ \E compress, ok \in BOOLEAN :
                              \/ Derive(p, NistPublic(secret[p], compress, ok))
                              \/ Derive(p, M4Public(secret[p], compress, ok))
     \/ family = "secp256k1" /\ \E compress \in BOOLEAN :
                                   Derive(p, SecpPublic(secret[p], compress))
     \/ family = "x25519" /\ Derive(p, XPublic(secret[p]))

HearPeer(p) ==
  /\ heard[p] = Untouched /\ pub[Peer(p)] # Untouched
  /\ LET e == pub[Peer(p)][1]
     IN  \/ family = "nist" /\ \E ok \in BOOLEAN :
                                  \/ Share(p, e, NistShared(secret[p], e, ok))
                                  \/ Share(p, e, M4Shared(secret[p], e, ok))
         \/ family = "secp256k1" /\ Share(p, e, SecpShared(secret[p], e))
         \/ family = "x25519" /\ Share(p, e, XShared(secret[p], e))

HearOther(p) ==
  /\ heard[p] = Untouched
  /\ \/ family = "nist" /\ \E e \in Malformed :
                              \/ Share(p, e, NistShared(secret[p], e, TRUE))
                              \/ Share(p, e, M4Shared(secret[p], e, TRUE))
     \/ family = "secp256k1" /\ \E e \in SecpMalformed : Share(p, e, SecpShared(secret[p], e))
     \/ family = "x25519" /\ \E u \in XArrivals : Share(p, u, XShared(secret[p], u))

AgreementNext == (\E p \in Party : DeriveKey(p) \/ HearPeer(p)) \/ HearOther("a")

AgreementSpec == AgreementInit /\ [][AgreementNext]_agreementVars
-------------------------------------------------------------------------------
(* Buffers hold encodings, outputs the x-coordinates of points of the curve. *)
AgreementTypeOK ==
  \A p \in Party :
    CASE family = "nist" ->
           /\ pub[p] = Untouched \/ pub[p][1] \in Encoding
           /\ out[p] = Untouched \/ out[p] \in {<<pt[1]>> : pt \in CurvePoints}
           /\ result[p] \in {"none", "Ok", "BadLength", "BadScalar", "BadPoint"}
      [] family = "secp256k1" ->
           /\ pub[p] = Untouched \/ pub[p][1].x \in Secp!Field
           /\ out[p] = Untouched \/ out[p] \in {<<pt[1]>> : pt \in Secp!CurvePoints}
           /\ result[p] \in {"none", "Ok", "InvalidScalar", "InvalidEncoding",
                             "PointNotOnCurve", "PointAtInfinity"}
      [] family = "x25519" ->
           /\ pub[p] = Untouched \/ pub[p][1] \in Mont!Field
           /\ out[p] = Untouched \/ out[p][1] \in Mont!Field
           /\ result[p] \in {"none", "Ok"}

HeardPeer(p) == heard[p] # Untouched /\ heard[p] = pub[Peer(p)]

CommonSecret ==
  CASE family = "nist" -> <<Multiple[(secret["a"] * secret["b"]) % Order][1]>>
    [] family = "secp256k1" ->
         <<SecpMultiple[(secret["a"] * secret["b"]) % SecpOrder][1]>>
    [] family = "x25519" ->
         Mont!TimesU(Mont!Clamp(secret["a"]) * Mont!Clamp(secret["b"]), XBaseU)

(* A party that heard the other's key, in whatever encoding, holds the secret of
   the product of their scalars, as the other then does (shared_secret, ecdh,
   scalarmult). *)
PartiesAgree ==
  \A p \in Party : HeardPeer(p) /\ out[p] # Untouched => out[p] = CommonSecret

(* A secret comes only from a key that is, byte for byte, an encoding of a point
   of the curve, "Validation is not optional" (Point::decode,
   AffinePoint::from_encoded_point); X25519, which takes all bytes, returns zero
   for the points of small order, however they are written, and for no others. *)
OnlyValidPeers ==
  \A p \in Party :
    out[p] # Untouched =>
      LET e == heard[p][1]
      IN  CASE family = "nist" ->
                 /\ secret[p] \in 1..(Order - 1)
                 /\ \E pt \in CurvePoints : e \in {EncodeFull(pt), EncodeHalf(pt)}
            [] family = "secp256k1" ->
                 /\ secret[p] % SecpOrder # 0
                 /\ Secp!Decode(e).pt \in Secp!CurvePoints
                 /\ \E compress \in BOOLEAN : e = Secp!Encode(Secp!Decode(e).pt, compress)
            [] family = "x25519" ->
                 out[p] = <<0>>
                   <=> Mont!TimesU(8, (e % XULimit) % XP) \in {None, <<0>>}

(* Validation refuses no key that the other side derived, and X25519 never
   returns zero for one. *)
HonestPeersHeard ==
  \A p \in Party :
    HeardPeer(p) =>
      CASE family = "nist" ->
             secret[p] \in 1..(Order - 1) => result[p] \in {"Ok", "BadLength"}
        [] family = "secp256k1" -> secret[p] % SecpOrder # 0 => out[p] # Untouched
        [] family = "x25519" -> out[p] # <<0>>
-------------------------------------------------------------------------------
(* The instance that is checked: ecdh.rs on the curve y^2 = x^3 - 3x + 15 over
   23 elements, with 17 points; secp256k1 on y^2 = x^3 + 7 over 79, with 67;
   X25519 over 2^7 - 19, on a curve of 8 * 13 points and a twist of 4 * 29, with
   every byte as a peer's key. *)

(* Full encodings with the right tag, every x that 5 bits hold and both
   roots, wrong roots and unreduced ones (29 is 6 + 23) as y; some with a wrong
   tag; every short encoding with any tag; and one of another length. *)
MCMalformed ==
  [len : {"full"}, tag : {4}, x : 0..31, y : {0, 6, 11, 12, 17, 18, 23, 29}]
    \cup [len : {"full"}, tag : {2}, x : {1}, y : 0..31]
    \cup [len : {"half"}, tag : 0..7, x : 0..31, y : {0}]
    \cup [len : {"other"}, tag : {4}, x : {1}, y : {6}]

(* The table of multiples, which does not depend on the parameter it is for. *)
SecpTable == INSTANCE Koblitz
             WITH P <- SecpP, B <- SecpB, Order <- SecpOrder, Gx <- SecpGx, Gy <- SecpGy,
                  Limit <- SecpLimit, Multiple <- {}
MCSecpMultiple == SecpTable!MultiplesOfG

(* Likewise, with x and y below, at and above 79, and the lengths that neither form has. *)
MCSecpMalformed ==
  [len : {33}, tag : 2..4, x : (0..9) \cup {60, 78, 79, 80, 127}, y : {0}]
    \cup [len : {65}, tag : {2, 4}, x : {1, 60, 80}, y : {10, 18, 61, 97}]
    \cup [len : {0, 1}, tag : {2, 4}, x : {1}, y : {18}]

MCXArrivals == 0..255
==============================================================================
