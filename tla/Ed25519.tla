-------------------------------- MODULE Ed25519 --------------------------------
(***************************************************************************)
(* A signer and a verifier using src/curve25519/ed25519.rs.  The signer    *)
(* signs one message; the verifier is given its signature and key, or      *)
(* those of somebody else, who may add points of small order to them.      *)
(* SHA-512 is a source of digests: one of seed, one of prefix and message, *)
(* and one of the R, A and message that a behaviour signs or verifies.     *)
(*                                                                         *)
(* First EdwardsPoint, on the curve -x^2 + y^2 = 1 + D x^2 y^2 with D not  *)
(* a square: its addition, which is complete, compression and              *)
(* decompression, multiplication by a scalar.                              *)
(***************************************************************************)
EXTENDS PrimeField, EdScalar

CONSTANTS D, SqrtM1,  \* the curve's constant, a root of -1
          YLimit,     \* 2^255: what an encoding's low bits can hold
          Bx, By,     \* ED25519_BASEPOINT_POINT
          ScalarBits  \* 256

EdwardsParameters == /\ P \in Nat /\ P % 8 = 5 /\ P <= YLimit /\ YLimit < 2 * P
                     /\ FSqr(SqrtM1) = P - 1
                     /\ Power(D, (P - 1) \div 2) = P - 1
                     /\ FSub(FSqr(By), FSqr(Bx)) = FAdd(1, FMul(D, FMul(FSqr(Bx), FSqr(By))))

(* PointFe: (X : Y : Z), and T = X Y / Z. *)
Pt(x, y, z, t) == [x |-> x, y |-> y, z |-> z, t |-> t]
FromXY(x, y)   == Pt(x, y, 1, FMul(x, y))
Identity       == FromXY(0, 1)
BasePoint      == FromXY(Bx, By)

(* edwards_add_fe *)
Add(p, q) ==
  LET a == FMul(FSub(p.y, p.x), FSub(q.y, q.x))
      b == FMul(FAdd(p.y, p.x), FAdd(q.y, q.x))
      c == FMul(FMul(FAdd(D, D), p.t), q.t)
      d == FMul(FAdd(p.z, p.z), q.z)
      e == FSub(b, a)
      f == FSub(d, c)
      g == FAdd(d, c)
      h == FAdd(b, a)
  IN  Pt(FMul(e, f), FMul(g, h), FMul(f, g), FMul(e, h))

Neg(p) == Pt(FNeg(p.x), p.y, p.z, FNeg(p.t))

(* Scalar * EdwardsPoint: every bit of the scalar's words, from the highest. *)
Times(s, p) ==
  LET Bit(j) == (s \div 2 ^ (ScalarBits - j)) % 2
      acc[j \in 0..ScalarBits] ==
        IF j = 0 THEN Identity
        ELSE LET doubled == Add(acc[j - 1], acc[j - 1])
             IN  IF Bit(j) = 1 THEN Add(doubled, p) ELSE doubled
  IN  acc[ScalarBits]
-------------------------------------------------------------------------------
(* CompressedEdwardsY: the low 255 bits and the top one. *)
Encoding == [y : 0..(YLimit - 1), sign : {0, 1}]

Compress(p) == LET zinv == FInvert(p.z)
               IN  [y |-> FMul(p.y, zinv), sign |-> FMul(p.x, zinv) % 2]

(* Mutant of WithSign: the root as it comes. *)
WithSignIgnored(x, sign) == x

WithSign(x, sign) == IF x % 2 # sign THEN FNeg(x) ELSE x

(* decompress: y must be reduced, and a candidate root, or it times the root
   of -1, must square to (y^2 - 1) / (D y^2 + 1).  With x = 0 both signs pass. *)
Decompress(e) ==
  LET yy   == FSqr(e.y)
      xx   == FMul(FSub(yy, 1), FInvert(FAdd(FMul(D, yy), 1)))
      cand == Power(xx, (P + 3) \div 8)
      x    == IF FSqr(cand) = xx THEN cand ELSE FMul(cand, SqrtM1)
  IN  IF e.y >= P THEN [ok |-> FALSE]
      ELSE IF FSqr(x) # xx THEN [ok |-> FALSE]
      ELSE [ok |-> TRUE, pt |-> FromXY(WithSign(x, e.sign), e.y)]

(* Mutant of IsSmallOrder: one doubling fewer. *)
IsSmallOrderTwice(p, identity) ==
  LET p2 == Add(p, p) IN Compress(Add(p2, p2)) = Compress(identity)

(* ed25519_is_small_order *)
IsSmallOrder(p, identity) ==
  LET p2 == Add(p, p)
      p4 == Add(p2, p2)
  IN  Compress(Add(p4, p4)) = Compress(identity)
-------------------------------------------------------------------------------
(* Reference: the affine addition law, and RFC 8032's decoding. *)
Zero == <<0, 1>>

Plus(p, q) ==
  LET k == FMul(D, FMul(FMul(p[1], q[1]), FMul(p[2], q[2])))
  IN  <<FMul(FAdd(FMul(p[1], q[2]), FMul(q[1], p[2])), FInvert(FAdd(1, k))),
        FMul(FAdd(FMul(p[2], q[2]), FMul(p[1], q[1])), FInvert(FSub(1, k)))>>

Multiple(n, p) ==
  LET mult[m \in 0..n] ==
        IF m = 0 THEN Zero
        ELSE LET half == mult[m \div 2]
                 even == Plus(half, half)
             IN  IF m % 2 = 1 THEN Plus(even, p) ELSE even
  IN  mult[n]

(* The points of the curve that an encoding stands for: one, or none. *)
PointsOf(e) ==
  {<<x, e.y>> : x \in {x \in Field : /\ x % 2 = e.sign
                                     /\ FMul(FSqr(x), FAdd(FMul(D, FSqr(e.y)), 1))
                                          = FSub(FSqr(e.y), 1)}}
-------------------------------------------------------------------------------
CONSTANTS Halves,      \* bound: first halves of digests of seeds
          Digests,     \* bound: the other digests, of 2N words
          KeyLogs, RLogs, KeyTorsions, RTorsions, Offsets,
                       \* bounds: what other people's keys and signatures are made of
          Torsion,     \* a point of order 8, in affine form
          Undecodable  \* bound: encodings that no point has

Ed25519Parameters ==
  /\ EdwardsParameters
  /\ L \in Nat /\ L % 2 = 1 /\ 2 * L < Capacity /\ 2 ^ ScalarBits = Capacity
  /\ Multiple(L, <<Bx, By>>) = Zero
  /\ Multiple(8, Torsion) = Zero /\ Multiple(4, Torsion) # Zero
  /\ Halves \subseteq 0..(Capacity - 1) /\ Digests \subseteq 0..(Capacity * Capacity - 1)

VARIABLES key,       \* <<the first half of the digest of the seed>>, or empty: no signer
          challenge, \* the digest of R, A and the message
          nonce,     \* the digest of prefix and message, once sign computed it
          sig,       \* what sign returned: empty, or <<R, S>>
          query,     \* the arguments of verify: empty, or <<A, R, S>>
          verdict    \* what verify returned

vars == <<key, challenge, nonce, sig, query, verdict>>

Init == /\ key \in {<<h>> : h \in Halves} \cup {<<>>} /\ challenge \in Digests
        /\ nonce = <<>> /\ sig = <<>> /\ query = <<>> /\ verdict = "none"

(* ed25519_prune: the three low bits and the two high ones clear, then the
   second highest set. *)
Prune(h) == ((h - (h % 8)) % (Capacity \div 4)) + (Capacity \div 4)

PublicKey == Compress(Times(Reduce(Prune(key[1])), BasePoint))

(* sign.  The secret scalar is reduced for the public key, not for S. *)
Sign(digest) ==
  /\ key # <<>> /\ sig = <<>>
  /\ LET r == FromBytesModOrderWide(digest)
         k == FromBytesModOrderWide(challenge)
     IN  sig' = <<Compress(Times(r, BasePoint)),
                  FromBytesModOrderWide(k * Prune(key[1]) + r)>>
  /\ nonce' = <<digest>>
  /\ UNCHANGED <<key, challenge, query, verdict>>

VerifyOutcome(ae, re, s) ==
  LET a == Decompress(ae)
      r == Decompress(re)
      identity == Add(r.pt, Neg(r.pt))
      k == FromBytesModOrderWide(challenge)
  IN  IF ~a.ok THEN "InvalidKey"
      ELSE IF ~r.ok THEN "InvalidSignature"
      ELSE IF IsSmallOrder(a.pt, identity) THEN "InvalidKey"
      ELSE IF IsSmallOrder(r.pt, identity) \/ ~Canonical(s) THEN "InvalidSignature"
      ELSE IF Compress(Times(s, BasePoint)) = Compress(Add(r.pt, Times(k, a.pt)))
      THEN "Ok" ELSE "InvalidSignature"

Verify(ae, re, s) ==
  /\ verdict = "none"
  /\ query' = <<ae, re, s>>
  /\ verdict' = VerifyOutcome(ae, re, s)
  /\ UNCHANGED <<key, challenge, nonce, sig>>

(* The encoding of n times the base point and u times the torsion point. *)
Encoded(n, u) == Compress(Add(Times(n, BasePoint), Times(u, FromXY(Torsion[1], Torsion[2]))))

(* Somebody else's signature: a key and a commitment of any order, and a scalar
   that fits them, is off by one, or is not reduced. *)
VerifyForeign ==
  \E a \in KeyLogs, r \in RLogs, u \in KeyTorsions, v \in RTorsions, o \in Offsets :
    LET s == ((r + (challenge % L) * a) % L) + o
    IN  s < Capacity /\ Verify(Encoded(a, u), Encoded(r, v), s)

Next ==
  \/ verdict = "none" /\ \E digest \in Digests : Sign(digest)
  \/ sig # <<>> /\ Verify(PublicKey, sig[1], sig[2])
  \/ verdict = "none" /\ key = <<>> /\ VerifyForeign
  \/ /\ verdict = "none" /\ key = <<>>
     /\ \E e \in Undecodable : LET f == Encoded(1, 0)
                               IN  Verify(e, f, 1) \/ Verify(f, e, 1)

Spec == Init /\ [][Next]_vars
-------------------------------------------------------------------------------
(* What sign returns is a reduced y, and a scalar below 2 L. *)
TypeOK ==
  /\ key = <<>> \/ key[1] \in Halves
  /\ challenge \in Digests
  /\ sig = <<>> \/ /\ sig[1] \in Encoding /\ sig[1].y < P
                   /\ sig[2] \in 0..(2 * L - 1)
  /\ query = <<>> \/ query \in Encoding \X Encoding \X (0..(Capacity - 1))
  /\ verdict \in {"none", "Ok", "InvalidKey", "InvalidSignature"}

(* What sign returns verifies under the signer's key exactly when its scalar
   was reduced and R is not the identity (sign, verify). *)
SignedVerifies ==
  sig # <<>> /\ query # <<>> =>
    (verdict = "Ok" <=> sig[2] < L /\ nonce[1] % L # 0)

(* The equation of RFC 8032, with or without its factor of 8. *)
Equation(c, a, r, s) ==
  Multiple(c * s, <<Bx, By>>)
    = Plus(Multiple(c, r), Multiple(c * (challenge % L), a))

(* verify accepts no more than RFC 8032 with its factor of 8, no scalar of L or
   more, no key or commitment of small order; and everything of order L that
   satisfies the equation. *)
VerifyIsStandard ==
  query # <<>> =>
    LET as == PointsOf(query[1])
        rs == PointsOf(query[2])
        s  == query[3]
    IN  /\ verdict = "Ok" =>
             /\ s < L
             /\ \E a \in as, r \in rs : /\ Equation(8, a, r, s)
                                        /\ Multiple(8, a) # Zero /\ Multiple(8, r) # Zero
        /\ (/\ s < L
            /\ \E a \in as, r \in rs : /\ a # Zero /\ r # Zero
                                       /\ Multiple(L, a) = Zero /\ Multiple(L, r) = Zero
                                       /\ Equation(1, a, r, s)) => verdict = "Ok"

(* The comment in sign: "S = (r + k * a) mod L". *)
DocumentedScalar ==
  sig # <<>> =>
    sig[2] = ((nonce[1] % L) + (challenge % L) * Prune(key[1])) % L
==============================================================================
