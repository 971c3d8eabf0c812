-------------------------------- MODULE Curve --------------------------------
(***************************************************************************)
(* The curve y^2 = x^3 - 3x + B over the field of P elements, the point    *)
(* formulas src/point.rs evaluates on it, and the functions of src/ecdsa.rs*)
(* over the scalars of src/scalar.rs.  A field element is its value:       *)
(* Montgomery form (src/fe.rs) is an isomorphism that the formulas never   *)
(* look through.  Every definition here is a constant expression;          *)
(* PointArith, KeyAgreement, Ecdsa and Driver are the machines that use    *)
(* them.                                                                   *)
(*                                                                         *)
(* P, B and the order are parameters: the formulas are complete, or handle *)
(* their exceptional cases, for algebraic reasons, and on a small curve    *)
(* every pair of points in every representation can be tried.              *)
(***************************************************************************)
EXTENDS Integers

CONSTANTS P, B,       \* the field and the curve (CurveParams.field, b_mont)
          Order,      \* number of points, a prime (CurveParams.order)
          Gx, Gy,     \* the base point
          Limit       \* 2^(32 N): what N limbs, or 4 N bytes, can hold

(* p = 3 (mod 4) and 2^(32N) < 2 order are what the code relies on; an odd
   order rules out points with y = 0. *)
ASSUME CurveAssumption ==
  /\ P \in Nat /\ P % 4 = 3 /\ B \in Nat /\ Order \in Nat /\ Limit \in Nat
  /\ Order % 2 = 1 /\ Order < P /\ P < Limit /\ Limit < 2 * Order
  /\ (Gy * Gy) % P = (Gx * Gx * Gx + (P - 3) * Gx + B) % P
-------------------------------------------------------------------------------
(* src/fe.rs: canonical residues in, canonical residues out. *)
Field == 0..(P - 1)

(* Mutant of FSub: a difference of zero takes the path of a negative one. *)
FSubOffByOne(a, b) == IF a > b THEN a - b ELSE a + P - b

FAdd(a, b) == (a + b) % P
FSub(a, b) == (a + (P - b)) % P
FMul(a, b) == (a * b) % P
FSqr(a)    == FMul(a, a)
FNeg(a)    == FSub(0, a)
FDiv2(a)   == IF a % 2 = 0 THEN a \div 2 ELSE (a + P) \div 2

(* Powers of a; invert and sqrt raise to P-2 and to (P+1)/4. *)
Power == [a \in Field |->
            LET pow[e \in 0..P] == IF e = 0 THEN 1 ELSE FMul(a, pow[e - 1])
            IN  [e \in {P - 2, (P + 1) \div 4} |-> pow[e]]]

FInvert(a) == Power[a][P - 2]

(* Fe::sqrt returns None, here P, when the candidate does not square to a. *)
FSqrt(a) ==
  LET cand == Power[a][(P + 1) \div 4]
  IN  IF a = 0 THEN 0 ELSE IF FSqr(cand) = a THEN cand ELSE P

CurveRhs(x) == FAdd(FSub(FMul(FSqr(x), x), FAdd(FAdd(x, x), x)), B)
-------------------------------------------------------------------------------
(* Points in either coordinate system.  The code's two structs have the same
   fields; which one a value is follows from the operator it is given to. *)
Pt(x, y, z) == [x |-> x, y |-> y, z |-> z]

(* Mutant of Identity: all three coordinates zero. *)
IdentityAllZero == Pt(0, 0, 0)

Identity         == Pt(0, 1, 0)
IsIdentity(p)    == p.z = 0
FromAffine(x, y) == Pt(x, y, 1)
Negate(p)        == [p EXCEPT !.y = FNeg(@)]

(* Point::add: complete projective addition, (X : Y : Z) = (X/Z, Y/Z). *)
PointAdd(p, q) ==
  LET xx  == FMul(p.x, q.x)
      yy  == FMul(p.y, q.y)
      zz  == FMul(p.z, q.z)
      xy  == FSub(FMul(FAdd(p.x, p.y), FAdd(q.x, q.y)), FAdd(xx, yy))
      yz  == FSub(FMul(FAdd(p.y, p.z), FAdd(q.y, q.z)), FAdd(yy, zz))
      xz  == FSub(FMul(FAdd(p.x, p.z), FAdd(q.x, q.z)), FAdd(xx, zz))
      w   == FMul(3, FSub(xz, FMul(B, zz)))
      zz3 == FMul(3, zz)
      u   == FMul(3, FSub(FSub(FMul(B, xz), zz3), xx))
      v   == FSub(FMul(3, xx), zz3)
      lo  == FSub(yy, w)
      hi  == FAdd(yy, w)
  IN  Pt(FSub(FMul(xy, hi), FMul(yz, u)),
         FAdd(FMul(hi, lo), FMul(v, u)),
         FAdd(FMul(yz, lo), FMul(xy, v)))

(* Point::add_affine: the same with Z2 = 1, where Z1 Z2 is Z1. *)
PointAddAffine(p, x2, y2) == PointAdd(p, FromAffine(x2, y2))

(* PointJacobian::double, (X : Y : Z) = (X/Z^2, Y/Z^3). *)
JacDouble(p) ==
  IF IsIdentity(p) THEN p
  ELSE LET zz == FSqr(p.z)
           s  == FMul(FSub(p.x, zz), FAdd(p.x, zz))
           m  == FAdd(s, FDiv2(s))
           yy == FSqr(p.y)
           v  == FMul(p.x, yy)
           x3 == FSub(FSqr(m), FAdd(v, v))
       IN  Pt(x3, FSub(FMul(m, FSub(v, x3)), FSqr(yy)), FMul(p.y, p.z))

(* The end of add_mixed and add, once u1, s1 (self), u2, s2 (rhs) are over
   the common denominator zz: h = 0 means the same x. *)
JacCombine(p, u1, s1, u2, s2, zz) ==
  LET h   == FSub(u2, u1)
      r   == FSub(s2, s1)
      hh  == FSqr(h)
      hhh == FMul(h, hh)
      v   == FMul(u1, hh)
      x3  == FSub(FSub(FSqr(r), hhh), FAdd(v, v))
  IN  IF h = 0 THEN IF r = 0 THEN JacDouble(p) ELSE Identity
      ELSE Pt(x3, FSub(FMul(r, FSub(v, x3)), FMul(s1, hhh)), FMul(zz, h))

(* Mutant of JacAdd: equal points are not told from opposite ones. *)
JacAddNoDouble(p, q) ==
  IF IsIdentity(p) THEN q
  ELSE IF IsIdentity(q) THEN p
  ELSE LET z1z1 == FSqr(p.z)
           z2z2 == FSqr(q.z)
           u1   == FMul(p.x, z2z2)
           u2   == FMul(q.x, z1z1)
       IN  IF u1 = u2 THEN Identity
           ELSE JacCombine(p, u1, FMul(FMul(p.y, q.z), z2z2),
                              u2, FMul(FMul(q.y, p.z), z1z1), FMul(p.z, q.z))

(* PointJacobian::add and add_mixed. *)
JacAdd(p, q) ==
  IF IsIdentity(p) THEN q
  ELSE IF IsIdentity(q) THEN p
  ELSE LET z1z1 == FSqr(p.z)
           z2z2 == FSqr(q.z)
       IN  JacCombine(p, FMul(p.x, z2z2), FMul(FMul(p.y, q.z), z2z2),
                         FMul(q.x, z1z1), FMul(FMul(q.y, p.z), z1z1),
                         FMul(p.z, q.z))

JacAddMixed(p, x2, y2) ==
  IF IsIdentity(p) THEN FromAffine(x2, y2)
  ELSE LET z1z1 == FSqr(p.z)
       IN  JacCombine(p, p.x, p.y, FMul(x2, z1z1),
                      FMul(y2, FMul(p.z, z1z1)), p.z)

(* PointJacobian::from_projective, to_projective. *)
FromProjective(p) ==
  IF IsIdentity(p) THEN Identity
  ELSE Pt(FMul(p.x, p.z), FMul(p.y, FSqr(p.z)), p.z)

ToProjective(p) ==
  IF IsIdentity(p) THEN Identity
  ELSE Pt(FMul(p.x, p.z), p.y, FMul(FSqr(p.z), p.z))

(* to_affine of either struct; the identity has none. *)
None == <<>>

PointToAffine(p) ==
  IF IsIdentity(p) THEN None
  ELSE LET zinv == FInvert(p.z) IN <<FMul(p.x, zinv), FMul(p.y, zinv)>>

JacToAffine(p) ==
  IF IsIdentity(p) THEN None
  ELSE LET zinv  == FInvert(p.z)
           zinv2 == FSqr(zinv)
       IN  <<FMul(p.x, zinv2), FMul(p.y, FMul(zinv2, zinv))>>
-------------------------------------------------------------------------------
(* Point::is_on_curve of an affine pair, Point::decompress, Point::decode.
   An encoding is its length, its first byte and the integers that follow. *)
IsOnCurve(x, y) == FSqr(y) = CurveRhs(x)

Decompress(x, odd) ==
  LET y == FSqrt(CurveRhs(x))
  IN  IF x >= P \/ y = P THEN None
      ELSE <<x, IF (y % 2 = 1) # odd THEN FNeg(y) ELSE y>>

Encoding == {e \in [len : {"full", "half", "other"}, tag : 0..7,
                    x : 0..(Limit - 1), y : 0..(Limit - 1)] : e.len = "half" => e.y = 0}

(* What Decode returns: an affine point, or an error. *)
Decoded(pt) == [ok |-> TRUE, pt |-> pt]
Refused(err) == [ok |-> FALSE, err |-> err]

Decode(e) ==
  LET half == Decompress(e.x, e.tag = 3)
  IN  IF e.len = "full"
      THEN IF e.tag = 4 /\ e.x < P /\ e.y < P /\ IsOnCurve(e.x, e.y)
           THEN Decoded(<<e.x, e.y>>) ELSE Refused("BadPoint")
      ELSE IF e.len = "half"
      THEN IF e.tag \in {2, 3} /\ half # None
           THEN Decoded(half) ELSE Refused("BadPoint")
      ELSE Refused("BadLength")

(* decode_public_key_mont of Cortex-M4 calls a wrong first byte a wrong length, and
   decompresses before it compares x with p. *)
M4Decode(e) ==
  LET half == Decompress(e.x, e.tag = 3)
  IN  IF e.len = "full" /\ e.tag = 4
      THEN IF e.x < P /\ e.y < P /\ IsOnCurve(e.x, e.y)
           THEN Decoded(<<e.x, e.y>>) ELSE Refused("BadPoint")
      ELSE IF e.len = "half" /\ e.tag \in {2, 3}
      THEN IF half # None THEN Decoded(half) ELSE Refused("BadPoint")
      ELSE Refused("BadLength")

(* SEC1 encodings of an affine point: derive_public_key and its compressed
   form write these. *)
EncodeFull(pt) == [len |-> "full", tag |-> 4, x |-> pt[1], y |-> pt[2]]

(* Mutant of EncodeHalf: the first byte of the other form. *)
EncodeHalfTag4(pt) == [len |-> "half", tag |-> 4, x |-> pt[1], y |-> 0]

EncodeHalf(pt) == [len |-> "half", tag |-> IF pt[2] % 2 = 1 THEN 3 ELSE 2,
                   x |-> pt[1], y |-> 0]
-------------------------------------------------------------------------------
(* Reference: the group law by chords and tangents, and the multiples of the
   base point.  None of the code's formulas occurs in it. *)
Slope(p, q) ==
  IF p = q THEN FMul(FSub(FMul(3, FSqr(p[1])), 3), FInvert(FMul(2, p[2])))
  ELSE FMul(FSub(q[2], p[2]), FInvert(FSub(q[1], p[1])))

GroupAdd(p, q) ==
  IF p = None THEN q
  ELSE IF q = None THEN p
  ELSE IF p[1] = q[1] /\ p[2] = FNeg(q[2]) THEN None
  ELSE LET m  == Slope(p, q)
           x3 == FSub(FSub(FSqr(m), p[1]), q[1])
       IN  <<x3, FSub(FMul(m, FSub(p[1], x3)), p[2])>>

Multiple ==
  LET mul[m \in 0..(Order - 1)] ==
        IF m = 0 THEN None ELSE GroupAdd(mul[m - 1], <<Gx, Gy>>)
  IN  mul

(* The representations of a multiple of the base point with a given Z. *)
PointRep(q, z) ==
  IF q = 0 THEN Identity
  ELSE Pt(FMul(Multiple[q][1], z), FMul(Multiple[q][2], z), z)

JacRep(q, z) ==
  IF q = 0 THEN Identity
  ELSE Pt(FMul(Multiple[q][1], FSqr(z)),
          FMul(Multiple[q][2], FMul(FSqr(z), z)), z)

CurvePoints == {Multiple[m] : m \in 1..(Order - 1)}

(* The multiple a point is: its discrete logarithm, which a small curve has. *)
Log == [pt \in CurvePoints |-> CHOOSE m \in 1..(Order - 1) : Multiple[m] = pt]

(* What the code relies on that is a theorem of algebra.  P is a prime, 3 modulo 4:
   FInvert inverts, and FSqrt finds the roots of squares. *)
ASSUME FieldAssumption ==
  /\ \A a \in 1..(P - 1) : FMul(a, FInvert(a)) = 1
  /\ \A a \in Field : FSqrt(FSqr(a)) \in {a, FNeg(a)}

(* With None the points of the curve are a group, which the base point generates;
   Order is its size. *)
Group == CurvePoints \cup {None}

ASSUME GroupAssumption ==
  LET G == <<Gx, Gy>>
  IN  /\ CurvePoints = {pt \in Field \X Field : IsOnCurve(pt[1], pt[2])}
      /\ G \in CurvePoints
      /\ \A p \in Group : GroupAdd(p, G) \in Group
      /\ \A p, q \in Group : GroupAdd(GroupAdd(p, q), G) = GroupAdd(p, GroupAdd(q, G))
      /\ GroupAdd(Multiple[Order - 1], G) = None

(* Mutant of ScalarMul: even scalars are made odd and not corrected. *)
ScalarMulForcedOdd(k, pt) == Multiple[((k + 1 - (k % 2)) * Log[pt]) % Order]

(* What mul_base, mul_scalar and lincomb compute; Recode, Slide and Comb model
   how, PointArith the additions they are made of. *)
ScalarMul(k, pt) == Multiple[(k * Log[pt]) % Order]
-------------------------------------------------------------------------------
(* The functions of src/ecdsa.rs over the scalars of src/scalar.rs, and those that
   a Cortex-M4 has in their place for P-256, as values: what sign writes and what
   verify answers. *)
Bytes == 0..(Limit - 1)   \* integers that 4 N bytes encode

SMul(a, b) == (a * b) % Order
SAdd(a, b) == (a + b) % Order
SNeg(a)    == (Order - a) % Order

ScalarPower == [a \in 0..(Order - 1) |->
  LET pow[e \in 0..Order] == IF e = 0 THEN 1 ELSE SMul(a, pow[e - 1])
  IN  pow[Order - 2]]

SInvert(a) == ScalarPower[a]

(* Order is a prime, so that the power is an inverse. *)
ASSUME ScalarAssumption ==
  \A a \in 1..(Order - 1) : SInvert(a) \in 1..(Order - 1) /\ SMul(a, SInvert(a)) = 1

(* from_be_bytes_nonzero *)
InRange(v) == 0 < v /\ v < Order

(* Mutant of ReduceOnce: n itself is not reduced. *)
ReduceOnceOffByOne(v) == IF v <= Order THEN v ELSE v - Order

(* from_be_bytes_reduce: at most one subtraction, as Limit < 2 Order; and the
   reduction of rx in sign, as P < 2 Order. *)
ReduceOnce(v) == IF v < Order THEN v ELSE v - Order
-------------------------------------------------------------------------------
(* sign: s = k^-1 (z + r d) mod n, and the error it returns, if any. *)
SignOutcome(d, hash, k) ==
  LET r == ReduceOnce(Multiple[k][1])
      s == SMul(SInvert(k), SAdd(ReduceOnce(hash), SMul(r, d)))
  IN  IF ~InRange(d) \/ ~InRange(k) \/ r = 0 \/ s = 0
      THEN [ok |-> FALSE, err |-> "BadScalar"]
      ELSE [ok |-> TRUE, r |-> r, s |-> s]

(* Mutants of MatchesR: no second candidate; a second one of any size. *)
MatchesFirstOnly(pt, r) == FMul(r, FSqr(pt.z)) = pt.x

MatchesUnbounded(pt, r) ==
  FMul(r, FSqr(pt.z)) = pt.x \/ FMul(r + Order, FSqr(pt.z)) = pt.x

(* The test at the end of verify: X against r Z^2, then against (r + n) Z^2
   when r + n fits the limbs and is below p. *)
MatchesR(pt, r) ==
  \/ FMul(r, FSqr(pt.z)) = pt.x
  \/ /\ r + Order < Limit /\ r + Order < P
     /\ FMul(r + Order, FSqr(pt.z)) = pt.x

(* lincomb(u1, G, u2, Q), in the representation with Z coordinate z. *)
Combination(hash, r, s, q, z) ==
  LET w  == SInvert(s)
      u1 == SMul(ReduceOnce(hash), w)
      u2 == SMul(r, w)
  IN  JacRep((u1 + u2 * Log[q]) % Order, z)

(* verify: the point it compared, and what it returned. *)
VerifyOutcome(e, hash, r, s, z) ==
  LET q  == Decode(e)
      pt == Combination(hash, r, s, q.pt, z)
      Answer(p, res) == [pt |-> p, res |-> res]
  IN  IF ~InRange(r) \/ ~InRange(s) THEN Answer(Identity, "BadSignature")
      ELSE IF ~q.ok THEN Answer(Identity, q.err)
      ELSE IF IsIdentity(pt) \/ ~MatchesR(pt, r) THEN Answer(pt, "BadSignature")
      ELSE Answer(pt, "Ok")
-------------------------------------------------------------------------------
(* sign and verify of backend/cortex_m4/p256.rs.  The hash is not reduced before it
   is added and multiplied; k^-1 is mod_n_inv's (CortexM4). *)
M4SignOutcome(d, hash, k) ==
  LET r == Multiple[k][1] % Order
      s == SMul(SInvert(k), (hash + SMul(r, d)) % Order)
  IN  IF ~InRange(d) \/ ~InRange(k) \/ r = 0 \/ s = 0
      THEN [ok |-> FALSE, err |-> "BadScalar"]
      ELSE [ok |-> TRUE, r |-> r, s |-> s]

(* P256_verify_last_step refuses a point at infinity, whose X is never 0. *)
M4LastStep(pt, r) == ~IsIdentity(pt) /\ MatchesR(pt, r)

M4VerifyOutcome(e, hash, r, s, z) ==
  LET q  == M4Decode(e)
      w  == SInvert(s)
      pt == JacRep((SMul(hash, w) + SMul(r, w) * Log[q.pt]) % Order, z)
  IN  IF ~InRange(r) \/ ~InRange(s) THEN [pt |-> Identity, res |-> "BadSignature"]
      ELSE IF ~q.ok THEN [pt |-> Identity, res |-> q.err]
      ELSE [pt |-> pt, res |-> IF M4LastStep(pt, r) THEN "Ok" ELSE "BadSignature"]
-------------------------------------------------------------------------------
(* Reference: FIPS 186-4 6.4.2.  r and s are in [1, n-1], and the x-coordinate
   of u1 G + u2 Q, an affine point, is congruent to r modulo n. *)
KeyEncodings(m) == {EncodeFull(Multiple[m]), EncodeHalf(Multiple[m])}

Standard(e, hash, r, s) ==
  /\ r \in 1..(Order - 1) /\ s \in 1..(Order - 1)
  /\ \E m \in 1..(Order - 1) :
       /\ e \in KeyEncodings(m)
       /\ \E w \in 1..(Order - 1) :
            /\ (w * s) % Order = 1
            /\ LET pt == Multiple[(w * (hash + r * m)) % Order]
               IN  pt # None /\ pt[1] % Order = r
==============================================================================
