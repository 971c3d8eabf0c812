-------------------------------- MODULE Koblitz --------------------------------
(***************************************************************************)
(* The curve y^2 = x^3 + B of src/secp256k1.rs over the field of P         *)
(* elements: its complete addition, the conversions, and the two SEC1      *)
(* encodings.  Constant expressions; BitLadder and KeyAgreement use them.  *)
(***************************************************************************)
EXTENDS PrimeField

CONSTANTS B,       \* 7 in the code
          Order,   \* number of points, a prime (SECP256K1_N)
          Gx, Gy,  \* the base point
          Limit,   \* 2^256: what eight words, or 32 bytes, can hold
          Multiple \* MultiplesOfG, below: a parameter so that TLC computes it once

(* ProjectivePoint, (X : Y : Z) = (X/Z, Y/Z). *)
Pt(x, y, z)   == [x |-> x, y |-> y, z |-> z]
Identity      == Pt(0, 1, 0)
IsIdentity(p) == p.z = 0

(* ProjectivePoint::add, complete. *)
Add(p, q) ==
  LET b3  == (3 * B) % P
      xx  == FMul(p.x, q.x)
      yy  == FMul(p.y, q.y)
      zz  == FMul(p.z, q.z)
      bzz == FMul(zz, b3)
      xy  == FSub(FMul(FAdd(p.x, p.y), FAdd(q.x, q.y)), FAdd(xx, yy))
      yz  == FSub(FMul(FAdd(p.y, p.z), FAdd(q.y, q.z)), FAdd(yy, zz))
      bxz == FMul(FSub(FMul(FAdd(p.x, p.z), FAdd(q.x, q.z)), FAdd(xx, zz)), b3)
      xx3 == FAdd(FAdd(xx, xx), xx)
      hi  == FAdd(yy, bzz)
      lo  == FSub(yy, bzz)
  IN  Pt(FSub(FMul(xy, lo), FMul(yz, bxz)),
         FAdd(FMul(lo, hi), FMul(bxz, xx3)),
         FAdd(FMul(hi, yz), FMul(xx3, xy)))

(* to_affine; the identity has none. *)
None == <<>>
ToAffine(p) == IF IsIdentity(p) THEN None
               ELSE LET zinv == FInvert(p.z) IN <<FMul(p.x, zinv), FMul(p.y, zinv)>>

Rhs(x) == FAdd(FMul(FSqr(x), x), B % P)
IsOnCurve(x, y) == FSqr(y) = Rhs(x)
-------------------------------------------------------------------------------
(* sqrt returns None, here P, when the candidate does not square to a. *)
FSqrt(a) == LET cand == Power(a, (P + 1) \div 4)
            IN  IF a = 0 THEN 0 ELSE IF FSqr(cand) = a THEN cand ELSE P

(* An encoding is its length in bytes, its first byte and the integers that
   follow; length 0 stands for the empty slice, 1 for any other wrong one. *)
Encoding == {e \in [len : {0, 1, 33, 65}, tag : 0..7, x : 0..(Limit - 1), y : 0..(Limit - 1)] :
               e.len = 33 => e.y = 0}

Decoded(pt)  == [ok |-> TRUE, pt |-> pt]
Refused(err) == [ok |-> FALSE, err |-> err]

(* Mutant of DecodeHalf: the root's own parity decides. *)
DecodeHalfAnyRoot(e) ==
  IF e.x >= P THEN Refused("InvalidEncoding")
  ELSE IF FSqrt(Rhs(e.x)) = P THEN Refused("PointNotOnCurve")
  ELSE Decoded(<<e.x, FSqrt(Rhs(e.x))>>)

DecodeHalf(e) ==
  LET root == FSqrt(Rhs(e.x))
      y    == IF (root % 2 = 1) # (e.tag = 3) THEN FNeg(root) ELSE root
  IN  IF e.x >= P THEN Refused("InvalidEncoding")
      ELSE IF root = P \/ ~IsOnCurve(e.x, y) THEN Refused("PointNotOnCurve")
      ELSE Decoded(<<e.x, y>>)

DecodeFull(e) ==
  IF e.x >= P \/ e.y >= P THEN Refused("InvalidEncoding")
  ELSE IF ~IsOnCurve(e.x, e.y) THEN Refused("PointNotOnCurve")
  ELSE Decoded(<<e.x, e.y>>)

(* AffinePoint::from_encoded_point. *)
Decode(e) == IF e.len = 33 /\ e.tag \in {2, 3} THEN DecodeHalf(e)
             ELSE IF e.len = 65 /\ e.tag = 4 THEN DecodeFull(e)
             ELSE Refused("InvalidEncoding")

(* to_encoded_point. *)
Encode(pt, compress) ==
  IF compress THEN [len |-> 33, tag |-> IF pt[2] % 2 = 1 THEN 3 ELSE 2, x |-> pt[1], y |-> 0]
  ELSE [len |-> 65, tag |-> 4, x |-> pt[1], y |-> pt[2]]
-------------------------------------------------------------------------------
(* Reference: the group law by chords and tangents, and the multiples of the
   base point. *)
Slope(p, q) ==
  IF p = q THEN FMul(FMul(3, FSqr(p[1])), FInvert(FMul(2, p[2])))
  ELSE FMul(FSub(q[2], p[2]), FInvert(FSub(q[1], p[1])))

GroupAdd(p, q) ==
  IF p = None THEN q
  ELSE IF q = None THEN p
  ELSE IF p[1] = q[1] /\ p[2] = FNeg(q[2]) THEN None
  ELSE LET m  == Slope(p, q)
           x3 == FSub(FSub(FSqr(m), p[1]), q[1])
       IN  <<x3, FSub(FMul(m, FSub(p[1], x3)), p[2])>>

MultiplesOfG ==
  LET mul[m \in 0..(Order - 1)] ==
        IF m = 0 THEN None ELSE GroupAdd(mul[m - 1], <<Gx, Gy>>)
  IN  mul

CurvePoints == {Multiple[m] : m \in 1..(Order - 1)}
Group       == CurvePoints \cup {None}

KoblitzParameters ==
  /\ P \in Nat /\ P % 4 = 3 /\ B \in 1..(P - 1) /\ Order \in Nat /\ Limit \in Nat
  /\ Order % 2 = 1 /\ Order < P /\ P < Limit /\ Limit < 2 * Order
  /\ Multiple = MultiplesOfG

(* P and Order are primes, and the points of the curve and None are a group of Order
   members, which the base point generates. *)
KoblitzGroup ==
  LET G == <<Gx, Gy>>
  IN  /\ \A a \in Field : FSqrt(FSqr(a)) \in {a, FNeg(a)}
      /\ CurvePoints = {pt \in Field \X Field : IsOnCurve(pt[1], pt[2])}
      /\ G \in CurvePoints
      /\ \A p \in Group : GroupAdd(p, G) \in Group
      /\ \A p, q \in Group : GroupAdd(GroupAdd(p, q), G) = GroupAdd(p, GroupAdd(q, G))
      /\ GroupAdd(Multiple[Order - 1], G) = None
      /\ \A a, b \in 1..(Order - 1) : (a * b) % Order # 0

ScalarMul(k, pt) ==
  Multiple[(k * (CHOOSE m \in 1..(Order - 1) : Multiple[m] = pt)) % Order]
==============================================================================
