------------------------------ MODULE PointArith ------------------------------
(***************************************************************************)
(* A client of src/point.rs that holds one point and applies the crate's   *)
(* operations to it, in homogeneous or in Jacobian coordinates, converting *)
(* between the two as Point::mul_scalar and Point::lincomb do.  A second   *)
(* operand is any point in any of its representations.                     *)
(***************************************************************************)
EXTENDS Curve

CONSTANT Scalings  \* bound: the Z coordinates a second operand is given

VARIABLES form,  \* which struct holds the point: "point" or "jacobian"
          reg,   \* its coordinates
          m      \* the multiple of the base point the client expects

vars == <<form, reg, m>>

Scalars == 0..(Order - 1)

Sum(q) == m' = (m + q) % Order

Init == form = "point" /\ reg = FromAffine(Gx, Gy) /\ m = 1

Add(q, z) == /\ form = "point"
             /\ reg' = PointAdd(reg, PointRep(q, z))
             /\ Sum(q) /\ UNCHANGED form

AddAffine(q) == /\ form = "point" /\ q # 0
                /\ reg' = PointAddAffine(reg, Multiple[q][1], Multiple[q][2])
                /\ Sum(q) /\ UNCHANGED form

ToJacobian == /\ form = "point" /\ form' = "jacobian"
              /\ reg' = FromProjective(reg)
              /\ UNCHANGED m

ToPoint == /\ form = "jacobian" /\ form' = "point"
           /\ reg' = ToProjective(reg)
           /\ UNCHANGED m

JAdd(q, z) == /\ form = "jacobian"
              /\ reg' = JacAdd(reg, JacRep(q, z))
              /\ Sum(q) /\ UNCHANGED form

JAddMixed(q) == /\ form = "jacobian" /\ q # 0
                /\ reg' = JacAddMixed(reg, Multiple[q][1], Multiple[q][2])
                /\ Sum(q) /\ UNCHANGED form

JDouble == /\ form = "jacobian"
           /\ reg' = JacDouble(reg)
           /\ Sum(m) /\ UNCHANGED form

JNegate == /\ form = "jacobian"
           /\ reg' = Negate(reg)
           /\ m' = (Order - m) % Order /\ UNCHANGED form

Next ==
  \/ \E q \in Scalars, z \in Scalings : Add(q, z) \/ JAdd(q, z)
  \/ \E q \in Scalars : AddAffine(q) \/ JAddMixed(q)
  \/ ToJacobian \/ ToPoint \/ JDouble \/ JNegate

Spec == Init /\ [][Next]_vars
-------------------------------------------------------------------------------
TypeOK ==
  /\ form \in {"point", "jacobian"}
  /\ reg \in [x : Field, y : Field, z : Field]
  /\ m \in Scalars

(* Whatever was applied, and whatever Z a point has by now, its affine form is
   the expected multiple: no exceptional case of an addition - equal points,
   opposite points, the identity on either side - goes wrong (Point::add,
   PointJacobian::double, add, add_mixed, the conversions). *)
RepresentsMultiple ==
  (IF form = "point" THEN PointToAffine(reg) ELSE JacToAffine(reg))
    = Multiple[m]

(* The identity is (0 : y : 0) with y # 0, never (0 : 0 : 0), "which is not a
   point and which the complete formulas do not rescue" (Point::add). *)
NeverDegenerate == reg.z = 0 => reg.y # 0
==============================================================================
