-------------------------------- MODULE X25519 --------------------------------
(***************************************************************************)
(* The Montgomery ladder of src/curve25519/portable.rs, that x25519.rs     *)
(* calls on targets without assembly: clamping, the peer's u-coordinate,   *)
(* the ladder with its delayed swap.  Constant expressions; BitLadder runs *)
(* them bit by bit, KeyAgreement calls them.                               *)
(***************************************************************************)
EXTENDS PrimeField

CONSTANTS A24,      \* 121665
          ULimit,   \* 2^255: what from_bytes keeps of the bytes
          BaseU,    \* BASEPOINT
          Bits      \* 256

(* Mutant of Clamp: the low bits stay. *)
ClampHighOnly(k) == (k % 2 ^ (Bits - 2)) + 2 ^ (Bits - 2)

(* The bytes of a scalar: its low bits and its high one clear, the next set. *)
Clamp(k) == ((k - (k % 8)) % 2 ^ (Bits - 2)) + 2 ^ (Bits - 2)

(* Mutant of Coordinate: bit 255 counts. *)
CoordinateUnmasked(u) == u % P

(* from_bytes: bit 255 is ignored, and p or more is accepted. *)
Coordinate(u) == (u % ULimit) % P

Start(x1) == [x2 |-> 1, z2 |-> 0, x3 |-> x1, z3 |-> 1, swap |-> 0]

CSwap(s) == [s EXCEPT !.x2 = s.x3, !.z2 = s.z3, !.x3 = s.x2, !.z3 = s.z2]

(* Mutant of Turn: the swap is not undone by the next one. *)
TurnSwapForgotten(x1, before, kt) ==
  LET s  == IF kt = 1 THEN CSwap(before) ELSE before
      aa == FSqr(FAdd(s.x2, s.z2))
      bb == FSqr(FSub(s.x2, s.z2))
      da == FMul(FSub(s.x3, s.z3), FAdd(s.x2, s.z2))
      cb == FMul(FAdd(s.x3, s.z3), FSub(s.x2, s.z2))
      e  == FSub(aa, bb)
  IN  [x2 |-> FMul(aa, bb), z2 |-> FMul(e, FAdd(aa, FMul(A24, e))),
       x3 |-> FSqr(FAdd(da, cb)), z3 |-> FMul(x1, FSqr(FSub(da, cb))), swap |-> kt]

(* One bit of the scalar: swap if it differs from the bit before, then double
   and add. *)
Turn(x1, before, kt) ==
  LET s  == IF before.swap # kt THEN CSwap(before) ELSE before
      aa == FSqr(FAdd(s.x2, s.z2))
      bb == FSqr(FSub(s.x2, s.z2))
      da == FMul(FSub(s.x3, s.z3), FAdd(s.x2, s.z2))
      cb == FMul(FAdd(s.x3, s.z3), FSub(s.x2, s.z2))
      e  == FSub(aa, bb)
  IN  [x2 |-> FMul(aa, bb), z2 |-> FMul(e, FAdd(aa, FMul(A24, e))),
       x3 |-> FSqr(FAdd(da, cb)), z3 |-> FMul(x1, FSqr(FSub(da, cb))), swap |-> kt]

Unswapped(s) == IF s.swap = 1 THEN CSwap(s) ELSE s

(* The quotient that is returned; the inverse of 0 is 0. *)
Result(s) == FMul(Unswapped(s).x2, FInvert(Unswapped(s).z2))

Scalarmult(k, u) ==
  LET x1 == Coordinate(u)
      after[n \in 0..(Bits - 1)] ==
        IF n = 0 THEN Start(x1)
        ELSE Turn(x1, after[n - 1], (Clamp(k) \div 2 ^ (Bits - 1 - n)) % 2)
  IN  Result(after[Bits - 1])

PublicKey(k) == Scalarmult(k, BaseU)
-------------------------------------------------------------------------------
(* Reference: b v^2 = u^3 + A u^2 + u and its group law, on the curve, b = 1,
   or its twist, b = 2, whichever has a point above u. *)
A == 4 * A24 + 2
None == <<>>

GroupAdd(b, p, q) ==
  IF p = None THEN q
  ELSE IF q = None THEN p
  ELSE IF p[1] = q[1] /\ p[2] = FNeg(q[2]) THEN None
  ELSE LET m == IF p = q
                THEN FMul(FAdd(FMul(3, FSqr(p[1])), FAdd(FMul(2 * A, p[1]), 1)),
                          FInvert(FMul(2 * b, p[2])))
                ELSE FMul(FSub(q[2], p[2]), FInvert(FSub(q[1], p[1])))
           u == FSub(FSub(FSub(FMul(b, FSqr(m)), A % P), p[1]), q[1])
       IN  <<u, FSub(FMul(m, FSub(p[1], u)), p[2])>>

Multiple(b, n, p) ==
  LET mult[m \in 0..n] ==
        IF m = 0 THEN None
        ELSE LET half == mult[m \div 2]
                 even == GroupAdd(b, half, half)
             IN  IF m % 2 = 1 THEN GroupAdd(b, even, p) ELSE even
  IN  mult[n]

Lifts(u) == {bv \in {1, 2} \X Field :
               FMul(bv[1], FSqr(bv[2]))
                 = FAdd(FMul(FSqr(u), FAdd(u, A % P)), u)}

(* The n-th multiple of a point above u, without its v. *)
TimesU(n, u) == LET bv == CHOOSE bv \in Lifts(u) : TRUE
                    pt == Multiple(bv[1], n, <<u, bv[2]>>)
                IN  IF pt = None THEN None ELSE <<pt[1]>>

X25519Parameters ==
  /\ P \in Nat /\ A24 \in Nat /\ BaseU \in Nat /\ ULimit \in Nat
  /\ Bits \in Nat \ {0}
  /\ P % 8 = 5 /\ P < ULimit /\ ULimit < 2 * P /\ ULimit * 2 = 2 ^ Bits
  /\ \A u \in Field : Lifts(u) # {}
==============================================================================
