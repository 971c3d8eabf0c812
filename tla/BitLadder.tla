------------------------------- MODULE BitLadder -------------------------------
(***************************************************************************)
(* The two ladders that read a scalar bit by bit from the highest:         *)
(* ProjectivePoint::scalarmult of src/secp256k1.rs, with complete          *)
(* additions only, and scalarmult of src/curve25519/portable.rs.           *)
(***************************************************************************)
EXTENDS Integers

CONSTANTS SecpP, SecpB, SecpOrder, SecpGx, SecpGy, SecpLimit, SecpMultiple,
          SecpBits,     \* 256
          SecpStarts,   \* bound: the points, as multiples of the base point
          XP, XA24, XULimit, XBaseU, XBits,
          XStarts       \* bound: the coordinates, below XP, that it starts from

VARIABLES curve,  \* "secp256k1" or "x25519"
          k,      \* the scalar: any value of its bytes, clamped for X25519
          m,      \* what is multiplied: m times the base point, or u = m
          i,      \* bits left
          acc     \* <<r0, r1>>, or x2, z2, x3, z3 and swap

Secp == INSTANCE Koblitz
          WITH P <- SecpP, B <- SecpB, Order <- SecpOrder, Gx <- SecpGx, Gy <- SecpGy,
               Limit <- SecpLimit, Multiple <- SecpMultiple
Mont == INSTANCE X25519
          WITH P <- XP, A24 <- XA24, ULimit <- XULimit, BaseU <- XBaseU, Bits <- XBits

BitLadderParameters ==
  /\ Secp!KoblitzParameters /\ Secp!KoblitzGroup /\ Mont!X25519Parameters
  /\ 2 ^ SecpBits = SecpLimit /\ SecpStarts \subseteq 1..(SecpOrder - 1)

Init ==
  \/ /\ curve = "secp256k1"
     /\ k \in 0..(SecpLimit - 1) /\ m \in SecpStarts
     /\ i = SecpBits
     /\ acc = <<Secp!Identity, Secp!Pt(SecpMultiple[m][1], SecpMultiple[m][2], 1)>>
  \/ /\ curve = "x25519"
     /\ k \in {Mont!Clamp(n) : n \in 0..(2 ^ XBits - 1)} /\ m \in XStarts
     /\ i = XBits - 1
     /\ acc = Mont!Start(m)

(* Mutant of SecpTurn: nothing is swapped back. *)
SecpTurnNoSwapBack(bit) ==
  LET from == IF bit = 1 THEN <<acc[2], acc[1]>> ELSE acc
  IN  <<Secp!Add(from[1], from[1]), Secp!Add(from[1], from[2])>>

(* One bit: swap, add and double, swap back. *)
SecpTurn(bit) ==
  LET from == IF bit = 1 THEN <<acc[2], acc[1]>> ELSE acc
      sum  == Secp!Add(from[1], from[2])
      dbl  == Secp!Add(from[1], from[1])
  IN  IF bit = 1 THEN <<sum, dbl>> ELSE <<dbl, sum>>

Next == /\ i > 0
        /\ LET bit == (k \div 2 ^ (i - 1)) % 2
           IN  \/ curve = "secp256k1" /\ acc' = SecpTurn(bit)
               \/ curve = "x25519" /\ acc' = Mont!Turn(m, acc, bit)
        /\ i' = i - 1
        /\ UNCHANGED <<curve, k, m>>
-------------------------------------------------------------------------------
TypeOK ==
  \/ /\ curve = "secp256k1" /\ i \in 0..SecpBits
     /\ \A j \in {1, 2} : acc[j] \in [x : Secp!Field, y : Secp!Field, z : Secp!Field]
  \/ /\ curve = "x25519" /\ i \in 0..(XBits - 1)
     /\ acc \in [x2 : Mont!Field, z2 : Mont!Field,
                 x3 : Mont!Field, z3 : Mont!Field, swap : {0, 1}]

(* The part of the scalar that was read. *)
Prefix == k \div 2 ^ i

(* r0 is the multiple of self for the bits read and r1 the next one, at every
   turn, for scalars of any size, although the additions meet the identity, equal
   points and opposite ones; neither is ever (0 : 0 : 0). *)
SecpMultiples ==
  /\ Secp!ToAffine(acc[1]) = SecpMultiple[(Prefix * m) % SecpOrder]
  /\ Secp!ToAffine(acc[2]) = SecpMultiple[(Prefix * m + m) % SecpOrder]
  /\ \A j \in {1, 2} : Secp!IsIdentity(acc[j]) => acc[j].y # 0

Represents(x, z, u) ==
  IF u = Mont!None THEN x # 0 /\ z = 0 ELSE z # 0 /\ x = Mont!FMul(u[1], z)

(* Once the swap is undone, x2/z2 belongs to the multiple of m for the bits
   read, and x3/z3 to the next one, on the curve and on its twist; for m = 0 the
   result is 0 all the same. *)
XMultiples ==
  LET s == Mont!Unswapped(acc)
  IN  IF m = 0 THEN Mont!Result(acc) = 0
      ELSE /\ Represents(s.x2, s.z2, Mont!TimesU(Prefix, m))
           /\ Represents(s.x3, s.z3, Mont!TimesU(Prefix + 1, m))

ComputesMultiple == IF curve = "secp256k1" THEN SecpMultiples ELSE XMultiples
==============================================================================
