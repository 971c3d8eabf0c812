----------------------------- MODULE FermatChains ------------------------------
(***************************************************************************)
(* The powers that give inverses and square roots, at their real sizes:    *)
(* the addition chains of Fe::invert and Fe::sqrt (src/fe.rs), of          *)
(* Scalar::invert (src/scalar.rs) and of Fe51::invert                      *)
(* (src/curve25519/portable.rs), and the square-and-multiply loops of      *)
(* src/secp256k1.rs and src/curve25519/ed25519.rs.  A register holds a     *)
(* power of the input, and is modelled by its exponent, as the set of its  *)
(* one bits; one step is one squaring or one multiplication.               *)
(***************************************************************************)
EXTENDS Integers, Sequences

VARIABLES chain,  \* the routine that runs
          pc,     \* the line of its chain
          left,   \* squarings left on that line
          reg     \* the exponents: a register that is not set yet holds {}

vars == <<chain, pc, left, reg>>

(* The orders of the groups (params.rs), in words of 16 bits, the most
   significant first. *)
OrderP256 == <<\hffff, \hffff, \h0000, \h0000, \hffff, \hffff, \hffff, \hffff,
               \hbce6, \hfaad, \ha717, \h9e84, \hf3b9, \hcac2, \hfc63, \h2551>>
OrderP384 == [w \in 1..12 |-> \hffff] \o
             <<\hc763, \h4d81, \hf437, \h2ddf, \h581a, \h0db2,
               \h48b0, \ha77a, \hecec, \h196a, \hccc5, \h2973>>

(* order[0].wrapping_sub(2), with the limbs above it. *)
MinusTwo(words) == [words EXCEPT ![Len(words)] = @ - 2]

(* A line "to = from.sqr_n(n).mul(by)", by = "" where nothing is multiplied,
   or a number for the window table's power of that number. *)
Ln(to, from, n, by) == [to |-> to, from |-> from, n |-> n, by |-> by, digit |-> 0]

(* t2 = x^(2^2 - 1) up to t32 = x^(2^32 - 1), which every chain starts with. *)
ToT3  == <<Ln("t2", "t1", 1, "t1"), Ln("t3", "t2", 1, "t1"),
           Ln("t6", "t3", 3, "t3"), Ln("t12", "t6", 6, "t6")>>

(* Mutant of ToT32: t15 is t12 shifted by two. *)
ToT32Short == ToT3 \o <<Ln("t15", "t12", 2, "t3"), Ln("t30", "t15", 15, "t15"),
                        Ln("t32", "t30", 2, "t2")>>

ToT32 == ToT3 \o <<Ln("t15", "t12", 3, "t3"), Ln("t30", "t15", 15, "t15"),
                   Ln("t32", "t30", 2, "t2")>>

FeInvertP256 == ToT32 \o
  <<Ln("t60", "t30", 30, "t30"), Ln("t62", "t60", 2, "t2"),
    Ln("t92", "t62", 30, "t30"), Ln("t94", "t92", 2, "t2"),
    Ln("acc", "t32", 31, ""), Ln("acc", "acc", 1, "t1"), Ln("acc", "acc", 96, ""),
    Ln("acc", "acc", 94, "t94"), Ln("acc", "acc", 1, ""), Ln("acc", "acc", 1, "t1")>>

ToT255 == ToT32 \o
  <<Ln("t60", "t30", 30, "t30"), Ln("t120", "t60", 60, "t60"),
    Ln("t240", "t120", 120, "t120"), Ln("t255", "t240", 15, "t15"),
    Ln("acc", "t255", 1, ""), Ln("acc", "acc", 32, "t32"), Ln("acc", "acc", 64, "")>>

FeInvertP384 == ToT255 \o
  <<Ln("acc", "acc", 30, "t30"), Ln("acc", "acc", 1, ""), Ln("acc", "acc", 1, "t1")>>

(* Mutant of FeSqrtP256: the last shift is that of invert. *)
FeSqrtP256Shift == ToT32 \o
  <<Ln("acc", "t32", 32, "t1"), Ln("acc", "acc", 96, "t1"), Ln("acc", "acc", 96, "")>>

FeSqrtP256 == ToT32 \o
  <<Ln("acc", "t32", 32, "t1"), Ln("acc", "acc", 96, "t1"), Ln("acc", "acc", 94, "")>>

FeSqrtP384 == ToT255 \o <<Ln("acc", "acc", 0, "t1"), Ln("acc", "acc", 30, "")>>

(* The low half of n - 2, a digit of four bits at a time: four squarings and,
   unless the digit is zero, tbl[digit]. *)
Nibble(words, j) ==
  (words[Len(words) - j \div 4] \div 16 ^ (j % 4)) % 16
Windows(words, nibbles) ==
  [j \in 1..nibbles |->
     [Ln("acc", "acc", 4, "") EXCEPT !.digit = Nibble(MinusTwo(words), nibbles - j)]]

ScalarInvertP256 == ToT32 \o
  <<Ln("t64", "t32", 32, "t32"), Ln("acc", "t32", 32, ""), Ln("acc", "acc", 64, "t64")>>
  \o Windows(OrderP256, 32)

ScalarInvertP384 == ToT3 \o
  <<Ln("t24", "t12", 12, "t12"), Ln("t48", "t24", 24, "t24"),
    Ln("t96", "t48", 48, "t48"), Ln("acc", "t96", 96, "t96")>>
  \o Windows(OrderP384, 48)

(* Fe51::invert; its own t0 to t3 are the registers u0 to u3. *)
Fe51Invert ==
  <<Ln("u0", "t1", 1, ""), Ln("u1", "u0", 2, "t1"), Ln("u0", "u0", 0, "u1"),
    Ln("u2", "u0", 1, ""), Ln("u1", "u1", 0, "u2"),
    Ln("u2", "u1", 5, ""), Ln("u1", "u1", 0, "u2"), Ln("u2", "u1", 10, "u1"),
    Ln("u3", "u2", 20, ""), Ln("u2", "u2", 0, "u3"),
    Ln("u2", "u2", 10, ""), Ln("u1", "u1", 0, "u2"), Ln("u2", "u1", 50, "u1"),
    Ln("u3", "u2", 100, ""), Ln("u2", "u2", 0, "u3"),
    Ln("u2", "u2", 50, ""), Ln("u1", "u1", 0, "u2"), Ln("acc", "u1", 5, "u0")>>

(* pow_p_plus_3_over_8: i counts down from 251, and 0 multiplies nothing. *)
PowPPlus3Over8 ==
  [j \in 1..252 |-> Ln("acc", "acc", 1, IF 252 - j >= 1 THEN "t1" ELSE "")]

(* The one bits of a number of 16-bit words. *)
BitsOf(words) == {j \in 0..(16 * Len(words) - 1) :
                    (Nibble(words, j \div 4) \div 2 ^ (j % 4)) % 2 = 1}

(* FieldElement::invert and sqrt of secp256k1 go through the bits of their
   exponent from the lowest, with ever higher squares of the input in cur. *)
FromLowest(words, count) ==
  LET ones == BitsOf(words)
  IN  <<Ln("cur", "t1", 0, "")>> \o
      [j \in 1..(2 * count) |->
         IF j % 2 = 0 THEN Ln("cur", "cur", 1, "")
         ELSE Ln("acc", "acc", 0, IF (j \div 2) \in ones THEN "cur" ELSE "")]

SecpInvert == FromLowest([w \in 1..13 |-> \hffff] \o <<\hfffe, \hffff, \hfc2d>>, 256)

SecpSqrt == FromLowest(<<\h3fff>> \o [w \in 1..13 |-> \hffff] \o <<\hbfff, \hff0c>>, 254)

Chain == [c \in {"Fe::invert P-256", "Fe::invert P-384", "Fe::sqrt P-256",
                 "Fe::sqrt P-384", "Scalar::invert P-256", "Scalar::invert P-384",
                 "Fe51::invert", "pow_p_plus_3_over_8",
                 "secp256k1 invert", "secp256k1 sqrt"} |->
            CASE c = "Fe::invert P-256" -> FeInvertP256
              [] c = "Fe::invert P-384" -> FeInvertP384
              [] c = "Fe::sqrt P-256" -> FeSqrtP256
              [] c = "Fe::sqrt P-384" -> FeSqrtP384
              [] c = "Scalar::invert P-256" -> ScalarInvertP256
              [] c = "Scalar::invert P-384" -> ScalarInvertP384
              [] c = "Fe51::invert" -> Fe51Invert
              [] c = "pow_p_plus_3_over_8" -> PowPPlus3Over8
              [] c = "secp256k1 invert" -> SecpInvert
              [] c = "secp256k1 sqrt" -> SecpSqrt]

Lines(c) == Chain[c]
Chains == DOMAIN Chain
Registers == {"t1", "t2", "t3", "t6", "t12", "t15", "t24", "t30", "t32", "t48", "t60",
              "t62", "t64", "t92", "t94", "t96", "t120", "t240", "t255",
              "u0", "u1", "u2", "u3", "cur", "acc"}
-------------------------------------------------------------------------------
Init == /\ chain \in Chains
        /\ pc = 1 /\ left = -1
        /\ reg = [r \in Registers |-> IF r = "t1" THEN {0} ELSE {}]

Line == Lines(chain)[pc]

DigitBits(d) == {b \in 0..3 : (d \div 2 ^ b) % 2 = 1}

(* The sum of two exponents; carries occur in no chain that is right. *)
Plus(a, b) ==
  LET top == 800
      carry[j \in 0..top] ==
        /\ j > 0
        /\ LET x == j - 1 \in a
               y == j - 1 \in b
           IN  (x /\ y) \/ ((x \/ y) /\ carry[j - 1])
  IN  IF a \cap b = {} THEN a \cup b
      ELSE {j \in 0..top : ((j \in a) # (j \in b)) # carry[j]}

(* let mut res = *self *)
Copy ==
  /\ pc <= Len(Lines(chain)) /\ left = -1
  /\ reg' = [reg EXCEPT ![Line.to] = reg[Line.from]]
  /\ left' = Line.n
  /\ UNCHANGED <<chain, pc>>

Square ==
  /\ pc <= Len(Lines(chain)) /\ left > 0
  /\ reg' = [reg EXCEPT ![Line.to] = {j + 1 : j \in @}]
  /\ left' = left - 1
  /\ UNCHANGED <<chain, pc>>

Multiply ==
  /\ pc <= Len(Lines(chain)) /\ left = 0
  /\ reg' = [reg EXCEPT ![Line.to] =
               Plus(@, IF Line.by = "" THEN DigitBits(Line.digit) ELSE reg[Line.by])]
  /\ pc' = pc + 1 /\ left' = -1
  /\ UNCHANGED chain

Next == Copy \/ Square \/ Multiply

Spec == Init /\ [][Next]_vars
-------------------------------------------------------------------------------
(* The primes, p = 2^256 - 2^224 + 2^192 + 2^96 - 1,
   p = 2^384 - 2^128 - 2^96 + 2^32 - 1, p = 2^256 - 2^32 - 977 and
   p = 2^255 - 19, as their one bits. *)
PrimeP256 == (0..95) \cup {192} \cup (224..255)
PrimeP384 == (0..31) \cup (96..127) \cup (129..383)
PrimeSecp == (0..255) \ {4, 6, 7, 8, 9, 32}
Prime25519 == (0..254) \ {1, 4}

(* (p + 1) / 4: the low ones of p carry into the bit above them. *)
QuarterP256 == {j - 2 : j \in (PrimeP256 \ (0..95)) \cup {96}}
QuarterP384 == {j - 2 : j \in (PrimeP384 \ (0..31)) \cup {32}}
QuarterSecp == {j - 2 : j \in (PrimeSecp \ (0..3)) \cup {4}}

Exponent(c) == CASE c = "Fe::invert P-256" -> PrimeP256 \ {1}
                 [] c = "Fe::invert P-384" -> PrimeP384 \ {1}
                 [] c = "Fe::sqrt P-256" -> QuarterP256
                 [] c = "Fe::sqrt P-384" -> QuarterP384
                 [] c = "Scalar::invert P-256" -> BitsOf(MinusTwo(OrderP256))
                 [] c = "Scalar::invert P-384" -> BitsOf(MinusTwo(OrderP384))
                 [] c = "Fe51::invert" -> (Prime25519 \ {2}) \cup {1}
                 [] c = "pow_p_plus_3_over_8" -> 1..251
                 [] c = "secp256k1 invert" -> PrimeSecp \ {1}
                 [] c = "secp256k1 sqrt" -> QuarterSecp

(* No product adds exponents with a common bit, so that every exponent stays
   below the modulus's width, and no line reads a register not yet set, but for
   an accumulator that starts at one. *)
TypeOK ==
  /\ chain \in Chains
  /\ \A r \in Registers : reg[r] \subseteq 0..383
  /\ pc <= Len(Lines(chain)) =>
       /\ reg[Line.from] # {} \/ Line.from = "acc"   \* ONE
       /\ left = 0 /\ Line.by # "" => reg[Line.by] \cap reg[Line.to] = {}

(* Each chain raises its input to the exponent it is there for: p - 2 and n - 2
   for the inverses, (p + 1) / 4 for the square roots, (p + 3) / 8 where p is
   5 modulo 8. *)
RaisesToExponent == pc > Len(Lines(chain)) => reg["acc"] = Exponent(chain)
==============================================================================
