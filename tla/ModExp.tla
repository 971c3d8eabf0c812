-------------------------------- MODULE ModExp --------------------------------
(***************************************************************************)
(* modexp_public of src/rsa.rs: base^exponent mod a public odd modulus, by *)
(* its portable path and by the path that calls the Cortex-M4 routines of  *)
(* asm/cortex_m_bignum.S.  A number of N words is the integer it holds;    *)
(* the exponent is a sequence of big-endian bytes.  A word is the piece of *)
(* a number that one turn of a reduction clears: 32 bits on the portable   *)
(* path, four registers on the other.                                      *)
(***************************************************************************)
EXTENDS Integers, Sequences

CONSTANTS WordBits, N,       \* bits of a word, words of a number
          NewtonSteps,       \* iterations of inv32: 4 for words of 32 bits
          ByteBits,          \* bits of a byte of the exponent
          ExpModuli, Bases, Exponents

PowerOf(b, n) == LET p[j \in 0..n] == IF j = 0 THEN 1 ELSE b * p[j - 1] IN p[n]

WordSize == PowerOf(2, WordBits)
R == PowerOf(WordSize, N)

VARIABLES path,      \* "portable" or "asm": the build
          base, exponent, modulus,
          pc,        \* "check", "to_mont", "loop", "multiply", "finish", "done"
          bits,      \* the exponent's bits from its first one on
          pos,       \* bits that acc accounts for
          acc,       \* acc, or the low half of temp
          baseMont,  \* base_mont, or a1
          status,    \* "running", "Ok" or the error returned
          result

vars == <<path, base, exponent, modulus, pc, bits, pos, acc, baseMont, status, result>>

inputs == <<path, base, exponent, modulus>>

ModExpParameters == /\ {WordBits, N, ByteBits, NewtonSteps} \subseteq Nat \ {0}
                    /\ PowerOf(2, NewtonSteps + 1) >= WordBits
                    /\ ExpModuli \subseteq 0..(R - 1) /\ Bases \subseteq 0..(R - 1)
                    /\ Exponents \subseteq Seq(0..(PowerOf(2, ByteBits) - 1))

Init == /\ path \in {"portable", "asm"}
        /\ modulus \in ExpModuli /\ base \in Bases /\ exponent \in Exponents
        /\ pc = "check" /\ bits = <<>> /\ pos = 0
        /\ acc = 0 /\ baseMont = 0
        /\ status = "running" /\ result = 0
-------------------------------------------------------------------------------
Word(x, j) == (x \div PowerOf(WordSize, j)) % WordSize

(* x - m when it does not borrow from the carry word: sub_m_if_gte, and the
   end of mont_mul. *)
SubIfGte(x, m) == LET low == x % R
                  IN  IF x \div R < (IF low < m THEN 1 ELSE 0)
                      THEN low ELSE (low - m) % R

(* -n^-1 mod WordSize by Newton's iteration, which doubles the good bits: inv32. *)
Inv32(n) == LET x[s \in 0..NewtonSteps] ==
                  IF s = 0 THEN (2 - n) % WordSize
                  ELSE (x[s - 1] * (2 - n * x[s - 1])) % WordSize
            IN  (0 - x[NewtonSteps]) % WordSize

(* The loop of mont_mul: a word of x at a time, leaving t[0..N]. *)
MontLoop(x, y, m) ==
  LET mu == Inv32(m % WordSize)
      t[j \in 0..N] ==
        IF j = 0 THEN 0
        ELSE LET s == t[j - 1] + Word(x, j - 1) * y
             IN  (s + ((s % WordSize) * mu % WordSize) * m) \div WordSize
  IN  t[N]

(* x * y * R^-1 mod m: mont_mul. *)
MontMul(x, y, m) == SubIfGte(MontLoop(x, y, m), m)

(* Mutant of RSquared: one doubling is missing. *)
RSquaredShort(m) == LET r2[s \in 0..(2 * WordBits * N - 1)] ==
                          IF s = 0 THEN 1 ELSE SubIfGte(2 * r2[s - 1], m)
                    IN  r2[2 * WordBits * N - 1]

(* R^2 mod m: one, doubled and reduced 2 * WordBits * N times. *)
RSquared(m) == LET r2[s \in 0..(2 * WordBits * N)] ==
                     IF s = 0 THEN 1 ELSE SubIfGte(2 * r2[s - 1], m)
               IN  r2[2 * WordBits * N]

(* What the long division of x * R by m leaves: bignum_to_mont. *)
AsmToMont(x, m) == (x * R) % m

(* A multiple of m is added to x to clear its lowest word, N times over; what is
   left may have a carry beyond its N words: the loop of bignum_mont_redc. *)
AsmRedcLoop(x, m) ==
  LET mu == Inv32(m % WordSize)
      t[j \in 0..N] ==
        IF j = 0 THEN x
        ELSE (t[j - 1] + ((t[j - 1] % WordSize) * mu % WordSize) * m) \div WordSize
  IN  t[N]

(* A modulus whose top bit is set is subtracted when there is a carry, and only
   then, so that the result may be above it; another modulus is subtracted from
   what is not below it: the end of bignum_mont_redc. *)
AsmRedc(x, m) ==
  LET t == AsmRedcLoop(x, m)
  IN  IF 2 * m >= R THEN (IF t >= R THEN t - m ELSE t) ELSE SubIfGte(t, m)

(* The bits of the exponent from its first one on; none if it is zero. *)
BitAt(e, k) ==
  (e[(k \div ByteBits) + 1] \div PowerOf(2, ByteBits - 1 - (k % ByteBits))) % 2
ExponentBits(e) == LET all == [k \in 1..(Len(e) * ByteBits) |-> BitAt(e, k - 1)]
                       ones == {k \in DOMAIN all : all[k] = 1}
                   IN  IF ones = {} THEN <<>>
                       ELSE SubSeq(all, CHOOSE k \in ones : \A l \in ones : k <= l, Len(all))
-------------------------------------------------------------------------------
Return(st, x) == /\ pc' = "done" /\ status' = st /\ result' = x
                 /\ UNCHANGED <<inputs, bits, pos, acc, baseMont>>

(* The checks and the scan for the first one bit; a zero exponent returns 1. *)
Check ==
  /\ pc = "check"
  /\ \/ modulus % 2 = 0 /\ Return("ModulusEven", 0)
     \/ modulus % 2 = 1 /\ base >= modulus /\ Return("BaseTooLarge", 0)
     \/ /\ modulus % 2 = 1 /\ base < modulus
        /\ ExponentBits(exponent) = <<>>
        /\ Return("Ok", 1)
     \/ /\ modulus % 2 = 1 /\ base < modulus
        /\ ExponentBits(exponent) # <<>>
        /\ bits' = ExponentBits(exponent) /\ pc' = "to_mont"
        /\ UNCHANGED <<inputs, pos, acc, baseMont, status, result>>

ToMont ==
  /\ pc = "to_mont"
  /\ baseMont' = IF path = "asm" THEN AsmToMont(base, modulus)
                 ELSE MontMul(base, RSquared(modulus), modulus)
  /\ acc' = baseMont' /\ pos' = 1 /\ pc' = "square"
  /\ UNCHANGED <<inputs, bits, status, result>>

(* The product of the build: mont_mul, or mulacc and mont_redc. *)
Product(x, y) == IF path = "asm" THEN AsmRedc(x * y, modulus) ELSE MontMul(x, y, modulus)

Square ==
  /\ pc = "square" /\ pos < Len(bits)
  /\ acc' = Product(acc, acc) /\ pos' = pos + 1
  /\ pc' = IF bits[pos + 1] = 1 THEN "multiply" ELSE "square"
  /\ UNCHANGED <<inputs, bits, baseMont, status, result>>

(* On the asm path the last product takes the base itself, which brings the
   result out of Montgomery form. *)
Factor == IF path = "asm" /\ pos = Len(bits) THEN base ELSE baseMont

Multiply ==
  /\ pc = "multiply"
  /\ acc' = Product(acc, Factor) /\ pc' = "square"
  /\ UNCHANGED <<inputs, bits, pos, baseMont, status, result>>

(* Mutant of OutOfMont: bignum_submod is left out. *)
OutOfMontUnreduced ==
  IF path = "portable" THEN MontMul(acc, 1, modulus)
  ELSE IF bits[Len(bits)] = 0 THEN AsmRedc(acc, modulus) ELSE acc

(* Out of Montgomery form: a product by one, or on the asm path a reduction
   when the exponent is even, and bignum_submod, which subtracts the modulus
   once or not at all. *)
OutOfMont ==
  IF path = "portable" THEN MontMul(acc, 1, modulus)
  ELSE SubIfGte(IF bits[Len(bits)] = 0 THEN AsmRedc(acc, modulus) ELSE acc, modulus)

Convert == pc = "square" /\ pos = Len(bits) /\ Return("Ok", OutOfMont)

Next == Check \/ ToMont \/ Square \/ Multiply \/ Convert

Spec == Init /\ [][Next]_vars
-------------------------------------------------------------------------------
(* base^e mod modulus, one bit of the exponent at a time from the left. *)
PowerOfBits(bs) ==
  LET f[j \in 0..Len(bs)] ==
        IF j = 0 THEN 1 % modulus
        ELSE (f[j - 1] * f[j - 1] * (IF bs[j] = 1 THEN base ELSE 1)) % modulus
  IN  f[Len(bs)]

Value(e) == LET f[j \in 0..Len(e)] ==
                  IF j = 0 THEN 0 ELSE f[j - 1] * PowerOf(2, ByteBits) + e[j]
            IN  f[Len(e)]

Power == LET f[e \in 0..Value(exponent)] ==
               IF e = 0 THEN 1 % modulus ELSE (f[e - 1] * base) % modulus
         IN  f[Value(exponent)]

TypeOK == /\ pc \in {"check", "to_mont", "square", "multiply", "done"}
          /\ status \in {"running", "Ok", "ModulusEven", "BaseTooLarge"}
          /\ bits \in Seq({0, 1}) /\ pos \in 0..Len(bits)
          /\ acc \in 0..(R - 1) /\ baseMont \in 0..(R - 1) /\ result \in 0..(R - 1)

(* What bounds the build's products: on the asm path, with a modulus whose top bit
   is set, no more than the words of a number. *)
Limit == IF path = "asm" /\ 2 * modulus >= R THEN R ELSE modulus

(* Between two turns of the loop the accumulator is, modulo the modulus, the power
   for the bits read so far, in Montgomery form, on both paths, except after the
   asm path's last product, which leaves that form; it is below what bounds the
   build's products, which need not be the modulus (modexp_public). *)
PrefixPower ==
  pc = "square" =>
    /\ acc < Limit
    /\ LET power == PowerOfBits(SubSeq(bits, 1, pos))
       IN  IF path = "asm" /\ 1 < pos /\ pos = Len(bits) /\ bits[pos] = 1
           THEN acc % modulus = power
           ELSE acc % modulus = (power * R) % modulus

(* What is returned is base^exponent mod modulus, whatever the leading zeros of
   the exponent, on both paths, but for the exponent 1 on the asm path and the
   modulus 1 with a zero exponent; errors are for the inputs they name. *)
ReturnsPower ==
  pc = "done" =>
    CASE status = "ModulusEven"  -> modulus % 2 = 0
      [] status = "BaseTooLarge" -> modulus % 2 = 1 /\ base >= modulus
      [] OTHER -> \/ path = "asm" /\ bits = <<1>>
                  \/ modulus = 1 /\ bits = <<>>
                  \/ result = Power

(* rsa.rs:54: "Compute base^exponent mod modulus for public exponents"; stated
   for nonzero exponents. *)
DocumentedPower ==
  pc = "done" /\ status = "Ok" /\ Value(exponent) > 0 => result = Power
==============================================================================
