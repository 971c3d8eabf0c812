------------------------------- MODULE Poly1305 -------------------------------
(***************************************************************************)
(* The authenticator of src/poly1305.rs: buffering as in BlockBuffer, and  *)
(* the limb arithmetic modulo p = 2^130 - 5 of process_block and finish,   *)
(* on smaller limbs.  Here a byte is <<"msg", value>>.                     *)
(***************************************************************************)
EXTENDS BlockBuffer

CONSTANTS ByteBase,   \* values of a byte (256)
          LimbBase,   \* values of a limb (2^26)
          Limbs,      \* limbs of the accumulator (5)
          MulKeys,    \* bound: the halves r of keys
          AddKeys,    \* bound: the halves s
          PolyBytes,  \* bound: values of message bytes
          MaxPoly     \* bound: bytes of a message

Pow(base, n) == LET pow[k \in 0..n] == IF k = 0 THEN 1 ELSE base * pow[k - 1] IN pow[n]

BlockRange == Pow(ByteBase, Block)      \* 2^128
Modulus    == Pow(LimbBase, Limbs) - 5  \* p

(* The accumulator has two bits more than a block. *)
PolyParameters ==
  /\ Pow(LimbBase, Limbs) = 4 * BlockRange
  /\ MulKeys \cup AddKeys \subseteq 0..(BlockRange - 1)
  /\ PolyBytes \subseteq 0..(ByteBase - 1) /\ MaxPoly \in Nat

VARIABLES ctx,  \* leftover and buffer of the Poly1305 (buf), and h
          log   \* the key, the message, the tag

polyVars == <<ctx, log>>

Top == Limbs - 1

(* Bytes as a little-endian number, and a number as limbs: the top one takes
   what is left, and 1 << 24 above it for a whole block. *)
Little(bytes) ==
  LET sum[i \in 0..Len(bytes)] ==
        IF i = 0 THEN 0 ELSE sum[i - 1] + bytes[i][2] * Pow(ByteBase, i - 1)
  IN  sum[Len(bytes)]

ToLimbs(v) == [k \in 0..Top |->
                 IF k = Top THEN v \div Pow(LimbBase, Top)
                 ELSE (v \div Pow(LimbBase, k)) % LimbBase]

FromLimbs(h) == LET sum[k \in 0..Limbs] == IF k = 0 THEN 0
                      ELSE sum[k - 1] + h[k - 1] * Pow(LimbBase, k - 1)
                IN  sum[Limbs]

(* Carry from limb to limb, from the given one up: the limbs, and what leaves
   the top. *)
CarryUp(d, from) ==
  LET c[k \in 0..Limbs] == IF k <= from THEN 0
                           ELSE (d[k - 1] + c[k - 1]) \div LimbBase
  IN  <<[k \in 0..Top |-> IF k < from THEN d[k] ELSE (d[k] + c[k]) % LimbBase],
        c[Limbs]>>

(* What left the top comes back fivefold at the bottom: 2^130 = 5 (mod p). *)
WrapCarry(h, c) ==
  [h EXCEPT ![0] = (h[0] + 5 * c) % LimbBase,
            ![1] = @ + (h[0] + 5 * c) \div LimbBase]

Added(h, v) == LET m == ToLimbs(v) IN [k \in 0..Top |-> h[k] + m[k]]

(* d0 .. d4: a product that lies past the top limb comes back fivefold. *)
Products(h, r) ==
  LET term(k, i) == IF i <= k THEN h[i] * r[k - i] ELSE h[i] * (5 * r[Limbs + k - i])
      sum[k \in 0..Top, i \in 0..Limbs] ==
        IF i = 0 THEN 0 ELSE sum[k, i - 1] + term(k, i - 1)
  IN  [k \in 0..Top |-> sum[k, Limbs]]

ProcessBlock(h, v, r) ==
  LET up == CarryUp(Products(Added(h, v), r), 0)
  IN  WrapCarry(up[1], up[2])

WholeBlock(bytes) == Little(bytes) + BlockRange

(* process_block over whole blocks, in order. *)
Accumulate(h, bytes, r) ==
  LET acc[b \in 0..(Len(bytes) \div Block)] ==
        IF b = 0 THEN h
        ELSE ProcessBlock(acc[b - 1],
               WholeBlock(SubSeq(bytes, (b - 1) * Block + 1, b * Block)), r)
  IN  acc[Len(bytes) \div Block]

Init == /\ ctx = [buf |-> NewContext, h |-> [k \in 0..Top |-> 0]]
        /\ \E r \in MulKeys, s \in AddKeys :
             log = [r |-> ToLimbs(r), s |-> s, msg |-> <<>>, tag |-> -1]

(* update: fill the open block, then whole blocks, then the rest; hashed is
   what of it goes to process_block. *)
Update(data) ==
  /\ log.tag = -1
  /\ LET buf == Absorb(ctx.buf, data)
     IN  ctx' = [buf |-> [buf EXCEPT !.hashed = <<>>],
                 h   |-> Accumulate(ctx.h, buf.hashed, log.r)]
  /\ log' = [log EXCEPT !.msg = @ \o data]

(* finish: an open block gets a 1 byte behind it, and no bit above. *)
Closed(c, r) ==
  IF c.buf.bufLen = 0 THEN c.h
  ELSE ProcessBlock(c.h, Little(SubSeq(c.buf.buffer, 1, c.buf.bufLen))
                           + Pow(ByteBase, c.buf.bufLen), r)

(* Full carry, from limb 1 round to limb 1. *)
FullCarry(h) == LET up == CarryUp(h, 1) IN WrapCarry(up[1], up[2])

(* Mutant of Reduced: h - p is never taken. *)
ReducedNever(h) == h

(* h - p = h + 5 - 2^130 when the top limb does not borrow, h when it does. *)
Reduced(h) ==
  LET plus5  == CarryUp([h EXCEPT ![0] = @ + 5], 0)
      atop   == plus5[1][Top] + LimbBase * plus5[2]   \* g4 before 1 << 26 is taken
  IN  IF atop >= LimbBase THEN [plus5[1] EXCEPT ![Top] = atop - LimbBase] ELSE h

Finish ==
  /\ log.tag = -1
  /\ log' = [log EXCEPT !.tag =
       (FromLimbs(Reduced(FullCarry(Closed(ctx, log.r)))) + log.s) % BlockRange]
  /\ UNCHANGED ctx

Next ==
  \/ \E n \in 1..(MaxPoly - Len(log.msg)) :
       \E data \in [1..n -> {<<"msg", v>> : v \in PolyBytes}] : Update(data)
  \/ Finish
-------------------------------------------------------------------------------
(* Between blocks every limb is below its base, but limb 1 by a small carry:
   the sums of process_block stay in 32 and 64 bits (64 and 4096 times the
   base here), and finish packs limbs with | as if it added. *)
TypeOK ==
  LET h     == ctx.h
      fits(g, bound) == \A k \in 0..Top : g[k] \in 0..(bound - 1)
      block == WholeBlock([j \in 1..Block |-> <<"msg", ByteBase - 1>>])
      d     == Products(Added(h, block), log.r)
      up    == CarryUp(d, 0)
  IN  /\ ctx.buf.bufLen \in 0..(Block - 1)
      /\ fits([h EXCEPT ![1] = 0], LimbBase) /\ h[1] < 2 * LimbBase
      /\ fits(d, 4096 * LimbBase * LimbBase)
      /\ up[1][0] + 5 * up[2] < 64 * LimbBase
      /\ fits(Reduced(FullCarry(Closed(ctx, log.r))), LimbBase)

(* RFC 8439 2.5.1: Horner's rule over the blocks, each with a 1 byte behind it,
   modulo p; then s is added modulo 2^128. *)
StandardTag(msg, r, s) ==
  LET count == (Len(msg) + Block - 1) \div Block
      block(b) == LET end == IF b * Block < Len(msg) THEN b * Block ELSE Len(msg)
                      from == (b - 1) * Block
                  IN  Little(SubSeq(msg, from + 1, end)) + Pow(ByteBase, end - from)
      acc[b \in 0..count] == IF b = 0 THEN 0
                             ELSE ((acc[b - 1] + block(b)) * r) % Modulus
  IN  (acc[count] + s) % BlockRange

(* However the message was cut, the tag is the standard's, also when the
   accumulator ends between p and 2^130, which a random test does not reach. *)
TagIsStandard == log.tag = -1 \/ log.tag = StandardTag(log.msg, FromLimbs(log.r), log.s)
===============================================================================
