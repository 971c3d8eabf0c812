----------------------------- MODULE CounterBlock -----------------------------
(***************************************************************************)
(* Counter blocks of src/aes.rs and the keystream made from them.  A block *)
(* is a sequence of B bytes in base Radix, most significant first; a       *)
(* keystream byte is the pair <<counter block, index>> it is a function of.*)
(***************************************************************************)
EXTENDS Integers, Sequences

CONSTANTS B,        \* bytes in a block (16 in the code)
          Radix,    \* values of a byte (256)
          LowBytes  \* bytes of the block that inc32 counts in (4)

CounterParameters == /\ B \in Nat \ {0} /\ Radix \in Nat \ {0, 1}
                     /\ LowBytes \in 1..B

(* A byte changes when every byte below it wraps. *)
Inc128(blk) ==
  [i \in 1..B |-> IF \A j \in (i + 1)..B : blk[j] = Radix - 1
                  THEN (blk[i] + 1) % Radix ELSE blk[i]]

(* The low word wraps on its own. *)
Inc32(blk) ==
  [i \in 1..B |-> IF B - LowBytes < i /\ \A j \in (i + 1)..B : blk[j] = Radix - 1
                  THEN (blk[i] + 1) % Radix ELSE blk[i]]

Inc(kind, blk) == IF kind = "inc128" THEN Inc128(blk) ELSE Inc32(blk)

Blocks(n) == (n + B - 1) \div B   \* blocks that n bytes take

(* The counter k blocks on. *)
CounterAfter(kind, blk, k) ==
  LET at[j \in 0..k] == IF j = 0 THEN blk ELSE Inc(kind, at[j - 1]) IN at[k]

(* ctr_apply: pairs of blocks, a block, a tail, each with the next counter. *)
CtrApply(kind, blk, n) ==
  [i \in 1..n |-> <<CounterAfter(kind, blk, (i - 1) \div B), (i - 1) % B>>]
-------------------------------------------------------------------------------
(* The number of values of n bytes, and counter blocks as numbers. *)
Power(n) == LET pow[k \in 0..n] == IF k = 0 THEN 1 ELSE Radix * pow[k - 1] IN pow[n]

BlockValue(blk) ==
  LET sum[i \in 0..B] == IF i = 0 THEN 0 ELSE sum[i - 1] * Radix + blk[i] IN sum[B]
===============================================================================
