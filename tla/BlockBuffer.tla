----------------------------- MODULE BlockBuffer -----------------------------
(***************************************************************************)
(* The buffered absorption loop of src/sha512.rs: Sha512::update and       *)
(* Sha512Core::update take input in pieces of any size and hand it to the  *)
(* compression function in whole blocks.                                   *)
(*                                                                         *)
(* A byte is a pair <<kind, value>>.  The code moves bytes and never looks *)
(* at them, so the kind says where a byte comes from and the value which   *)
(* one it is; a byte that is lost, duplicated, reordered or left over from *)
(* an earlier block shows as a wrong pair.  The chaining state is          *)
(* represented by what it is a function of: the bytes compressed so far.   *)
(***************************************************************************)
EXTENDS Integers, Sequences

CONSTANT Block   \* bytes in a block (SHA512_BLOCK_SIZE, 128 in the code)

ASSUME BlockAssumption == Block \in Nat \ {0}

Zero == <<"zero", 0>>

(* The context: buffer, buf_len and total_len are fields of the struct, and
   hashed stands for state. *)
NewContext ==
  [ buffer   |-> [i \in 1..Block |-> Zero],
    bufLen   |-> 0,
    totalLen |-> 0,
    hashed   |-> <<>> ]

(* buf[at .. at + Len(s)].copy_from_slice(s), counting from 1. *)
CopyInto(buf, at, s) ==
  [i \in 1..Block |-> IF at < i /\ i <= at + Len(s) THEN s[i - at] ELSE buf[i]]

(* data[from..], data[..to] *)
Drop(data, n) == SubSeq(data, n + 1, Len(data))
Take(data, n) == SubSeq(data, 1, n)

(* "Fill buffer if not empty": how many bytes of data go to the buffer, and
   the context after them; a full buffer is compressed. *)
FillCount(c, data) ==
  IF c.bufLen = 0 THEN 0
  ELSE IF Block - c.bufLen < Len(data) THEN Block - c.bufLen ELSE Len(data)

(* Mutant of Fill: buf_len is not reset when the buffer was compressed. *)
FillWithoutReset(c, data) ==
  LET take   == FillCount(c, data)
      filled == CopyInto(c.buffer, c.bufLen, Take(data, take))
      full   == c.bufLen + take = Block
  IN  [ buffer   |-> filled,
        bufLen   |-> c.bufLen + take,
        totalLen |-> c.totalLen + Len(data),
        hashed   |-> IF full THEN c.hashed \o filled ELSE c.hashed ]

Fill(c, data) ==
  LET take   == FillCount(c, data)
      filled == CopyInto(c.buffer, c.bufLen, Take(data, take))
      full   == c.bufLen + take = Block
  IN  [ buffer   |-> filled,
        bufLen   |-> IF full THEN 0 ELSE c.bufLen + take,
        totalLen |-> c.totalLen + Len(data),
        hashed   |-> IF full THEN c.hashed \o filled ELSE c.hashed ]

(* "Process bulk blocks directly from input", then "Buffer remaining bytes". *)
BulkLen(n) == (n \div Block) * Block

BulkAndTail(c, data) ==
  LET bulk == BulkLen(Len(data))
      tail == Drop(data, bulk)
  IN  [ buffer   |-> CopyInto(c.buffer, 0, tail),
        bufLen   |-> IF Len(tail) = 0 THEN c.bufLen ELSE Len(tail),
        totalLen |-> c.totalLen,
        hashed   |-> c.hashed \o Take(data, bulk) ]

(* Mutant of Absorb: the input is not advanced past what Fill took. *)
AbsorbTwice(c, data) == BulkAndTail(Fill(c, data), data)

Absorb(c, data) ==
  BulkAndTail(Fill(c, data), Drop(data, FillCount(c, data)))

(* Everything the context has been fed, in order: what was compressed, then
   what waits in the buffer. *)
FedLen(c) == Len(c.hashed) + c.bufLen

Fed(c) == [i \in 1..FedLen(c) |->
             IF i <= Len(c.hashed) THEN c.hashed[i]
             ELSE c.buffer[i - Len(c.hashed)]]
==============================================================================
