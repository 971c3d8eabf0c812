-------------------------------- MODULE Sha512 --------------------------------
(***************************************************************************)
(* The streaming hashers of src/sha512.rs: Sha512 (and Sha384, which       *)
(* copies its fields into a Sha512, calls it, and copies them back), and   *)
(* Sha512Core, under the truncated SHA-512/t functions and HMAC.  They     *)
(* share the absorption loop and differ in finalize: Sha512 writes its     *)
(* padding into the buffer; Sha512Core feeds it to its own update, one     *)
(* byte 0x80 and then single zero bytes until only the length field is     *)
(* missing from a block.  One action per method, but a step for each turn  *)
(* of that loop.                                                           *)
(***************************************************************************)
EXTENDS BlockBuffer

CONSTANTS LenField,  \* bytes in the length field (16 in the code)
          MaxLen     \* bound: bytes given to update over a run

ASSUME LenFieldAssumption == LenField \in Nat \ {0} /\ LenField < Block
ASSUME MaxLenAssumption == MaxLen \in Nat

VARIABLES ctx,     \* the Sha512 or Sha512Core struct
          phase,   \* "absorbing"; inside Sha512Core's finalize "padding"; "done"
          bitLen,  \* finalize's local: the message length it took on entry
          digest   \* what finalize compressed, a function of which it returns

vars == <<ctx, phase, bitLen, digest>>

MsgByte(i)    == <<"msg", i>>
End           == <<"end", 0>>
LenByte(n, j) == <<"len", <<n, j>>>>

(* The next n bytes of the message, and the length field for n bytes. *)
Piece(n)    == [j \in 1..n |-> MsgByte(ctx.totalLen + j)]
LenBytes(n) == [j \in 1..LenField |-> LenByte(n, j)]

Init == ctx = NewContext /\ phase = "absorbing" /\ bitLen = 0 /\ digest = <<>>

Update(n) ==
  /\ phase = "absorbing"
  /\ ctx' = Absorb(ctx, Piece(n))
  /\ UNCHANGED <<phase, bitLen, digest>>

(* Sha512Core's update, the same loop. *)
CoreUpdate(n) == Update(n)
-------------------------------------------------------------------------------
(* for i in from..to { self.buffer[i] = 0 }, counting from 1 *)
ZeroFill(buf, from, to) ==
  [i \in 1..Block |-> IF from < i /\ i <= to THEN Zero ELSE buf[i]]

(* Mutant of PadBlocks: the rest of the buffer is not cleared. *)
PadBlocksStale(c) ==
  LET used  == c.bufLen + 1
      ended == CopyInto(c.buffer, c.bufLen, <<End>>)
      lenAt == Block - LenField
  IN  IF used > lenAt
      THEN ended \o CopyInto(NewContext.buffer, lenAt, LenBytes(c.totalLen))
      ELSE CopyInto(ended, lenAt, LenBytes(c.totalLen))

(* Sha512's finalize: 0x80, then either zeros up to the length field, or zeros
   to the end of this block and a second block that is all zero; then the
   length. *)
PadBlocks(c) ==
  LET used  == c.bufLen + 1
      ended == CopyInto(c.buffer, c.bufLen, <<End>>)
      lenAt == Block - LenField
  IN  IF used > lenAt
      THEN ZeroFill(ended, used, Block)
             \o CopyInto(NewContext.buffer, lenAt, LenBytes(c.totalLen))
      ELSE CopyInto(ZeroFill(ended, used, lenAt), lenAt, LenBytes(c.totalLen))

Finalize ==
  /\ phase = "absorbing"
  /\ phase' = "done"
  /\ bitLen' = ctx.totalLen
  /\ digest' = ctx.hashed \o PadBlocks(ctx)
  /\ UNCHANGED ctx        \* self is consumed: no call can follow

Next ==
  \/ \E n \in 0..(MaxLen - ctx.totalLen) : Update(n)
  \/ Finalize

Spec == Init /\ [][Next]_vars
-------------------------------------------------------------------------------
(* Sha512Core's finalize, up to its loop: bit_len = total_len * 8, then
   update(&[0x80]). *)
BeginFinalize ==
  /\ phase = "absorbing"
  /\ phase' = "padding"
  /\ bitLen' = ctx.totalLen
  /\ ctx' = Absorb(ctx, <<End>>)
  /\ UNCHANGED digest

(* Mutant of PadZero: the slice passed to update is empty. *)
PadNothing ==
  /\ phase = "padding"
  /\ ctx.bufLen # Block - LenField
  /\ ctx' = Absorb(ctx, <<>>)
  /\ UNCHANGED <<phase, bitLen, digest>>

(* while self.buf_len != BLOCK - 16 { self.update(&[0]) } *)
PadZero ==
  /\ phase = "padding"
  /\ ctx.bufLen # Block - LenField
  /\ ctx' = Absorb(ctx, <<Zero>>)
  /\ UNCHANGED <<phase, bitLen, digest>>

(* Mutant of EndFinalize: total_len is read again, after the padding. *)
EndFinalizeLate ==
  /\ phase = "padding"
  /\ ctx.bufLen = Block - LenField
  /\ phase' = "done"
  /\ digest' = ctx.hashed
                 \o CopyInto(ctx.buffer, Block - LenField, LenBytes(ctx.totalLen))
  /\ UNCHANGED <<ctx, bitLen>>

(* The loop is left: the length goes into the buffer, which is compressed. *)
EndFinalize ==
  /\ phase = "padding"
  /\ ctx.bufLen = Block - LenField
  /\ phase' = "done"
  /\ digest' = ctx.hashed \o CopyInto(ctx.buffer, Block - LenField, LenBytes(bitLen))
  /\ UNCHANGED <<ctx, bitLen>>

CoreNext ==
  \/ \E n \in 0..(MaxLen - ctx.totalLen) : CoreUpdate(n)
  \/ BeginFinalize
  \/ PadZero
  \/ EndFinalize

CoreSpec == Init /\ [][CoreNext]_vars
-------------------------------------------------------------------------------
Byte == ({"msg"} \X Nat) \cup ({"len"} \X (Nat \X Nat)) \cup {Zero, End}

TypeOK ==
  /\ ctx.buffer \in [1..Block -> Byte]
  /\ ctx.bufLen \in 0..(Block - 1)
  /\ ctx.totalLen \in Nat
  /\ ctx.hashed \in Seq(Byte)
  /\ phase \in {"absorbing", "padding", "done"}
  /\ bitLen \in Nat
  /\ digest \in Seq(Byte)

(* Whatever the pieces, the bytes compressed so far followed by the buffered
   ones are the message so far: none lost, repeated, out of order or stale
   (Sha512::update, Sha512Core::update). *)
FedIsMessage ==
  phase = "absorbing" => Fed(ctx) = [i \in 1..ctx.totalLen |-> MsgByte(i)]

(* Both hashers' finalize compresses exactly the padded message, at every residue
   of the length modulo the block and whatever an earlier block left in the
   buffer; in Sha512Core the padding bytes that update counts into total_len
   never reach the length field (Sha512::finalize, Sha512Core::finalize). *)
MessageLen == IF phase = "absorbing" THEN ctx.totalLen ELSE bitLen

Spec512 == INSTANCE HashSpec WITH length <- MessageLen, padded <- digest
ImplementsHashSpec == Spec512!HashSpecification
==============================================================================
