-------------------------------- MODULE Keccak --------------------------------
(***************************************************************************)
(* The sponge of src/keccak.rs (KeccakSponge), under SHA3 and SHAKE.  One  *)
(* action per call and per turn of the loops of absorb and                 *)
(* finalize_and_squeeze.                                                   *)
(*                                                                         *)
(* A byte is the set of the tokens XORed into it.  The state after a       *)
(* permutation is a function of what was XORed in before each permutation  *)
(* so far, so it is represented by that history (blocks) and by what has   *)
(* been XORed in since (lane, the rate part only: nothing writes the       *)
(* capacity).                                                              *)
(***************************************************************************)
EXTENDS Integers, Sequences

CONSTANTS Rates,   \* the rates a sponge is made with (72, 136, 168 in the code)
          MaxFed,  \* bound: bytes absorbed
          MaxOut   \* bound: bytes squeezed

KeccakParameters == /\ Rates \subseteq Nat \ {0}
                    /\ MaxFed \in Nat /\ MaxOut \in Nat

VARIABLES ctx,  \* the KeccakSponge
          log   \* the running call, what was fed and what was squeezed

keccakVars == <<ctx, log>>

MsgByte(i) == {<<"msg", i>>}   \* the i-th byte of the message
DomainSep  == {<<"ds", 0>>}    \* self.domain_sep
LastBit    == {<<"x80", 0>>}   \* 0x80

Xor(a, b)    == (a \ b) \cup (b \ a)
Lesser(a, b) == IF a < b THEN a ELSE b

Blank(rate) == [i \in 0..(rate - 1) |-> {}]

(* state.add_bytes(data, offset) *)
AddBytes(c, data, offset) ==
  [c EXCEPT !.lane = [i \in DOMAIN c.lane |->
     IF offset <= i /\ i < offset + Len(data)
     THEN Xor(c.lane[i], data[i - offset + 1]) ELSE c.lane[i]]]

(* state.permute_24() *)
Permute(c) == [c EXCEPT !.blocks = Append(@, c.lane), !.lane = Blank(c.rate)]

(* What a byte of the state is a function of. *)
ByteAt(c, i) == <<Len(c.blocks), i, c.lane[i]>>

Init ==
  /\ \E rate \in Rates :
       ctx = [blocks |-> <<>>, lane |-> Blank(rate), rate |-> rate,
              pos |-> 0, squeezing |-> FALSE]
  /\ log = [call |-> "none", todo |-> 0, fed |-> 0, got |-> <<>>]

(* absorb asserts that nothing was squeezed. *)
CallAbsorb(n) ==
  /\ log.call = "none" /\ ~ ctx.squeezing
  /\ log' = [log EXCEPT !.call = "absorb", !.todo = n]
  /\ UNCHANGED ctx

Advance(c, n) == [c EXCEPT !.pos = @ + n]
Rewind(c)     == [c EXCEPT !.pos = 0]

(* Mutant of WhenFull: the position stays behind the last byte of the rate. *)
WhenFullNoRewind(c) == IF c.pos = c.rate THEN Permute(c) ELSE c

WhenFull(c) == IF c.pos = c.rate THEN Rewind(Permute(c)) ELSE c

AbsorbChunk ==
  /\ log.call = "absorb"
  /\ LET take  == Lesser(ctx.rate - ctx.pos, log.todo)
         piece == [j \in 1..take |-> MsgByte(log.fed + j)]
         rest  == log.todo - take
     IN  /\ ctx' = WhenFull(Advance(AddBytes(ctx, piece, ctx.pos), take))
         /\ log' = [log EXCEPT !.call = IF rest = 0 THEN "none" ELSE "absorb",
                               !.todo = rest, !.fed = @ + take]

(* Mutant of Padded: 0x80 goes right behind the domain separator. *)
PaddedShort(c) == AddBytes(c, <<DomainSep, LastBit>>, c.pos)

Padded(c) ==
  IF c.pos = c.rate - 1
  THEN AddBytes(c, <<DomainSep \cup LastBit>>, c.pos)
  ELSE AddBytes(AddBytes(c, <<DomainSep>>, c.pos), <<LastBit>>, c.rate - 1)

CallSqueeze(n) ==
  /\ log.call = "none"
  /\ ctx' = IF ctx.squeezing THEN ctx
            ELSE [Rewind(Permute(Padded(ctx))) EXCEPT !.squeezing = TRUE]
  /\ log' = [log EXCEPT !.call = IF n = 0 THEN "none" ELSE "squeeze", !.todo = n]

(* Mutants of Refill: a spent block is read again; the position stays. *)
RefillNever(c, rest) == IF c.pos = c.rate /\ rest > 0 THEN Rewind(c) ELSE c

RefillStuck(c, rest) == IF c.pos = c.rate /\ rest > c.rate THEN Rewind(Permute(c)) ELSE c

(* The block is spent and more is wanted: permute now, not before. *)
Refill(c, rest) ==
  IF c.pos = c.rate /\ rest > 0 THEN Rewind(Permute(c)) ELSE c

SqueezeChunk ==
  /\ log.call = "squeeze"
  /\ LET take == Lesser(ctx.rate - ctx.pos, log.todo)
         rest == log.todo - take
     IN  /\ ctx' = Refill(Advance(ctx, take), rest)
         /\ log' = [log EXCEPT
              !.call = IF rest = 0 THEN "none" ELSE "squeeze",
              !.todo = rest,
              !.got  = @ \o [j \in 1..take |-> ByteAt(ctx, ctx.pos + j - 1)]]

Next ==
  \/ \E n \in 1..(MaxFed - log.fed) : CallAbsorb(n)
  \/ AbsorbChunk
  \/ \E n \in 0..(MaxOut - Len(log.got)) : CallSqueeze(n)
  \/ SqueezeChunk
-------------------------------------------------------------------------------
TypeOK ==
  /\ ctx.pos \in 0..ctx.rate
  /\ ~ ctx.squeezing => ctx.pos < ctx.rate
  /\ log.call \in {"none", "absorb", "squeeze"}
  /\ log.todo \in Nat /\ (log.call # "none" => log.todo > 0)

(* The padded message of FIPS 202 5.1 for n bytes, cut into blocks. *)
PadBlock(rate, n, b) ==
  [i \in 0..(rate - 1) |->
     LET at == (b - 1) * rate + i    \* position in the padded message
     IN  IF at < n THEN MsgByte(at + 1)
         ELSE (IF at = n THEN DomainSep ELSE {})
                \cup (IF b = n \div rate + 1 /\ i = rate - 1 THEN LastBit ELSE {})]

(* However the message was cut, what entered the state is the message so far,
   and once squeezing the padded message, then nothing: in particular when the
   message ends one byte short of a block and both pad bytes are one. *)
AbsorbsPaddedMessage ==
  LET full == log.fed \div ctx.rate
  IN  /\ \A b \in 1..full : ctx.blocks[b] = PadBlock(ctx.rate, log.fed, b)
      /\ IF ctx.squeezing
         THEN /\ ctx.blocks[full + 1] = PadBlock(ctx.rate, log.fed, full + 1)
              /\ \A b \in (full + 2)..Len(ctx.blocks) : ctx.blocks[b] = Blank(ctx.rate)
              /\ ctx.lane = Blank(ctx.rate)
         ELSE /\ Len(ctx.blocks) = full
              /\ \A i \in 0..(ctx.rate - 1) : ctx.lane[i] =
                   IF full * ctx.rate + i < log.fed
                   THEN MsgByte(full * ctx.rate + i + 1) ELSE {}

(* However the output was cut, its n-th byte is byte n % rate of the state
   after n / rate further permutations. *)
OutputIsOneStream ==
  \A n \in 1..Len(log.got) :
    log.got[n] = <<log.fed \div ctx.rate + 1 + (n - 1) \div ctx.rate,
                   (n - 1) % ctx.rate, {}>>
===============================================================================
