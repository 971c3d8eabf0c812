------------------------------- MODULE BlockMacs -------------------------------
(***************************************************************************)
(* The authentication codes that collect their message in blocks: GHASH    *)
(* (src/ghash.rs), HMAC over the SHA-512 family (HmacSha512Family of       *)
(* src/sha512.rs) and AES-CMAC (CmacState under AesCmac, src/aes.rs).  A   *)
(* client uses one of them.                                                *)
(*                                                                         *)
(* GHASH's update is the one of BlockBuffer; hashed stands for the         *)
(* accumulator.  update_block goes round the buffer: after an update that  *)
(* left a part of a block its block overtakes those bytes, which the code  *)
(* does not check.  (GCM, its one caller, feeds nothing but blocks.)       *)
(*                                                                         *)
(* HMAC's hash is Sha512's core: update is Absorb, and finalize is a       *)
(* function of what was fed, by ImplementsHashSpec of Sha512.              *)
(*                                                                         *)
(* CMAC has a loop of its own, which holds back the last block, even a     *)
(* full one, until it knows whether more follows: one action per turn.     *)
(* state stands for the blocks it was computed from.                       *)
(*                                                                         *)
(* A byte is a pair as in BlockBuffer; <<"ipad", b>> is b XOR 0x36,        *)
(* <<"opad", b>> is b XOR 0x5C, and <<"dig", <<fed, j>>>> byte j of a      *)
(* digest.                                                                 *)
(***************************************************************************)
EXTENDS BlockBuffer

CONSTANTS MaxGhash, \* bound: bytes fed to GHASH
          OutLens,  \* digest lengths of the family (28, 32, 48, 64 in the code)
          MaxKey,   \* bound: bytes of a key
          MaxHmac,  \* bound: bytes of a message of HMAC
          MaxCmac,  \* bound: bytes of a message of CMAC
          MaxRuns   \* bound: its messages, each but the first after a reset or a clone

BlockMacsParameters == /\ MaxGhash \in Nat /\ MaxKey \in Nat /\ MaxHmac \in Nat
                       /\ MaxCmac \in Nat /\ MaxRuns \in Nat
                       /\ OutLens \subseteq 1..Block

VARIABLES ctx,  \* the Ghash, HmacSha512Family or CmacState
          log   \* which; the message so far; <<>>, or <<what was returned>>; whether
                \* a block of GHASH has overtaken bytes; HMAC's key; which message of
                \* CMAC it is, and what update has left of data

macVars == <<ctx, log>>

Key(n) == [j \in 1..n |-> <<"key", j>>]

Message(n) == [j \in 1..n |-> <<"msg", Len(log.msg) + j>>]

Open(mac) == log.mac = mac /\ log.tag = <<>>
-------------------------------------------------------------------------------
GhashInit == /\ ctx = NewContext
             /\ log = [mac |-> "ghash", overtaken |-> FALSE, msg |-> <<>>, tag |-> <<>>]

GhashUpdate(n) == /\ Open("ghash")
                  /\ ctx' = Absorb(ctx, Message(n))
                  /\ log' = [log EXCEPT !.msg = @ \o Message(n)]

GhashUpdateBlock == /\ Open("ghash")
                    /\ ctx' = [ctx EXCEPT !.hashed = @ \o Message(Block)]
                    /\ log' = [log EXCEPT !.msg = @ \o Message(Block),
                                          !.overtaken = @ \/ ctx.bufLen > 0]

(* A started block is filled with zeros. *)
GhashFinalize ==
  /\ Open("ghash")
  /\ log' = [log EXCEPT !.tag = <<ctx.hashed \o
       IF ctx.bufLen = 0 THEN <<>>
       ELSE [i \in 1..Block |-> IF i <= ctx.bufLen THEN ctx.buffer[i] ELSE Zero]>>]
  /\ UNCHANGED ctx
-------------------------------------------------------------------------------
Hash(c, n) == [j \in 1..n |-> <<"dig", <<Fed(c), j>>>>]    \* finalize()[..n]

(* Mutant of KeyBlock: a key of exactly one block is hashed too. *)
KeyBlockHashesFull(key, outLen) ==
  CopyInto(NewContext.buffer, 0,
           IF Len(key) >= Block THEN Hash(Absorb(NewContext, key), outLen) ELSE key)

KeyBlock(key, outLen) ==
  CopyInto(NewContext.buffer, 0,
           IF Len(key) > Block THEN Hash(Absorb(NewContext, key), outLen) ELSE key)

Pad(kind, block) == [i \in 1..Block |-> <<kind, block[i]>>]

HmacNew(key, outLen) ==
  LET kblock == KeyBlock(key, outLen)
  IN  [inner  |-> Absorb(NewContext, Pad("ipad", kblock)),
       opad   |-> Pad("opad", kblock),
       outLen |-> outLen]

HmacInit == \E n \in 0..MaxKey, outLen \in OutLens :
              /\ ctx = HmacNew(Key(n), outLen)
              /\ log = [mac |-> "hmac", key |-> Key(n), msg |-> <<>>, tag |-> <<>>]

HmacUpdate(n) == /\ Open("hmac")
                 /\ ctx' = [ctx EXCEPT !.inner = Absorb(@, Message(n))]
                 /\ log' = [log EXCEPT !.msg = @ \o Message(n)]

HmacFinalize ==
  /\ Open("hmac")
  /\ LET inner == Hash(ctx.inner, ctx.outLen)
         outer == Absorb(Absorb(NewContext, ctx.opad), inner)
     IN  log' = [log EXCEPT !.tag = <<Hash(outer, ctx.outLen)>>]
  /\ UNCHANGED ctx
-------------------------------------------------------------------------------
OneByte == <<"one", 0>>    \* 0x80

CmacNew == [state |-> <<>>, buffer |-> NewContext.buffer, bufLen |-> 0]

CmacLog(run) == [mac |-> "cmac", run |-> run, data |-> <<>>, msg |-> <<>>, tag |-> <<>>]

CmacInit == ctx = CmacNew /\ log = CmacLog(1)

CmacOpen == Open("cmac") /\ log.data = <<>>    \* finalize consumes self

CmacUpdate(n) ==
  /\ CmacOpen
  /\ log' = [log EXCEPT !.data = [j \in 1..n |-> <<"msg", <<log.run, Len(log.msg) + j>>>>]]
  /\ UNCHANGED ctx

(* A full buffer is fed to the cipher when data is left to replace it. *)
Flush(c) == IF c.bufLen = Block
            THEN [c EXCEPT !.state = @ \o c.buffer, !.bufLen = 0]
            ELSE c

(* n of copy_from_slice, and the context after it. *)
CopyCount(c, data) ==
  IF Block - c.bufLen < Len(data) THEN Block - c.bufLen ELSE Len(data)

Copied(c, data) ==
  [c EXCEPT !.buffer = CopyInto(@, c.bufLen, Take(data, CopyCount(c, data))),
            !.bufLen = @ + CopyCount(c, data)]

Advance(n) == log' = [log EXCEPT !.data = Drop(@, n), !.msg = @ \o Take(log.data, n)]

(* Mutant of CmacTurn: a block that fills is fed at once. *)
CmacTurnEager ==
  /\ log.mac = "cmac" /\ log.data # <<>>
  /\ ctx' = Flush(Copied(ctx, log.data))
  /\ Advance(CopyCount(ctx, log.data))

CmacTurn ==
  /\ log.mac = "cmac" /\ log.data # <<>>
  /\ ctx' = Copied(Flush(ctx), log.data)
  /\ Advance(CopyCount(Flush(ctx), log.data))

(* What finalize encrypts last, and the subkey it is XORed with. *)
LastBlock(c) ==
  IF c.bufLen = Block THEN <<c.buffer, "k1">>
  ELSE <<[i \in 1..Block |-> IF i <= c.bufLen THEN c.buffer[i]
                             ELSE IF i = c.bufLen + 1 THEN OneByte ELSE Zero], "k2">>

CmacFinalize == /\ CmacOpen
                /\ log' = [log EXCEPT !.tag = <<<<ctx.state>> \o LastBlock(ctx)>>]
                /\ UNCHANGED ctx

(* The buffer keeps its bytes. *)
CmacReset == /\ CmacOpen
             /\ ctx' = [ctx EXCEPT !.state = <<>>, !.bufLen = 0]
             /\ log' = CmacLog(log.run + 1)

(* AesCmac::clone makes a new state from the key; the client goes on with it. *)
CmacClone == CmacOpen /\ ctx' = CmacNew /\ log' = CmacLog(log.run + 1)
-------------------------------------------------------------------------------
Init == GhashInit \/ HmacInit \/ CmacInit

Next == \/ \E n \in 1..(MaxGhash - Len(log.msg)) : GhashUpdate(n)
        \/ Len(log.msg) + Block <= MaxGhash /\ GhashUpdateBlock
        \/ GhashFinalize
        \/ \E n \in 1..(MaxHmac - Len(log.msg)) : HmacUpdate(n)
        \/ HmacFinalize
        \/ \E n \in 1..(MaxCmac - Len(log.msg)) : CmacUpdate(n)
        \/ CmacTurn
        \/ CmacFinalize
        \/ CmacOpen /\ log.run < MaxRuns /\ (CmacReset \/ CmacClone)
-------------------------------------------------------------------------------
(* The last block of CMAC is never empty once something was fed. *)
TypeOK ==
  CASE log.mac = "ghash" -> ctx.bufLen \in 0..(Block - 1)
    [] log.mac = "hmac"  -> ctx.inner.bufLen \in 0..(Block - 1) /\ ctx.outLen \in OutLens
    [] log.mac = "cmac"  -> /\ ctx.bufLen \in 0..Block
                            /\ log.msg # <<>> => ctx.bufLen > 0

(* The message, zeros up to a block, and nothing else. *)
ZeroPadded(msg) ==
  [i \in 1..(((Len(msg) + Block - 1) \div Block) * Block) |->
     IF i <= Len(msg) THEN msg[i] ELSE Zero]

(* RFC 2104: the key in a block, hashed first if it is longer than one. *)
StandardHmac(key, msg, outLen) ==
  LET H(s)    == [j \in 1..outLen |-> <<"dig", <<s, j>>>>]
      short   == IF Len(key) > Block THEN H(key) ELSE key
      K(kind) == [i \in 1..Block |->
                    <<kind, IF i <= Len(short) THEN short[i] ELSE Zero>>]
  IN  H(K("opad") \o H(K("ipad") \o msg))

(* SP 800-38B 6.2: the blocks before the last one, and the last, which is
   filled with 10...0 unless it is whole. *)
StandardCmac(msg) ==
  LET at == IF msg = <<>> THEN 0 ELSE BulkLen(Len(msg) - 1)
  IN  <<Take(msg, at),
        [i \in 1..Block |-> IF at + i <= Len(msg) THEN msg[at + i]
                            ELSE IF at + i = Len(msg) + 1 THEN OneByte ELSE Zero],
        IF Len(msg) = at + Block THEN "k1" ELSE "k2">>

Standard == CASE log.mac = "ghash" -> ZeroPadded(log.msg)
              [] log.mac = "hmac"  -> StandardHmac(log.key, log.msg, ctx.outLen)
              [] log.mac = "cmac"  -> StandardCmac(log.msg)

Overtaken == log.mac = "ghash" /\ log.overtaken

(* For every length of key, however the message was cut, and whatever was in
   the context before a reset; but for a GHASH one of whose blocks went past
   bytes that waited, and no later call makes that good. *)
TagIsStandard == log.tag # <<>> => (log.tag = <<Standard>> <=> ~ Overtaken)
===============================================================================
