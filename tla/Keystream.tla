------------------------------- MODULE Keystream -------------------------------
(***************************************************************************)
(* The streaming ciphers: AesCtr (src/aes.rs) and ChaCha20                 *)
(* (src/chacha20.rs).  Both keep a counter, a block of keystream and the   *)
(* place in it; AesCtr also has a path for two blocks and more that goes   *)
(* round the buffer.  One action per call of apply_keystream and per turn  *)
(* of its loop.                                                            *)
(*                                                                         *)
(* ChaCha20's words 13, 14, 15 and 12 are laid out here as one counter     *)
(* block with word 12 lowest: its wrapping_add is then Inc32.              *)
(***************************************************************************)
EXTENDS CounterBlock

CONSTANTS Starts,     \* counter blocks a cipher is made with
          MaxStream,  \* bound: bytes put through a cipher
          MaxBlocks   \* bound: blocks of a message in CBC

KeystreamParameters == /\ CounterParameters
                       /\ \A s \in Starts : s \in [1..B -> 0..(Radix - 1)]
                       /\ MaxStream \in Nat /\ MaxBlocks \in Nat

VARIABLES ctx,  \* the AesCtr or ChaCha20
          log   \* the running call, the starting counter, the pads used so far

keystreamVars == <<ctx, log>>

Smaller(a, b) == IF a < b THEN a ELSE b

IncOf(cipher) == IF cipher = "AesCtr" THEN "inc128" ELSE "inc32"

(* keystream holds the counter block its bytes come from; the buffer is empty
   (pos or offset is B). *)
Init ==
  \E cipher \in {"AesCtr", "ChaCha20"}, start \in Starts :
    /\ ctx = [cipher |-> cipher, counter |-> start, keystream |-> start, pos |-> B]
    /\ log = [todo |-> 0, start |-> start, pads |-> <<>>]

Call(n) == /\ log.todo = 0
           /\ log' = [log EXCEPT !.todo = n]
           /\ UNCHANGED ctx

Used(pads) == log' = [log EXCEPT !.todo = @ - Len(pads), !.pads = @ \o pads]

(* Whole blocks by ctr_apply, when there are two or more and none is open. *)
BulkBytes(c, n) ==
  IF c.cipher = "AesCtr" /\ c.pos = B /\ n >= 2 * B THEN (n \div B) * B ELSE 0

(* Mutant of AfterBulk: ctr_apply counts in a copy. *)
AfterBulkStale(c, n) == c

AfterBulk(c, n) ==
  [c EXCEPT !.counter = CounterAfter(IncOf(c.cipher), @, n \div B)]

Reload(c) ==
  IF c.pos = B
  THEN [c EXCEPT !.keystream = c.counter, !.pos = 0,
                 !.counter = Inc(IncOf(c.cipher), @)]
  ELSE c

(* One turn: the bulk path, and the return behind it if it took everything;
   then a new block if the buffer is spent, and as much of it as is wanted. *)
Turn ==
  /\ log.todo > 0
  /\ LET bulk  == BulkBytes(ctx, log.todo)
         after == AfterBulk(ctx, bulk)
         left  == log.todo - bulk
         ready == Reload(after)
         n     == Smaller(B - ready.pos, left)
         pads  == CtrApply(IncOf(ctx.cipher), ctx.counter, bulk)
     IN  IF left = 0
         THEN ctx' = after /\ Used(pads)
         ELSE /\ ctx' = [ready EXCEPT !.pos = @ + n]
              /\ Used(pads \o [j \in 1..n |-> <<ready.keystream, ready.pos + j - 1>>])

Next == \/ \E n \in 1..(MaxStream - Len(log.pads)) : Call(n)
        \/ Turn
-------------------------------------------------------------------------------
TypeOK ==
  /\ ctx.counter \in [1..B -> 0..(Radix - 1)]
  /\ ctx.keystream \in [1..B -> 0..(Radix - 1)]
  /\ ctx.pos \in 0..B
  /\ log.todo \in 0..MaxStream

(* The counter k blocks behind the start, by arithmetic: AesCtr counts modulo
   the block (SP 800-38A), ChaCha20 modulo one word (RFC 8439 2.3). *)
ExpectedCounter(cipher, start, k) ==
  LET v    == BlockValue(start)
      wrap == IF cipher = "AesCtr" THEN Power(B) ELSE Power(LowBytes)
  IN  (v - (v % wrap)) + ((v + k) % wrap)

(* However the stream is cut into calls, byte n of it meets byte n % B of the
   block for counter start + n / B: nothing is skipped, used twice or taken
   from a stale block, and the counter wraps where it should. *)
OneKeystream ==
  \A n \in 1..Len(log.pads) :
    /\ BlockValue(log.pads[n][1])
         = ExpectedCounter(ctx.cipher, log.start, (n - 1) \div B)
    /\ log.pads[n][2] = (n - 1) % B
-------------------------------------------------------------------------------
(***************************************************************************)
(* AES-CBC of src/aes.rs (Aes128Cbc, Aes256Cbc), in the same variables:    *)
(* one context encrypts a message call by call, another decrypts the       *)
(* ciphertext in calls of its own.  ctx is the iv of the encrypting and of *)
(* the decrypting context, which carries the chain from one call to the    *)
(* next; log the ciphertext made and the plaintext recovered.              *)
(*                                                                         *)
(* A block is the set of the tokens XORed into it; the block cipher is     *)
(* ideal.  Buffers are whole blocks: the code leaves a shorter tail alone. *)
(***************************************************************************)
Iv           == {<<"iv", 0>>}
Plain(i)     == {<<"plain", i>>}
Xor(a, b)    == (a \ b) \cup (b \ a)
Encrypted(x) == {<<"E", x>>}    \* aes_encrypt_block

(* aes_decrypt_block *)
Decrypted(x) ==
  IF \E t \in x : x = {t} /\ t[1] = "E" THEN (CHOOSE t \in x : TRUE)[2]
  ELSE {<<"D", x>>}

CbcInit == ctx = [enc |-> Iv, dec |-> Iv] /\ log = [ct |-> <<>>, out |-> <<>>]

LastOf(s) == s[Len(s)]

(* Mutant of EncryptCall: iv stays what it was. *)
EncryptCallUnchained(n) ==
  LET c[i \in 0..n] ==
        IF i = 0 THEN ctx.enc
        ELSE Encrypted(Xor(Plain(Len(log.ct) + i), c[i - 1]))
  IN  /\ log' = [log EXCEPT !.ct = @ \o [i \in 1..n |-> c[i]]]
      /\ UNCHANGED ctx

EncryptCall(n) ==
  LET c[i \in 0..n] ==
        IF i = 0 THEN ctx.enc
        ELSE Encrypted(Xor(Plain(Len(log.ct) + i), c[i - 1]))
  IN  /\ log' = [log EXCEPT !.ct = @ \o [i \in 1..n |-> c[i]]]
      /\ ctx' = [ctx EXCEPT !.enc = c[n]]

(* In place: the ciphertext block is kept before it is overwritten. *)
Recovered(ct, prev, i) == Xor(Decrypted(ct[i]), IF i = 1 THEN prev ELSE ct[i - 1])

DecryptCall(n) ==
  LET ct == SubSeq(log.ct, Len(log.out) + 1, Len(log.out) + n)
  IN  /\ log' = [log EXCEPT !.out = @ \o [i \in 1..n |-> Recovered(ct, ctx.dec, i)]]
      /\ ctx' = [ctx EXCEPT !.dec = LastOf(ct)]

CbcNext == \/ \E n \in 1..(MaxBlocks - Len(log.ct)) : EncryptCall(n)
           \/ \E n \in 1..(Len(log.ct) - Len(log.out)) : DecryptCall(n)

CbcTypeOK == Len(log.out) <= Len(log.ct)

(* However both sides cut it, every block is chained to the one before it
   (SP 800-38A 6.2), across calls too, and comes back as it was. *)
ChainsAcrossCalls ==
  /\ \A i \in 1..Len(log.ct) :
       log.ct[i] = Encrypted(Xor(Plain(i), IF i = 1 THEN Iv ELSE log.ct[i - 1]))
  /\ \A i \in 1..Len(log.out) : log.out[i] = Plain(i)
===============================================================================
