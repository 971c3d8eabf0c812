--------------------------------- MODULE Aead ---------------------------------
(***************************************************************************)
(* The authenticated ciphers of src/aes.rs, AesGcm and AesCcm: one party   *)
(* encrypts, the result may be changed on its way, the other decrypts in   *)
(* its own buffer.  GCM checks the tag before it touches the buffer, CCM   *)
(* after, so that a call that fails leaves another buffer: the receiver    *)
(* may call again on what is there.                                        *)
(*                                                                         *)
(* The block cipher is ideal: E(block) is known only as the token made of  *)
(* the block.  A byte is the set of the tokens XORed into it, <<"num", v>> *)
(* for a plain value v and <<"ks", b>> for a byte b of keystream.          *)
(***************************************************************************)
EXTENDS CounterBlock, FiniteSets

CONSTANTS Nonces,       \* nonces, of lengths that the ciphers take and do not
          Aads,         \* associated data
          Messages,     \* plaintexts
          TagLens,      \* lengths of CCM's tag, valid and not (4, 6, .., 16 are)
          GoodTagLens,
          NonceLens,    \* the lengths CCM takes (7..13)
          MaxAad,       \* the longest associated data CCM takes (2^32 - 1)
          MaxCalls      \* bound: calls of decrypt on one buffer

(* The code's numbers: tags of CCM have 4 to 16 bytes; associated data and messages
   are plain bytes; no message has 2^32 blocks, for which a buffer has no room, so
   that a 32-bit counter does not come round. *)
AeadParameters == /\ CounterParameters /\ B >= 6
                  /\ \A n \in Nonces : \E k \in 1..B : n \in [1..k -> 0..(Radix - 1)]
                  /\ NonceLens \subseteq 1..(B - 3)
                  /\ TagLens \subseteq Nat
                  /\ GoodTagLens \subseteq {t \in TagLens : t \in 4..16 /\ t % 2 = 0}
                  /\ MaxAad \in Nat /\ MaxAad < Power(4) /\ MaxCalls \in Nat
                  /\ \A s \in Aads \cup Messages :
                       s \in Seq(SUBSET ({"num"} \X (1..(Radix - 1))))
                  /\ \A m \in Messages : Blocks(Len(m)) < Power(LowBytes)

VARIABLES ctx,  \* the receiver's call: its inputs, its buffer, its result
          log   \* the sender's call, and what it gave

aeadVars == <<ctx, log>>

Num(v)    == IF v = 0 THEN {} ELSE {<<"num", v>>}
Xor(a, b) == (a \ b) \cup (b \ a)
Zeros(n)  == [i \in 1..n |-> {}]
IsZero(s) == \A i \in 1..Len(s) : s[i] = {}

(* data XORed with keystream bytes *)
Crypt(data, pads) == [i \in 1..Len(data) |-> Xor(data[i], {<<"ks", pads[i]>>})]

(* v in n bytes, big-endian; a longer v loses its head. *)
BigEndian(v, n) ==
  LET rest[i \in 0..n] == IF i = n THEN v ELSE rest[i + 1] \div Radix
  IN  [i \in 1..n |-> rest[i] % Radix]

(* Bytes in blocks, the last one filled up with zeros. *)
PadBlocks(s) ==
  [b \in 1..Blocks(Len(s)) |->
     [i \in 1..B |-> IF (b - 1) * B + i <= Len(s) THEN s[(b - 1) * B + i] ELSE {}]]
-------------------------------------------------------------------------------
(* GCM *)

J0(nonce) == nonce \o BigEndian(1, LowBytes)    \* gcm_j0 for nonces of 12 bytes

GcmCrypt(nonce, data) == Crypt(data, CtrApply("inc32", Inc32(J0(nonce)), Len(data)))

LengthBlock(a, c) == <<Num(8 * a), Num(8 * c)>>    \* gcm_length_block

(* Mutant of GhashInput: the lengths are left out. *)
GhashInputNoLengths(aad, ct) == PadBlocks(aad) \o PadBlocks(ct)

GhashInput(aad, ct) ==
  PadBlocks(aad) \o PadBlocks(ct) \o <<LengthBlock(Len(aad), Len(ct))>>

(* GHASH starts from zero, so zero blocks at the front leave no trace in it. *)
Ghash(blocks) ==
  LET front == CHOOSE k \in 0..Len(blocks) :
                 /\ \A b \in 1..k : IsZero(blocks[b])
                 /\ k < Len(blocks) => ~ IsZero(blocks[k + 1])
  IN  SubSeq(blocks, front + 1, Len(blocks))

GcmTag(nonce, aad, ct) == [of |-> <<Ghash(GhashInput(aad, ct)), J0(nonce)>>, len |-> B]
-------------------------------------------------------------------------------
(* CCM: q bytes of the block hold a message length or a counter. *)

Q(nonce) == B - 1 - Len(nonce)

ParamsOk(nonce, t) == Len(nonce) \in NonceLens /\ t \in GoodTagLens
LengthOk(nonce, n) == n < Power(Q(nonce))     \* ccm_check_len

CcmCounter(nonce, k) == <<Q(nonce) - 1>> \o nonce \o BigEndian(k, Q(nonce))

CcmCrypt(nonce, data) ==
  Crypt(data, [i \in 1..Len(data) |->
    <<CcmCounter(nonce, (i - 1) \div B + 1), (i - 1) % B>>])

(* The first block: flags, nonce, length. *)
(* Mutant of B0: the tag length is left out of the flags. *)
B0NoTagLen(nonce, aadLen, n, t) ==
  <<(IF aadLen = 0 THEN 0 ELSE 64) + Q(nonce) - 1>> \o nonce \o BigEndian(n, Q(nonce))

B0(nonce, aadLen, n, t) ==
  <<(IF aadLen = 0 THEN 0 ELSE 64) + 8 * ((t - 2) \div 2) + Q(nonce) - 1>>
    \o nonce \o BigEndian(n, Q(nonce))

AsBytes(block) == [i \in 1..Len(block) |-> Num(block[i])]

(* The associated data behind its length: two bytes, or FF FE and four. *)
AadHeader(n) ==
  IF n < (Radix - 1) * Radix THEN BigEndian(n, 2)
  ELSE <<Radix - 1, Radix - 2>> \o BigEndian(n, 4)

AadBlocks(aad) ==
  IF aad = <<>> THEN <<>> ELSE PadBlocks(AsBytes(AadHeader(Len(aad))) \o aad)

MacOk(nonce, aad, n) == LengthOk(nonce, n) /\ Len(aad) <= MaxAad

(* CBC-MAC of all blocks, XORed with E(counter block 0), t bytes of it. *)
CcmTag(nonce, aad, msg, t) ==
  [of  |-> << <<AsBytes(B0(nonce, Len(aad), Len(msg), t))>>
                 \o AadBlocks(aad) \o PadBlocks(msg),
              CcmCounter(nonce, 0)>>,
   len |-> t]
-------------------------------------------------------------------------------
Nothing == [of |-> <<>>, len |-> 0]

Init ==
  /\ log = [cipher |-> "none", nonce |-> <<>>, aad |-> <<>>, msg |-> <<>>,
            buf |-> <<>>, tag |-> Nothing, res |-> "none"]
  /\ ctx = [nonce |-> <<>>, aad |-> <<>>, given |-> <<>>, buf |-> <<>>,
            tag |-> Nothing, res |-> "idle",
            past |-> [first |-> <<>>, spent |-> {}, calls |-> 0]]

GcmNonces == {n \in Nonces : Len(n) = B - LowBytes}    \* &[u8; 12]

GcmEncrypt(nonce, aad, msg) ==
  LET ct == GcmCrypt(nonce, msg)
  IN  /\ log' = [cipher |-> "gcm", nonce |-> nonce, aad |-> aad, msg |-> msg,
                 buf |-> ct, tag |-> GcmTag(nonce, aad, ct), res |-> "ok"]
      /\ UNCHANGED ctx

(* tag is the caller's slice of t bytes; an error leaves it and the buffer alone. *)
CcmEncrypt(nonce, aad, msg, t) ==
  LET ok == ParamsOk(nonce, t) /\ MacOk(nonce, aad, Len(msg))
  IN  /\ log' = [cipher |-> "ccm", nonce |-> nonce, aad |-> aad, msg |-> msg,
                 buf |-> IF ok THEN CcmCrypt(nonce, msg) ELSE msg,
                 tag |-> IF ok THEN CcmTag(nonce, aad, msg, t)
                         ELSE [Nothing EXCEPT !.len = t],
                 res |-> IF ok THEN "ok" ELSE "InvalidInput"]
      /\ UNCHANGED ctx

(* What may arrive: what was sent, or one change of it - another nonce, other
   associated data, a byte changed, bytes lost or added, the border between
   associated data and ciphertext moved, another tag. *)
Flip(s, i) == [s EXCEPT ![i] = Xor(@, Num(1))]
From(s, n) == SubSeq(s, n, Len(s))

Arrivals ==
  LET sent == [nonce |-> log.nonce, aad |-> log.aad, buf |-> log.buf, tag |-> log.tag]
      lens == IF log.cipher = "gcm" THEN {B} ELSE TagLens
  IN  {sent, [sent EXCEPT !.tag.of = <<>>],
       [sent EXCEPT !.buf = Append(@, {})], [sent EXCEPT !.aad = Append(@, {})]}
      \cup {[sent EXCEPT !.nonce = n] :
              n \in IF log.cipher = "gcm" THEN GcmNonces ELSE Nonces}
      \cup {[sent EXCEPT !.aad = a] : a \in Aads}
      \cup {[sent EXCEPT !.tag.len = t] : t \in lens}
      \cup {[sent EXCEPT !.buf = Flip(@, i)] : i \in 1..Len(log.buf)}
      \cup {[sent EXCEPT !.buf = SubSeq(@, 1, n)] : n \in 0..Len(log.buf)}
      \cup {[sent EXCEPT !.aad = @ \o SubSeq(log.buf, 1, n), !.buf = From(@, n + 1)] :
              n \in 0..Len(log.buf)}
      \cup {[sent EXCEPT !.buf = From(log.aad, n) \o @, !.aad = SubSeq(@, 1, n - 1)] :
              n \in 1..Len(log.aad)}

Arrive == /\ log.res = "ok" /\ ctx.res = "idle"
          /\ \E a \in Arrivals :
               ctx' = [nonce |-> a.nonce, aad |-> a.aad, given |-> a.buf, buf |-> a.buf,
                       tag |-> a.tag, res |-> "called",
                       past |-> [first |-> a.buf, spent |-> {}, calls |-> 1]]
          /\ UNCHANGED log

(* What the calls that failed have done to the buffer: CCM's put the keystream of
   their nonce on it, and the second under a nonce takes it off again; what a call
   of GCM has done stays. *)
Spent ==
  IF log.cipher = "gcm" THEN ctx.past.spent \cup {ctx.nonce}
  ELSE IF ParamsOk(ctx.nonce, ctx.tag.len) THEN Xor(ctx.past.spent, {ctx.nonce})
  ELSE ctx.past.spent

(* After a failure the receiver calls again on the same buffer, with what it used
   before or with what was sent. *)
Retry == /\ ctx.res \in {"InvalidInput", "InvalidSignature"} /\ ctx.past.calls < MaxCalls
         /\ \E a \in {ctx, log} :
              ctx' = [nonce |-> a.nonce, aad |-> a.aad, given |-> ctx.buf, buf |-> ctx.buf,
                      tag |-> a.tag, res |-> "called",
                      past |-> [first |-> ctx.past.first, spent |-> Spent,
                                calls |-> ctx.past.calls + 1]]
         /\ UNCHANGED log

(* The tag of the ciphertext first; a wrong one erases the buffer. *)
(* Mutant of GcmDecrypt: the buffer is left as it is. *)
GcmDecryptKeeps ==
  /\ ctx.res = "called" /\ log.cipher = "gcm"
  /\ ctx' = IF GcmTag(ctx.nonce, ctx.aad, ctx.buf) = ctx.tag
            THEN [ctx EXCEPT !.buf = GcmCrypt(ctx.nonce, @), !.res = "ok"]
            ELSE [ctx EXCEPT !.res = "InvalidSignature"]
  /\ UNCHANGED log

GcmDecrypt ==
  /\ ctx.res = "called" /\ log.cipher = "gcm"
  /\ ctx' = IF GcmTag(ctx.nonce, ctx.aad, ctx.buf) = ctx.tag
            THEN [ctx EXCEPT !.buf = GcmCrypt(ctx.nonce, @), !.res = "ok"]
            ELSE [ctx EXCEPT !.buf = Zeros(Len(@)), !.res = "InvalidSignature"]
  /\ UNCHANGED log

(* Mutant of CcmDecrypt: the length is checked before the buffer is touched. *)
CcmDecryptChecksFirst ==
  /\ ctx.res = "called" /\ log.cipher = "ccm"
  /\ LET t     == ctx.tag.len
         plain == CcmCrypt(ctx.nonce, ctx.buf)
     IN  ctx' =
           IF ~ ParamsOk(ctx.nonce, t) \/ ~ MacOk(ctx.nonce, ctx.aad, Len(ctx.buf))
           THEN [ctx EXCEPT !.res = "InvalidInput"]
           ELSE [ctx EXCEPT !.buf = plain,
                   !.res = IF CcmTag(ctx.nonce, ctx.aad, plain, t) = ctx.tag
                           THEN "ok" ELSE "InvalidSignature"]
  /\ UNCHANGED log

(* The buffer is decrypted before the length and the tag are checked, and stays
   so if they are wrong. *)
CcmDecrypt ==
  /\ ctx.res = "called" /\ log.cipher = "ccm"
  /\ LET t     == ctx.tag.len
         plain == CcmCrypt(ctx.nonce, ctx.buf)
     IN  ctx' =
           IF ~ ParamsOk(ctx.nonce, t) THEN [ctx EXCEPT !.res = "InvalidInput"]
           ELSE IF ~ MacOk(ctx.nonce, ctx.aad, Len(ctx.buf))
           THEN [ctx EXCEPT !.buf = plain, !.res = "InvalidInput"]
           ELSE [ctx EXCEPT !.buf = plain,
                   !.res = IF CcmTag(ctx.nonce, ctx.aad, plain, t) = ctx.tag
                           THEN "ok" ELSE "InvalidSignature"]
  /\ UNCHANGED log

Encrypt ==
  /\ log.res = "none"
  /\ \E aad \in Aads, msg \in Messages :
       \/ \E nonce \in GcmNonces : GcmEncrypt(nonce, aad, msg)
       \/ \E nonce \in Nonces, t \in TagLens : CcmEncrypt(nonce, aad, msg, t)

Next == Encrypt \/ Arrive \/ Retry \/ GcmDecrypt \/ CcmDecrypt
-------------------------------------------------------------------------------
TypeOK == /\ Len(ctx.buf) = Len(ctx.given)
          /\ Len(log.buf) = Len(log.msg)
          /\ ctx.res \in {"idle", "called", "ok", "InvalidInput", "InvalidSignature"}

Done == ctx.res \notin {"idle", "called"}

Unchanged == /\ ctx.nonce = log.nonce /\ ctx.aad = log.aad
             /\ ctx.given = log.buf /\ ctx.tag = log.tag

(* What arrives unchanged is decrypted to the message, and nothing else is
   accepted: no two inputs of the MAC run together, whatever zeros are added or
   lost and wherever the associated data ends, and no length is taken for
   another (gcm_tag, ccm_cbc_mac). *)
AcceptsWhatWasSent ==
  Done => /\ ctx.res = "ok" <=> Unchanged
          /\ ctx.res = "ok" => ctx.buf = log.msg

(* A call is accepted only if the buffer is again the ciphertext that was sent:
   after a GCM call that failed none is, the ciphertext is lost; after CCM calls
   that failed, on a tag or on a length, one is when they have undone each other,
   two by two under the same nonce, and then it is if all else is as sent. *)
RetriesNeedTheCiphertext ==
  Done => (ctx.res = "ok" <=> /\ ctx.nonce = log.nonce /\ ctx.aad = log.aad
                              /\ ctx.tag = log.tag /\ ctx.past.first = log.buf
                              /\ log.buf = <<>> \/ ctx.past.spent = {})

DataCounters ==
  IF log.cipher = "gcm"
  THEN {CounterAfter("inc32", Inc32(J0(log.nonce)), k) : k \in 0..(Blocks(Len(log.buf)) - 1)}
  ELSE {CcmCounter(log.nonce, k) : k \in 1..Blocks(Len(log.buf))}

(* No cipher block is used twice under one key and nonce: not for data twice, not
   the one that masks the tag for data, and no CCM counter block as the first
   block of its MAC. *)
BlocksSeparate ==
  log.res = "ok" =>
    LET mask  == log.tag.of[2]
        first == B0(log.nonce, Len(log.aad), Len(log.msg), log.tag.len)
    IN  /\ mask \notin DataCounters
        /\ Cardinality(DataCounters) = Blocks(Len(log.buf))
        /\ log.cipher = "ccm" => first \notin DataCounters \cup {mask}
===============================================================================
