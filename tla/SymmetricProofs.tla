--------------------------- MODULE SymmetricProofs ----------------------------
(***************************************************************************)
(* For every block size, rate, start and cut of the data: the streaming    *)
(* hashers of src/sha512.rs compress the padded message and nothing else,  *)
(* no byte of it lost, repeated or out of its place; the sponge of         *)
(* src/keccak.rs absorbs the padded message and squeezes one stream, the   *)
(* keystream ciphers use every byte of their keystream once and in order,  *)
(* and CBC chains across calls.                                            *)
(*                                                                         *)
(* The authenticated ciphers of src/aes.rs, for every block size, nonce and*)
(* text: no two inputs of GHASH or of the CBC-MAC of CCM run together, so  *)
(* that only what was sent is accepted; a GCM decryption that fails leaves *)
(* zeros; and no block is enciphered twice under one nonce.                *)
(*                                                                         *)
(* The authentication codes that collect their message in blocks: GHASH,   *)
(* HMAC and CMAC give the standard's tag for every cut of every message.   *)
(***************************************************************************)
EXTENDS MCSymmetric, SequenceTheorems, FiniteSetTheorems, ArithmeticLemmas

-------------------------------------------------------------------------------
(* The streaming hashers. *)

WholeBlocks(n) == \E q \in Nat : n = q * Block

(* A context the methods leave between calls: less than a block is buffered
   and whole blocks were compressed. *)
IsContext(c, Elem) ==
  /\ c.buffer \in [1..Block -> Elem]
  /\ c.bufLen \in 0..(Block - 1)
  /\ c.totalLen \in Nat
  /\ c.hashed \in Seq(Elem)
  /\ WholeBlocks(Len(c.hashed))

(* d has been fed what c has been fed, and then data. *)
Extends(c, d, data) ==
  /\ FedLen(d) = FedLen(c) + Len(data)
  /\ \A i \in 1..FedLen(c) : Fed(d)[i] = Fed(c)[i]
  /\ \A i \in 1..Len(data) : Fed(d)[FedLen(c) + i] = data[i]

(* Whole blocks followed by whole blocks are whole blocks. *)
LEMMA WholeBlocksAdd ==
  ASSUME NEW m, NEW n, WholeBlocks(m), WholeBlocks(n)
  PROVE  WholeBlocks(m + n)
<1>1. PICK a \in Nat : m = a * Block
  BY DEF WholeBlocks
<1>2. PICK b \in Nat : n = b * Block
  BY DEF WholeBlocks
<1>3. m + n = (a + b) * Block /\ a + b \in Nat
  BY <1>1, <1>2, BlockAssumption
<1>4. QED
  BY <1>3 DEF WholeBlocks

LEMMA WholeBlocksOne == WholeBlocks(0) /\ WholeBlocks(Block)
<1>1. 0 = 0 * Block /\ Block = 1 * Block
  BY BlockAssumption
<1>2. QED
  BY <1>1 DEF WholeBlocks

(* BulkLen rounds down to whole blocks (data.len() / BLOCK * BLOCK). *)
LEMMA BulkLenProperties ==
  ASSUME NEW n \in Nat
  PROVE  /\ BulkLen(n) \in 0..n
         /\ n - BulkLen(n) \in 0..(Block - 1)
         /\ WholeBlocks(BulkLen(n))
<1> DEFINE q == n \div Block
           r == n % Block
<1>1. Block \in Nat /\ Block > 0
  BY BlockAssumption
<1>2. q \in Nat /\ r \in 0..(Block - 1) /\ n = Block * q + r
  BY <1>1
<1>3. BulkLen(n) = q * Block
  BY DEF BulkLen
<1> HIDE DEF q, r
<1>4. q * Block \in Nat /\ q * Block = Block * q
  BY <1>1, <1>2
<1>5. WholeBlocks(BulkLen(n))
  BY <1>2, <1>3 DEF WholeBlocks
<1>6. QED
  BY <1>1, <1>2, <1>3, <1>4, <1>5

(* Taking a prefix and dropping it are the two parts of a sequence. *)
LEMMA TakeDrop ==
  ASSUME NEW Elem, NEW s \in Seq(Elem), NEW n \in 0..Len(s)
  PROVE  /\ Take(s, n) \in Seq(Elem) /\ Len(Take(s, n)) = n
         /\ \A i \in 1..n : Take(s, n)[i] = s[i]
         /\ Drop(s, n) \in Seq(Elem) /\ Len(Drop(s, n)) = Len(s) - n
         /\ \A i \in 1..(Len(s) - n) : Drop(s, n)[i] = s[n + i]
<1>1. Len(s) \in Nat /\ \A i \in 1..Len(s) : s[i] \in Elem
  OBVIOUS
<1>2. /\ Take(s, n) \in Seq(Elem) /\ Len(Take(s, n)) = n
      /\ \A i \in 1..n : Take(s, n)[i] = s[i]
  BY <1>1, SubSeqProperties DEF Take
<1>3. /\ Drop(s, n) \in Seq(Elem) /\ Len(Drop(s, n)) = Len(s) - n
      /\ \A i \in 1..(Len(s) - n) : Drop(s, n)[i] = s[n + i]
  BY <1>1, SubSeqProperties DEF Drop
<1>4. QED
  BY <1>2, <1>3

(* copy_from_slice: the copied range has the source's bytes and the rest of
   the array is untouched. *)
LEMMA CopyIntoProperties ==
  ASSUME NEW Elem, NEW buf \in [1..Block -> Elem],
         NEW s \in Seq(Elem), NEW at \in Nat, at + Len(s) <= Block
  PROVE  /\ CopyInto(buf, at, s) \in [1..Block -> Elem]
         /\ \A i \in 1..at : CopyInto(buf, at, s)[i] = buf[i]
         /\ \A i \in 1..Len(s) : CopyInto(buf, at, s)[at + i] = s[i]
<1>1. Block \in Nat /\ Len(s) \in Nat
  BY BlockAssumption
<1>2. \A i \in 1..Block :
        (IF at < i /\ i <= at + Len(s) THEN s[i - at] ELSE buf[i]) \in Elem
  BY <1>1
<1>3. CopyInto(buf, at, s) \in [1..Block -> Elem]
  BY <1>2 DEF CopyInto
<1>4. \A i \in 1..at : CopyInto(buf, at, s)[i] = buf[i]
  BY <1>1 DEF CopyInto
<1>5. \A i \in 1..Len(s) : CopyInto(buf, at, s)[at + i] = s[i]
  BY <1>1 DEF CopyInto
<1>6. QED
  BY <1>3, <1>4, <1>5

(* Compressing a block appends it to what has been compressed. *)
LEMMA CompressAppends ==
  ASSUME NEW Elem, NEW h \in Seq(Elem), NEW s \in Seq(Elem)
  PROVE  /\ h \o s \in Seq(Elem) /\ Len(h \o s) = Len(h) + Len(s)
         /\ \A i \in 1..Len(h) : (h \o s)[i] = h[i]
         /\ \A i \in 1..Len(s) : (h \o s)[Len(h) + i] = s[i]
OBVIOUS

(* What a context has been fed, read byte by byte. *)
LEMMA FedBytes ==
  ASSUME NEW Elem, NEW c, IsContext(c, Elem)
  PROVE  /\ FedLen(c) \in Nat /\ Len(c.hashed) \in Nat /\ c.bufLen \in Nat
         /\ FedLen(c) = Len(c.hashed) + c.bufLen
         /\ \A i \in 1..Len(c.hashed) : Fed(c)[i] = c.hashed[i]
         /\ \A i \in 1..c.bufLen : Fed(c)[Len(c.hashed) + i] = c.buffer[i]
         /\ Fed(c) \in Seq(Elem) /\ Len(Fed(c)) = FedLen(c)
<1>1. Len(c.hashed) \in Nat /\ c.bufLen \in Nat /\ FedLen(c) \in Nat
      /\ FedLen(c) = Len(c.hashed) + c.bufLen /\ c.bufLen < Block
  BY BlockAssumption DEF IsContext, FedLen
<1>2. \A i \in 1..Len(c.hashed) : Fed(c)[i] = c.hashed[i]
  BY <1>1 DEF Fed
<1>3. \A i \in 1..c.bufLen : Fed(c)[Len(c.hashed) + i] = c.buffer[i]
  BY <1>1 DEF Fed
<1>4. Fed(c) \in [1..FedLen(c) -> Elem]
  <2>1. ASSUME NEW i \in 1..FedLen(c)
        PROVE  (IF i <= Len(c.hashed) THEN c.hashed[i]
                ELSE c.buffer[i - Len(c.hashed)]) \in Elem
    BY <1>1, BlockAssumption DEF IsContext
  <2>2. QED
    BY <2>1 DEF Fed
<1>5. QED
  BY <1>1, <1>2, <1>3, <1>4

(* The next lemmas follow the two halves of Sha512::update.  First, topping
   up a partly filled buffer: it appends what it takes, and takes everything
   unless it fills the buffer. *)
LEMMA FillExtends ==
  ASSUME NEW Elem, NEW c, IsContext(c, Elem), NEW data \in Seq(Elem)
  PROVE  /\ FillCount(c, data) \in 0..Len(data)
         /\ IsContext(Fill(c, data), Elem)
         /\ Extends(c, Fill(c, data), Take(data, FillCount(c, data)))
         /\ Fill(c, data).bufLen = 0 \/ FillCount(c, data) = Len(data)
         /\ Fill(c, data).totalLen = c.totalLen + Len(data)
<1> DEFINE take   == FillCount(c, data)
           part   == Take(data, take)
           filled == CopyInto(c.buffer, c.bufLen, part)
           d      == Fill(c, data)
<1>1. /\ Block \in Nat /\ Block > 0 /\ Len(data) \in Nat
      /\ c.bufLen \in Nat /\ c.bufLen < Block /\ c.totalLen \in Nat
      /\ c.buffer \in [1..Block -> Elem] /\ c.hashed \in Seq(Elem)
      /\ Len(c.hashed) \in Nat /\ WholeBlocks(Len(c.hashed))
  BY BlockAssumption DEF IsContext
<1>2. /\ take \in 0..Len(data) /\ c.bufLen + take <= Block
      /\ take = Len(data) \/ c.bufLen + take = Block \/ c.bufLen = 0
      /\ c.bufLen = 0 => take = 0
      /\ c.bufLen + take = Block \/ take = Len(data) \/ c.bufLen + take = 0
  BY <1>1 DEF FillCount
<1> HIDE DEF take
<1>3. part \in Seq(Elem) /\ Len(part) = take
  BY <1>2, TakeDrop
<1> HIDE DEF part
<1>4. /\ filled \in [1..Block -> Elem]
      /\ \A i \in 1..c.bufLen : filled[i] = c.buffer[i]
      /\ \A i \in 1..take : filled[c.bufLen + i] = part[i]
  <2>1. /\ c.buffer \in [1..Block -> Elem] /\ part \in Seq(Elem)
        /\ c.bufLen \in Nat /\ c.bufLen + Len(part) <= Block
    BY <1>1, <1>2, <1>3
  <2> HIDE DEF filled, d
  <2>2. /\ CopyInto(c.buffer, c.bufLen, part) \in [1..Block -> Elem]
        /\ \A i \in 1..c.bufLen :
             CopyInto(c.buffer, c.bufLen, part)[i] = c.buffer[i]
        /\ \A i \in 1..Len(part) :
             CopyInto(c.buffer, c.bufLen, part)[c.bufLen + i] = part[i]
    BY <2>1, CopyIntoProperties
  <2>3. QED
    BY <1>3, <2>2 DEF filled
<1> HIDE DEF filled
<1>5. /\ d.buffer = filled
      /\ d.bufLen = IF c.bufLen + take = Block THEN 0 ELSE c.bufLen + take
      /\ d.totalLen = c.totalLen + Len(data)
      /\ d.hashed = IF c.bufLen + take = Block THEN c.hashed \o filled ELSE c.hashed
  BY DEF Fill, take, part, filled
<1> HIDE DEF d
<1>6. /\ filled \in Seq(Elem) /\ Len(filled) = Block
      /\ c.hashed \o filled \in Seq(Elem)
      /\ Len(c.hashed \o filled) = Len(c.hashed) + Block
      /\ \A i \in 1..Len(c.hashed) : (c.hashed \o filled)[i] = c.hashed[i]
      /\ \A i \in 1..Block : (c.hashed \o filled)[Len(c.hashed) + i] = filled[i]
  <2>1. filled \in Seq(Elem) /\ Len(filled) = Block
    BY <1>1, <1>4
  <2>2. c.hashed \in Seq(Elem)
    BY <1>1
  <2>3. /\ c.hashed \o filled \in Seq(Elem)
        /\ Len(c.hashed \o filled) = Len(c.hashed) + Len(filled)
        /\ \A i \in 1..Len(c.hashed) : (c.hashed \o filled)[i] = c.hashed[i]
        /\ \A i \in 1..Len(filled) :
             (c.hashed \o filled)[Len(c.hashed) + i] = filled[i]
    <3>1. filled \in Seq(Elem)
      BY <2>1
    <3>2. QED
      BY <2>2, <3>1, CompressAppends
  <2>4. QED
    BY <2>1, <2>3, Zenon
<1>7. IsContext(d, Elem)
  <2>1. d.bufLen \in 0..(Block - 1) /\ d.totalLen \in Nat
    BY <1>1, <1>2, <1>5, SMTT(30)
  <2>2. d.hashed \in Seq(Elem) /\ WholeBlocks(Len(d.hashed))
    <3>1. CASE c.bufLen + take = Block
      <4>1. d.hashed = c.hashed \o filled
        BY <1>5, <3>1
      <4>2. WholeBlocks(Len(c.hashed) + Block)
        BY <1>1, WholeBlocksAdd, WholeBlocksOne, Zenon
      <4>3. QED
        BY <1>6, <4>1, <4>2, Zenon
    <3>2. CASE c.bufLen + take # Block
      BY <1>1, <1>5, <3>2
    <3>3. QED
      BY <3>1, <3>2, Zenon
  <2>3. QED
    BY <1>4, <1>5, <2>1, <2>2 DEF IsContext
<1>8. /\ FedLen(c) = Len(c.hashed) + c.bufLen
      /\ \A i \in 1..Len(c.hashed) : Fed(c)[i] = c.hashed[i]
      /\ \A i \in 1..c.bufLen : Fed(c)[Len(c.hashed) + i] = c.buffer[i]
  BY FedBytes
<1>9. /\ FedLen(d) = Len(d.hashed) + d.bufLen
      /\ \A i \in 1..Len(d.hashed) : Fed(d)[i] = d.hashed[i]
      /\ \A i \in 1..d.bufLen : Fed(d)[Len(d.hashed) + i] = d.buffer[i]
  BY <1>7, FedBytes
<1>10. /\ FedLen(d) = Len(c.hashed) + (c.bufLen + take)
       /\ \A i \in 1..Len(c.hashed) : Fed(d)[i] = c.hashed[i]
       /\ \A i \in 1..(c.bufLen + take) : Fed(d)[Len(c.hashed) + i] = filled[i]
  <2>1. CASE c.bufLen + take = Block
    <3>1. d.hashed = c.hashed \o filled /\ d.bufLen = 0
      BY <1>5, <2>1
    <3>2. Len(d.hashed) = Len(c.hashed) + Block
          /\ FedLen(d) = Len(c.hashed) + (c.bufLen + take)
      BY <1>1, <1>6, <1>9, <2>1, <3>1
    <3>3. ASSUME NEW i \in 1..Len(c.hashed)
          PROVE  Fed(d)[i] = c.hashed[i]
      <4>1. i \in 1..Len(d.hashed)
        BY <1>1, <3>2
      <4>2. QED
        BY <1>6, <1>9, <3>1, <4>1
    <3>4. ASSUME NEW i \in 1..Block
          PROVE  Fed(d)[Len(c.hashed) + i] = filled[i]
      <4>1. Len(c.hashed) + i \in 1..Len(d.hashed)
        BY <1>1, <3>2
      <4>2. Fed(d)[Len(c.hashed) + i] = d.hashed[Len(c.hashed) + i]
        BY <1>9, <4>1, Zenon
      <4>3. d.hashed[Len(c.hashed) + i] = filled[i]
        BY <1>6, <3>1, Zenon
      <4>4. QED
        BY <4>2, <4>3, Zenon
    <3>5. QED
      BY <2>1, <3>2, <3>3, <3>4
  <2>2. CASE c.bufLen + take # Block
    BY <1>1, <1>2, <1>5, <1>9, <2>2
  <2>3. QED
    BY <2>1, <2>2
<1>11. Extends(c, d, part)
  <2>1. FedLen(d) = FedLen(c) + Len(part)
    BY <1>1, <1>2, <1>3, <1>8, <1>10
  <2>2. ASSUME NEW i \in 1..FedLen(c)
        PROVE  Fed(d)[i] = Fed(c)[i]
    <3>1. CASE i <= Len(c.hashed)
      BY <1>1, <1>8, <1>10, <3>1
    <3>2. CASE i > Len(c.hashed)
      <4>1. PICK j \in 1..c.bufLen : i = Len(c.hashed) + j
        <5> DEFINE hashed == Len(c.hashed)
                   buffered == c.bufLen
        <5>1. /\ hashed \in Nat /\ buffered \in Nat
              /\ i \in 1..(hashed + buffered) /\ i > hashed
          BY <1>1, <1>8, <3>2
        <5> HIDE DEF hashed, buffered
        <5>2. i - hashed \in 1..buffered /\ i = hashed + (i - hashed)
          BY <5>1
        <5>3. \E j \in 1..buffered : i = hashed + j
          BY <5>2
        <5>4. QED
          BY <5>3 DEF hashed, buffered
      <4>2. j \in 1..(c.bufLen + take)
        BY <1>1, <1>2
      <4>3. Fed(d)[Len(c.hashed) + j] = filled[j] /\ filled[j] = c.buffer[j]
            /\ Fed(c)[Len(c.hashed) + j] = c.buffer[j]
        BY <1>4, <1>8, <1>10, <4>1, <4>2
      <4>4. QED
        BY <4>1, <4>3
    <3>3. QED
      BY <1>1, <1>8, <3>1, <3>2
  <2>3. ASSUME NEW i \in 1..Len(part)
        PROVE  Fed(d)[FedLen(c) + i] = part[i]
    <3>1. c.bufLen + i \in 1..(c.bufLen + take) /\ i \in 1..take
          /\ FedLen(c) + i = Len(c.hashed) + (c.bufLen + i)
      BY <1>1, <1>2, <1>3, <1>8, SMTT(30)
    <3>2. QED
      BY <1>4, <1>10, <3>1
  <2>4. QED
    BY <2>1, <2>2, <2>3 DEF Extends
<1>12. d.bufLen = 0 \/ take = Len(data)
  BY <1>1, <1>2, <1>5
<1>13. d.totalLen = c.totalLen + Len(data)
  BY <1>5
<1>14. QED
  BY <1>2, <1>7, <1>11, <1>12, <1>13 DEF d, part, take

(* Then, with nothing buffered or nothing left: whole blocks are compressed
   from the input itself and the remainder starts a new buffer. *)
LEMMA BulkAndTailExtends ==
  ASSUME NEW Elem, NEW c, IsContext(c, Elem), NEW data \in Seq(Elem),
         c.bufLen = 0 \/ Len(data) = 0
  PROVE  /\ IsContext(BulkAndTail(c, data), Elem)
         /\ Extends(c, BulkAndTail(c, data), data)
         /\ BulkAndTail(c, data).totalLen = c.totalLen
<1> DEFINE bulk == BulkLen(Len(data))
           body == Take(data, bulk)
           tail == Drop(data, bulk)
           copy == CopyInto(c.buffer, 0, tail)
           d    == BulkAndTail(c, data)
<1>1. /\ Block \in Nat /\ Block > 0 /\ Len(data) \in Nat
      /\ c.bufLen \in Nat /\ c.bufLen < Block /\ c.totalLen \in Nat
      /\ c.buffer \in [1..Block -> Elem] /\ c.hashed \in Seq(Elem)
      /\ Len(c.hashed) \in Nat /\ WholeBlocks(Len(c.hashed))
  BY BlockAssumption DEF IsContext
<1>2. /\ bulk \in 0..Len(data) /\ Len(data) - bulk \in 0..(Block - 1)
      /\ WholeBlocks(bulk)
  BY <1>1, BulkLenProperties
<1> HIDE DEF bulk
<1>3. /\ body \in Seq(Elem) /\ Len(body) = bulk
      /\ \A i \in 1..bulk : body[i] = data[i]
      /\ tail \in Seq(Elem) /\ Len(tail) = Len(data) - bulk
      /\ \A i \in 1..(Len(data) - bulk) : tail[i] = data[bulk + i]
  BY <1>2, TakeDrop
<1> HIDE DEF body, tail
<1>4. /\ copy \in [1..Block -> Elem]
      /\ \A i \in 1..Len(tail) : copy[0 + i] = tail[i]
      /\ Len(tail) = 0 => copy = c.buffer
  <2>1. /\ c.buffer \in [1..Block -> Elem] /\ tail \in Seq(Elem)
        /\ 0 \in Nat /\ 0 + Len(tail) <= Block
    BY <1>1, <1>2, <1>3
  <2>2. copy \in [1..Block -> Elem] /\ \A i \in 1..Len(tail) : copy[0 + i] = tail[i]
    <3> HIDE DEF copy, d
    <3>1. /\ CopyInto(c.buffer, 0, tail) \in [1..Block -> Elem]
          /\ \A i \in 1..Len(tail) : CopyInto(c.buffer, 0, tail)[0 + i] = tail[i]
      BY <2>1, CopyIntoProperties
    <3>2. QED
      BY <3>1 DEF copy
  <2>3. ASSUME Len(tail) = 0
        PROVE  copy = c.buffer
    <3>1. \A i \in 1..Block : ~(0 < i /\ i <= 0 + Len(tail))
      BY <2>3, BlockAssumption
    <3>2. CopyInto(c.buffer, 0, tail) = [i \in 1..Block |-> c.buffer[i]]
      BY <3>1 DEF CopyInto
    <3>3. c.buffer = [i \in 1..Block |-> c.buffer[i]]
      BY <2>1
    <3>4. QED
      BY <3>2, <3>3
  <2>4. QED
    BY <2>2, <2>3
<1> HIDE DEF copy
<1>5. /\ d.buffer = copy
      /\ d.bufLen = IF Len(tail) = 0 THEN c.bufLen ELSE Len(tail)
      /\ d.totalLen = c.totalLen
      /\ d.hashed = c.hashed \o body
  BY DEF BulkAndTail, bulk, body, tail, copy
<1> HIDE DEF d
<1>6. /\ d.hashed \in Seq(Elem) /\ Len(d.hashed) = Len(c.hashed) + bulk
      /\ \A i \in 1..Len(c.hashed) : d.hashed[i] = c.hashed[i]
      /\ \A i \in 1..bulk : d.hashed[Len(c.hashed) + i] = body[i]
  <2>1. c.hashed \in Seq(Elem) /\ body \in Seq(Elem) /\ Len(body) = bulk
        /\ d.hashed = c.hashed \o body
    BY <1>1, <1>3, <1>5
  <2>2. /\ c.hashed \o body \in Seq(Elem)
        /\ Len(c.hashed \o body) = Len(c.hashed) + Len(body)
        /\ \A i \in 1..Len(c.hashed) : (c.hashed \o body)[i] = c.hashed[i]
        /\ \A i \in 1..Len(body) :
             (c.hashed \o body)[Len(c.hashed) + i] = body[i]
    <3>1. c.hashed \in Seq(Elem) /\ body \in Seq(Elem)
      BY <2>1
    <3>2. QED
      BY <3>1, CompressAppends
  <2>3. QED
    BY <2>1, <2>2, Zenon
<1>7. IsContext(d, Elem)
  <2>1. d.bufLen \in 0..(Block - 1) /\ d.totalLen \in Nat
    BY <1>1, <1>2, <1>3, <1>5
  <2>2. WholeBlocks(Len(d.hashed))
    BY <1>1, <1>2, <1>6, WholeBlocksAdd
  <2>3. QED
    BY <1>4, <1>5, <1>6, <2>1, <2>2 DEF IsContext
<1>8. /\ FedLen(c) = Len(c.hashed) + c.bufLen
      /\ \A i \in 1..Len(c.hashed) : Fed(c)[i] = c.hashed[i]
      /\ \A i \in 1..c.bufLen : Fed(c)[Len(c.hashed) + i] = c.buffer[i]
  BY FedBytes
<1>9. /\ FedLen(d) = Len(d.hashed) + d.bufLen
      /\ \A i \in 1..Len(d.hashed) : Fed(d)[i] = d.hashed[i]
      /\ \A i \in 1..d.bufLen : Fed(d)[Len(d.hashed) + i] = d.buffer[i]
  BY <1>7, FedBytes
<1>10. CASE Len(data) = 0
  <2>1. Len(tail) = 0 /\ bulk = 0
    <3>1. bulk = 0
      BY <1>2, <1>10
    <3>2. QED
      BY <1>3, <1>10, <3>1
  <2>2. d.buffer = c.buffer /\ d.bufLen = c.bufLen /\ d.hashed = c.hashed
    <3>1. Len(d.hashed) = Len(c.hashed) /\ d.hashed \in Seq(Elem)
          /\ \A i \in 1..Len(c.hashed) : d.hashed[i] = c.hashed[i]
      BY <1>1, <1>6, <2>1
    <3>2. d.hashed = c.hashed
      BY <1>1, <3>1, SeqEqual
    <3>3. QED
      BY <1>4, <1>5, <2>1, <3>2
  <2>3. FedLen(d) = FedLen(c) /\ Fed(d) = Fed(c)
    BY <2>2 DEF Fed, FedLen
  <2>4. Extends(c, d, data)
    BY <1>1, <1>8, <1>10, <2>3 DEF Extends
  <2>5. QED
    BY <1>5, <1>7, <2>4 DEF d
<1>11. CASE c.bufLen = 0
  <2>1. d.bufLen = Len(tail)
    BY <1>5, <1>11
  <2>2. FedLen(c) = Len(c.hashed) /\ FedLen(d) = FedLen(c) + Len(data)
    BY <1>1, <1>2, <1>3, <1>6, <1>8, <1>9, <1>11, <2>1
  <2>3. ASSUME NEW i \in 1..FedLen(c)
        PROVE  Fed(d)[i] = Fed(c)[i]
    <3>1. i \in 1..Len(c.hashed) /\ i \in 1..Len(d.hashed)
      BY <1>1, <1>2, <1>6, <2>2
    <3>2. QED
      BY <1>6, <1>8, <1>9, <3>1
  <2>4. ASSUME NEW i \in 1..Len(data)
        PROVE  Fed(d)[FedLen(c) + i] = data[i]
    <3>1. CASE i <= bulk
      <4>1. i \in 1..bulk /\ Len(c.hashed) + i \in 1..Len(d.hashed)
        <5>1. /\ i \in Nat /\ i > 0 /\ bulk \in Nat /\ Len(c.hashed) \in Nat
              /\ Len(d.hashed) = Len(c.hashed) + bulk
          BY <1>1, <1>2, <1>6
        <5> HIDE DEF bulk, d
        <5> QED
          BY <3>1, <5>1
      <4>2. Fed(d)[Len(c.hashed) + i] = d.hashed[Len(c.hashed) + i]
        BY <1>9, <4>1
      <4>3. QED
        BY <1>3, <1>6, <2>2, <4>1, <4>2
    <3>2. CASE i > bulk
      <4>1. i - bulk \in 1..Len(tail) /\ i - bulk \in 1..(Len(data) - bulk)
            /\ 0 + (i - bulk) = i - bulk /\ bulk + (i - bulk) = i
            /\ FedLen(c) + i = Len(d.hashed) + (i - bulk)
        BY <1>1, <1>2, <1>3, <1>6, <2>2, <3>2
      <4>2. Fed(d)[Len(d.hashed) + (i - bulk)] = copy[i - bulk]
        BY <1>5, <1>9, <2>1, <4>1
      <4>3. copy[i - bulk] = tail[i - bulk]
        BY <1>4, <4>1
      <4>4. tail[i - bulk] = data[i]
        BY <1>3, <4>1
      <4>5. QED
        BY <4>1, <4>2, <4>3, <4>4
    <3>3. QED
      BY <1>2, <3>1, <3>2
  <2>5. Extends(c, d, data)
    BY <2>2, <2>3, <2>4 DEF Extends
  <2>6. QED
    BY <1>5, <1>7, <2>5 DEF d
<1>12. QED
  BY <1>10, <1>11

(* Extending by one part and then by the other extends by the whole. *)
LEMMA ExtendsTwice ==
  ASSUME NEW Elem, NEW c, NEW d, NEW e, IsContext(c, Elem), IsContext(d, Elem),
         IsContext(e, Elem), NEW data \in Seq(Elem), NEW n \in 0..Len(data),
         Extends(c, d, Take(data, n)), Extends(d, e, Drop(data, n))
  PROVE  Extends(c, e, data)
<1>1. /\ FedLen(c) \in Nat /\ FedLen(d) \in Nat /\ Len(data) \in Nat /\ n \in Nat
      /\ n <= Len(data)
  BY FedBytes
<1>2. /\ Len(Take(data, n)) = n /\ \A i \in 1..n : Take(data, n)[i] = data[i]
      /\ Len(Drop(data, n)) = Len(data) - n
      /\ \A i \in 1..(Len(data) - n) : Drop(data, n)[i] = data[n + i]
  BY TakeDrop
<1>3. /\ FedLen(d) = FedLen(c) + n
      /\ \A i \in 1..FedLen(c) : Fed(d)[i] = Fed(c)[i]
      /\ \A i \in 1..n : Fed(d)[FedLen(c) + i] = data[i]
  BY <1>2 DEF Extends
<1>4. /\ FedLen(e) = FedLen(d) + (Len(data) - n)
      /\ \A i \in 1..FedLen(d) : Fed(e)[i] = Fed(d)[i]
      /\ \A i \in 1..(Len(data) - n) : Fed(e)[FedLen(d) + i] = data[n + i]
  BY <1>2 DEF Extends
<1>5. FedLen(e) = FedLen(c) + Len(data)
  BY <1>1, <1>3, <1>4
<1>6. ASSUME NEW i \in 1..FedLen(c)
      PROVE  Fed(e)[i] = Fed(c)[i]
  <2>1. i \in 1..FedLen(d)
    BY <1>1, <1>3
  <2>2. QED
    BY <1>3, <1>4, <2>1
<1>7. ASSUME NEW i \in 1..Len(data)
      PROVE  Fed(e)[FedLen(c) + i] = data[i]
  <2>1. CASE i <= n
    <3>1. i \in 1..n /\ FedLen(c) + i \in 1..FedLen(d)
      BY <1>1, <1>3, <2>1
    <3>2. QED
      BY <1>3, <1>4, <3>1
  <2>2. CASE i > n
    <3>1. i - n \in 1..(Len(data) - n) /\ n + (i - n) = i
          /\ FedLen(d) + (i - n) = FedLen(c) + i
      BY <1>1, <1>3, <2>2
    <3>2. Fed(e)[FedLen(d) + (i - n)] = data[n + (i - n)]
      BY <1>4, <3>1
    <3>3. QED
      BY <3>1, <3>2
  <2>3. QED
    BY <1>1, <2>1, <2>2
<1>8. QED
  BY <1>5, <1>6, <1>7 DEF Extends

(* The whole of Sha512::update, and of Sha512Core::update: what the context
   has been fed grows by exactly the piece given. *)
THEOREM AbsorbExtends ==
  ASSUME NEW Elem, NEW c, IsContext(c, Elem), NEW data \in Seq(Elem)
  PROVE  /\ IsContext(Absorb(c, data), Elem)
         /\ Extends(c, Absorb(c, data), data)
         /\ Absorb(c, data).totalLen = c.totalLen + Len(data)
<1> DEFINE take == FillCount(c, data)
           f    == Fill(c, data)
           rest == Drop(data, take)
           e    == BulkAndTail(f, rest)
<1>1. /\ take \in 0..Len(data) /\ IsContext(f, Elem)
      /\ Extends(c, f, Take(data, take))
      /\ f.bufLen = 0 \/ take = Len(data)
      /\ f.totalLen = c.totalLen + Len(data)
  BY FillExtends
<1> HIDE DEF take, f
<1>2. rest \in Seq(Elem) /\ Len(rest) = Len(data) - take
  BY <1>1, TakeDrop
<1>3. f.bufLen = 0 \/ Len(rest) = 0
  BY <1>1, <1>2
<1>4. IsContext(e, Elem) /\ Extends(f, e, rest) /\ e.totalLen = f.totalLen
  <2> HIDE DEF rest
  <2>1. QED
    BY <1>1, <1>2, <1>3, BulkAndTailExtends
<1> HIDE DEF e
<1>5. Extends(c, e, data)
  BY <1>1, <1>4, ExtendsTwice
<1>6. Absorb(c, data) = e
  BY DEF Absorb, take, f, rest, e
<1>7. QED
  BY <1>1, <1>4, <1>5, <1>6
------------------------------------------------------------------------------
(* Between calls the context is well formed and has been fed the message so
   far. *)
HoldsMessage == Fed(ctx) = [i \in 1..ctx.totalLen |-> MsgByte(i)]
Absorbed     == IsContext(ctx, Byte) /\ HoldsMessage

LEMMA ConstantFacts ==
  /\ Block \in Nat /\ Block > 0
  /\ LenField \in Nat /\ LenField > 0 /\ LenField < Block
BY BlockAssumption, LenFieldAssumption

LEMMA ByteFacts ==
  /\ Zero \in Byte /\ End \in Byte
  /\ \A i \in Nat : MsgByte(i) \in Byte
  /\ \A n, j \in Nat : LenByte(n, j) \in Byte
BY DEF Byte, MsgByte, LenByte

LEMMA PieceIsBytes ==
  ASSUME NEW n \in Nat, ctx.totalLen \in Nat
  PROVE  /\ Piece(n) \in Seq(Byte) /\ Len(Piece(n)) = n
         /\ \A j \in 1..n : Piece(n)[j] = MsgByte(ctx.totalLen + j)
<1>1. \A j \in 1..n : MsgByte(ctx.totalLen + j) \in Byte
  BY ByteFacts
<1>2. Piece(n) \in [1..n -> Byte]
  BY <1>1 DEF Piece
<1>3. QED
  BY <1>2 DEF Piece

(* The message is what the context was fed, so its length is FedLen. *)
LEMMA FedLenIsTotal ==
  ASSUME Absorbed
  PROVE  FedLen(ctx) = ctx.totalLen /\ ctx.totalLen \in Nat
<1>1. FedLen(ctx) \in Nat /\ Fed(ctx) \in Seq(Byte) /\ Len(Fed(ctx)) = FedLen(ctx)
  BY FedBytes DEF Absorbed
<1>2. ctx.totalLen \in Nat
  BY DEF Absorbed, IsContext
<1>3. Len([i \in 1..ctx.totalLen |-> MsgByte(i)]) = ctx.totalLen
  BY <1>2
<1>4. QED
  BY <1>1, <1>2, <1>3 DEF Absorbed, HoldsMessage

LEMMA InitAbsorbed == Init => Absorbed
<1> SUFFICES ASSUME Init PROVE Absorbed
  OBVIOUS
<1>1. /\ ctx.buffer = [i \in 1..Block |-> Zero] /\ ctx.bufLen = 0
      /\ ctx.totalLen = 0 /\ ctx.hashed = <<>>
  BY DEF Init, NewContext
<1>2. IsContext(ctx, Byte)
  <2>1. ctx.buffer \in [1..Block -> Byte]
    BY <1>1, ByteFacts
  <2>2. ctx.hashed \in Seq(Byte) /\ Len(ctx.hashed) = 0
    BY <1>1
  <2>3. QED
    BY <1>1, <2>1, <2>2, ConstantFacts, WholeBlocksOne DEF IsContext
<1>3. HoldsMessage
  BY <1>1 DEF HoldsMessage, Fed, FedLen
<1>4. QED
  BY <1>1, <1>2, <1>3 DEF Absorbed

(* update leaves it so: this is where AbsorbExtends is used. *)
LEMMA UpdateAbsorbs ==
  ASSUME Absorbed, NEW n \in Nat, Update(n)
  PROVE  Absorbed'
<1>1. FedLen(ctx) = ctx.totalLen /\ ctx.totalLen \in Nat
  BY FedLenIsTotal
<1>2. /\ Piece(n) \in Seq(Byte) /\ Len(Piece(n)) = n
      /\ \A j \in 1..n : Piece(n)[j] = MsgByte(ctx.totalLen + j)
  BY <1>1, PieceIsBytes
<1>3. IsContext(ctx, Byte)
  BY DEF Absorbed
<1>4. /\ IsContext(ctx', Byte) /\ Extends(ctx, ctx', Piece(n))
      /\ ctx'.totalLen = ctx.totalLen + n
  <2>1. ctx' = Absorb(ctx, Piece(n))
    BY DEF Update
  <2>2. /\ IsContext(Absorb(ctx, Piece(n)), Byte)
        /\ Extends(ctx, Absorb(ctx, Piece(n)), Piece(n))
        /\ Absorb(ctx, Piece(n)).totalLen = ctx.totalLen + Len(Piece(n))
    BY <1>2, <1>3, AbsorbExtends
  <2>3. QED
    BY <1>2, <2>1, <2>2
<1>5. /\ FedLen(ctx') = ctx.totalLen + n
      /\ \A i \in 1..ctx.totalLen : Fed(ctx')[i] = Fed(ctx)[i]
      /\ \A i \in 1..n : Fed(ctx')[ctx.totalLen + i] = MsgByte(ctx.totalLen + i)
  BY <1>1, <1>2, <1>4 DEF Extends
<1>6. ASSUME NEW i \in 1..(ctx.totalLen + n)
      PROVE  Fed(ctx')[i] = MsgByte(i)
  <2>1. CASE i <= ctx.totalLen
    <3>1. i \in 1..ctx.totalLen
      BY <1>1, <2>1
    <3>2. Fed(ctx)[i] = MsgByte(i)
      BY <3>1 DEF Absorbed, HoldsMessage
    <3>3. QED
      BY <1>5, <3>1, <3>2
  <2>2. CASE i > ctx.totalLen
    <3>1. i - ctx.totalLen \in 1..n /\ ctx.totalLen + (i - ctx.totalLen) = i
      BY <1>1, <2>2
    <3>2. Fed(ctx')[ctx.totalLen + (i - ctx.totalLen)]
            = MsgByte(ctx.totalLen + (i - ctx.totalLen))
      BY <1>5, <3>1
    <3>3. QED
      BY <3>1, <3>2
  <2>3. QED
    BY <1>1, <2>1, <2>2
<1>7. HoldsMessage'
  <2>1. Fed(ctx') = [i \in 1..FedLen(ctx') |-> Fed(ctx')[i]]
    BY DEF Fed
  <2>2. Fed(ctx') = [i \in 1..(ctx.totalLen + n) |-> MsgByte(i)]
    BY <1>5, <1>6, <2>1
  <2>3. QED
    BY <1>4, <2>2 DEF HoldsMessage
<1>8. QED
  BY <1>4, <1>7 DEF Absorbed

(* How many bytes of padding blocks finalize compresses: one block if 0x80
   fits before the length field, two otherwise. *)
PadLen == IF ctx.bufLen + 1 > Block - LenField THEN 2 * Block ELSE Block

(* The length field goes to the end of a block and leaves the rest of it alone. *)
LEMMA LengthFieldWritten ==
  ASSUME NEW n \in Nat, NEW buf \in [1..Block -> Byte], NEW lenAt, lenAt = Block - LenField
  PROVE  /\ CopyInto(buf, lenAt, LenBytes(n)) \in [1..Block -> Byte]
         /\ \A i \in 1..lenAt : CopyInto(buf, lenAt, LenBytes(n))[i] = buf[i]
         /\ \A j \in 1..LenField :
              CopyInto(buf, lenAt, LenBytes(n))[lenAt + j] = LenByte(n, j)
<1> DEFINE lens == LenBytes(n)
           new  == CopyInto(buf, lenAt, lens)
<1>1. /\ Block \in Nat /\ LenField \in Nat /\ LenField > 0 /\ LenField < Block
      /\ lenAt \in Nat /\ lenAt + LenField = Block
  BY ConstantFacts
<1>2. /\ lens \in [1..LenField -> Byte] /\ Len(lens) = LenField
      /\ \A j \in 1..LenField : lens[j] = LenByte(n, j)
  <2>1. \A j \in 1..LenField : LenByte(n, j) \in Byte
    BY <1>1, ByteFacts
  <2>2. lens \in [1..LenField -> Byte] /\ \A j \in 1..LenField : lens[j] = LenByte(n, j)
    BY <2>1 DEF LenBytes
  <2>3. QED
    BY <1>1, <2>2 DEF LenBytes
<1> HIDE DEF lens
<1>3. new = [i \in 1..Block |->
                IF lenAt < i /\ i <= lenAt + LenField THEN lens[i - lenAt] ELSE buf[i]]
  BY <1>1, <1>2 DEF CopyInto
<1> HIDE DEF new
<1>4. new \in [1..Block -> Byte]
  BY <1>1, <1>2, <1>3
<1>5. \A i \in 1..lenAt : new[i] = buf[i]
  BY <1>1, <1>3
<1>6. \A j \in 1..LenField : new[lenAt + j] = lens[j]
  BY <1>1, <1>3
<1> QED
  BY <1>2, <1>4, <1>5, <1>6 DEF new, lens

(* finalize's two branches write the same layout: the buffered bytes, 0x80,
   zeros, the length; nothing stale survives in between. *)
LEMMA PadBlocksLayout ==
  ASSUME IsContext(ctx, Byte)
  PROVE  /\ PadBlocks(ctx) \in Seq(Byte) /\ Len(PadBlocks(ctx)) = PadLen
         /\ \A i \in 1..ctx.bufLen : PadBlocks(ctx)[i] = ctx.buffer[i]
         /\ PadBlocks(ctx)[ctx.bufLen + 1] = End
         /\ \A i \in (ctx.bufLen + 2)..(PadLen - LenField) : PadBlocks(ctx)[i] = Zero
         /\ \A j \in 1..LenField :
              PadBlocks(ctx)[PadLen - LenField + j] = LenByte(ctx.totalLen, j)
<1> DEFINE b     == ctx.bufLen
           n     == ctx.totalLen
           lenAt == Block - LenField
           ended == CopyInto(ctx.buffer, b, <<End>>)
           lens  == LenBytes(n)
           zeros == NewContext.buffer
<1>1. /\ Block \in Nat /\ Block > 0 /\ LenField \in Nat /\ LenField > 0
      /\ LenField < Block /\ b \in Nat /\ b < Block /\ n \in Nat
      /\ ctx.buffer \in [1..Block -> Byte] /\ lenAt \in Nat
  BY ConstantFacts DEF IsContext
<1>2. lens \in Seq(Byte) /\ Len(lens) = LenField
      /\ \A j \in 1..LenField : lens[j] = LenByte(n, j)
  <2>1. \A j \in 1..LenField : LenByte(n, j) \in Byte
    BY <1>1, ByteFacts
  <2>2. lens \in [1..LenField -> Byte]
    BY <2>1 DEF LenBytes
  <2>3. QED
    BY <1>1, <2>2 DEF LenBytes
<1>3. /\ ended \in [1..Block -> Byte]
      /\ \A i \in 1..b : ended[i] = ctx.buffer[i]
      /\ ended[b + 1] = End
  <2>1. <<End>> \in Seq(Byte) /\ Len(<<End>>) = 1 /\ <<End>>[1] = End
    BY ByteFacts
  <2>2. PICK e \in Seq(Byte) : e = <<End>> /\ Len(e) = 1 /\ e[1] = End
    BY <2>1
  <2>3. /\ ctx.buffer \in [1..Block -> Byte] /\ b \in Nat /\ b + Len(e) <= Block
    BY <1>1, <2>2
  <2>4. /\ CopyInto(ctx.buffer, b, e) \in [1..Block -> Byte]
        /\ \A i \in 1..b : CopyInto(ctx.buffer, b, e)[i] = ctx.buffer[i]
        /\ \A i \in 1..Len(e) : CopyInto(ctx.buffer, b, e)[b + i] = e[i]
    BY <2>3, CopyIntoProperties
  <2>5. ended = CopyInto(ctx.buffer, b, e)
    BY <2>2
  <2> HIDE DEF ended
  <2>6. ended \in [1..Block -> Byte] /\ \A i \in 1..b : ended[i] = ctx.buffer[i]
    BY <2>4, <2>5
  <2>7. ended[b + 1] = End
    <3>1. 1 \in 1..Len(e)
      BY <2>2
    <3>2. ended[b + 1] = e[1]
      BY <2>4, <2>5, <3>1
    <3>3. QED
      BY <2>2, <3>2
  <2>8. QED
    BY <2>6, <2>7
<1> HIDE DEF ended, lens
<1>4. zeros \in [1..Block -> Byte] /\ \A i \in 1..Block : zeros[i] = Zero
  BY ByteFacts DEF NewContext
<1> HIDE DEF zeros
<1>5. ASSUME NEW buf \in [1..Block -> Byte]
      PROVE  /\ CopyInto(buf, lenAt, lens) \in [1..Block -> Byte]
             /\ \A i \in 1..lenAt : CopyInto(buf, lenAt, lens)[i] = buf[i]
             /\ \A j \in 1..LenField :
                  CopyInto(buf, lenAt, lens)[lenAt + j] = LenByte(n, j)
  BY <1>1, LengthFieldWritten DEF lenAt, lens
<1>6. ASSUME NEW to \in 0..Block
      PROVE  /\ ZeroFill(ended, b + 1, to) \in [1..Block -> Byte]
             /\ \A i \in 1..(b + 1) : i <= Block =>
                  ZeroFill(ended, b + 1, to)[i] = ended[i]
             /\ \A i \in (b + 2)..to : ZeroFill(ended, b + 1, to)[i] = Zero
  <2> DEFINE zf == ZeroFill(ended, b + 1, to)
  <2>1. zf = [i \in 1..Block |-> IF b + 1 < i /\ i <= to THEN Zero ELSE ended[i]]
    BY DEF ZeroFill
  <2> HIDE DEF zf
  <2>2. zf \in [1..Block -> Byte]
    <3>1. \A i \in 1..Block :
            (IF b + 1 < i /\ i <= to THEN Zero ELSE ended[i]) \in Byte
      BY <1>3, ByteFacts
    <3>2. QED
      BY <2>1, <3>1
  <2>3. ASSUME NEW i \in 1..(b + 1), i <= Block
        PROVE  zf[i] = ended[i]
    <3>1. i \in 1..Block /\ ~(b + 1 < i)
      BY <1>1, <2>3
    <3>2. QED
      BY <2>1, <3>1
  <2>4. ASSUME NEW i \in (b + 2)..to
        PROVE  zf[i] = Zero
    <3>1. i \in 1..Block /\ b + 1 < i /\ i <= to
      BY <1>1
    <3>2. QED
      BY <2>1, <3>1
  <2>5. QED
    BY <2>2, <2>3, <2>4 DEF zf
<1>7. CASE b + 1 <= lenAt
  <2> DEFINE filled == ZeroFill(ended, b + 1, lenAt)
             pad    == CopyInto(filled, lenAt, lens)
  <2>1. PadBlocks(ctx) = pad /\ PadLen = Block
    BY <1>1, <1>7 DEF PadBlocks, PadLen, ended, lens
  <2>2. lenAt \in 0..Block
    BY <1>1
  <2>3. /\ filled \in [1..Block -> Byte]
        /\ \A i \in 1..(b + 1) : i <= Block => filled[i] = ended[i]
        /\ \A i \in (b + 2)..lenAt : filled[i] = Zero
    BY <1>6, <2>2
  <2> HIDE DEF filled
  <2>4. /\ pad \in [1..Block -> Byte]
        /\ \A i \in 1..lenAt : pad[i] = filled[i]
        /\ \A j \in 1..LenField : pad[lenAt + j] = LenByte(n, j)
    BY <1>5, <2>3
  <2> HIDE DEF pad
  <2>5. pad \in Seq(Byte) /\ Len(pad) = Block
    BY <1>1, <2>4
  <2>6. \A i \in 1..b : pad[i] = ctx.buffer[i]
    <3>1. ASSUME NEW i \in 1..b PROVE pad[i] = ctx.buffer[i]
      <4>1. i \in 1..lenAt /\ i \in 1..(b + 1) /\ i <= Block
        BY <1>1, <1>7
      <4>2. QED
        BY <1>3, <2>3, <2>4, <4>1
    <3>2. QED
      BY <3>1
  <2>7. pad[b + 1] = End
    <3>1. b + 1 \in 1..lenAt /\ b + 1 \in 1..(b + 1) /\ b + 1 <= Block
      BY <1>1, <1>7
    <3>2. QED
      BY <1>3, <2>3, <2>4, <3>1
  <2>8. \A i \in (b + 2)..lenAt : pad[i] = Zero
    <3>1. ASSUME NEW i \in (b + 2)..lenAt PROVE pad[i] = Zero
      <4>1. i \in 1..lenAt
        BY <1>1
      <4>2. QED
        BY <2>3, <2>4, <4>1
    <3>2. QED
      BY <3>1
  <2>9. QED
    BY <2>1, <2>4, <2>5, <2>6, <2>7, <2>8
<1>8. CASE b + 1 > lenAt
  <2> DEFINE first  == ZeroFill(ended, b + 1, Block)
             second == CopyInto(zeros, lenAt, lens)
             pad    == first \o second
  <2>1. PadBlocks(ctx) = pad /\ PadLen = 2 * Block
    BY <1>1, <1>8 DEF PadBlocks, PadLen, ended, lens, zeros
  <2>2. Block \in 0..Block
    BY <1>1
  <2>3. /\ first \in [1..Block -> Byte]
        /\ \A i \in 1..(b + 1) : i <= Block => first[i] = ended[i]
        /\ \A i \in (b + 2)..Block : first[i] = Zero
    BY <1>6, <2>2
  <2>4. /\ second \in [1..Block -> Byte]
        /\ \A i \in 1..lenAt : second[i] = zeros[i]
        /\ \A j \in 1..LenField : second[lenAt + j] = LenByte(n, j)
    BY <1>4, <1>5
  <2> HIDE DEF first, second
  <2>5. first \in Seq(Byte) /\ second \in Seq(Byte)
        /\ Len(first) = Block /\ Len(second) = Block
    <3>1. Block \in Nat /\ first \in [1..Block -> Byte] /\ second \in [1..Block -> Byte]
      BY <1>1, <2>3, <2>4
    <3> HIDE DEF pad
    <3>2. QED
      BY <3>1
  <2>6. /\ pad \in Seq(Byte) /\ Len(pad) = Len(first) + Len(second)
        /\ \A i \in 1..Len(first) : pad[i] = first[i]
        /\ \A i \in 1..Len(second) : pad[Len(first) + i] = second[i]
    <3>1. first \in Seq(Byte) /\ second \in Seq(Byte)
      BY <2>5
    <3>2. QED
      BY <3>1, CompressAppends
  <2> HIDE DEF pad
  <2>7. /\ pad \in Seq(Byte) /\ Len(pad) = 2 * Block
        /\ \A i \in 1..Block : pad[i] = first[i]
        /\ \A i \in 1..Block : pad[Block + i] = second[i]
    BY <1>1, <2>5, <2>6
  <2>8. \A i \in 1..b : pad[i] = ctx.buffer[i]
    <3>1. ASSUME NEW i \in 1..b PROVE pad[i] = ctx.buffer[i]
      <4>1. i \in 1..Block /\ i \in 1..(b + 1) /\ i <= Block
        BY <1>1
      <4>2. QED
        BY <1>3, <2>3, <2>7, <4>1
    <3>2. QED
      BY <3>1
  <2>9. pad[b + 1] = End
    <3>1. b + 1 \in 1..Block /\ b + 1 \in 1..(b + 1) /\ b + 1 <= Block
      BY <1>1
    <3>2. QED
      BY <1>3, <2>3, <2>7, <3>1
  <2>10. \A i \in (b + 2)..(2 * Block - LenField) : pad[i] = Zero
    <3>1. ASSUME NEW i \in (b + 2)..(2 * Block - LenField) PROVE pad[i] = Zero
      <4>1. CASE i <= Block
        <5>1. i \in 1..Block /\ i \in (b + 2)..Block
          BY <1>1, <4>1
        <5>2. QED
          BY <2>3, <2>7, <5>1
      <4>2. CASE i > Block
        <5>1. i - Block \in 1..Block /\ i - Block \in 1..lenAt
              /\ Block + (i - Block) = i
          BY <1>1, <4>2, SMTT(30)
        <5>2. pad[Block + (i - Block)] = second[i - Block]
          BY <2>7, <5>1
        <5>3. second[i - Block] = Zero
          BY <1>4, <2>4, <5>1
        <5>4. QED
          BY <5>1, <5>2, <5>3
      <4>3. QED
        BY <1>1, <4>1, <4>2
    <3>2. QED
      BY <3>1
  <2>11. \A j \in 1..LenField : pad[2 * Block - LenField + j] = LenByte(n, j)
    <3>1. ASSUME NEW j \in 1..LenField
          PROVE  pad[2 * Block - LenField + j] = LenByte(n, j)
      <4>1. lenAt + j \in 1..Block /\ Block + (lenAt + j) = 2 * Block - LenField + j
        <5>1. /\ Block \in Nat /\ LenField \in Nat /\ LenField < Block
              /\ j \in Nat /\ 1 <= j /\ j <= LenField
          BY <1>1
        <5>2. QED
          BY <5>1
      <4>2. pad[Block + (lenAt + j)] = second[lenAt + j]
        BY <2>7, <4>1
      <4>3. QED
        BY <2>4, <4>1, <4>2
    <3>2. QED
      BY <3>1
  <2>12. QED
    BY <2>1, <2>7, <2>8, <2>9, <2>10, <2>11
<1>9. QED
  BY <1>1, <1>7, <1>8

(* Dividing a number of whole blocks and less than a block more. *)
LEMMA WholeBlocksDiv ==
  ASSUME NEW q \in Nat, NEW r \in 0..(Block - 1)
  PROVE  (q * Block + r) \div Block = q
BY BlockAssumption

(* The padding finalize writes ends where the standard's padding ends. *)
LEMMA PaddedLenIsReached ==
  ASSUME Absorbed
  PROVE  Spec512!PaddedLen(ctx.totalLen) = Len(ctx.hashed) + PadLen
<1> DEFINE n == ctx.totalLen
           b == ctx.bufLen
<1>1. /\ Block \in Nat /\ Block > 0 /\ LenField \in Nat /\ LenField > 0
      /\ LenField < Block /\ b \in Nat /\ b < Block
  BY ConstantFacts DEF Absorbed, IsContext
<1>2. PICK q \in Nat : Len(ctx.hashed) = q * Block
  BY DEF Absorbed, IsContext, WholeBlocks
<1>3. n = q * Block + b
  <2>1. n = FedLen(ctx)
    BY FedLenIsTotal
  <2>2. QED
    BY <1>2, <2>1 DEF FedLen
<1>4. CASE b + 1 > Block - LenField
  <2>1. b + LenField - Block \in 0..(Block - 1)
    BY <1>1, <1>4
  <2>2. n + LenField + Block = (q + 2) * Block + (b + LenField - Block)
    BY <1>1, <1>3
  <2>3. (n + LenField + Block) \div Block = q + 2
    BY <2>1, <2>2, WholeBlocksDiv
  <2>4. (q + 2) * Block = q * Block + 2 * Block
    BY <1>1
  <2>5. QED
    BY <1>2, <1>4, <2>3, <2>4 DEF Spec512!PaddedLen, PadLen
<1>5. CASE b + 1 <= Block - LenField
  <2>1. b + LenField \in 0..(Block - 1)
    BY <1>1, <1>5
  <2>2. n + LenField + Block = (q + 1) * Block + (b + LenField)
    BY <1>1, <1>3
  <2>3. (n + LenField + Block) \div Block = q + 1
    BY <2>1, <2>2, WholeBlocksDiv
  <2>4. (q + 1) * Block = q * Block + Block
    BY <1>1
  <2>5. ~(b + 1 > Block - LenField)
    BY <1>1, <1>5
  <2>6. QED
    BY <1>2, <2>3, <2>4, <2>5 DEF Spec512!PaddedLen, PadLen
<1>6. QED
  BY <1>1, <1>4, <1>5

(* finalize compresses the padded message of the standard. *)
LEMMA FinalizePads ==
  ASSUME Absorbed
  PROVE  /\ ctx.hashed \o PadBlocks(ctx) \in Seq(Byte)
         /\ ctx.hashed \o PadBlocks(ctx) = Spec512!PaddedMessage(ctx.totalLen)
<1> DEFINE h   == ctx.hashed
           b   == ctx.bufLen
           n   == ctx.totalLen
           pad == PadBlocks(ctx)
           all == h \o pad
           len == Spec512!PaddedLen(n)
<1>1. /\ Block \in Nat /\ Block > 0 /\ LenField \in Nat /\ LenField > 0
      /\ LenField < Block /\ b \in Nat /\ b < Block /\ h \in Seq(Byte) /\ Len(h) \in Nat
  BY ConstantFacts DEF Absorbed, IsContext
<1>2. /\ pad \in Seq(Byte) /\ Len(pad) = PadLen
      /\ \A i \in 1..b : pad[i] = ctx.buffer[i]
      /\ pad[b + 1] = End
      /\ \A i \in (b + 2)..(PadLen - LenField) : pad[i] = Zero
      /\ \A j \in 1..LenField : pad[PadLen - LenField + j] = LenByte(n, j)
  BY PadBlocksLayout DEF Absorbed
<1>3. PadLen \in Nat /\ b + 1 <= PadLen - LenField
  BY <1>1 DEF PadLen
<1>4. /\ all \in Seq(Byte) /\ Len(all) = Len(h) + Len(pad)
      /\ \A i \in 1..Len(h) : all[i] = h[i]
      /\ \A i \in 1..Len(pad) : all[Len(h) + i] = pad[i]
  <2>1. h \in Seq(Byte) /\ pad \in Seq(Byte)
    BY <1>1, <1>2
  <2> HIDE DEF h, pad
  <2>2. QED
    BY <2>1, CompressAppends
<1>5. len = Len(h) + PadLen
  BY PaddedLenIsReached
<1>6. /\ n = Len(h) + b
      /\ \A i \in 1..Len(h) : h[i] = MsgByte(i)
      /\ \A i \in 1..b : ctx.buffer[i] = MsgByte(Len(h) + i)
  <2>1. n = FedLen(ctx) /\ n \in Nat
    BY FedLenIsTotal
  <2>2. /\ FedLen(ctx) = Len(h) + b
        /\ \A i \in 1..Len(h) : Fed(ctx)[i] = h[i]
        /\ \A i \in 1..b : Fed(ctx)[Len(h) + i] = ctx.buffer[i]
    BY FedBytes DEF Absorbed
  <2>3. \A i \in 1..n : Fed(ctx)[i] = MsgByte(i)
    BY DEF Absorbed, HoldsMessage
  <2>4. \A i \in 1..Len(h) : i \in 1..n
    BY <1>1, <2>1, <2>2
  <2>5. \A i \in 1..b : Len(h) + i \in 1..n
    BY <1>1, <2>1, <2>2
  <2>6. QED
    BY <2>1, <2>2, <2>3, <2>4, <2>5
<1>7. ASSUME NEW i \in 1..len
      PROVE  all[i] = IF i <= n THEN MsgByte(i)
                      ELSE IF i = n + 1 THEN End
                      ELSE IF i <= len - LenField THEN Zero
                      ELSE LenByte(n, i - (len - LenField))
  <2> HIDE DEF h, b, n, pad, all, len
  <2>1. CASE i <= Len(h)
    <3>1. i \in 1..Len(h) /\ i <= n
      BY <1>1, <1>6, <2>1
    <3>2. all[i] = MsgByte(i)
      BY <1>4, <1>6, <3>1
    <3>3. QED
      BY <3>1, <3>2
  <2>2. CASE i > Len(h)
    <3> DEFINE k == i - Len(h)
    <3>1. k \in Nat /\ k = i - Len(h) /\ i = Len(h) + k /\ 1 <= k /\ k <= PadLen
      <4>1. i \in Int /\ i <= len
        BY <1>1
      <4>2. Len(h) \in Int /\ PadLen \in Int
        BY <1>1, <1>3
      <4>3. QED
        BY <1>5, <2>2, <4>1, <4>2, SMTT(30)
    <3> HIDE DEF k
    <3>2. all[i] = pad[k]
      BY <1>2, <1>3, <1>4, <3>1
    <3>3. CASE k <= b
      <4>1. k \in 1..b /\ i <= n
        BY <1>1, <1>6, <3>1, <3>3
      <4>2. pad[k] = MsgByte(i)
        BY <1>2, <1>6, <3>1, <4>1
      <4>3. QED
        BY <3>2, <4>1, <4>2
    <3>4. CASE k = b + 1
      <4>1. i = n + 1 /\ ~(i <= n)
        BY <1>1, <1>6, <3>1, <3>4
      <4>2. QED
        BY <1>2, <3>2, <3>4, <4>1
    <3>5. CASE k > b + 1 /\ k <= PadLen - LenField
      <4>1. k \in (b + 2)..(PadLen - LenField) /\ ~(i <= n) /\ i # n + 1
            /\ i <= len - LenField
        BY <1>1, <1>3, <1>5, <1>6, <3>1, <3>5
      <4>2. QED
        BY <1>2, <3>2, <4>1
    <3>6. CASE k > PadLen - LenField
      <4>1. PICK j \in 1..LenField : k = PadLen - LenField + j
        <5>1. k - (PadLen - LenField) \in 1..LenField
              /\ k = PadLen - LenField + (k - (PadLen - LenField))
          BY <1>1, <1>3, <3>1, <3>6
        <5>2. QED
          BY <5>1
      <4>2. ~(i <= n) /\ i # n + 1 /\ ~(i <= len - LenField)
            /\ i - (len - LenField) = j
        BY <1>1, <1>3, <1>5, <1>6, <3>1, <3>6, <4>1, SMTT(30)
      <4>3. all[i] = LenByte(n, j)
        BY <1>2, <3>2, <4>1
      <4>4. QED
        BY <4>2, <4>3
    <3>7. QED
      BY <1>1, <1>3, <3>1, <3>3, <3>4, <3>5, <3>6
  <2>3. QED
    BY <1>1, <2>1, <2>2
<1>8. all = [i \in 1..len |-> all[i]]
  <2>1. Len(all) = len /\ all \in Seq(Byte)
    BY <1>2, <1>4, <1>5
  <2> HIDE DEF all, len
  <2>2. QED
    BY <2>1
<1>9. Spec512!PaddedMessage(n) =
        [i \in 1..len |-> IF i <= n THEN MsgByte(i)
                          ELSE IF i = n + 1 THEN End
                          ELSE IF i <= len - LenField THEN Zero
                          ELSE LenByte(n, i - (len - LenField))]
  BY DEF Spec512!PaddedMessage, Spec512!MsgByte, Spec512!End, Spec512!ZeroByte,
         Spec512!LenByte, MsgByte, End, Zero, LenByte
<1>10. all = Spec512!PaddedMessage(n)
  <2> HIDE DEF all, n, len
  <2>1. [i \in 1..len |-> all[i]] =
        [i \in 1..len |-> IF i <= n THEN MsgByte(i)
                          ELSE IF i = n + 1 THEN End
                          ELSE IF i <= len - LenField THEN Zero
                          ELSE LenByte(n, i - (len - LenField))]
    BY <1>7
  <2>2. QED
    BY <1>8, <1>9, <2>1
<1>11. QED
  BY <1>4, <1>10

(* The inductive invariant of Sha512: the same, and finalize took the length of
   the message. *)
IInv ==
  /\ Absorbed
  /\ phase \in {"absorbing", "done"}
  /\ bitLen \in Nat
  /\ phase = "done" => bitLen = ctx.totalLen
  /\ digest \in Seq(Byte)

LEMMA InitIInv == Init => IInv
BY InitAbsorbed DEF Init, IInv

LEMMA NextIInv == IInv /\ [Next]_vars => IInv'
<1> SUFFICES ASSUME IInv, [Next]_vars PROVE IInv'
  OBVIOUS
<1>1. ASSUME NEW n \in 0..(MaxLen - ctx.totalLen), Update(n) PROVE IInv'
  <2>1. n \in Nat
    <3>1. ctx.totalLen \in Nat
      BY FedLenIsTotal DEF IInv
    <3>2. QED
      BY <3>1, MaxLenAssumption
  <2>2. Absorbed'
    BY <1>1, <2>1, UpdateAbsorbs DEF IInv
  <2>3. phase = "absorbing" /\ phase' = phase /\ bitLen' = bitLen /\ digest' = digest
    BY <1>1 DEF Update
  <2>4. QED
    BY <2>2, <2>3 DEF IInv
<1>2. ASSUME Finalize PROVE IInv'
  <2>1. /\ ctx' = ctx /\ digest' \in Seq(Byte)
        /\ phase' = "done" /\ bitLen' = ctx.totalLen
    BY <1>2, FinalizePads DEF Finalize, IInv
  <2>2. Absorbed' /\ ctx.totalLen \in Nat
    BY <2>1, FedLenIsTotal DEF IInv, Absorbed, HoldsMessage
  <2>3. QED
    BY <2>1, <2>2 DEF IInv
<1>3. ASSUME UNCHANGED vars PROVE IInv'
  BY <1>3 DEF vars, IInv, Absorbed, HoldsMessage
<1>4. QED
  BY <1>1, <1>2, <1>3 DEF Next

(* The invariant, and with it both checked invariants, holds of every
   behaviour of Sha512 whatever the sizes. *)
LEMMA IInvHolds == Spec => []IInv
<1>1. QED
  BY InitIInv, NextIInv, PTL DEF Spec

(* Type correctness: the buffer index stays below a block and every byte is
   one the code wrote. *)
THEOREM Sha512TypeCorrect == Spec => []TypeOK
<1>1. IInv => TypeOK
  BY DEF IInv, Absorbed, IsContext, TypeOK
<1>2. QED
  BY <1>1, IInvHolds, PTL

(* Update neither loses, repeats nor reorders a byte of the message, however
   it is cut (Sha512::update). *)
THEOREM Sha512FedIsMessage == Spec => []FedIsMessage
<1>1. IInv => FedIsMessage
  BY DEF IInv, Absorbed, HoldsMessage, FedIsMessage
<1>2. QED
  BY <1>1, IInvHolds, PTL

(* update is the specification's step that lengthens the message, in both
   hashers. *)
LEMMA UpdateRefines ==
  ASSUME Absorbed, NEW n \in 0..(MaxLen - ctx.totalLen), Update(n), digest = <<>>
  PROVE  Spec512!SpecUpdate
<1>1. ctx.totalLen \in Nat
  BY FedLenIsTotal
<1>2. n \in Nat
  BY <1>1, MaxLenAssumption
<1>3. Piece(n) \in Seq(Byte) /\ Len(Piece(n)) = n
  BY <1>1, <1>2, PieceIsBytes
<1>4. Absorb(ctx, Piece(n)).totalLen = ctx.totalLen + n
  BY <1>3, AbsorbExtends DEF Absorbed
<1>5. /\ phase = "absorbing" /\ phase' = "absorbing"
      /\ ctx'.totalLen = ctx.totalLen + n /\ digest' = digest
  BY <1>4 DEF Update
<1>6. MessageLen = ctx.totalLen /\ MessageLen' = ctx.totalLen + n
  BY <1>5 DEF MessageLen
<1>7. QED
  BY <1>1, <1>2, <1>5, <1>6 DEF Spec512!SpecUpdate

(* Sha512 implements the one-shot specification: update only lengthens the
   message and finalize compresses its standard padding. *)
THEOREM Sha512Refines == Spec => ImplementsHashSpec
<1> DEFINE Inv == IInv /\ (phase = "absorbing" => digest = <<>>)
<1>1. Spec => []Inv
  <2>1. Init => Inv
    BY InitIInv DEF Init
  <2>2. Inv /\ [Next]_vars => Inv'
    BY NextIInv DEF Next, Update, Finalize, vars
  <2>3. QED
    BY <2>1, <2>2, PTL DEF Spec
<1>2. Init => Spec512!SpecInit
  BY DEF Init, NewContext, Spec512!SpecInit, MessageLen
<1>3. Inv /\ [Next]_vars => [Spec512!SpecNext]_(Spec512!specVars)
  <2> SUFFICES ASSUME Inv, [Next]_vars
               PROVE  [Spec512!SpecNext]_(Spec512!specVars)
    OBVIOUS
  <2>1. ASSUME NEW n \in 0..(MaxLen - ctx.totalLen), Update(n)
        PROVE  Spec512!SpecUpdate
    <3>1. Absorbed /\ digest = <<>>
      BY <2>1 DEF IInv, Update
    <3>2. QED
      BY <2>1, <3>1, UpdateRefines
  <2>2. ASSUME Finalize PROVE Spec512!SpecFinalize
    <3>1. digest' = Spec512!PaddedMessage(ctx.totalLen)
      BY <2>2, FinalizePads DEF Finalize, IInv
    <3>2. MessageLen = ctx.totalLen /\ MessageLen' = ctx.totalLen /\ digest = <<>>
      BY <2>2 DEF Finalize, MessageLen
    <3>3. QED
      BY <3>1, <3>2 DEF Spec512!SpecFinalize
  <2>3. ASSUME UNCHANGED vars PROVE UNCHANGED Spec512!specVars
    BY <2>3 DEF vars, Spec512!specVars, MessageLen
  <2>4. QED
    BY <2>1, <2>2, <2>3 DEF Next, Spec512!SpecNext
<1> HIDE DEF Inv
<1>4. QED
  BY <1>1, <1>2, <1>3, PTL
     DEF Spec, ImplementsHashSpec, Spec512!HashSpecification
-------------------------------------------------------------------------------
(* Sha512Core: what its context has been fed inside finalize, the message, 0x80
   and zeros, and no more of them than the standard's padding has. *)
FedIsPadded ==
  /\ bitLen + 1 <= FedLen(ctx)
  /\ FedLen(ctx) + LenField <= Spec512!PaddedLen(bitLen)
  /\ \A i \in 1..bitLen : Fed(ctx)[i] = MsgByte(i)
  /\ Fed(ctx)[bitLen + 1] = End
  /\ \A i \in (bitLen + 2)..FedLen(ctx) : Fed(ctx)[i] = Zero

CoreIInv ==
  /\ IsContext(ctx, Byte)
  /\ phase \in {"absorbing", "padding", "done"}
  /\ bitLen \in Nat
  /\ phase # "done" => digest = <<>>
  /\ phase = "absorbing" => HoldsMessage
  /\ phase = "padding" => FedIsPadded

(* The padded length is whole blocks, has room for 0x80 and the length field,
   and less than a block more. *)
LEMMA PaddedLenBounds ==
  ASSUME NEW n \in Nat
  PROVE  \E q \in Nat : /\ Spec512!PaddedLen(n) = q * Block
                        /\ n + LenField + 1 <= q * Block
                        /\ q * Block <= n + LenField + Block
<1> DEFINE m == n + LenField + Block
           q == m \div Block
           r == m % Block
<1>1. Block \in Nat /\ Block > 0 /\ LenField \in Nat /\ m \in Nat
  BY ConstantFacts
<1>2. m = n + LenField + Block /\ Spec512!PaddedLen(n) = q * Block
  BY DEF Spec512!PaddedLen
<1> HIDE DEF m
<1>3. q \in Nat /\ r \in 0..(Block - 1) /\ m = Block * q + r
  BY <1>1
<1> HIDE DEF q, r
<1>4. q * Block \in Nat /\ q * Block = Block * q
  BY <1>1, <1>3
<1>5. n + LenField + 1 <= q * Block /\ q * Block <= n + LenField + Block
  BY <1>1, <1>2, <1>3, <1>4
<1>6. QED
  BY <1>2, <1>3, <1>5

(* Whole blocks that exceed others by less than a block do not exceed them. *)
LEMMA BlocksOrdered ==
  ASSUME NEW a \in Nat, NEW b \in Nat, a * Block < b * Block + Block
  PROVE  a <= b
<1>1. Block \in Nat /\ Block > 0
  BY ConstantFacts
<1>2. SUFFICES ASSUME a >= b + 1 PROVE FALSE
  OBVIOUS
<1>3. PICK d \in Nat : a = b + 1 + d
  <2>1. a - (b + 1) \in Nat /\ a = b + 1 + (a - (b + 1))
    BY <1>2
  <2>2. QED
    BY <2>1
<1>4. a * Block = b * Block + Block + d * Block /\ d * Block >= 0
  BY <1>1, <1>3, SMTT(30)
<1>5. a * Block \in Nat /\ b * Block \in Nat
  BY <1>1
<1>6. QED
  BY <1>1, <1>4, <1>5

(* Appending the length field to what the context holds makes whole blocks
   exactly where the loop leaves. *)
LEMMA LoopLeavesAtBoundary ==
  ASSUME IsContext(ctx, Byte), NEW n \in Nat,
         n + 1 <= FedLen(ctx),
         FedLen(ctx) + LenField <= Spec512!PaddedLen(n)
  PROVE  ctx.bufLen = Block - LenField
           <=> FedLen(ctx) + LenField = Spec512!PaddedLen(n)
<1> DEFINE b == ctx.bufLen
<1>1. /\ Block \in Nat /\ Block > 0 /\ LenField \in Nat /\ LenField > 0
      /\ LenField < Block /\ b \in Nat /\ b < Block
  BY ConstantFacts DEF IsContext
<1>2. PICK m \in Nat : Len(ctx.hashed) = m * Block
  BY DEF IsContext, WholeBlocks
<1>3. PICK q \in Nat : /\ Spec512!PaddedLen(n) = q * Block
                       /\ n + LenField + 1 <= q * Block
                       /\ q * Block <= n + LenField + Block
  BY PaddedLenBounds
<1>4. FedLen(ctx) = m * Block + b
  BY <1>2 DEF FedLen
<1> HIDE DEF b
<1>5. /\ m * Block \in Nat /\ q * Block \in Nat
      /\ (m + 1) * Block = m * Block + Block /\ m + 1 \in Nat
  BY <1>1, <1>2, <1>3, SMTT(30)
<1>6. ASSUME b = Block - LenField
      PROVE  FedLen(ctx) + LenField = q * Block
  <2>1. FedLen(ctx) + LenField = (m + 1) * Block
    BY <1>1, <1>4, <1>5, <1>6
  <2>2. q * Block < (m + 1) * Block + Block
    <3>1. n + 1 + LenField <= (m + 1) * Block
      BY <1>1, <1>4, <1>5, <2>1
    <3>2. QED
      BY <1>1, <1>3, <1>5, <3>1
  <2>3. (m + 1) * Block < q * Block + Block
    <3>1. (m + 1) * Block <= q * Block
      BY <1>3, <2>1
    <3>2. QED
      BY <1>1, <1>5, <3>1
  <2>4. q <= m + 1 /\ m + 1 <= q
    BY <1>5, <2>2, <2>3, BlocksOrdered
  <2>5. q = m + 1
    BY <2>4
  <2>6. QED
    BY <2>1, <2>5
<1>7. ASSUME FedLen(ctx) + LenField = q * Block
      PROVE  b = Block - LenField
  <2>1. m * Block + b + LenField = q * Block
    BY <1>1, <1>4, <1>5, <1>7
  <2>2. q * Block < (m + 1) * Block + Block
    BY <1>1, <1>5, <2>1
  <2>3. q <= m + 1
    BY <1>5, <2>2, BlocksOrdered
  <2>4. q # m
    BY <1>1, <1>5, <2>1
  <2>5. ~(q + 1 <= m)
    <3>1. ASSUME q + 1 <= m PROVE FALSE
      <4>1. q * Block <= m * Block
        BY <1>1, <3>1, SMTT(30)
      <4>2. QED
        BY <1>1, <1>5, <2>1, <4>1
    <3>2. QED
      BY <3>1
  <2>6. q = m + 1
    BY <2>3, <2>4, <2>5
  <2>7. QED
    BY <1>1, <1>5, <2>1, <2>6
<1>8. QED
  BY <1>3, <1>6, <1>7 DEF b

(* What the context has been fed, after update was handed padding bytes. *)
LEMMA PaddingAbsorbs ==
  ASSUME IsContext(ctx, Byte), NEW x \in Byte, ctx' = Absorb(ctx, <<x>>)
  PROVE  /\ IsContext(ctx', Byte)
         /\ FedLen(ctx) \in Nat /\ FedLen(ctx') = FedLen(ctx) + 1
         /\ \A i \in 1..FedLen(ctx) : Fed(ctx')[i] = Fed(ctx)[i]
         /\ Fed(ctx')[FedLen(ctx) + 1] = x
<1>1. <<x>> \in Seq(Byte) /\ Len(<<x>>) = 1 /\ <<x>>[1] = x
  OBVIOUS
<1>2. PICK s \in Seq(Byte) : s = <<x>> /\ Len(s) = 1 /\ s[1] = x
  BY <1>1
<1>3. ctx' = Absorb(ctx, s)
  BY <1>2
<1>4. IsContext(ctx', Byte) /\ Extends(ctx, ctx', s)
  BY <1>3, AbsorbExtends
<1>5. FedLen(ctx) \in Nat
  BY FedBytes
<1>6. /\ FedLen(ctx') = FedLen(ctx) + Len(s)
      /\ \A i \in 1..FedLen(ctx) : Fed(ctx')[i] = Fed(ctx)[i]
      /\ \A i \in 1..Len(s) : Fed(ctx')[FedLen(ctx) + i] = s[i]
  BY <1>4 DEF Extends
<1>7. Fed(ctx')[FedLen(ctx) + 1] = s[1]
  <2>1. 1 \in 1..Len(s)
    BY <1>2
  <2>2. QED
    BY <1>6, <2>1
<1>8. QED
  BY <1>2, <1>4, <1>5, <1>6, <1>7

(* update(&[0x80]) starts the padding, and there is room for the length. *)
LEMMA BeginFinalizePads ==
  ASSUME CoreIInv, BeginFinalize
  PROVE  IsContext(ctx', Byte) /\ FedIsPadded'
<1> DEFINE n == ctx.totalLen
<1>1. Absorbed /\ ctx' = Absorb(ctx, <<End>>) /\ bitLen' = n
  BY DEF CoreIInv, Absorbed, BeginFinalize
<1>2. FedLen(ctx) = n /\ n \in Nat
  BY <1>1, FedLenIsTotal
<1>3. /\ IsContext(ctx', Byte) /\ FedLen(ctx') = n + 1
      /\ \A i \in 1..n : Fed(ctx')[i] = Fed(ctx)[i]
      /\ Fed(ctx')[n + 1] = End
  BY <1>1, <1>2, ByteFacts, PaddingAbsorbs DEF Absorbed
<1>4. FedLen(ctx') + LenField <= Spec512!PaddedLen(n)
  <2>1. PICK q \in Nat : /\ Spec512!PaddedLen(n) = q * Block
                         /\ n + LenField + 1 <= q * Block
    BY <1>2, PaddedLenBounds
  <2>2. QED
    BY <1>2, <1>3, <2>1, ConstantFacts
<1>5. \A i \in 1..n : Fed(ctx')[i] = MsgByte(i)
  BY <1>1, <1>3 DEF Absorbed, HoldsMessage
<1>6. \A i \in (n + 2)..FedLen(ctx') : Fed(ctx')[i] = Zero
  BY <1>2, <1>3
<1> HIDE DEF n
<1>7. QED
  BY <1>1, <1>2, <1>3, <1>4, <1>5, <1>6 DEF FedIsPadded

(* A turn of the loop adds one zero, and cannot pass the length field. *)
LEMMA PadZeroPads ==
  ASSUME CoreIInv, PadZero
  PROVE  IsContext(ctx', Byte) /\ FedIsPadded'
<1>1. /\ IsContext(ctx, Byte) /\ bitLen \in Nat /\ FedIsPadded
      /\ ctx' = Absorb(ctx, <<Zero>>) /\ bitLen' = bitLen
      /\ ctx.bufLen # Block - LenField
  BY DEF CoreIInv, PadZero
<1>2. /\ IsContext(ctx', Byte) /\ FedLen(ctx) \in Nat
      /\ FedLen(ctx') = FedLen(ctx) + 1
      /\ \A i \in 1..FedLen(ctx) : Fed(ctx')[i] = Fed(ctx)[i]
      /\ Fed(ctx')[FedLen(ctx) + 1] = Zero
  BY <1>1, ByteFacts, PaddingAbsorbs
<1>3. /\ bitLen + 1 <= FedLen(ctx)
      /\ FedLen(ctx) + LenField <= Spec512!PaddedLen(bitLen)
      /\ \A i \in 1..bitLen : Fed(ctx)[i] = MsgByte(i)
      /\ Fed(ctx)[bitLen + 1] = End
      /\ \A i \in (bitLen + 2)..FedLen(ctx) : Fed(ctx)[i] = Zero
  BY <1>1 DEF FedIsPadded
<1>4. FedLen(ctx') + LenField <= Spec512!PaddedLen(bitLen)
  <2>1. FedLen(ctx) + LenField # Spec512!PaddedLen(bitLen)
    BY <1>1, <1>3, LoopLeavesAtBoundary
  <2>2. PICK q \in Nat : Spec512!PaddedLen(bitLen) = q * Block
    BY <1>1, PaddedLenBounds
  <2>3. q * Block \in Nat /\ LenField \in Nat
    BY ConstantFacts
  <2>4. QED
    BY <1>2, <1>3, <2>1, <2>2, <2>3
<1>5. bitLen + 1 <= FedLen(ctx')
  BY <1>1, <1>2, <1>3
<1>6. ASSUME NEW i \in 1..bitLen PROVE Fed(ctx')[i] = MsgByte(i)
  <2>1. i \in 1..FedLen(ctx)
    BY <1>1, <1>2, <1>3
  <2>2. QED
    BY <1>2, <1>3, <2>1
<1>7. Fed(ctx')[bitLen + 1] = End
  <2>1. bitLen + 1 \in 1..FedLen(ctx)
    BY <1>1, <1>2, <1>3
  <2>2. QED
    BY <1>2, <1>3, <2>1
<1>8. ASSUME NEW i \in (bitLen + 2)..FedLen(ctx') PROVE Fed(ctx')[i] = Zero
  <2>1. CASE i = FedLen(ctx) + 1
    BY <1>2, <2>1
  <2>2. CASE i # FedLen(ctx) + 1
    <3>1. i \in 1..FedLen(ctx) /\ i \in (bitLen + 2)..FedLen(ctx)
      BY <1>1, <1>2, <2>2
    <3>2. QED
      BY <1>2, <1>3, <3>1
  <2>3. QED
    BY <2>1, <2>2
<1>9. QED
  BY <1>1, <1>2, <1>4, <1>5, <1>6, <1>7, <1>8 DEF FedIsPadded

(* Where the loop leaves, the length field completes the padded message. *)
LEMMA EndFinalizePads ==
  ASSUME CoreIInv, EndFinalize
  PROVE  digest' = Spec512!PaddedMessage(bitLen)
<1> DEFINE n     == bitLen
           h     == ctx.hashed
           lenAt == Block - LenField
           lens  == LenBytes(n)
           last  == CopyInto(ctx.buffer, lenAt, lens)
           all   == h \o last
           len   == Spec512!PaddedLen(n)
<1>1. /\ IsContext(ctx, Byte) /\ n \in Nat /\ FedIsPadded
      /\ ctx.bufLen = lenAt /\ digest' = all
  BY DEF CoreIInv, EndFinalize
<1>2. /\ Block \in Nat /\ LenField \in Nat /\ LenField > 0 /\ LenField < Block
      /\ lenAt \in Nat /\ lenAt + LenField = Block
      /\ ctx.buffer \in [1..Block -> Byte] /\ h \in Seq(Byte) /\ Len(h) \in Nat
  BY <1>1, ConstantFacts DEF IsContext
<1> HIDE DEF h, n, lenAt
<1> HIDE DEF lens
<1>3. /\ last \in [1..Block -> Byte]
      /\ \A i \in 1..lenAt : last[i] = ctx.buffer[i]
      /\ \A j \in 1..LenField : last[lenAt + j] = LenByte(n, j)
  <2>1. n \in Nat /\ ctx.buffer \in [1..Block -> Byte] /\ lenAt = Block - LenField
    BY <1>1, <1>2 DEF lenAt
  <2>2. CopyInto(ctx.buffer, lenAt, LenBytes(n)) \in [1..Block -> Byte]
    BY ONLY <2>1, LengthFieldWritten
  <2>3. \A i \in 1..lenAt : CopyInto(ctx.buffer, lenAt, LenBytes(n))[i] = ctx.buffer[i]
    BY ONLY <2>1, LengthFieldWritten
  <2>4. \A j \in 1..LenField :
          CopyInto(ctx.buffer, lenAt, LenBytes(n))[lenAt + j] = LenByte(n, j)
    BY ONLY <2>1, LengthFieldWritten
  <2>5. QED
    BY <2>2, <2>3, <2>4 DEF last, lens
<1> HIDE DEF last
<1>4. last \in Seq(Byte) /\ Len(last) = Block
  <2>1. Block \in Nat /\ last \in [1..Block -> Byte]
    BY <1>2, <1>3
  <2>2. QED
    BY <2>1
<1>5. /\ all \in Seq(Byte) /\ Len(all) = Len(h) + Block
      /\ \A i \in 1..Len(h) : all[i] = h[i]
      /\ \A i \in 1..Block : all[Len(h) + i] = last[i]
  <2>1. h \in Seq(Byte) /\ last \in Seq(Byte)
    BY <1>2, <1>4
  <2>2. /\ all \in Seq(Byte) /\ Len(all) = Len(h) + Len(last)
        /\ \A i \in 1..Len(h) : all[i] = h[i]
        /\ \A i \in 1..Len(last) : all[Len(h) + i] = last[i]
    BY <2>1, CompressAppends
  <2> HIDE DEF all
  <2>3. QED
    BY <1>4, <2>2
<1> HIDE DEF all
<1>6. /\ FedLen(ctx) = Len(h) + lenAt
      /\ \A i \in 1..Len(h) : Fed(ctx)[i] = h[i]
      /\ \A i \in 1..lenAt : Fed(ctx)[Len(h) + i] = ctx.buffer[i]
  BY <1>1, FedBytes DEF h
<1>7. /\ n + 1 <= FedLen(ctx) /\ FedLen(ctx) + LenField <= len
      /\ \A i \in 1..n : Fed(ctx)[i] = MsgByte(i)
      /\ Fed(ctx)[n + 1] = End
      /\ \A i \in (n + 2)..FedLen(ctx) : Fed(ctx)[i] = Zero
  BY <1>1 DEF FedIsPadded, n
<1>8. len = FedLen(ctx) + LenField
  BY <1>1, <1>7, LoopLeavesAtBoundary DEF lenAt, n
<1> HIDE DEF len
<1>9. ASSUME NEW i \in 1..FedLen(ctx) PROVE all[i] = Fed(ctx)[i]
  <2>1. CASE i <= Len(h)
    <3>1. i \in 1..Len(h)
      BY <2>1
    <3>2. QED
      BY <1>5, <1>6, <3>1
  <2>2. CASE i > Len(h)
    <3>1. PICK k \in 1..lenAt : i = Len(h) + k
      <4>1. i - Len(h) \in 1..lenAt /\ i = Len(h) + (i - Len(h))
        BY <1>2, <1>6, <2>2
      <4>2. QED
        BY <4>1
    <3>2. k \in 1..Block
      BY <1>2
    <3>3. QED
      BY <1>3, <1>5, <1>6, <3>1, <3>2
  <2>3. QED
    BY <1>2, <2>1, <2>2
<1>10. ASSUME NEW i \in 1..len
       PROVE  all[i] = IF i <= n THEN MsgByte(i)
                       ELSE IF i = n + 1 THEN End
                       ELSE IF i <= len - LenField THEN Zero
                       ELSE LenByte(n, i - (len - LenField))
  <2>1. FedLen(ctx) \in Nat /\ len - LenField = FedLen(ctx) /\ n \in Nat
    BY <1>1, <1>2, <1>6, <1>8
  <2>2. CASE i <= FedLen(ctx)
    <3>1. all[i] = Fed(ctx)[i]
      BY <1>9, <2>2
    <3>2. CASE i <= n
      <4>1. i \in 1..n
        BY <3>2
      <4>2. QED
        BY <1>7, <3>1, <3>2, <4>1
    <3>3. CASE i = n + 1
      BY <1>7, <2>1, <3>1, <3>3
    <3>4. CASE i > n + 1
      <4>1. i \in (n + 2)..FedLen(ctx) /\ ~(i <= n) /\ i # n + 1
        BY <2>1, <2>2, <3>4
      <4>2. QED
        BY <1>7, <2>1, <2>2, <3>1, <4>1
    <3>5. QED
      BY <2>1, <3>2, <3>3, <3>4
  <2>3. CASE i > FedLen(ctx)
    <3>1. PICK j \in 1..LenField : i = FedLen(ctx) + j
      <4>1. i - FedLen(ctx) \in 1..LenField
            /\ i = FedLen(ctx) + (i - FedLen(ctx))
        <5>1. /\ i \in Int /\ i <= FedLen(ctx) + LenField
              /\ FedLen(ctx) \in Nat /\ LenField \in Nat
          BY <1>2, <1>8, <2>1
        <5>2. QED
          BY <2>3, <5>1
      <4>2. QED
        BY <4>1
    <3>2. lenAt + j \in 1..Block /\ Len(h) + (lenAt + j) = i
      BY <1>2, <1>6, <3>1
    <3>3. all[i] = LenByte(n, j)
      BY <1>3, <1>5, <3>2
    <3>4. ~(i <= n) /\ i # n + 1 /\ ~(i <= len - LenField)
          /\ i - (len - LenField) = j
      BY <1>7, <2>1, <2>3, <3>1
    <3>5. QED
      BY <3>3, <3>4
  <2>4. QED
    BY <2>1, <2>2, <2>3
<1>11. all = [i \in 1..len |-> all[i]]
  <2>1. Len(all) = len
    <3>1. /\ Len(all) = Len(h) + Block /\ len = Len(h) + lenAt + LenField
          /\ Block = lenAt + LenField
      BY <1>2, <1>5, <1>6, <1>8
    <3>2. Len(h) \in Nat /\ lenAt \in Nat /\ LenField \in Nat
      BY <1>2
    <3>3. QED
      BY <3>1, <3>2
  <2>2. QED
    BY <1>5, <2>1
<1>12. Spec512!PaddedMessage(n) =
         [i \in 1..len |-> IF i <= n THEN MsgByte(i)
                           ELSE IF i = n + 1 THEN End
                           ELSE IF i <= len - LenField THEN Zero
                           ELSE LenByte(n, i - (len - LenField))]
  BY DEF Spec512!PaddedMessage, Spec512!MsgByte, Spec512!End, Spec512!ZeroByte,
         Spec512!LenByte, MsgByte, End, Zero, LenByte, len
<1>13. all = Spec512!PaddedMessage(n)
  <2>1. [i \in 1..len |-> all[i]] =
        [i \in 1..len |-> IF i <= n THEN MsgByte(i)
                          ELSE IF i = n + 1 THEN End
                          ELSE IF i <= len - LenField THEN Zero
                          ELSE LenByte(n, i - (len - LenField))]
    BY <1>10
  <2>2. QED
    BY <1>11, <1>12, <2>1
<1>14. QED
  BY <1>1, <1>13 DEF n

LEMMA InitCoreIInv == Init => CoreIInv
BY InitAbsorbed DEF Init, Absorbed, CoreIInv

LEMMA CoreNextCoreIInv == CoreIInv /\ [CoreNext]_vars => CoreIInv'
<1> SUFFICES ASSUME CoreIInv, [CoreNext]_vars PROVE CoreIInv'
  OBVIOUS
<1>1. ASSUME NEW n \in 0..(MaxLen - ctx.totalLen), CoreUpdate(n)
      PROVE  CoreIInv'
  <2>1. /\ phase = "absorbing" /\ phase' = phase /\ bitLen' = bitLen
        /\ digest' = digest /\ Update(n)
    BY <1>1 DEF CoreUpdate, Update
  <2>2. Absorbed
    BY <2>1 DEF CoreIInv, Absorbed
  <2>3. n \in Nat
    <3>1. ctx.totalLen \in Nat
      BY <2>2, FedLenIsTotal
    <3>2. QED
      BY <3>1, MaxLenAssumption
  <2>4. Absorbed'
    BY <2>1, <2>2, <2>3, UpdateAbsorbs
  <2>5. QED
    BY <2>1, <2>4 DEF CoreIInv, Absorbed
<1>2. ASSUME BeginFinalize PROVE CoreIInv'
  <2>1. IsContext(ctx', Byte) /\ FedIsPadded'
    BY <1>2, BeginFinalizePads
  <2>2. ctx.totalLen \in Nat
    BY DEF CoreIInv, IsContext
  <2>3. phase = "absorbing" /\ phase' = "padding" /\ bitLen' = ctx.totalLen
        /\ digest' = digest
    BY <1>2 DEF BeginFinalize
  <2>4. QED
    BY <2>1, <2>2, <2>3 DEF CoreIInv
<1>3. ASSUME PadZero PROVE CoreIInv'
  <2>1. IsContext(ctx', Byte) /\ FedIsPadded'
    BY <1>3, PadZeroPads
  <2>2. phase = "padding" /\ phase' = phase /\ bitLen' = bitLen /\ digest' = digest
    BY <1>3 DEF PadZero
  <2>3. QED
    BY <2>1, <2>2 DEF CoreIInv
<1>4. ASSUME EndFinalize PROVE CoreIInv'
  BY <1>4 DEF EndFinalize, CoreIInv
<1>5. ASSUME UNCHANGED vars PROVE CoreIInv'
  BY <1>5 DEF vars, CoreIInv, HoldsMessage, FedIsPadded
<1>6. QED
  BY <1>1, <1>2, <1>3, <1>4, <1>5 DEF CoreNext

(* Sha512Core implements the same specification: feeding the padding to update
   a byte at a time stops at the one place where the standard's padding ends,
   and the length field counts the message alone (Sha512Core::finalize). *)
THEOREM Sha512CoreRefines == CoreSpec => ImplementsHashSpec
<1>1. CoreSpec => []CoreIInv
  BY InitCoreIInv, CoreNextCoreIInv, PTL DEF CoreSpec
<1>2. Init => Spec512!SpecInit
  BY DEF Init, NewContext, Spec512!SpecInit, MessageLen
<1>3. CoreIInv /\ [CoreNext]_vars => [Spec512!SpecNext]_(Spec512!specVars)
  <2> SUFFICES ASSUME CoreIInv, [CoreNext]_vars
               PROVE  [Spec512!SpecNext]_(Spec512!specVars)
    OBVIOUS
  <2>1. ASSUME NEW n \in 0..(MaxLen - ctx.totalLen), CoreUpdate(n)
        PROVE  Spec512!SpecUpdate
    <3>1. Absorbed /\ digest = <<>> /\ Update(n)
      BY <2>1 DEF CoreIInv, Absorbed, CoreUpdate, Update
    <3>2. QED
      BY <3>1, UpdateRefines
  <2>2. ASSUME BeginFinalize PROVE UNCHANGED Spec512!specVars
    BY <2>2 DEF BeginFinalize, MessageLen, Spec512!specVars
  <2>3. ASSUME PadZero PROVE UNCHANGED Spec512!specVars
    BY <2>3 DEF PadZero, MessageLen, Spec512!specVars
  <2>4. ASSUME EndFinalize PROVE Spec512!SpecFinalize
    <3>1. digest' = Spec512!PaddedMessage(bitLen)
      BY <2>4, EndFinalizePads
    <3>2. MessageLen = bitLen /\ MessageLen' = bitLen /\ digest = <<>>
      BY <2>4 DEF EndFinalize, MessageLen, CoreIInv
    <3>3. QED
      BY <3>1, <3>2 DEF Spec512!SpecFinalize
  <2>5. ASSUME UNCHANGED vars PROVE UNCHANGED Spec512!specVars
    BY <2>5 DEF vars, Spec512!specVars, MessageLen
  <2>6. QED
    BY <2>1, <2>2, <2>3, <2>4, <2>5 DEF CoreNext, Spec512!SpecNext
<1>4. QED
  BY <1>1, <1>2, <1>3, PTL
     DEF CoreSpec, ImplementsHashSpec, Spec512!HashSpecification

-------------------------------------------------------------------------------
(* The Keccak sponge. *)

Token   == ({"msg"} \X Nat) \cup {<<"ds", 0>>, <<"x80", 0>>}
Lane(n) == [0..(n - 1) -> SUBSET Token]

(* The b-th block of a message, where the message fills it. *)
FullBlock(rate, b) == [i \in 0..(rate - 1) |-> Sponge!MsgByte((b - 1) * rate + i + 1)]

SpongeTyped ==
  /\ st \in [blocks : Seq(Lane(st.rate)), lane : Lane(st.rate), rate : Rates,
             pos : 0..st.rate, squeezing : BOOLEAN]
  /\ log \in [call : {"none", "absorb", "squeeze"}, todo : Nat, fed : Nat,
              got : Seq(Nat \X Nat \X SUBSET Token)]
  /\ log.call # "none" => log.todo > 0

(* Absorbing, the blocks are full and the open one is filled up to pos. *)
Absorbing ==
  /\ st.pos < st.rate
  /\ log.call # "squeeze"
  /\ log.fed = st.rate * Len(st.blocks) + st.pos
  /\ \A b \in 1..Len(st.blocks) : st.blocks[b] = FullBlock(st.rate, b)
  /\ st.lane = [i \in 0..(st.rate - 1) |->
       IF i < st.pos THEN Sponge!MsgByte(st.rate * Len(st.blocks) + i + 1) ELSE {}]
  /\ log.got = <<>>

(* Squeezing, whole blocks were squeezed after each of the permutations behind
   the first one, and pos bytes after the last one. *)
Squeezing ==
  LET full == log.fed \div st.rate
      more == Len(st.blocks) - full - 1
  IN  /\ log.call # "absorb"
      /\ more \in Nat
      /\ \A b \in 1..full : st.blocks[b] = FullBlock(st.rate, b)
      /\ st.blocks[full + 1] = Sponge!PadBlock(st.rate, log.fed, full + 1)
      /\ \A b \in (full + 2)..Len(st.blocks) : st.blocks[b] = Sponge!Blank(st.rate)
      /\ st.lane = Sponge!Blank(st.rate)
      /\ Len(log.got) = st.rate * more + st.pos
      /\ Sponge!OutputIsOneStream

SpongeIInv == /\ SpongeTyped
              /\ IF st.squeezing THEN Squeezing ELSE Absorbing

State(b, l, r, p, q) ==
  [blocks |-> b, lane |-> l, rate |-> r, pos |-> p, squeezing |-> q]

SpongeConstants == Rates \subseteq Nat \ {0}

LEMMA AppendFacts ==
  ASSUME NEW T, NEW s \in Seq(T), NEW x \in T
  PROVE  /\ Append(s, x) \in Seq(T) /\ Len(Append(s, x)) = Len(s) + 1
         /\ Append(s, x)[Len(s) + 1] = x
         /\ \A i \in 1..Len(s) : Append(s, x)[i] = s[i]
  OBVIOUS

(* A byte of the message is a set of tokens. *)
LEMMA MsgIsLane == \A i \in Nat : Sponge!MsgByte(i) \in SUBSET Token
  BY DEF Sponge!MsgByte, Token

(* A new sponge has taken nothing. *)
LEMMA SpongeInitial ==
  ASSUME SpongeConstants, Sponge!Init
  PROVE  SpongeIInv
<1>1. PICK rate \in Rates :
        st = [blocks |-> <<>>, lane |-> Sponge!Blank(rate), rate |-> rate,
              pos |-> 0, squeezing |-> FALSE]
  BY DEF Sponge!Init
<1>2. log = [call |-> "none", todo |-> 0, fed |-> 0, got |-> <<>>]
  BY DEF Sponge!Init
<1>3. rate \in Nat /\ rate > 0
  BY DEF SpongeConstants
<1>4. Sponge!Blank(rate) \in Lane(rate)
  BY DEF Sponge!Blank, Lane
<1>5. SpongeTyped
  BY <1>1, <1>2, <1>3, <1>4 DEF SpongeTyped
<1>6. Absorbing
  <2>1. rate * 0 + 0 = 0
    BY <1>3
  <2> QED
    BY <1>1, <1>2, <1>3, <2>1 DEF Absorbing, Sponge!Blank
<1> QED
  BY <1>1, <1>5, <1>6 DEF SpongeIInv

(* A chunk that is absorbed fills the open block. *)
LEMMA AbsorbChunkStep ==
  ASSUME SpongeConstants, SpongeIInv, Sponge!AbsorbChunk
  PROVE  SpongeIInv'
<1> DEFINE rate == st.rate
           pos  == st.pos
           len  == Len(st.blocks)
           take == Sponge!Lesser(rate - pos, log.todo)
           rest == log.todo - take
           piece == [j \in 1..take |-> Sponge!MsgByte(log.fed + j)]
           lane == [i \in 0..(rate - 1) |->
                      IF i < pos + take THEN Sponge!MsgByte(rate * len + i + 1) ELSE {}]
           added == [blocks |-> st.blocks, lane |-> lane, rate |-> rate,
                     pos |-> pos + take, squeezing |-> st.squeezing]
<1>1. /\ log.call = "absorb" /\ log.todo \in Nat /\ log.todo > 0 /\ ~ st.squeezing
      /\ rate \in Nat /\ rate > 0 /\ pos \in 0..(rate - 1) /\ len \in Nat
      /\ log.fed = rate * len + pos /\ log.fed \in Nat
  BY DEF SpongeIInv, SpongeTyped, Absorbing, Squeezing, Sponge!AbsorbChunk, SpongeConstants
<1>2. take \in 1..(rate - pos) /\ rest \in Nat /\ rest = log.todo - take
  BY <1>1 DEF Sponge!Lesser
<1>3. Sponge!Advance(Sponge!AddBytes(st, piece, pos), take) = added
  <2>1. st.lane = [i \in 0..(rate - 1) |->
           IF i < pos THEN Sponge!MsgByte(rate * len + i + 1) ELSE {}]
    BY <1>1 DEF SpongeIInv, Absorbing
  <2>2. ASSUME NEW i \in 0..(rate - 1)
        PROVE  (IF pos <= i /\ i < pos + Len(piece)
                THEN Sponge!Xor(st.lane[i], piece[i - pos + 1]) ELSE st.lane[i]) = lane[i]
    <3>1. Len(piece) = take
      BY <1>2
    <3>2. CASE i < pos
      BY <1>1, <1>2, <2>1, <3>1, <3>2
    <3>3. CASE pos <= i /\ i < pos + take
      <4>1. st.lane[i] = {}
        BY <1>1, <2>1, <3>3
      <4>2. i - pos + 1 \in 1..take
        <5>1. pos \in Nat /\ take \in Nat /\ i \in Int
          BY <1>1, <1>2
        <5> HIDE DEF pos, take
        <5> QED
          BY <3>3, <5>1
      <4>3. log.fed + (i - pos + 1) = rate * len + i + 1
        <5> DEFINE before == rate * len
        <5>1. before \in Nat
          BY <1>1, SMTT(30)
        <5>2. log.fed = before + pos /\ pos \in Nat /\ i \in Int
          BY <1>1
        <5> HIDE DEF before, pos
        <5>3. log.fed + (i - pos + 1) = before + i + 1
          BY <5>1, <5>2
        <5> QED
          BY <5>3 DEF before
      <4>4. piece[i - pos + 1] = Sponge!MsgByte(rate * len + i + 1)
        BY <4>2, <4>3
      <4>5. Sponge!Xor({}, piece[i - pos + 1]) = piece[i - pos + 1]
        BY DEF Sponge!Xor
      <4> QED
        BY <3>1, <3>3, <4>1, <4>4, <4>5
    <3>4. CASE i >= pos + take
      <4>1. st.lane[i] = {}
        BY <1>1, <1>2, <2>1, <3>4
      <4> QED
        BY <1>1, <1>2, <3>1, <3>4, <4>1
    <3> QED
      BY <1>1, <1>2, <3>2, <3>3, <3>4
  <2>3. DOMAIN st.lane = 0..(rate - 1)
    BY <2>1
  <2> HIDE DEF piece, lane, take
  <2>4. Sponge!AddBytes(st, piece, pos) = [st EXCEPT !.lane = lane]
    BY <2>2, <2>3 DEF Sponge!AddBytes, lane
  <2>5. st = [blocks |-> st.blocks, lane |-> st.lane, rate |-> rate, pos |-> pos,
              squeezing |-> st.squeezing]
    BY DEF SpongeIInv, SpongeTyped
  <2>6. [st EXCEPT !.lane = lane]
          = [blocks |-> st.blocks, lane |-> lane, rate |-> rate, pos |-> pos,
             squeezing |-> st.squeezing]
    BY <2>5
  <2>7. Sponge!Advance([blocks |-> st.blocks, lane |-> lane, rate |-> rate, pos |-> pos,
                        squeezing |-> st.squeezing], take) = added
    BY DEF Sponge!Advance
  <2> HIDE DEF added
  <2> QED
    BY <2>4, <2>6, <2>7
<1>4. /\ st' = Sponge!WhenFull(added)
      /\ log' = [log EXCEPT !.call = IF rest = 0 THEN "none" ELSE "absorb",
                            !.todo = rest, !.fed = @ + take]
  BY <1>3 DEF Sponge!AbsorbChunk
<1>5. lane \in Lane(rate)
  <2>1. ASSUME NEW i \in 0..(rate - 1)
        PROVE  (IF i < pos + take THEN Sponge!MsgByte(rate * len + i + 1) ELSE {})
                 \in SUBSET Token
    <3>1. rate * len + i + 1 \in Nat
      BY <1>1, SMTT(30)
    <3>2. Sponge!MsgByte(rate * len + i + 1) \in SUBSET Token
      BY <3>1, MsgIsLane
    <3> QED
      BY <3>2
  <2> QED
    BY <2>1 DEF Lane
<1>6. st.blocks \in Seq(Lane(rate))
  BY DEF SpongeIInv, SpongeTyped
<1>7. /\ log' \in [call : {"none", "absorb", "squeeze"}, todo : Nat, fed : Nat,
                   got : Seq(Nat \X Nat \X SUBSET Token)]
      /\ log'.call # "none" => log'.todo > 0
      /\ log'.call # "squeeze" /\ log'.got = log.got /\ log'.fed = log.fed + take
  <2> HIDE DEF take, rest
  <2>1. log = [call |-> log.call, todo |-> log.todo, fed |-> log.fed, got |-> log.got]
        /\ log.got \in Seq(Nat \X Nat \X SUBSET Token)
    BY DEF SpongeIInv, SpongeTyped
  <2>2. log' = [call |-> IF rest = 0 THEN "none" ELSE "absorb", todo |-> rest,
                fed |-> log.fed + take, got |-> log.got]
    BY <1>4, <2>1
  <2> QED
    BY <1>1, <1>2, <2>1, <2>2
<1> HIDE DEF take, rest
<1>8. log.got = <<>> /\ \A b \in 1..len : st.blocks[b] = FullBlock(rate, b)
  BY <1>1 DEF SpongeIInv, Absorbing
<1>9. CASE pos + take < rate
  <2>1. st' = added
    BY <1>1, <1>2, <1>4, <1>6, <1>9 DEF Sponge!WhenFull
  <2>2. SpongeTyped'
    BY <1>1, <1>2, <1>5, <1>6, <1>7, <2>1, <1>9, SMTT(30) DEF SpongeTyped, SpongeIInv
  <2>3. log.fed + take = rate * len + (pos + take)
    BY <1>1, <1>2
  <2> HIDE DEF lane
  <2>4. Absorbing'
    BY <1>6, <1>7, <1>8, <1>9, <2>1, <2>3 DEF Absorbing, lane
  <2>5. ~ st'.squeezing
    BY <1>1, <2>1
  <2> QED
    BY <2>2, <2>4, <2>5 DEF SpongeIInv
<1>10. CASE pos + take = rate
  <2>1. lane = FullBlock(rate, len + 1)
    <3>1. (len + 1 - 1) * rate = rate * len
      BY <1>1, SMTT(30)
    <3>2. \A i \in 0..(rate - 1) : i < pos + take
      BY <1>1, <1>10
    <3>3. FullBlock(rate, len + 1) = [i \in 0..(rate - 1) |-> Sponge!MsgByte(rate * len + i + 1)]
      BY <3>1 DEF FullBlock
    <3> QED
      BY <3>2, <3>3
  <2> HIDE DEF lane
  <2>2. st' = [blocks |-> Append(st.blocks, lane), lane |-> Sponge!Blank(rate),
               rate |-> rate, pos |-> 0, squeezing |-> st.squeezing]
    BY <1>1, <1>2, <1>4, <1>6, <1>10 DEF Sponge!WhenFull, Sponge!Rewind, Sponge!Permute
  <2>3. Append(st.blocks, lane) \in Seq(Lane(rate)) /\ Sponge!Blank(rate) \in Lane(rate)
    BY <1>5, <1>6 DEF Sponge!Blank, Lane
  <2>4. /\ Len(Append(st.blocks, lane)) = len + 1
        /\ \A b \in 1..(len + 1) : Append(st.blocks, lane)[b] = FullBlock(rate, b)
    <3> DEFINE T == Lane(rate)
               s == st.blocks
    <3>1. s \in Seq(T) /\ lane \in T /\ len = Len(s) /\ len \in Nat
      BY <1>5, <1>6
    <3> HIDE DEF T
    <3>2. /\ Len(Append(s, lane)) = Len(s) + 1
          /\ Append(s, lane)[Len(s) + 1] = lane
          /\ \A i \in 1..Len(s) : Append(s, lane)[i] = s[i]
      BY <3>1, AppendFacts
    <3>3. ASSUME NEW b \in 1..(len + 1) PROVE Append(s, lane)[b] = FullBlock(rate, b)
      <4>1. CASE b = len + 1
        BY <2>1, <3>2, <4>1
      <4>2. CASE b # len + 1
        <5>1. b \in 1..len
          BY <3>1, <4>2
        <5> QED
          BY <1>8, <3>2, <5>1
      <4> QED
        BY <4>1, <4>2
    <3> QED
      BY <3>2, <3>3
  <2>5. SpongeTyped'
    BY <1>1, <1>7, <2>2, <2>3 DEF SpongeTyped, SpongeIInv
  <2>6. log.fed + take = rate * (len + 1) + 0
    BY <1>1, <1>2, <1>10
  <2>7. Sponge!Blank(rate)
          = [i \in 0..(rate - 1) |->
               IF i < 0 THEN Sponge!MsgByte(rate * (len + 1) + i + 1) ELSE {}]
    BY <1>1 DEF Sponge!Blank
  <2>8. Absorbing'
    BY <1>1, <1>7, <1>8, <2>2, <2>4, <2>6, <2>7 DEF Absorbing
  <2>9. ~ st'.squeezing
    BY <1>1, <2>2
  <2> QED
    BY <2>5, <2>8, <2>9 DEF SpongeIInv
<1>11. pos + take < rate \/ pos + take = rate
  <2>1. rate \in Nat /\ pos \in Nat /\ take \in Nat /\ take <= rate - pos
    BY <1>1, <1>2
  <2> HIDE DEF rate, pos
  <2> QED
    BY <2>1
<1> QED
  BY <1>9, <1>10, <1>11

(* A call of absorb takes nothing yet. *)
LEMMA CallAbsorbStep ==
  ASSUME SpongeConstants, SpongeIInv, NEW n \in Nat \ {0}, Sponge!CallAbsorb(n)
  PROVE  SpongeIInv'
<1>1. log.call = "none" /\ ~ st.squeezing /\ st' = st
      /\ log' = [log EXCEPT !.call = "absorb", !.todo = n]
  BY DEF Sponge!CallAbsorb
<1>2. log = [call |-> log.call, todo |-> log.todo, fed |-> log.fed, got |-> log.got]
      /\ log.got \in Seq(Nat \X Nat \X SUBSET Token) /\ log.fed \in Nat
  BY DEF SpongeIInv, SpongeTyped
<1>3. log' = [call |-> "absorb", todo |-> n, fed |-> log.fed, got |-> log.got]
  BY <1>1, <1>2
<1>4. SpongeTyped'
  BY <1>1, <1>2, <1>3 DEF SpongeTyped, SpongeIInv
<1>5. Absorbing'
  BY <1>1, <1>3 DEF SpongeIInv, Absorbing
<1> QED
  BY <1>1, <1>4, <1>5 DEF SpongeIInv

(* The message so far in whole blocks and the position in the open one. *)
LEMMA AbsorbedLength ==
  ASSUME SpongeConstants, SpongeTyped, Absorbing
  PROVE  /\ log.fed \div st.rate = Len(st.blocks) /\ log.fed % st.rate = st.pos
         /\ st.rate \in Nat /\ st.rate > 0 /\ st.pos \in 0..(st.rate - 1)
         /\ Len(st.blocks) \in Nat /\ log.fed \in Nat
<1>1. /\ st.rate \in Nat /\ st.rate > 0 /\ st.pos \in 0..(st.rate - 1)
      /\ Len(st.blocks) \in Nat /\ log.fed \in Nat
      /\ log.fed = st.rate * Len(st.blocks) + st.pos
  <2>1. st.rate \in Rates /\ st.pos \in 0..st.rate /\ log.fed \in Nat
        /\ st.blocks \in Seq(Lane(st.rate))
    BY DEF SpongeTyped
  <2>2. st.pos < st.rate /\ log.fed = st.rate * Len(st.blocks) + st.pos
    BY DEF Absorbing
  <2>3. st.rate \in Nat /\ st.rate > 0
    <3>1. st.rate \in Rates
      BY <2>1
    <3>2. st.rate \in Nat \ {0}
      BY <3>1, Zenon DEF SpongeConstants
    <3> QED
      BY <3>2
  <2>4. Len(st.blocks) \in Nat
    BY <2>1
  <2>5. st.pos \in 0..(st.rate - 1)
    BY <2>1, <2>2, <2>3
  <2> QED
    BY <2>1, <2>2, <2>3, <2>4, <2>5
<1> DEFINE m == st.rate
           d == Len(st.blocks)
           r == st.pos
           x == log.fed
<1>2. m \in Nat /\ m > 0 /\ d \in Int /\ r \in 0..(m - 1) /\ x \in Int /\ x = m * d + r
  BY <1>1
<1> HIDE DEF m, d, r, x
<1>3. x \div m = d /\ x % m = r
  BY <1>2, DivisionUnique
<1> QED
  BY <1>1, <1>3 DEF m, d, r, x

(* A full block of the message is one of the padded message. *)
LEMMA PadBlockFull ==
  ASSUME NEW rate \in Nat, NEW n \in Nat, NEW b \in Nat, b > 0, b * rate <= n
  PROVE  Sponge!PadBlock(rate, n, b) = FullBlock(rate, b)
<1>1. ASSUME NEW i \in 0..(rate - 1) PROVE (b - 1) * rate + i < n
  <2>1. (b - 1) * rate = b * rate - rate /\ b * rate \in Nat
    BY SMTT(30)
  <2> QED
    BY <2>1
<1> QED
  BY <1>1 DEF Sponge!PadBlock, FullBlock

(* A state with other lanes. *)
LEMMA StateLane ==
  ASSUME NEW b, NEW l, NEW r, NEW p, NEW q, NEW lane
  PROVE  [State(b, l, r, p, q) EXCEPT !.lane = lane] = State(b, lane, r, p, q)
BY DEF State

(* A state that starts to squeeze. *)
LEMMA StateSqueezing ==
  ASSUME NEW b, NEW l, NEW r, NEW p, NEW q, NEW q1
  PROVE  [State(b, l, r, p, q) EXCEPT !.squeezing = q1] = State(b, l, r, p, q1)
BY DEF State

(* A state that is permuted. *)
LEMMA StatePermute ==
  ASSUME NEW b, NEW l, NEW r, NEW p, NEW q
  PROVE  Sponge!Permute(State(b, l, r, p, q))
           = State(Append(b, l), Sponge!Blank(r), r, p, q)
<1> DEFINE c == State(b, l, r, p, q)
           x == Append(b, l)
           y == Sponge!Blank(r)
           d == [c EXCEPT !.blocks = x]
<1>1. Sponge!Permute(c) = [c EXCEPT !.blocks = x, !.lane = y]
  BY DEF Sponge!Permute, State
<1> HIDE DEF x, y
<1>2. [c EXCEPT !.blocks = x, !.lane = y] = [d EXCEPT !.lane = y]
  OBVIOUS
<1>3. d = State(x, l, r, p, q)
  BY DEF State
<1> HIDE DEF c, d
<1>4. [d EXCEPT !.lane = y] = State(x, y, r, p, q)
  BY <1>3, StateLane
<1> QED
  BY <1>1, <1>2, <1>4 DEF c, x, y

(* A state whose position is set back. *)
LEMMA StateRewind ==
  ASSUME NEW b, NEW l, NEW r, NEW p, NEW q
  PROVE  Sponge!Rewind(State(b, l, r, p, q)) = State(b, l, r, 0, q)
BY DEF State, Sponge!Rewind

(* A state whose position moves on. *)
LEMMA StateAdvance ==
  ASSUME NEW b, NEW l, NEW r, NEW p, NEW q, NEW n
  PROVE  Sponge!Advance(State(b, l, r, p, q), n) = State(b, l, r, p + n, q)
BY DEF State, Sponge!Advance

(* A state of parts of the right types is one. *)
LEMMA StateTyped ==
  ASSUME NEW r \in Rates, NEW b \in Seq(Lane(r)), NEW l \in Lane(r), NEW p \in 0..r,
         NEW q \in BOOLEAN
  PROVE  State(b, l, r, p, q) \in [blocks : Seq(Lane(r)), lane : Lane(r), rate : Rates,
                                   pos : 0..r, squeezing : BOOLEAN]
BY DEF State

(* A byte XORed into a place where nothing was. *)
LEMMA AddOneByte ==
  ASSUME NEW b, NEW l, NEW p, NEW q, NEW rate \in Nat, NEW at \in 0..(rate - 1), NEW x,
         DOMAIN l = 0..(rate - 1), l[at] = {},
         NEW lane, lane = [i \in 0..(rate - 1) |-> IF i = at THEN x ELSE l[i]]
  PROVE  Sponge!AddBytes(State(b, l, rate, p, q), <<x>>, at) = State(b, lane, rate, p, q)
<1> DEFINE s == <<x>>
           c == State(b, l, rate, p, q)
<1>1. Len(s) = 1 /\ s[1] = x
  OBVIOUS
<1> HIDE DEF s
<1>2. ASSUME NEW i \in 0..(rate - 1)
      PROVE  (IF at <= i /\ i < at + Len(s)
              THEN Sponge!Xor(l[i], s[i - at + 1]) ELSE l[i]) = lane[i]
  <2>1. CASE i = at
    <3>1. at <= i /\ i < at + Len(s) /\ i - at + 1 = 1
      BY <1>1, <2>1
    <3>2. Sponge!Xor({}, x) = x
      BY DEF Sponge!Xor
    <3> QED
      BY <1>1, <2>1, <3>1, <3>2
  <2>2. CASE i # at
    BY <1>1, <2>2
  <2> QED
    BY <2>1, <2>2
<1>3. c.lane = l
  BY DEF State
<1> HIDE DEF c
<1>4. Sponge!AddBytes(c, s, at) = [c EXCEPT !.lane = lane]
  BY <1>2, <1>3 DEF Sponge!AddBytes
<1>5. [c EXCEPT !.lane = lane] = State(b, lane, rate, p, q)
  BY StateLane, SMTT(30) DEF c
<1> QED
  BY <1>4, <1>5 DEF s, c

(* What the padding makes of the open block. *)
LEMMA PaddedLane ==
  ASSUME SpongeConstants, SpongeTyped, Absorbing
  PROVE  Sponge!Padded(st)
           = State(st.blocks, Sponge!PadBlock(st.rate, log.fed, Len(st.blocks) + 1),
                   st.rate, st.pos, st.squeezing)
<1> DEFINE rate == st.rate
           pos  == st.pos
           len  == Len(st.blocks)
           base == rate * len
           full == log.fed \div rate
           ds   == Sponge!DomainSep
           last == Sponge!LastBit
           old  == st.lane
           pad  == Sponge!PadBlock(rate, log.fed, len + 1)
           New(i) == IF i < pos THEN Sponge!MsgByte(base + i + 1)
                     ELSE (IF i = pos THEN ds ELSE {}) \cup (IF i = rate - 1 THEN last ELSE {})
           Old(i) == IF i < pos THEN Sponge!MsgByte(base + i + 1) ELSE {}
<1>1. /\ full = len /\ log.fed = base + pos /\ log.fed \in Nat
      /\ rate \in Nat /\ rate > 0 /\ pos \in 0..(rate - 1) /\ len \in Nat
  BY AbsorbedLength DEF Absorbing
<1>2. base \in Nat /\ ((len + 1) - 1) * rate = base
  BY <1>1, SMTT(30)
<1>3. pad = [i \in 0..(rate - 1) |->
               IF base + i < log.fed THEN Sponge!MsgByte(base + i + 1)
               ELSE (IF base + i = log.fed THEN ds ELSE {})
                      \cup (IF len + 1 = full + 1 /\ i = rate - 1 THEN last ELSE {})]
  <2> HIDE DEF base, full, len
  <2>1. pad = [i \in 0..(rate - 1) |->
                 LET at == base + i
                 IN  IF at < log.fed THEN Sponge!MsgByte(at + 1)
                     ELSE (IF at = log.fed THEN ds ELSE {})
                            \cup (IF len + 1 = full + 1 /\ i = rate - 1 THEN last ELSE {})]
    BY <1>2 DEF pad, Sponge!PadBlock, full
  <2> QED
    BY <2>1
<1>4. st.lane = [i \in 0..(rate - 1) |-> Old(i)]
  BY DEF Absorbing
<1>5. st = State(st.blocks, old, rate, pos, st.squeezing)
  BY DEF SpongeTyped, State
<1>6. Sponge!Padded(st)
        = IF pos = rate - 1
          THEN Sponge!AddBytes(st, <<ds \cup last>>, pos)
          ELSE Sponge!AddBytes(Sponge!AddBytes(st, <<ds>>, pos), <<last>>, rate - 1)
  BY DEF Sponge!Padded
<1> HIDE DEF base, full, pad, ds, last
<1>7. \A i \in 0..(rate - 1) : pad[i] = New(i) /\ old[i] = Old(i)
  <2> TAKE i \in 0..(rate - 1)
  <2> HIDE DEF rate, pos, len
  <2>1. base + i < log.fed <=> i < pos
    BY <1>1, <1>2
  <2>2. base + i = log.fed <=> i = pos
    BY <1>1, <1>2
  <2>3. pad[i] = IF base + i < log.fed THEN Sponge!MsgByte(base + i + 1)
                 ELSE (IF base + i = log.fed THEN ds ELSE {})
                        \cup (IF len + 1 = full + 1 /\ i = rate - 1 THEN last ELSE {})
    BY <1>3, Zenon
  <2>4. pad[i] = New(i)
    BY <1>1, <2>1, <2>2, <2>3
  <2> QED
    BY <1>4, <2>4
<1>8. DOMAIN pad = 0..(rate - 1) /\ DOMAIN old = 0..(rate - 1) /\ old[pos] = {}
  BY <1>1, <1>3, <1>4
<1> HIDE DEF rate, pos, len, old
<1>9. CASE pos = rate - 1
  <2> DEFINE x == ds \cup last
  <2>1. \A i \in 0..(rate - 1) : pad[i] = IF i = pos THEN x ELSE old[i]
    BY <1>1, <1>7, <1>9
  <2>2. pad = [i \in 0..(rate - 1) |-> IF i = pos THEN x ELSE old[i]]
    <3>1. pad = [i \in 0..(rate - 1) |-> pad[i]]
      BY <1>3
    <3> QED
      BY <2>1, <3>1
  <2> HIDE DEF x
  <2>3. Sponge!AddBytes(State(st.blocks, old, rate, pos, st.squeezing), <<x>>, pos)
          = State(st.blocks, pad, rate, pos, st.squeezing)
    <3>1. rate \in Nat /\ pos \in 0..(rate - 1)
      BY <1>1
    <3> HIDE DEF pad
    <3> QED
      BY <1>8, <2>2, <3>1, AddOneByte
  <2> QED
    BY <1>5, <1>6, <1>9, <2>3 DEF x, pad, rate, pos, len
<1>10. CASE pos # rate - 1
  <2> DEFINE mid == [i \in 0..(rate - 1) |-> IF i = pos THEN ds ELSE old[i]]
  <2>1. mid[rate - 1] = {} /\ DOMAIN mid = 0..(rate - 1) /\ rate - 1 \in 0..(rate - 1)
    <3>1. rate - 1 \in 0..(rate - 1) /\ ~ (rate - 1 < pos)
      BY <1>1
    <3>2. old[rate - 1] = {}
      BY <1>7, <3>1
    <3> QED
      BY <1>10, <3>1, <3>2
  <2>2. \A i \in 0..(rate - 1) : pad[i] = IF i = rate - 1 THEN last ELSE mid[i]
    <3> TAKE i \in 0..(rate - 1)
    <3>1. mid[i] = IF i = pos THEN ds ELSE old[i]
      OBVIOUS
    <3> HIDE DEF mid
    <3>2. pad[i] = New(i) /\ old[i] = Old(i)
      BY <1>7
    <3>3. CASE i = rate - 1
      <4>1. ~ (i < pos) /\ i # pos
        BY <1>1, <1>10, <3>3
      <4> QED
        BY <3>2, <3>3, <4>1
    <3>4. CASE i # rate - 1
      BY <1>1, <3>1, <3>2, <3>4
    <3> QED
      BY <3>3, <3>4
  <2>3. Sponge!AddBytes(State(st.blocks, old, rate, pos, st.squeezing), <<ds>>, pos)
          = State(st.blocks, mid, rate, pos, st.squeezing)
    <3> HIDE DEF mid
    <3>1. mid = [i \in 0..(rate - 1) |-> IF i = pos THEN ds ELSE old[i]]
      BY DEF mid
    <3> QED
      BY <1>1, <1>8, <3>1, AddOneByte
  <2> HIDE DEF mid
  <2>4. pad = [i \in 0..(rate - 1) |-> IF i = rate - 1 THEN last ELSE mid[i]]
    <3>1. pad = [i \in 0..(rate - 1) |-> pad[i]]
      BY <1>3
    <3> QED
      BY <2>2, <3>1
  <2>5. Sponge!AddBytes(State(st.blocks, mid, rate, pos, st.squeezing), <<last>>, rate - 1)
          = State(st.blocks, pad, rate, pos, st.squeezing)
    BY <1>1, <2>1, <2>4, AddOneByte
  <2> QED
    BY <1>5, <1>6, <1>10, <2>3, <2>5 DEF pad, rate, pos, len
<1> QED
  BY <1>9, <1>10

(* The padding ends the last block of the message. *)
LEMMA CallSqueezeStep ==
  ASSUME SpongeConstants, SpongeIInv, NEW n \in Nat, Sponge!CallSqueeze(n)
  PROVE  SpongeIInv'
<1>1. /\ log.call = "none"
      /\ log' = [log EXCEPT !.call = IF n = 0 THEN "none" ELSE "squeeze", !.todo = n]
  BY DEF Sponge!CallSqueeze
<1>2. log = [call |-> log.call, todo |-> log.todo, fed |-> log.fed, got |-> log.got]
      /\ log.got \in Seq(Nat \X Nat \X SUBSET Token) /\ log.fed \in Nat
  BY DEF SpongeIInv, SpongeTyped
<1>3. log' = [call |-> IF n = 0 THEN "none" ELSE "squeeze", todo |-> n,
              fed |-> log.fed, got |-> log.got]
  BY <1>1, <1>2
<1>4. /\ log' \in [call : {"none", "absorb", "squeeze"}, todo : Nat, fed : Nat,
                   got : Seq(Nat \X Nat \X SUBSET Token)]
      /\ log'.call # "none" => log'.todo > 0
      /\ log'.call # "absorb" /\ log'.fed = log.fed /\ log'.got = log.got
  BY <1>2, <1>3
<1>5. CASE st.squeezing
  <2>1. st' = st
    BY <1>5 DEF Sponge!CallSqueeze
  <2>2. SpongeTyped'
    BY <1>4, <2>1 DEF SpongeTyped, SpongeIInv
  <2>3. Squeezing'
    BY <1>4, <1>5, <2>1 DEF SpongeIInv, Squeezing, Sponge!OutputIsOneStream
  <2> QED
    BY <1>5, <2>1, <2>2, <2>3 DEF SpongeIInv
<1>6. CASE ~ st.squeezing
  <2> DEFINE rate == st.rate
             len  == Len(st.blocks)
             full == log.fed \div rate
             pad  == Sponge!PadBlock(rate, log.fed, len + 1)
  <2>1. SpongeTyped /\ Absorbing
    BY <1>6 DEF SpongeIInv
  <2>2. /\ full = len /\ rate \in Nat /\ rate > 0 /\ st.pos \in 0..(rate - 1)
        /\ len \in Nat /\ log.fed \in Nat
    BY <2>1, AbsorbedLength
  <2>3. pad \in Lane(rate)
    <3> DEFINE byte(i) == LET at == (len + 1 - 1) * rate + i
                          IN  IF at < log.fed THEN Sponge!MsgByte(at + 1)
                              ELSE (IF at = log.fed THEN Sponge!DomainSep ELSE {})
                                \cup (IF len + 1 = log.fed \div rate + 1 /\ i = rate - 1
                                      THEN Sponge!LastBit ELSE {})
    <3>1. ASSUME NEW i \in 0..(rate - 1)
          PROVE  LET at == ((len + 1) - 1) * rate + i
                 IN  (IF at < log.fed THEN Sponge!MsgByte(at + 1)
                      ELSE (IF at = log.fed THEN Sponge!DomainSep ELSE {})
                             \cup (IF len + 1 = log.fed \div rate + 1 /\ i = rate - 1
                                   THEN Sponge!LastBit ELSE {})) \in SUBSET Token
      <4>1. Sponge!DomainSep \in SUBSET Token /\ Sponge!LastBit \in SUBSET Token
        BY DEF Sponge!DomainSep, Sponge!LastBit, Token
      <4>2. ((len + 1) - 1) * rate + i + 1 \in Nat
        BY <2>2, SMTT(30)
      <4> HIDE DEF len, rate
      <4>3. Sponge!MsgByte(((len + 1) - 1) * rate + i + 1) \in SUBSET Token
        BY <4>2, MsgIsLane
      <4> QED
        BY <4>1, <4>3
    <3> HIDE DEF len, rate
    <3>2. pad \in [0..(rate - 1) -> SUBSET Token]
      BY <3>1 DEF Sponge!PadBlock
    <3> QED
      BY <3>2 DEF Lane
  <2> HIDE DEF pad
  <2>4. Sponge!Padded(st) = State(st.blocks, pad, rate, st.pos, st.squeezing)
    BY <2>1, PaddedLane DEF pad
  <2>5. /\ st'.blocks = Append(st.blocks, pad) /\ st'.lane = Sponge!Blank(rate)
        /\ st'.rate = rate /\ st'.pos = 0 /\ st'.squeezing = TRUE
        /\ st' = State(st'.blocks, st'.lane, st'.rate, st'.pos, st'.squeezing)
    <3> DEFINE p == Sponge!Rewind(Sponge!Permute(State(st.blocks, pad, rate, st.pos, st.squeezing)))
    <3>1. p = State(Append(st.blocks, pad), Sponge!Blank(rate), rate, 0, st.squeezing)
      BY StatePermute, StateRewind
    <3>2. st' = [p EXCEPT !.squeezing = TRUE]
      BY <1>6, <2>4 DEF Sponge!CallSqueeze
    <3> HIDE DEF p
    <3>3. \A q : [p EXCEPT !.squeezing = q]
                   = State(Append(st.blocks, pad), Sponge!Blank(rate), rate, 0, q)
      <4> TAKE q
      <4> QED
        BY <3>1, StateSqueezing
    <3>4. st' = State(Append(st.blocks, pad), Sponge!Blank(rate), rate, 0, TRUE)
      BY <3>2, <3>3, Zenon
    <3> QED
      BY <3>4 DEF State
  <2>6. st.blocks \in Seq(Lane(rate)) /\ rate \in Rates
    BY <2>1 DEF SpongeTyped
  <2>7. /\ st'.blocks \in Seq(Lane(rate)) /\ Len(st'.blocks) = len + 1
        /\ st'.blocks[len + 1] = pad
        /\ \A b \in 1..len : st'.blocks[b] = st.blocks[b]
    BY <2>2, <2>3, <2>5, <2>6
  <2>8. Sponge!Blank(rate) \in Lane(rate)
    BY DEF Sponge!Blank, Lane
  <2>9. SpongeTyped'
    <3>1. 0 \in 0..rate /\ TRUE \in BOOLEAN
      BY <2>2
    <3>2. st' \in [blocks : Seq(Lane(rate)), lane : Lane(rate), rate : Rates,
                   pos : 0..rate, squeezing : BOOLEAN]
      <4> DEFINE b == st'.blocks
      <4>1. b \in Seq(Lane(rate)) /\ rate \in Rates /\ Sponge!Blank(rate) \in Lane(rate)
        BY <2>6, <2>7, <2>8
      <4>2. st' = State(b, Sponge!Blank(rate), rate, 0, TRUE)
        BY <2>5, Zenon
      <4> HIDE DEF b, rate
      <4>3. State(b, Sponge!Blank(rate), rate, 0, TRUE)
              \in [blocks : Seq(Lane(rate)), lane : Lane(rate), rate : Rates,
                   pos : 0..rate, squeezing : BOOLEAN]
        BY <3>1, <4>1, StateTyped, Zenon
      <4> QED
        BY <4>2, <4>3, Zenon
    <3> QED
      BY <1>4, <2>5, <3>2 DEF SpongeTyped
  <2>10. Squeezing'
    <3>1. log'.fed \div st'.rate = len /\ Len(st'.blocks) - len - 1 = 0
      BY <1>4, <2>2, <2>5, <2>7
    <3>2. \A b \in 1..len : st'.blocks[b] = FullBlock(rate, b)
      BY <2>1, <2>7 DEF Absorbing
    <3>3. log'.got = <<>> /\ rate * 0 + 0 = 0
      BY <1>4, <2>1, <2>2 DEF Absorbing
    <3>4. Sponge!OutputIsOneStream'
      BY <3>3 DEF Sponge!OutputIsOneStream
    <3>5. \A b \in (len + 2)..Len(st'.blocks) : st'.blocks[b] = Sponge!Blank(rate)
      BY <2>2, <2>7
    <3>6. st'.blocks[len + 1] = Sponge!PadBlock(rate, log.fed, len + 1)
      BY <2>7 DEF pad
    <3> DEFINE b == st'.blocks
    <3>7. /\ log'.call # "absorb" /\ log'.fed = log.fed /\ log'.got = <<>>
          /\ st'.rate = rate /\ st'.pos = 0 /\ st'.lane = Sponge!Blank(rate)
          /\ len \in Nat /\ Len(b) = len + 1 /\ rate * 0 + 0 = 0
      BY <1>4, <2>2, <2>5, <2>7, <3>3
    <3> DEFINE d == log'.fed \div st'.rate
               m == Len(b) - d - 1
    <3>8. d = len /\ m = 0
      BY <3>1
    <3> HIDE DEF d, m, b, len, rate
    <3>9. /\ log'.call # "absorb" /\ m \in Nat
          /\ \A i \in 1..d : b[i] = FullBlock(st'.rate, i)
          /\ b[d + 1] = Sponge!PadBlock(st'.rate, log'.fed, d + 1)
          /\ \A i \in (d + 2)..Len(b) : b[i] = Sponge!Blank(st'.rate)
      BY <3>2, <3>5, <3>6, <3>7, <3>8 DEF b
    <3>10. /\ st'.lane = Sponge!Blank(st'.rate)
           /\ Len(log'.got) = st'.rate * m + st'.pos
      BY <3>7, <3>8
    <3> QED
      BY <3>4, <3>9, <3>10, Zenon DEF Squeezing, b, d, m
  <2> QED
    BY <2>5, <2>9, <2>10 DEF SpongeIInv
<1> QED
  BY <1>5, <1>6

(* The bytes squeezed continue the stream. *)
LEMMA StreamGoesOn ==
  ASSUME SpongeConstants, SpongeTyped, Squeezing, NEW take \in Nat,
         take <= st.rate - st.pos, NEW got,
         got = log.got \o [j \in 1..take |-> Sponge!ByteAt(st, st.pos + j - 1)]
  PROVE  /\ got \in Seq(Nat \X Nat \X SUBSET Token)
         /\ Len(got) = Len(log.got) + take
         /\ \A n \in 1..Len(got) :
              got[n] = <<log.fed \div st.rate + 1 + (n - 1) \div st.rate,
                         (n - 1) % st.rate, {}>>
<1> DEFINE rate == st.rate
           pos  == st.pos
           len  == Len(st.blocks)
           full == log.fed \div rate
           more == len - full - 1
           old  == Len(log.got)
           new  == [j \in 1..take |-> Sponge!ByteAt(st, pos + j - 1)]
           base == rate * more
<1>1. /\ st.rate \in Rates /\ log.fed \in Nat /\ st.blocks \in Seq(Lane(st.rate))
      /\ pos \in 0..rate /\ log.got \in Seq(Nat \X Nat \X SUBSET Token)
  BY DEF SpongeTyped
<1>2. rate \in Nat /\ rate > 0
  <2>1. rate \in Nat \ {0}
    BY <1>1, Zenon DEF SpongeConstants
  <2> QED
    BY <2>1
<1>3. len \in Nat /\ old \in Nat
  BY <1>1
<1>4. full \in Int
  BY <1>1, <1>2, Division
<1>5. /\ more \in Nat /\ old = base + pos /\ st.lane = Sponge!Blank(rate)
      /\ \A n \in 1..old : log.got[n] = <<full + 1 + (n - 1) \div rate, (n - 1) % rate, {}>>
  BY DEF Squeezing, Sponge!OutputIsOneStream
<1>6. base \in Nat
  BY <1>2, <1>5, SMTT(30)
<1>7. len = full + 1 + more
  <2> HIDE DEF len, full
  <2> QED
    BY <1>3, <1>4
<1>8. ASSUME NEW j \in 1..take
      PROVE  /\ pos + j - 1 \in 0..(rate - 1)
             /\ new[j] = <<len, pos + j - 1, {}>>
             /\ new[j] \in Nat \X Nat \X SUBSET Token
  <2>1. pos + j - 1 \in 0..(rate - 1)
    BY <1>1, <1>2
  <2>2. st.lane[pos + j - 1] = {}
    BY <1>5, <2>1 DEF Sponge!Blank
  <2>3. new[j] = <<len, pos + j - 1, {}>>
    BY <2>2 DEF Sponge!ByteAt
  <2> QED
    BY <1>3, <2>1, <2>3
<1>9. new \in [1..take -> Nat \X Nat \X SUBSET Token]
  BY <1>8
<1>10. got = log.got \o new
  OBVIOUS
<1> HIDE DEF new, rate, pos, len, full, more, old, base
<1>11. /\ got \in Seq(Nat \X Nat \X SUBSET Token) /\ Len(got) = old + take
       /\ \A n \in 1..old : got[n] = log.got[n]
       /\ \A j \in 1..take : got[old + j] = new[j]
  <2> DEFINE T == Nat \X Nat \X SUBSET Token
             a == log.got
  <2>1. a \in Seq(T) /\ new \in [1..take -> T] /\ got = a \o new /\ take \in Nat
    BY <1>1, <1>9, <1>10
  <2> HIDE DEF T, a
  <2>2. /\ got \in Seq(T) /\ Len(got) = Len(a) + take
        /\ \A i \in 1..Len(a) : got[i] = a[i]
        /\ \A j \in 1..take : got[Len(a) + j] = new[j]
    <3>1. new \in Seq(T) /\ Len(new) = take
      BY <2>1
    <3>2. got \in Seq(T) /\ Len(got) = Len(a) + take
      <4>1. a \o new \in Seq(T) /\ Len(a \o new) = Len(a) + Len(new)
        BY <2>1, <3>1, ConcatProperties
      <4> QED
        BY <2>1, <3>1, <4>1
    <3>3. \A i \in 1..(Len(a) + take) : got[i] = IF i <= Len(a) THEN a[i] ELSE new[i - Len(a)]
      <4>1. \A i \in 1..(Len(a) + Len(new)) :
              (a \o new)[i] = IF i <= Len(a) THEN a[i] ELSE new[i - Len(a)]
        BY <2>1, <3>1, ConcatProperties
      <4> QED
        BY <2>1, <3>1, <4>1, Zenon
    <3>4. Len(a) \in Nat
      BY <2>1
    <3>5. ASSUME NEW i \in 1..Len(a) PROVE got[i] = a[i]
      BY <2>1, <3>3, <3>4
    <3>6. ASSUME NEW j \in 1..take PROVE got[Len(a) + j] = new[j]
      <4>1. /\ Len(a) + j \in 1..(Len(a) + take) /\ ~ (Len(a) + j <= Len(a))
            /\ (Len(a) + j) - Len(a) = j
        BY <2>1, <3>4
      <4> QED
        BY <3>3, <4>1
    <3> QED
      BY <3>2, <3>5, <3>6
  <2> QED
    BY <2>2 DEF old, T, a
<1>12. ASSUME NEW n \in 1..Len(got)
       PROVE  got[n] = <<full + 1 + (n - 1) \div rate, (n - 1) % rate, {}>>
  <2>1. CASE n <= old
    <3>1. n \in 1..old
      BY <1>3, <1>11, <2>1
    <3> QED
      BY <1>5, <1>11, <3>1
  <2>2. CASE n > old
    <3> DEFINE j == n - old
    <3>1. j \in 1..take /\ n = old + j
      BY <1>3, <1>11, <2>2
    <3> HIDE DEF j
    <3>2. got[n] = new[j]
      BY <1>11, <3>1
    <3>3. n - 1 = base + (pos + j - 1) /\ n - 1 \in Int
      BY <1>1, <1>2, <1>3, <1>5, <1>6, <3>1
    <3>4. new[j] = <<len, pos + j - 1, {}>> /\ pos + j - 1 \in 0..(rate - 1)
      BY <1>8, <3>1
    <3>5. (n - 1) \div rate = more /\ (n - 1) % rate = pos + j - 1
      <4> DEFINE x == n - 1
                 r == pos + j - 1
      <4>1. x \in Int /\ r \in 0..(rate - 1) /\ x = rate * more + r
        BY <3>3, <3>4 DEF base
      <4>2. rate \in Nat /\ rate > 0 /\ more \in Int
        BY <1>2, <1>5
      <4> HIDE DEF x, r
      <4>3. x \div rate = more /\ x % rate = r
        BY <4>1, <4>2, DivisionUnique
      <4> QED
        BY <4>3 DEF x, r
    <3>6. got[n] = <<len, pos + j - 1, {}>>
      BY <3>2, <3>4
    <3> DEFINE d == (n - 1) \div rate
               e == (n - 1) % rate
    <3>7. d = more /\ e = pos + j - 1
      BY <3>5
    <3> HIDE DEF d, e
    <3>8. len = full + 1 + d
      BY <1>7, <3>7
    <3>9. got[n] = <<full + 1 + d, e, {}>>
      BY <3>6, <3>7, <3>8
    <3> QED
      BY <3>9 DEF d, e
  <2>3. n <= old \/ n > old
    BY <1>3, <1>11
  <2> QED
    BY <2>1, <2>2, <2>3, Zenon
<1> QED
  BY <1>11, <1>12 DEF rate, full, old

(* A chunk that is squeezed is the next of the stream. *)
LEMMA SqueezeChunkStep ==
  ASSUME SpongeConstants, SpongeIInv, Sponge!SqueezeChunk
  PROVE  SpongeIInv'
<1> DEFINE rate == st.rate
           pos  == st.pos
           len  == Len(st.blocks)
           full == log.fed \div rate
           more == len - full - 1
           take == Sponge!Lesser(rate - pos, log.todo)
           rest == log.todo - take
           got  == log.got \o [j \in 1..take |-> Sponge!ByteAt(st, pos + j - 1)]
           moved == State(st.blocks, st.lane, rate, pos + take, st.squeezing)
<1>1. /\ log.call = "squeeze" /\ st.squeezing /\ SpongeTyped /\ Squeezing
      /\ st' = Sponge!Refill(Sponge!Advance(st, take), rest)
      /\ log' = [log EXCEPT !.call = IF rest = 0 THEN "none" ELSE "squeeze",
                            !.todo = rest, !.got = got]
  BY DEF SpongeIInv, Absorbing, Sponge!SqueezeChunk
<1>2. /\ rate \in Rates /\ log.fed \in Nat /\ st.blocks \in Seq(Lane(rate))
      /\ pos \in 0..rate /\ log.todo \in Nat /\ log.todo > 0
      /\ log.got \in Seq(Nat \X Nat \X SUBSET Token)
  BY <1>1 DEF SpongeTyped
<1>3. rate \in Nat /\ rate > 0
  <2>1. rate \in Nat \ {0}
    BY <1>2, Zenon DEF SpongeConstants
  <2> QED
    BY <2>1
<1>4. take \in Nat /\ take <= rate - pos /\ rest \in Nat /\ pos + take \in 0..rate
      /\ (rest > 0 => pos + take = rate)
  BY <1>2, <1>3 DEF Sponge!Lesser
<1> HIDE DEF take, rest
<1>5. /\ got \in Seq(Nat \X Nat \X SUBSET Token) /\ Len(got) = Len(log.got) + take
      /\ \A n \in 1..Len(got) : got[n] = <<full + 1 + (n - 1) \div rate, (n - 1) % rate, {}>>
  BY <1>1, <1>4, StreamGoesOn
<1> HIDE DEF got
<1>6. log = [call |-> log.call, todo |-> log.todo, fed |-> log.fed, got |-> log.got]
  BY <1>1 DEF SpongeTyped
<1>7. log' = [call |-> IF rest = 0 THEN "none" ELSE "squeeze", todo |-> rest,
              fed |-> log.fed, got |-> got]
  BY <1>1, <1>6
<1>8. /\ log' \in [call : {"none", "absorb", "squeeze"}, todo : Nat, fed : Nat,
                   got : Seq(Nat \X Nat \X SUBSET Token)]
      /\ log'.call # "none" => log'.todo > 0
      /\ log'.call # "absorb" /\ log'.fed = log.fed /\ log'.got = got
  BY <1>2, <1>4, <1>5, <1>7
<1>9. /\ len \in Nat /\ full \in Int /\ more \in Nat /\ more = len - full - 1 /\ st.lane = Sponge!Blank(rate)
      /\ Len(log.got) = rate * more + pos /\ Len(log.got) \in Nat
  <2>1. full \in Int
    BY <1>2, <1>3, Division
  <2> QED
    BY <1>1, <1>2, <2>1 DEF Squeezing
<1>10. Sponge!Advance(st, take) = moved
  <2>1. st = State(st.blocks, st.lane, rate, pos, st.squeezing)
    BY <1>1 DEF SpongeTyped, State
  <2>2. Sponge!Advance(State(st.blocks, st.lane, rate, pos, st.squeezing), take) = moved
    BY StateAdvance
  <2> QED
    BY <2>1, <2>2
<1>11. st.lane \in Lane(rate) /\ st.squeezing \in BOOLEAN /\ Sponge!Blank(rate) \in Lane(rate)
  BY <1>1, <1>9 DEF SpongeTyped, Sponge!Blank, Lane
<1>12. moved.pos = pos + take /\ moved.rate = rate
  BY DEF State
<1>13. ASSUME NEW b, NEW p, b \in Seq(Lane(rate)), p \in 0..rate,
              st' = State(b, Sponge!Blank(rate), rate, p, st.squeezing)
       PROVE  /\ SpongeTyped' /\ st'.squeezing
              /\ st'.blocks = b /\ st'.rate = rate /\ st'.pos = p
              /\ st'.lane = Sponge!Blank(rate)
  <2> HIDE DEF rate
  <2>1. State(b, Sponge!Blank(rate), rate, p, st.squeezing)
          \in [blocks : Seq(Lane(rate)), lane : Lane(rate), rate : Rates,
               pos : 0..rate, squeezing : BOOLEAN]
    BY <1>2, <1>11, <1>13, StateTyped, Zenon
  <2>2. st' \in [blocks : Seq(Lane(rate)), lane : Lane(rate), rate : Rates,
                 pos : 0..rate, squeezing : BOOLEAN]
    BY <1>13, <2>1, Zenon
  <2>3. /\ st'.blocks = b /\ st'.rate = rate /\ st'.pos = p
        /\ st'.lane = Sponge!Blank(rate) /\ st'.squeezing = st.squeezing
    BY <1>13 DEF State
  <2> QED
    BY <1>1, <1>8, <2>2, <2>3, SMTT(30) DEF SpongeTyped
<1>14. CASE pos + take = rate /\ rest > 0
  <2> DEFINE b == Append(st.blocks, Sponge!Blank(rate))
  <2>1. st' = State(b, Sponge!Blank(rate), rate, 0, st.squeezing)
    <3> DEFINE l == Sponge!Blank(rate)
    <3>1. st' = Sponge!Rewind(Sponge!Permute(moved))
      BY <1>1, <1>10, <1>12, <1>14 DEF Sponge!Refill
    <3>2. moved = State(st.blocks, l, rate, pos + take, st.squeezing)
      BY <1>9
    <3> HIDE DEF l, rate, pos, moved
    <3>3. Sponge!Permute(moved)
            = State(Append(st.blocks, l), Sponge!Blank(rate), rate, pos + take, st.squeezing)
      BY <3>2, StatePermute
    <3>4. Sponge!Rewind(State(Append(st.blocks, l), Sponge!Blank(rate), rate, pos + take,
                              st.squeezing))
            = State(Append(st.blocks, l), Sponge!Blank(rate), rate, 0, st.squeezing)
      BY StateRewind
    <3> QED
      BY <3>1, <3>3, <3>4 DEF l
  <2>2. b \in Seq(Lane(rate)) /\ Len(b) = len + 1 /\ 0 \in 0..rate
        /\ b[len + 1] = Sponge!Blank(rate) /\ \A i \in 1..len : b[i] = st.blocks[i]
    <3> DEFINE T == Lane(rate)
               s == st.blocks
    <3>1. /\ s \in Seq(T) /\ Sponge!Blank(rate) \in T /\ len = Len(s)
          /\ 0 \in 0..rate
      BY <1>2, <1>3, <1>9, <1>11
    <3> HIDE DEF T
    <3>2. /\ b \in Seq(T) /\ Len(b) = Len(s) + 1 /\ b[Len(s) + 1] = Sponge!Blank(rate)
          /\ \A i \in 1..Len(s) : b[i] = s[i]
      BY <3>1, AppendFacts
    <3> QED
      BY <3>1, <3>2 DEF T
  <2> HIDE DEF b
  <2>3. /\ SpongeTyped' /\ st'.squeezing
        /\ st'.blocks = b /\ st'.rate = rate /\ st'.pos = 0
        /\ st'.lane = Sponge!Blank(rate)
    BY <1>13, <2>1, <2>2
  <2>4. Squeezing'
    <3>1. log'.fed \div st'.rate = full /\ Len(st'.blocks) - full - 1 = more + 1
      <4>1. log'.fed = log.fed /\ st'.rate = rate
        BY <1>8, <2>3
      <4>2. Len(st'.blocks) = len + 1 /\ len - full - 1 = more
        BY <1>9, <2>2, <2>3
      <4>3. len \in Int /\ full \in Int
        BY <1>9
      <4> HIDE DEF len, rate
      <4>4. Len(st'.blocks) - full - 1 = more + 1
        <5> HIDE DEF full
        <5> QED
          BY <4>2, <4>3
      <4> QED
        BY <4>1, <4>4
    <3>3. Len(got) = rate * (more + 1) + 0
      <4>1. rate * (more + 1) = rate * more + rate /\ rate * more \in Nat
        BY <1>3, <1>9, SMTT(30)
      <4> QED
        <5> DEFINE u == rate * more
                   v == rate * (more + 1)
                   o == Len(log.got)
        <5>1. v = u + rate /\ u \in Nat /\ o = u + pos
          BY <1>9, <4>1
        <5>2. Len(got) = o + take /\ pos + take = rate
          BY <1>5, <1>14
        <5>3. rate \in Nat /\ pos \in Nat /\ take \in Nat
          BY <1>2, <1>3, <1>4
        <5> HIDE DEF u, v, o, rate, pos
        <5>4. Len(got) = v + 0
          BY <5>1, <5>2, <5>3
        <5> QED
          BY <5>4 DEF v
    <3>4. full \in Nat /\ full + 1 \in 1..len /\ full <= len /\ more + 1 \in Nat
      <4> DEFINE x == log.fed
      <4>1. full >= 0
        <5>1. x \in Nat /\ rate \in Nat /\ rate > 0 /\ full = x \div rate
          BY <1>2, <1>3
        <5> HIDE DEF x, rate, full
        <5> QED
          BY <5>1, SMTT(30)
      <4> HIDE DEF full, len
      <4> QED
        BY <1>9, <4>1
    <3>5. \A i \in 1..full : b[i] = FullBlock(rate, i)
      BY <1>1, <1>9, <2>2, <3>4 DEF Squeezing
    <3>6. b[full + 1] = Sponge!PadBlock(rate, log.fed, full + 1)
      BY <1>1, <1>9, <2>2, <3>4 DEF Squeezing
    <3>7. \A i \in (full + 2)..(len + 1) : b[i] = Sponge!Blank(rate)
      <4> TAKE i \in (full + 2)..(len + 1)
      <4>1. CASE i = len + 1
        BY <2>2, <4>1
      <4>2. CASE i # len + 1
        <5>1. i \in (full + 2)..len /\ i \in 1..len
          BY <1>9, <3>4, <4>2
        <5>2. st.blocks[i] = Sponge!Blank(rate)
          BY <1>1, <5>1 DEF Squeezing
        <5> QED
          BY <2>2, <5>1, <5>2
      <4> QED
        BY <4>1, <4>2
    <3>8. Sponge!OutputIsOneStream'
      BY <1>5, <1>8, <2>3 DEF Sponge!OutputIsOneStream
    <3> DEFINE d == log'.fed \div st'.rate
               m == Len(st'.blocks) - d - 1
    <3>9. d = full /\ m = more + 1
      BY <3>1
    <3>10. /\ log'.call # "absorb" /\ log'.fed = log.fed /\ log'.got = got
           /\ Len(st'.blocks) = len + 1
      BY <1>8, <2>2, <2>3
    <3> HIDE DEF d, m, full, more, len, rate
    <3>11. /\ log'.call # "absorb" /\ m \in Nat
           /\ \A i \in 1..d : st'.blocks[i] = FullBlock(st'.rate, i)
           /\ st'.blocks[d + 1] = Sponge!PadBlock(st'.rate, log'.fed, d + 1)
           /\ \A i \in (d + 2)..Len(st'.blocks) : st'.blocks[i] = Sponge!Blank(st'.rate)
      BY <2>3, <3>4, <3>5, <3>6, <3>7, <3>9, <3>10
    <3>12. /\ st'.lane = Sponge!Blank(st'.rate)
           /\ Len(log'.got) = st'.rate * m + st'.pos
      BY <2>3, <3>3, <3>9, <3>10
    <3> QED
      BY <3>8, <3>11, <3>12, Zenon DEF Squeezing, d, m
  <2> QED
    BY <2>3, <2>4 DEF SpongeIInv
<1>15. CASE ~ (pos + take = rate /\ rest > 0)
  <2>1. st' = State(st.blocks, Sponge!Blank(rate), rate, pos + take, st.squeezing)
    BY <1>1, <1>9, <1>10, <1>12, <1>15 DEF Sponge!Refill
  <2>2. /\ SpongeTyped' /\ st'.squeezing
        /\ st'.blocks = st.blocks /\ st'.rate = rate /\ st'.pos = pos + take
        /\ st'.lane = Sponge!Blank(rate)
    BY <1>2, <1>4, <1>13, <2>1
  <2>3. Squeezing'
    <3>1. Len(got) = rate * more + (pos + take)
      <4>1. rate * more \in Nat
        BY <1>3, <1>9, SMTT(30)
      <4> QED
        BY <1>2, <1>4, <1>5, <1>9, <4>1
    <3>2. Sponge!OutputIsOneStream'
      BY <1>5, <1>8, <2>2 DEF Sponge!OutputIsOneStream
    <3> QED
      BY <1>1, <1>8, <1>9, <2>2, <3>1, <3>2 DEF Squeezing
  <2> QED
    BY <2>2, <2>3 DEF SpongeIInv
<1> QED
  BY <1>14, <1>15

(* Every call, and every turn of its loop. *)
LEMMA SpongeStep ==
  ASSUME SpongeConstants, SpongeIInv, Sponge!Next
  PROVE  SpongeIInv'
<1>1. log.fed \in Nat /\ Len(log.got) \in Nat
  BY DEF SpongeIInv, SpongeTyped
<1>2. MaxFed \in Nat /\ MaxOut \in Nat
  BY SymmetricAssumption DEF Sponge!KeccakParameters
<1>3. CASE \E n \in 1..(MaxFed - log.fed) : Sponge!CallAbsorb(n)
  BY <1>1, <1>2, <1>3, CallAbsorbStep
<1>4. CASE Sponge!AbsorbChunk
  BY <1>4, AbsorbChunkStep
<1>5. CASE \E n \in 0..(MaxOut - Len(log.got)) : Sponge!CallSqueeze(n)
  BY <1>1, <1>2, <1>5, CallSqueezeStep
<1>6. CASE Sponge!SqueezeChunk
  BY <1>6, SqueezeChunkStep
<1> QED
  BY <1>3, <1>4, <1>5, <1>6 DEF Sponge!Next

(* The sponge has taken the padded message and given one stream. *)
LEMMA SpongeIInvImplies ==
  ASSUME SpongeConstants, SpongeIInv
  PROVE  Sponge!AbsorbsPaddedMessage /\ Sponge!OutputIsOneStream
<1> DEFINE rate == st.rate
           full == log.fed \div rate
<1>1. rate \in Nat /\ rate > 0 /\ log.fed \in Nat
  <2>1. rate \in Rates /\ log.fed \in Nat
    BY DEF SpongeIInv, SpongeTyped
  <2>2. rate \in Nat \ {0}
    BY <2>1, Zenon DEF SpongeConstants
  <2> QED
    BY <2>1, <2>2
<1>2. full \in Int /\ full * rate <= log.fed
  <2> DEFINE x == log.fed
             m == rate
  <2>1. x \in Int /\ m \in Nat /\ m > 0
    BY <1>1
  <2> HIDE DEF x, m
  <2>2. x \div m \in Int /\ x % m \in 0..(m - 1) /\ x = m * (x \div m) + (x % m)
    BY <2>1, Division
  <2>3. x \div m \in Int /\ (x \div m) * m <= x
    BY <2>1, <2>2, SMTT(30)
  <2> QED
    BY <2>3 DEF x, m
<1>3. ASSUME NEW b \in 1..full
      PROVE  Sponge!PadBlock(rate, log.fed, b) = FullBlock(rate, b)
  <2>1. b \in Nat /\ b > 0 /\ b <= full
    BY <1>2
  <2> HIDE DEF full, rate
  <2>2. b * rate <= full * rate /\ b * rate \in Int /\ full * rate \in Int
    BY <1>1, <1>2, <2>1, SMTT(30)
  <2>3. b * rate <= log.fed
    BY <1>1, <1>2, <2>2
  <2> QED
    BY <1>1, <2>1, <2>3, PadBlockFull
<1>4. CASE st.squeezing
  <2>1. Squeezing
    BY <1>4 DEF SpongeIInv
  <2>2. \A b \in 1..full : st.blocks[b] = Sponge!PadBlock(rate, log.fed, b)
    BY <1>3, <2>1 DEF Squeezing
  <2> QED
    BY <1>4, <2>1, <2>2 DEF Squeezing, Sponge!AbsorbsPaddedMessage
<1>5. CASE ~ st.squeezing
  <2>1. SpongeTyped /\ Absorbing
    BY <1>5 DEF SpongeIInv
  <2>2. /\ full = Len(st.blocks) /\ st.pos \in 0..(rate - 1)
        /\ Len(st.blocks) \in Nat /\ log.fed = rate * Len(st.blocks) + st.pos
    BY <2>1, AbsorbedLength DEF Absorbing
  <2>3. \A b \in 1..full : st.blocks[b] = Sponge!PadBlock(rate, log.fed, b)
    BY <1>3, <2>1, <2>2 DEF Absorbing
  <2>4. ASSUME NEW i \in 0..(rate - 1)
        PROVE  st.lane[i] = IF full * rate + i < log.fed
                            THEN Sponge!MsgByte(full * rate + i + 1) ELSE {}
    <3> DEFINE base == rate * Len(st.blocks)
    <3>1. full * rate = base /\ base \in Nat
      BY <1>1, <2>2, SMTT(30)
    <3>2. st.lane[i] = IF i < st.pos THEN Sponge!MsgByte(base + i + 1) ELSE {}
      BY <2>1 DEF Absorbing
    <3>3. log.fed = base + st.pos
      BY <2>2
    <3> HIDE DEF base
    <3>4. (base + i < log.fed) <=> (i < st.pos)
      <4>1. i \in Int /\ st.pos \in Int /\ base \in Int
        BY <2>2, <3>1
      <4> QED
        BY <3>3, <4>1
    <3> HIDE DEF full
    <3> QED
      BY <3>1, <3>2, <3>4
  <2>5. log.got = <<>>
    BY <2>1 DEF Absorbing
  <2> QED
    BY <1>5, <2>2, <2>3, <2>4, <2>5 DEF Sponge!AbsorbsPaddedMessage, Sponge!OutputIsOneStream
<1> QED
  BY <1>4, <1>5

LEMMA SpongeConstantsHold == SpongeConstants
  BY SymmetricAssumption DEF SpongeConstants, Sponge!KeccakParameters

LEMMA SpongeInvariant == SymmetricSpec => [](routine = "sponge" => SpongeIInv)
<1>1. SpongeConstants
  BY SpongeConstantsHold
<1> DEFINE Inv == routine = "sponge" => SpongeIInv
<1>2. SymmetricInit => Inv
  BY <1>1, SpongeInitial DEF SymmetricInit
<1>3. Inv /\ [SymmetricNext]_symmetricVars => Inv'
  <2> SUFFICES ASSUME Inv, [SymmetricNext]_symmetricVars, routine' = "sponge"
               PROVE  SpongeIInv'
    OBVIOUS
  <2>1. CASE SymmetricNext
    <3>1. routine = "sponge" /\ Sponge!Next
      BY <2>1 DEF SymmetricNext
    <3> QED
      BY <1>1, <3>1, SpongeStep
  <2>2. CASE UNCHANGED symmetricVars
    <3>1. routine = "sponge" /\ st' = st /\ log' = log
      BY <2>2 DEF symmetricVars
    <3>2. SpongeIInv
      BY <3>1
    <3> QED
      BY <3>1, <3>2 DEF SpongeIInv, SpongeTyped, Absorbing, Squeezing, Sponge!OutputIsOneStream
  <2> QED
    BY <2>1, <2>2
<1> QED
  BY <1>2, <1>3, PTL DEF SymmetricSpec

(* What enters the sponge is the padded message of FIPS 202 and what comes out
   one stream, however absorb and finalize_and_squeeze are cut into calls, for
   every rate. *)
THEOREM SpongeAbsorbsAndSqueezesInOrder == SymmetricSpec => []SpongeIsStandard
<1>1. (routine = "sponge" => SpongeIInv) => SpongeIsStandard
  BY SpongeConstantsHold, SpongeIInvImplies DEF SpongeIsStandard
<1> QED
  BY <1>1, SpongeInvariant, PTL

-------------------------------------------------------------------------------
(* Counter blocks: the values that counting up goes through. *)

Ctr == INSTANCE CounterBlock

Digit  == 0..(Radix - 1)
CBlock == [1..B -> Digit]

CtrConstants == /\ B \in Nat /\ B > 0 /\ Radix \in Nat /\ Radix > 1
                /\ LowBytes \in 1..B

(* What the ciphers that count need of the constants. *)
LEMMA CtrParameters == CtrConstants
  BY SymmetricAssumption DEF CtrConstants, Stream!KeystreamParameters, Stream!CounterParameters

(* Counting up makes a block of a block. *)
LEMMA IncTyped ==
  ASSUME CtrConstants, NEW kind, NEW blk \in CBlock
  PROVE  Ctr!Inc(kind, blk) \in CBlock
<1>1. \A i \in 1..B : blk[i] \in Digit /\ (blk[i] + 1) % Radix \in Digit
  <2> TAKE i \in 1..B
  <2>1. blk[i] \in Digit
    BY DEF CBlock
  <2> DEFINE x == blk[i] + 1
  <2>2. x \in Int /\ Radix \in Nat /\ Radix > 0
    BY <2>1 DEF CtrConstants, Digit
  <2> HIDE DEF x
  <2>3. x % Radix \in 0..(Radix - 1)
    BY <2>2, Division
  <2> QED
    BY <2>1, <2>3 DEF x, Digit
<1> QED
  BY <1>1 DEF CBlock, Ctr!Inc, Ctr!Inc128, Ctr!Inc32

(* The table CounterAfter reads its result from. *)
Table(kind, blk, n) ==
  CHOOSE at : at = [j \in 0..n |-> IF j = 0 THEN blk ELSE Ctr!Inc(kind, at[j - 1])]

(* The table of counters, entry by entry. *)
LEMMA TableUnfolded ==
  ASSUME CtrConstants, NEW kind, NEW blk \in CBlock, NEW n \in Nat
  PROVE  /\ Table(kind, blk, n)[0] = blk
         /\ \A j \in 1..n : Table(kind, blk, n)[j] = Ctr!Inc(kind, Table(kind, blk, n)[j - 1])
         /\ \A j \in 0..n : Table(kind, blk, n)[j] \in CBlock
<1> DEFINE Step(j, v) == Ctr!Inc(kind, v)
           F == [j \in 1..n |-> [v \in CBlock |-> Step(j, v)]]
           body(g) == [j \in 0..n |-> IF j = 0 THEN blk ELSE Step(j, g[j - 1])]
           s == CHOOSE g : g = body(g)
           h == Unfolded(n, CBlock, blk, F)
<1>1. Table(kind, blk, n) = s
  BY DEF Table
<1>2. \A j \in 1..n, v \in CBlock : Step(j, v) \in CBlock
  BY IncTyped
<1> HIDE DEF Step
<1>3. F \in [1..n -> [CBlock -> CBlock]]
  BY <1>2
<1>4. h \in [0..n -> CBlock] /\ h[0] = blk /\ \A j \in 1..n : h[j] = F[j][h[j - 1]]
  <2> HIDE DEF F
  <2> QED
    BY <1>3, Unfolding
<1> HIDE DEF h
<1>5. \A j \in 1..n : h[j] = Step(j, h[j - 1])
  <2> TAKE j \in 1..n
  <2>1. h[j - 1] \in CBlock /\ h[j] = F[j][h[j - 1]]
    BY <1>4
  <2>2. F[j] = [v \in CBlock |-> Step(j, v)]
    OBVIOUS
  <2> QED
    BY <2>1, <2>2
<1>6. h = body(h)
  BY <1>4, <1>5
<1>7. s = body(s)
  <2> HIDE DEF body
  <2> QED
    BY <1>6
<1> HIDE DEF s
<1>8. s[0] = blk /\ \A j \in 1..n : s[j] = Step(j, s[j - 1])
  <2>1. \A j \in 0..n : s[j] = IF j = 0 THEN blk ELSE Step(j, s[j - 1])
    BY <1>7, Zenon
  <2> QED
    BY <2>1
<1> DEFINE S == {j \in 0..n : s[j] \in CBlock}
<1>9. 0 \in S /\ \A j \in 1..n : j - 1 \in S => j \in S
  BY <1>2, <1>8
<1>10. 0..n \subseteq S
  <2> HIDE DEF S
  <2> QED
    BY <1>9, UpTo
<1> QED
  BY <1>1, <1>8, <1>10 DEF Step

(* The counter is the same in the three modules, and the last of its table. *)
LEMMA CounterIsTable ==
  ASSUME NEW kind, NEW blk, NEW k
  PROVE  /\ Ctr!CounterAfter(kind, blk, k) = Table(kind, blk, k)[k]
         /\ Stream!CounterAfter(kind, blk, k) = Table(kind, blk, k)[k]
         /\ Seal!CounterAfter(kind, blk, k) = Table(kind, blk, k)[k]
  BY DEF Table, Ctr!CounterAfter, Stream!CounterAfter, Seal!CounterAfter,
         Ctr!Inc, Ctr!Inc32, Ctr!Inc128, Stream!Inc, Stream!Inc32, Stream!Inc128,
         Seal!Inc, Seal!Inc32, Seal!Inc128

(* A counter is the one before it, counted up. *)
LEMMA CounterUnfolds ==
  ASSUME CtrConstants, NEW kind, NEW blk \in CBlock, NEW k \in Nat
  PROVE  /\ Ctr!CounterAfter(kind, blk, 0) = blk
         /\ Ctr!CounterAfter(kind, blk, k) \in CBlock
         /\ Ctr!CounterAfter(kind, blk, k + 1) = Ctr!Inc(kind, Ctr!CounterAfter(kind, blk, k))
<1> DEFINE T(n) == Table(kind, blk, n)
           S == {j \in 0..k : T(k)[j] = T(k + 1)[j]}
<1>1. /\ T(k)[0] = blk
      /\ \A j \in 1..k : T(k)[j] = Ctr!Inc(kind, T(k)[j - 1])
      /\ \A j \in 0..k : T(k)[j] \in CBlock
  BY TableUnfolded
<1>2. /\ T(k + 1)[0] = blk
      /\ \A j \in 1..(k + 1) : T(k + 1)[j] = Ctr!Inc(kind, T(k + 1)[j - 1])
  <2>1. k + 1 \in Nat
    OBVIOUS
  <2> QED
    BY <2>1, TableUnfolded
<1>3. T(0)[0] = blk
  BY TableUnfolded
<1> HIDE DEF T
<1>4. 0 \in S /\ \A j \in 1..k : j - 1 \in S => j \in S
  <2>1. ASSUME NEW j \in 1..k, j - 1 \in S PROVE j \in S
    <3>1. T(k)[j] = Ctr!Inc(kind, T(k)[j - 1]) /\ T(k)[j - 1] = T(k + 1)[j - 1]
      BY <1>1, <2>1
    <3>2. j \in 1..(k + 1) /\ j \in 0..k
      OBVIOUS
    <3>3. T(k + 1)[j] = Ctr!Inc(kind, T(k + 1)[j - 1])
      BY <1>2, <3>2
    <3> QED
      BY <3>1, <3>2, <3>3
  <2> QED
    BY <1>1, <1>2, <2>1
<1>5. 0..k \subseteq S
  <2> HIDE DEF S
  <2> QED
    BY <1>4, UpTo
<1>6. T(k + 1)[k + 1] = Ctr!Inc(kind, T(k)[k])
  <2>1. k \in S /\ k + 1 \in 1..(k + 1) /\ (k + 1) - 1 = k
    BY <1>5
  <2>2. T(k + 1)[k + 1] = Ctr!Inc(kind, T(k + 1)[(k + 1) - 1])
    BY <1>2, <2>1
  <2> QED
    BY <2>1, <2>2
<1>7. k \in 0..k
  OBVIOUS
<1> QED
  BY <1>1, <1>3, <1>6, <1>7, CounterIsTable DEF T

(* The powers of the radix, and the value of a block from its head on. *)
Sum(blk) ==
  CHOOSE sum : sum = [i \in 0..B |-> IF i = 0 THEN 0 ELSE sum[i - 1] * Radix + blk[i]]

PowerTable(n) ==
  CHOOSE pow : pow = [k \in 0..n |-> IF k = 0 THEN 1 ELSE Radix * pow[k - 1]]

(* The table of the powers, entry by entry. *)
LEMMA PowerTableUnfolded ==
  ASSUME CtrConstants, NEW n \in Nat
  PROVE  /\ PowerTable(n)[0] = 1
         /\ \A j \in 1..n : PowerTable(n)[j] = Radix * PowerTable(n)[j - 1]
         /\ \A j \in 0..n : PowerTable(n)[j] \in Nat \ {0}
<1> DEFINE V == Nat \ {0}
           Step(j, v) == Radix * v
           F == [j \in 1..n |-> [v \in V |-> Step(j, v)]]
           body(g) == [j \in 0..n |-> IF j = 0 THEN 1 ELSE Step(j, g[j - 1])]
           s == CHOOSE g : g = body(g)
           h == Unfolded(n, V, 1, F)
<1>1. PowerTable(n) = s
  BY DEF PowerTable
<1>2. 1 \in V /\ \A j \in 1..n, v \in V : Step(j, v) \in V
  <2> SUFFICES ASSUME NEW j \in 1..n, NEW v \in V PROVE Step(j, v) \in V
    OBVIOUS
  <2>1. Radix \in Nat /\ Radix > 0 /\ v \in Nat /\ v > 0
    BY DEF CtrConstants
  <2>2. Radix * v \in Nat /\ Radix * v > 0
    BY <2>1, SMTT(30)
  <2> QED
    BY <2>2
<1> HIDE DEF Step, V
<1>3. F \in [1..n -> [V -> V]]
  BY <1>2
<1>4. h \in [0..n -> V] /\ h[0] = 1 /\ \A j \in 1..n : h[j] = F[j][h[j - 1]]
  <2> HIDE DEF F
  <2> QED
    BY <1>2, <1>3, Unfolding
<1> HIDE DEF h
<1>5. \A j \in 1..n : h[j] = Step(j, h[j - 1])
  <2> TAKE j \in 1..n
  <2>1. h[j - 1] \in V /\ h[j] = F[j][h[j - 1]]
    BY <1>4
  <2>2. F[j] = [v \in V |-> Step(j, v)]
    OBVIOUS
  <2> QED
    BY <2>1, <2>2
<1>6. h = body(h)
  BY <1>4, <1>5
<1>7. s = body(s)
  <2> HIDE DEF body
  <2> QED
    BY <1>6
<1> HIDE DEF s
<1>8. s[0] = 1 /\ \A j \in 1..n : s[j] = Step(j, s[j - 1])
  <2>1. \A j \in 0..n : s[j] = IF j = 0 THEN 1 ELSE Step(j, s[j - 1])
    BY <1>7, Zenon
  <2> QED
    BY <2>1
<1> DEFINE S == {j \in 0..n : s[j] \in V}
<1>9. 0 \in S /\ \A j \in 1..n : j - 1 \in S => j \in S
  BY <1>2, <1>8
<1>10. 0..n \subseteq S
  <2> HIDE DEF S
  <2> QED
    BY <1>9, UpTo
<1> QED
  BY <1>1, <1>8, <1>10 DEF Step, V

(* A power is the one before it, times the radix. *)
LEMMA PowerUnfolds ==
  ASSUME CtrConstants, NEW k \in Nat
  PROVE  /\ Stream!Power(0) = 1
         /\ Stream!Power(k) \in Nat \ {0}
         /\ Stream!Power(k + 1) = Radix * Stream!Power(k)
<1> DEFINE T(n) == PowerTable(n)
           S == {j \in 0..k : T(k)[j] = T(k + 1)[j]}
<1>1. /\ T(k)[0] = 1
      /\ \A j \in 1..k : T(k)[j] = Radix * T(k)[j - 1]
      /\ \A j \in 0..k : T(k)[j] \in Nat \ {0}
  BY PowerTableUnfolded
<1>2. /\ T(k + 1)[0] = 1
      /\ \A j \in 1..(k + 1) : T(k + 1)[j] = Radix * T(k + 1)[j - 1]
  <2>1. k + 1 \in Nat
    OBVIOUS
  <2> QED
    BY <2>1, PowerTableUnfolded
<1>3. T(0)[0] = 1
  BY PowerTableUnfolded
<1> HIDE DEF T
<1>4. 0 \in S /\ \A j \in 1..k : j - 1 \in S => j \in S
  <2>1. ASSUME NEW j \in 1..k, j - 1 \in S PROVE j \in S
    <3>1. T(k)[j] = Radix * T(k)[j - 1] /\ T(k)[j - 1] = T(k + 1)[j - 1]
      BY <1>1, <2>1
    <3>2. j \in 1..(k + 1) /\ j \in 0..k
      OBVIOUS
    <3>3. T(k + 1)[j] = Radix * T(k + 1)[j - 1]
      BY <1>2, <3>2
    <3> QED
      BY <3>1, <3>2, <3>3
  <2> QED
    BY <1>1, <1>2, <2>1
<1>5. 0..k \subseteq S
  <2> HIDE DEF S
  <2> QED
    BY <1>4, UpTo
<1>6. T(k + 1)[k + 1] = Radix * T(k)[k]
  <2>1. k \in S /\ k + 1 \in 1..(k + 1) /\ (k + 1) - 1 = k
    BY <1>5
  <2>2. T(k + 1)[k + 1] = Radix * T(k + 1)[(k + 1) - 1]
    BY <1>2, <2>1
  <2> QED
    BY <2>1, <2>2
<1>7. k \in 0..k
  OBVIOUS
<1>8. \A n : Stream!Power(n) = PowerTable(n)[n]
  BY DEF Stream!Power, PowerTable
<1> QED
  BY <1>1, <1>3, <1>6, <1>7, <1>8 DEF T

(* The value of a block, byte by byte. *)
LEMMA SumUnfolded ==
  ASSUME CtrConstants, NEW blk \in CBlock
  PROVE  /\ Sum(blk)[0] = 0
         /\ \A j \in 1..B : Sum(blk)[j] = Sum(blk)[j - 1] * Radix + blk[j]
         /\ \A j \in 0..B : Sum(blk)[j] \in Nat
         /\ Stream!BlockValue(blk) = Sum(blk)[B]
<1> DEFINE V == Nat
           Step(j, v) == v * Radix + blk[j]
           F == [j \in 1..B |-> [v \in V |-> Step(j, v)]]
           body(g) == [j \in 0..B |-> IF j = 0 THEN 0 ELSE Step(j, g[j - 1])]
           s == CHOOSE g : g = body(g)
           h == Unfolded(B, V, 0, F)
<1>1. Sum(blk) = s /\ B \in Nat
  BY DEF Sum, CtrConstants
<1>2. 0 \in V /\ \A j \in 1..B, v \in V : Step(j, v) \in V
  <2> SUFFICES ASSUME NEW j \in 1..B, NEW v \in V PROVE Step(j, v) \in V
    OBVIOUS
  <2>1. Radix \in Nat /\ v \in Nat /\ blk[j] \in Nat
    BY DEF CtrConstants, CBlock, Digit
  <2>2. v * Radix \in Nat
    BY <2>1, SMTT(30)
  <2> QED
    BY <2>1, <2>2
<1> HIDE DEF Step, V
<1>3. F \in [1..B -> [V -> V]]
  BY <1>2
<1>4. h \in [0..B -> V] /\ h[0] = 0 /\ \A j \in 1..B : h[j] = F[j][h[j - 1]]
  <2> HIDE DEF F
  <2> QED
    BY <1>1, <1>2, <1>3, Unfolding
<1> HIDE DEF h
<1>5. \A j \in 1..B : h[j] = Step(j, h[j - 1])
  <2> TAKE j \in 1..B
  <2>1. h[j - 1] \in V /\ h[j] = F[j][h[j - 1]]
    BY <1>1, <1>4
  <2>2. F[j] = [v \in V |-> Step(j, v)]
    OBVIOUS
  <2> QED
    BY <2>1, <2>2
<1>6. h = body(h)
  BY <1>4, <1>5
<1>7. s = body(s)
  <2> HIDE DEF body
  <2> QED
    BY <1>6
<1> HIDE DEF s
<1>8. s[0] = 0 /\ \A j \in 1..B : s[j] = Step(j, s[j - 1])
  <2>1. \A j \in 0..B : s[j] = IF j = 0 THEN 0 ELSE Step(j, s[j - 1])
    BY <1>7, Zenon
  <2> QED
    BY <1>1, <2>1
<1> DEFINE S == {j \in 0..B : s[j] \in V}
<1>9. 0 \in S /\ \A j \in 1..B : j - 1 \in S => j \in S
  BY <1>1, <1>2, <1>8
<1>10. 0..B \subseteq S
  <2> HIDE DEF S
  <2> QED
    BY <1>1, <1>9, UpTo
<1>11. Stream!BlockValue(blk) = Sum(blk)[B]
  BY DEF Stream!BlockValue, Sum
<1> QED
  BY <1>1, <1>8, <1>10, <1>11 DEF Step, V

(* The bytes that a kind of counter leaves alone. *)
High(kind) == IF kind = "inc128" THEN 0 ELSE B - LowBytes

Carried(blk, i) == \A j \in (i + 1)..B : blk[j] = Radix - 1

(* A byte changes when it counts and every byte below it wraps. *)
LEMMA IncAt ==
  ASSUME CtrConstants, NEW kind, NEW blk \in CBlock, NEW i \in 1..B
  PROVE  Ctr!Inc(kind, blk)[i] = IF High(kind) < i /\ Carried(blk, i)
                                 THEN (blk[i] + 1) % Radix ELSE blk[i]
  BY DEF High, Carried, Ctr!Inc, Ctr!Inc128, Ctr!Inc32

(* One more in the low part of a number. *)
LEMMA CarryStep ==
  ASSUME NEW R \in Nat, R > 1, NEW p \in Nat \ {0}, NEW lo \in 0..(p - 1), NEW d \in 0..(R - 1)
  PROVE  /\ R * lo + d \in 0..(R * p - 1)
         /\ d = R - 1 => (R * lo + d + 1) % (R * p) = R * ((lo + 1) % p)
         /\ d # R - 1 => (R * lo + d + 1) % (R * p) = R * lo + d + 1
<1>1. R * p \in Nat /\ R * p > 0 /\ R * lo \in Nat /\ R * lo + R <= R * p
  BY SMTT(30)
<1> DEFINE m == R * p
           x == R * lo
<1>2. m \in Nat /\ m > 0 /\ x \in Nat /\ x + R <= m
  BY <1>1
<1> HIDE DEF m, x
<1>3. x + d \in 0..(m - 1)
  BY <1>2
<1>4. ASSUME d # R - 1 PROVE (x + d + 1) % m = x + d + 1
  BY <1>2, <1>4
<1>5. ASSUME d = R - 1 PROVE (x + d + 1) % m = R * ((lo + 1) % p)
  <2>1. CASE lo + 1 = p
    <3>1. x + R = m
      BY <2>1, SMTT(30) DEF x, m
    <3>2. x + d + 1 = m
      BY <1>2, <1>5, <3>1
    <3>3. m % m = 0 /\ p % p = 0
      BY <1>2
    <3> QED
      BY <2>1, <3>2, <3>3
  <2>2. CASE lo + 1 < p
    <3>1. (lo + 1) % p = lo + 1
      BY <2>2
    <3>2. R * (lo + 1) = x + R /\ x + R < m
      BY <2>2, SMTT(30) DEF x, m
    <3>3. x + d + 1 = x + R
      BY <1>2, <1>5
    <3>4. (x + R) % m = x + R
      BY <1>2, <3>2
    <3> QED
      BY <3>1, <3>2, <3>3, <3>4
  <2> QED
    BY <2>1, <2>2
<1> QED
  BY <1>3, <1>4, <1>5 DEF m, x

(* A number whose high and low part are known, and the one after it. *)
LEMMA SplitNumber ==
  ASSUME NEW m \in Nat, m > 0, NEW g \in Nat, NEW l \in 0..(m - 1), NEW v, v = g * m + l
  PROVE  v % m = l /\ (v + 1) % m = (l + 1) % m /\ v - l = g * m
<1> DEFINE x == g * m
<1>1. x \in Nat /\ x = m * g
  BY SMTT(30)
<1>2. v \in Int /\ v = m * g + l /\ g \in Int
  BY <1>1
<1>3. v % m = l
  BY <1>2, DivisionUnique
<1> HIDE DEF x
<1>4. v + 1 = (l + 1) + x /\ v - l = x
  BY <1>1 DEF x
<1>5. v + 1 = (l + 1) + g * m /\ v + 1 \in Int /\ l + 1 \in Int
  BY <1>2, <1>4 DEF x
<1>6. (v + 1) % m = (l + 1) % m
  BY <1>5, SameRemainder
<1> QED
  BY <1>3, <1>4, <1>6 DEF x

(* Counting up adds one to the low part of the value, modulo its size. *)
LEMMA IncValue ==
  ASSUME CtrConstants, NEW kind, NEW blk \in CBlock, NEW v, v = Stream!BlockValue(blk),
         NEW W, W = Stream!Power(B - High(kind))
  PROVE  /\ v \in Nat /\ W \in Nat \ {0}
         /\ Stream!BlockValue(Ctr!Inc(kind, blk)) = (v - (v % W)) + ((v + 1) % W)
<1> DEFINE w == High(kind)
           inc == Ctr!Inc(kind, blk)
           s == Sum(blk)
           t == Sum(inc)
           p == [i \in 0..B |-> Stream!Power(i)]
           lo(i) == s[i] - s[w] * p[i - w]
           Before == {i \in 0..B : i <= w => t[i] = s[i]}
           Behind == {i \in 0..B : i >= w =>
                        /\ lo(i) \in 0..(p[i - w] - 1)
                        /\ t[i] = IF Carried(blk, i)
                                  THEN s[w] * p[i - w] + ((lo(i) + 1) % p[i - w])
                                  ELSE s[i]}
<1>1. B \in Nat /\ B > 0 /\ Radix \in Nat /\ Radix > 1 /\ w \in 0..(B - 1)
  BY DEF CtrConstants, High
<1>2. inc \in CBlock
  BY IncTyped
<1>3. \A i \in 1..B : blk[i] \in Digit /\ inc[i] \in Digit
  BY <1>2 DEF CBlock
<1>4. /\ s[0] = 0 /\ \A j \in 1..B : s[j] = s[j - 1] * Radix + blk[j]
      /\ \A j \in 0..B : s[j] \in Nat
      /\ Stream!BlockValue(blk) = s[B]
  BY SumUnfolded
<1>5. /\ t[0] = 0 /\ \A j \in 1..B : t[j] = t[j - 1] * Radix + inc[j]
      /\ \A j \in 0..B : t[j] \in Nat
      /\ Stream!BlockValue(inc) = t[B]
  BY <1>2, SumUnfolded
<1>6. /\ p[0] = 1 /\ \A i \in 0..B : p[i] \in Nat \ {0}
      /\ \A i \in 1..B : p[i] = Radix * p[i - 1]
  <2>1. \A i \in 0..B : p[i] = Stream!Power(i) /\ i \in Nat
    BY <1>1
  <2>2. p[0] = 1 /\ \A i \in 0..B : p[i] \in Nat \ {0}
    BY <1>1, <2>1, PowerUnfolds
  <2>3. ASSUME NEW i \in 1..B PROVE p[i] = Radix * p[i - 1]
    <3>1. i - 1 \in Nat /\ (i - 1) + 1 = i /\ i \in 0..B /\ i - 1 \in 0..B
      BY <1>1
    <3>2. Stream!Power((i - 1) + 1) = Radix * Stream!Power(i - 1)
      BY <3>1, PowerUnfolds
    <3> QED
      BY <2>1, <3>1, <3>2
  <2> QED
    BY <2>2, <2>3
<1>7. \A i \in 1..B : inc[i] = IF w < i /\ Carried(blk, i)
                               THEN (blk[i] + 1) % Radix ELSE blk[i]
  BY IncAt
<1>8. W = p[B - w] /\ B - w \in 1..B
  BY <1>1
<1> HIDE DEF w, inc, s, t, p
<1>9. 0..B \subseteq Before
  <2>1. 0 \in Before
    BY <1>1, <1>4, <1>5
  <2>2. ASSUME NEW i \in 1..B, i - 1 \in Before PROVE i \in Before
    <3> SUFFICES ASSUME i <= w PROVE t[i] = s[i]
      BY <1>1
    <3>1. t[i - 1] = s[i - 1]
      BY <1>1, <2>2
    <3>2. inc[i] = blk[i]
      BY <1>1, <1>7
    <3> QED
      BY <1>4, <1>5, <3>1, <3>2
  <2> HIDE DEF Before
  <2> QED
    BY <1>1, <2>1, <2>2, UpTo
<1>10. t[w] = s[w] /\ s[w] \in Nat
  BY <1>1, <1>4, <1>9
<1>11. 0..B \subseteq Behind
  <2>1. ASSUME NEW i \in 1..B, i - 1 \in Behind, i > w PROVE i \in Behind
    <3> DEFINE h == s[w]
               q == p[(i - 1) - w]
               l == lo(i - 1)
               d == blk[i]
               a == s[i - 1]
    <3>1. /\ i - 1 \in 0..B /\ i - 1 >= w /\ i \in Int /\ (i - 1) - w = (i - w) - 1
          /\ i - w \in 1..B /\ (i - 1) - w \in 0..B
      BY <1>1, <2>1
    <3>2. /\ l \in 0..(q - 1)
          /\ t[i - 1] = IF Carried(blk, i - 1) THEN h * q + ((l + 1) % q) ELSE a
      BY <2>1, <3>1
    <3>3. q \in Nat \ {0} /\ h \in Nat /\ a \in Nat /\ d \in 0..(Radix - 1)
      BY <1>3, <1>4, <1>6, <1>10, <3>1 DEF Digit
    <3>4. p[i - w] = Radix * q
      BY <1>6, <3>1
    <3>5. s[i] = a * Radix + d /\ t[i] = t[i - 1] * Radix + inc[i]
      BY <1>4, <1>5
    <3>6. l = a - h * q /\ h * q \in Nat
      BY <3>3, SMTT(30)
    <3>7. Carried(blk, i - 1) <=> Carried(blk, i) /\ d = Radix - 1
      BY <1>1, <3>1 DEF Carried
    <3>8. inc[i] = IF Carried(blk, i) THEN (d + 1) % Radix ELSE d
      BY <1>7, <2>1
    <3> DEFINE x == h * q
               m == Radix * q
    <3>9. h * m = x * Radix /\ m \in Nat /\ m > 0
      BY <1>1, <3>3, SMTT(30)
    <3>10. lo(i) = s[i] - h * m
      BY <3>4
    <3> HIDE DEF h, q, l, d, a, lo
    <3>11. a = l + x /\ x \in Nat /\ l \in Int
      BY <3>2, <3>3, <3>6
    <3> HIDE DEF x
    <3>12. a * Radix = Radix * l + x * Radix /\ Radix * l \in Int /\ x * Radix \in Int
      BY <1>1, <3>11, SMTT(30)
    <3>13. lo(i) = Radix * l + d
      BY <3>3, <3>5, <3>9, <3>10, <3>12
    <3>14. /\ Radix * l + d \in 0..(m - 1)
           /\ d = Radix - 1 => (Radix * l + d + 1) % m = Radix * ((l + 1) % q)
           /\ d # Radix - 1 => (Radix * l + d + 1) % m = Radix * l + d + 1
      <4>1. /\ Radix \in Nat /\ Radix > 1 /\ q \in Nat \ {0} /\ l \in 0..(q - 1)
            /\ d \in 0..(Radix - 1)
        BY <1>1, <3>2, <3>3
      <4> HIDE DEF q, l, d
      <4>2. /\ Radix * l + d \in 0..(Radix * q - 1)
            /\ d = Radix - 1 => (Radix * l + d + 1) % (Radix * q) = Radix * ((l + 1) % q)
            /\ d # Radix - 1 => (Radix * l + d + 1) % (Radix * q) = Radix * l + d + 1
        BY <4>1, CarryStep
      <4> QED
        BY <4>2, Zenon DEF m
    <3>15. t[i] = IF Carried(blk, i) THEN h * m + ((lo(i) + 1) % m) ELSE s[i]
      <4>1. CASE Carried(blk, i) /\ d = Radix - 1
        <5>1. inc[i] = 0
          <6>1. (Radix - 1 + 1) % Radix = 0
            BY <1>1
          <6> QED
            BY <1>1, <3>8, <4>1
        <5>2. t[i - 1] = x + ((l + 1) % q)
          BY <3>2, <3>7, <4>1 DEF x
        <5>3. (l + 1) % q \in Int
          BY <3>3, <3>11
        <5>4. (x + ((l + 1) % q)) * Radix = x * Radix + Radix * ((l + 1) % q)
              /\ Radix * ((l + 1) % q) \in Int
          <6> DEFINE y == (l + 1) % q
          <6>1. y \in Int
            BY <5>3
          <6> HIDE DEF y
          <6>2. (x + y) * Radix = x * Radix + Radix * y /\ Radix * y \in Int
            BY <1>1, <3>11, <6>1, SMTT(30)
          <6> QED
            BY <6>2 DEF y
        <5>5. t[i] = h * m + ((Radix * l + d + 1) % m)
          BY <3>5, <3>9, <3>12, <3>14, <4>1, <5>1, <5>2, <5>4
        <5> QED
          BY <3>13, <4>1, <5>5
      <4>2. CASE Carried(blk, i) /\ d # Radix - 1
        <5>1. inc[i] = d + 1
          BY <1>1, <3>3, <3>8, <4>2
        <5>2. t[i - 1] = a
          BY <3>2, <3>7, <4>2
        <5>3. t[i] = h * m + ((Radix * l + d + 1) % m)
          BY <3>3, <3>5, <3>9, <3>12, <3>14, <4>2, <5>1, <5>2
        <5> QED
          BY <3>13, <4>2, <5>3
      <4>3. CASE ~ Carried(blk, i)
        BY <3>2, <3>5, <3>7, <3>8, <4>3
      <4> QED
        BY <4>1, <4>2, <4>3
    <3> QED
      BY <3>1, <3>4, <3>13, <3>14, <3>15 DEF h
  <2>2. ASSUME NEW i \in 0..B, i = w PROVE i \in Behind
    <3>1. i - w = 0 /\ s[w] * 1 = s[w]
      BY <1>1, <1>10, <2>2
    <3>2. lo(i) = 0
      BY <1>6, <1>10, <2>2, <3>1
    <3>3. (0 + 1) % 1 = 0 /\ s[w] + 0 = s[w]
      BY <1>10
    <3> QED
      BY <1>6, <1>10, <2>2, <3>1, <3>2, <3>3
  <2>3. ASSUME NEW i \in 0..B, i < w PROVE i \in Behind
    BY <1>1, <2>3
  <2>4. 0 \in Behind
    BY <1>1, <2>2, <2>3
  <2>5. ASSUME NEW i \in 1..B, i - 1 \in Behind PROVE i \in Behind
    BY <1>1, <2>1, <2>2, <2>3, <2>5
  <2> HIDE DEF Behind
  <2> QED
    BY <1>1, <2>4, <2>5, UpTo
<1>12. /\ lo(B) \in 0..(W - 1)
       /\ t[B] = s[w] * W + ((lo(B) + 1) % W)
  <2>1. B \in Behind /\ B >= w /\ Carried(blk, B)
    BY <1>1, <1>11 DEF Carried
  <2> QED
    BY <1>8, <2>1
<1>13. v = s[w] * W + lo(B) /\ W \in Nat /\ W > 0 /\ v \in Nat
  <2>1. W \in Nat \ {0} /\ v = s[B] /\ s[B] \in Nat
    BY <1>1, <1>4, <1>6, <1>8
  <2>2. s[w] * W \in Nat
    BY <1>10, <2>1, SMTT(30)
  <2>3. lo(B) = s[B] - s[w] * W
    BY <1>8
  <2> QED
    BY <2>1, <2>2, <2>3
<1> DEFINE g == s[w]
           l == lo(B)
<1>14. /\ g \in Nat /\ l \in 0..(W - 1) /\ v = g * W + l
       /\ Stream!BlockValue(inc) = g * W + ((l + 1) % W)
  BY <1>5, <1>10, <1>12, <1>13
<1> HIDE DEF g, l
<1>15. v % W = l /\ (v + 1) % W = (l + 1) % W /\ v - l = g * W
  BY <1>13, <1>14, SplitNumber
<1> QED
  BY <1>13, <1>14, <1>15 DEF inc

-------------------------------------------------------------------------------
(* The keystream ciphers. *)

(* The value of the k-th counter. *)
LEMMA CounterValue ==
  ASSUME CtrConstants, NEW kind, NEW blk \in CBlock, NEW k \in Nat
  PROVE  LET v == Stream!BlockValue(blk)
             W == Stream!Power(B - High(kind))
         IN  Stream!BlockValue(Ctr!CounterAfter(kind, blk, k)) = (v - (v % W)) + ((v + k) % W)
<1> DEFINE v == Stream!BlockValue(blk)
           W == Stream!Power(B - High(kind))
           C(j) == Ctr!CounterAfter(kind, blk, j)
           S == {j \in Nat : Stream!BlockValue(C(j)) = (v - (v % W)) + ((v + j) % W)}
<1>1. C(0) = blk /\ \A j \in Nat : C(j) \in CBlock /\ C(j + 1) = Ctr!Inc(kind, C(j))
  BY CounterUnfolds
<1>2. v \in Nat /\ W \in Nat /\ W > 0
  BY IncValue
<1> HIDE DEF C, v, W
<1>3. v \div W \in Nat /\ v % W \in 0..(W - 1) /\ v = W * (v \div W) + (v % W)
  <2>1. v \div W \in Int /\ v % W \in 0..(W - 1) /\ v = W * (v \div W) + (v % W)
    BY <1>2, Division
  <2>2. v \div W >= 0
    BY <1>2, SMTT(30)
  <2> QED
    BY <2>1, <2>2
<1> DEFINE g == v \div W
           l == v % W
<1>4. g \in Nat /\ l \in 0..(W - 1) /\ v = g * W + l /\ g * W \in Nat
  BY <1>2, <1>3, SMTT(30)
<1> HIDE DEF g
<1>5. 0 \in S
  <2>1. v + 0 = v /\ (v - l) + l = v
    BY <1>2, <1>4
  <2> QED
    BY <1>1, <2>1 DEF v
<1>6. ASSUME NEW j \in Nat, j \in S PROVE j + 1 \in S
  <2> DEFINE u == Stream!BlockValue(C(j))
             r == (v + j) % W
             q == (v + j) \div W
             y == v + j
  <2>1. y \in Int /\ r \in 0..(W - 1) /\ q \in Int /\ y = W * q + r
    BY <1>2, Division
  <2>2. u = (v - l) + r
    BY <1>6
  <2>3. Stream!BlockValue(C(j + 1)) = (u - (u % W)) + ((u + 1) % W)
    <3>1. C(j) \in CBlock
      BY <1>1
    <3>2. Stream!BlockValue(Ctr!Inc(kind, C(j))) = (u - (u % W)) + ((u + 1) % W)
      BY <3>1, IncValue DEF W
    <3> QED
      BY <1>1, <3>2
  <2> HIDE DEF u, l, r, q, y
  <2>4. u = g * W + r
    BY <1>2, <1>4, <2>1, <2>2
  <2>5. u % W = r /\ (u + 1) % W = (r + 1) % W /\ u - r = g * W
    BY <1>2, <1>4, <2>1, <2>4, SplitNumber
  <2>6. (y + 1) % W = (r + 1) % W
    <3>1. y + 1 = (r + 1) + q * W /\ y + 1 \in Int /\ r + 1 \in Int
      <4>1. W * q = q * W /\ W * q \in Int
        BY <1>2, <2>1, SMTT(30)
      <4> QED
        BY <2>1, <4>1
    <3> QED
      BY <1>2, <2>1, <3>1, SameRemainder
  <2>7. v - l = g * W
    BY <1>4
  <2>8. v + (j + 1) = y + 1
    BY <1>2 DEF y
  <2> QED
    BY <2>3, <2>5, <2>6, <2>7, <2>8 DEF l
<1>7. Nat \subseteq S
  <2> HIDE DEF S
  <2> QED
    BY <1>5, <1>6, Induction
<1> QED
  BY <1>7 DEF v, W, C

(* Counting on from the k-th counter. *)
LEMMA CountersAdd ==
  ASSUME CtrConstants, NEW kind, NEW blk \in CBlock, NEW k \in Nat, NEW j \in Nat
  PROVE  Ctr!CounterAfter(kind, Ctr!CounterAfter(kind, blk, k), j)
           = Ctr!CounterAfter(kind, blk, k + j)
<1> DEFINE C(i) == Ctr!CounterAfter(kind, blk, i)
           D(i) == Ctr!CounterAfter(kind, C(k), i)
           S == {i \in Nat : D(i) = C(k + i)}
<1>1. \A i \in Nat : C(i) \in CBlock /\ C(i + 1) = Ctr!Inc(kind, C(i))
  BY CounterUnfolds
<1>2. C(k) \in CBlock
  BY <1>1
<1>3. D(0) = C(k) /\ \A i \in Nat : D(i + 1) = Ctr!Inc(kind, D(i))
  <2> HIDE DEF C
  <2> QED
    BY <1>2, CounterUnfolds
<1> HIDE DEF C, D
<1>4. 0 \in S
  BY <1>3
<1>5. ASSUME NEW i \in Nat, i \in S PROVE i + 1 \in S
  <2>1. k + i \in Nat /\ (k + i) + 1 = k + (i + 1)
    OBVIOUS
  <2>2. C((k + i) + 1) = Ctr!Inc(kind, C(k + i))
    BY <1>1, <2>1
  <2> QED
    BY <1>3, <1>5, <2>1, <2>2
<1>6. Nat \subseteq S
  <2> HIDE DEF S
  <2> QED
    BY <1>4, <1>5, Induction
<1> QED
  BY <1>6 DEF C, D
-------------------------------------------------------------------------------
Cipher(ci, co, ks, p) == [cipher |-> ci, counter |-> co, keystream |-> ks, pos |-> p]

(* Behind n bytes of the stream a context has counted k blocks, and holds what
   is left of the last one. *)
StreamAt(kind, start, c, n, k) ==
  /\ c \in [cipher : {"AesCtr", "ChaCha20"}, counter : CBlock, keystream : CBlock, pos : 0..B]
  /\ c.counter = Ctr!CounterAfter(kind, start, k)
  /\ k * B = n + (B - c.pos)
  /\ c.pos < B => k > 0 /\ c.keystream = Ctr!CounterAfter(kind, start, k - 1)

StreamByte(kind, start, i) == <<Ctr!CounterAfter(kind, start, i \div B), i % B>>

StreamIInv ==
  LET kind == Stream!IncOf(st.cipher)
  IN  /\ log \in [todo : Nat, start : CBlock, pads : Seq(CBlock \X Nat)]
      /\ log.todo <= MaxStream
      /\ \E k \in Nat : StreamAt(kind, log.start, st, Len(log.pads), k)
      /\ \A i \in 1..Len(log.pads) : log.pads[i] = StreamByte(kind, log.start, i - 1)

(* The keystream counts as CounterBlock does. *)
LEMMA StreamSame ==
  ASSUME NEW kind, NEW blk, NEW k
  PROVE  /\ Stream!CounterAfter(kind, blk, k) = Ctr!CounterAfter(kind, blk, k)
         /\ Stream!Inc(kind, blk) = Ctr!Inc(kind, blk)
  BY CounterIsTable DEF Ctr!Inc, Ctr!Inc32, Ctr!Inc128, Stream!Inc, Stream!Inc32, Stream!Inc128

(* A byte of the stream by its block and its place there. *)
LEMMA StreamByteAt ==
  ASSUME CtrConstants, NEW kind, NEW start, NEW i \in Nat, NEW k \in Nat, NEW r \in 0..(B - 1),
         i = k * B + r
  PROVE  StreamByte(kind, start, i) = <<Ctr!CounterAfter(kind, start, k), r>>
<1>1. i = B * k + r /\ B \in Nat /\ B > 0
  <2>1. B * k = k * B
    BY SMTT(30) DEF CtrConstants
  <2> QED
    BY <2>1 DEF CtrConstants
<1>2. i \div B = k /\ i % B = r
  BY <1>1, DivisionUnique
<1> QED
  BY <1>2 DEF StreamByte

(* The bulk path moves the context on by the bytes it takes, in order. *)
LEMMA BulkStep ==
  ASSUME CtrConstants, NEW start \in CBlock, NEW c, NEW n \in Nat, NEW k \in Nat,
         NEW kind, kind = Stream!IncOf(c.cipher), StreamAt(kind, start, c, n, k),
         NEW todo \in Nat, NEW bulk, bulk = Stream!BulkBytes(c, todo)
  PROVE  /\ bulk \in 0..todo
         /\ Stream!AfterBulk(c, bulk).cipher = c.cipher
         /\ \E m \in Nat : StreamAt(kind, start, Stream!AfterBulk(c, bulk), n + bulk, m)
         /\ Stream!CtrApply(kind, c.counter, bulk)
              = [i \in 1..bulk |-> StreamByte(kind, start, n + i - 1)]
<1>1. B \in Nat /\ B > 0 /\ c.pos \in 0..B /\ k * B = n + (B - c.pos) /\ k * B \in Int
  BY SMTT(30) DEF CtrConstants, StreamAt
<1> DEFINE d == todo \div B
<1>2. d \in Nat /\ d * B \in 0..todo
  <2>1. d \in Int /\ todo % B \in 0..(B - 1) /\ todo = B * d + (todo % B)
    BY <1>1, Division
  <2>2. d >= 0
    BY <1>1, SMTT(30)
  <2> HIDE DEF d
  <2>3. d * B = B * d /\ d * B \in Nat
    BY <1>1, <2>1, <2>2, SMTT(30)
  <2> QED
    BY <2>1, <2>2, <2>3
<1> HIDE DEF d
<1>3. bulk = 0 \/ (c.pos = B /\ bulk = d * B)
  BY DEF Stream!BulkBytes, d
<1>4. bulk \in 0..todo
  BY <1>2, <1>3
<1>5. PICK e \in Nat : bulk = e * B /\ (e = 0 \/ c.pos = B)
  <2>1. 0 * B = 0
    BY <1>1
  <2> QED
    BY <1>2, <1>3, <2>1
<1>6. bulk \div B = e
  <2>1. e * B = B * e + 0 /\ e * B \in Int /\ 0 \in 0..(B - 1)
    BY <1>1, SMTT(30)
  <2> QED
    BY <1>1, <1>5, <2>1, DivisionUnique
<1>7. Ctr!CounterAfter(kind, start, k + e) \in CBlock
  BY CounterUnfolds
<1>8. Stream!AfterBulk(c, bulk)
        = [c EXCEPT !.counter = Ctr!CounterAfter(kind, start, k + e)]
  <2>1. c.counter = Ctr!CounterAfter(kind, start, k)
    BY DEF StreamAt
  <2>2. Stream!CounterAfter(kind, c.counter, e) = Ctr!CounterAfter(kind, start, k + e)
    BY <2>1, StreamSame, CountersAdd
  <2> QED
    BY <1>6, <2>2 DEF Stream!AfterBulk
<1> DEFINE a == [c EXCEPT !.counter = Ctr!CounterAfter(kind, start, k + e)]
<1>9. StreamAt(kind, start, a, n + bulk, k + e) /\ a.cipher = c.cipher
  <2>1. (k + e) * B = k * B + e * B
    BY <1>1, SMTT(30)
  <2>2. (k + e) * B = (n + bulk) + (B - c.pos)
    BY <1>1, <1>4, <1>5, <2>1
  <2>3. /\ a.counter = Ctr!CounterAfter(kind, start, k + e)
        /\ a.keystream = c.keystream /\ a.pos = c.pos /\ a.cipher = c.cipher
        /\ a \in [cipher : {"AesCtr", "ChaCha20"}, counter : CBlock, keystream : CBlock,
                  pos : 0..B]
    BY <1>7 DEF StreamAt
  <2> HIDE DEF a
  <2>4. c.pos < B => k + e > 0 /\ a.keystream = Ctr!CounterAfter(kind, start, (k + e) - 1)
    <3> SUFFICES ASSUME c.pos < B PROVE k > 0 /\ e = 0 /\ c.keystream = Ctr!CounterAfter(kind, start, k - 1)
      BY <2>3
    <3> QED
      BY <1>5 DEF StreamAt
  <2> QED
    BY <2>2, <2>3, <2>4 DEF StreamAt
<1>10. Stream!CtrApply(kind, c.counter, bulk)
         = [i \in 1..bulk |-> StreamByte(kind, start, n + i - 1)]
  <2>1. ASSUME NEW i \in 1..bulk
        PROVE  <<Stream!CounterAfter(kind, c.counter, (i - 1) \div B), (i - 1) % B>>
                 = StreamByte(kind, start, n + i - 1)
    <3> DEFINE q == (i - 1) \div B
               r == (i - 1) % B
    <3>1. bulk \in Nat /\ i \in Nat /\ i >= 1 /\ c.pos = B
      BY <1>1, <1>4, <1>5
    <3>2. q \in Nat /\ r \in 0..(B - 1) /\ i - 1 = B * q + r
      <4>1. q \in Int /\ r \in 0..(B - 1) /\ i - 1 = B * q + r
        BY <1>1, <3>1, Division
      <4>2. q >= 0
        BY <1>1, <3>1, SMTT(30)
      <4> QED
        BY <4>1, <4>2
    <3> HIDE DEF q, r
    <3>3. (k + q) * B = k * B + B * q /\ B * q \in Int
      BY <1>1, <3>2, SMTT(30)
    <3>4. n + i - 1 = (k + q) * B + r /\ n + i - 1 \in Nat
      BY <1>1, <3>1, <3>2, <3>3
    <3>5. StreamByte(kind, start, n + i - 1) = <<Ctr!CounterAfter(kind, start, k + q), r>>
      BY <3>2, <3>4, StreamByteAt
    <3>6. Stream!CounterAfter(kind, c.counter, q) = Ctr!CounterAfter(kind, start, k + q)
      BY <3>2, StreamSame, CountersAdd DEF StreamAt
    <3> QED
      BY <3>5, <3>6 DEF q, r
  <2> QED
    BY <2>1 DEF Stream!CtrApply
<1>11. k + e \in Nat
  OBVIOUS
<1> QED
  BY <1>4, <1>8, <1>9, <1>10, <1>11

(* A function on 1..n is a sequence. *)
LEMMA SequenceOf ==
  ASSUME NEW T, NEW n \in Nat, NEW f \in [1..n -> T]
  PROVE  f \in Seq(T) /\ Len(f) = n
OBVIOUS

(* What a reload leaves, field by field. *)
LEMMA ReloadFields ==
  ASSUME NEW c, c \in [cipher : {"AesCtr", "ChaCha20"}, counter : CBlock, keystream : CBlock,
                       pos : 0..B], c.pos = B
  PROVE  Stream!Reload(c) = Cipher(c.cipher, Stream!Inc(Stream!IncOf(c.cipher), c.counter),
                                   c.counter, 0)
<1> DEFINE new == Stream!Inc(Stream!IncOf(c.cipher), c.counter)
           a == Cipher(c.cipher, c.counter, c.keystream, c.pos)
<1>1. c = a
  BY DEF Cipher
<1>2. Stream!Reload(c) = [c EXCEPT !.keystream = c.counter, !.pos = 0, !.counter = new]
  BY DEF Stream!Reload
<1> HIDE DEF new
<1> QED
  BY <1>1, <1>2 DEF Cipher, new

(* A reload takes no byte of the stream, and leaves one to take. *)
LEMMA ReloadStep ==
  ASSUME CtrConstants, NEW start \in CBlock, NEW c, NEW n \in Nat, NEW k \in Nat,
         NEW kind, kind = Stream!IncOf(c.cipher), StreamAt(kind, start, c, n, k),
         NEW ready, ready = Stream!Reload(c)
  PROVE  \E m \in Nat : StreamAt(kind, start, ready, n, m) /\ ready.pos < B
                        /\ ready.cipher = c.cipher
<1>1. /\ c \in [cipher : {"AesCtr", "ChaCha20"}, counter : CBlock, keystream : CBlock, pos : 0..B]
      /\ c.counter = Ctr!CounterAfter(kind, start, k)
      /\ k * B = n + (B - c.pos)
      /\ c.pos < B => k > 0 /\ c.keystream = Ctr!CounterAfter(kind, start, k - 1)
  BY DEF StreamAt
<1>2. B \in Nat /\ B > 0 /\ k * B \in Nat
  BY SMTT(30) DEF CtrConstants
<1>3. CASE c.pos = B
  <2> DEFINE new == Ctr!CounterAfter(kind, start, k + 1)
  <2>1. new = Stream!Inc(kind, c.counter) /\ new \in CBlock
    <3>1. k + 1 \in Nat
      OBVIOUS
    <3>2. new = Ctr!Inc(kind, Ctr!CounterAfter(kind, start, k))
      BY CounterUnfolds
    <3>3. new \in CBlock
      BY <3>1, CounterUnfolds
    <3> QED
      BY <1>1, <3>2, <3>3, StreamSame
  <2> HIDE DEF new
  <2>2. ready = Cipher(c.cipher, new, c.counter, 0)
    BY <1>1, <1>3, <2>1, ReloadFields
  <2>3. /\ ready.cipher = c.cipher /\ ready.counter = new /\ ready.keystream = c.counter
        /\ ready.pos = 0
        /\ ready \in [cipher : {"AesCtr", "ChaCha20"}, counter : CBlock, keystream : CBlock,
                      pos : 0..B]
    BY <1>1, <1>2, <2>1, <2>2 DEF Cipher
  <2>4. (k + 1) * B = k * B + B
    BY <1>2, SMTT(30)
  <2>5. (k + 1) * B = n + (B - ready.pos)
    BY <1>1, <1>2, <1>3, <2>3, <2>4
  <2>6. k + 1 \in Nat /\ k + 1 > 0 /\ (k + 1) - 1 = k /\ ready.pos < B
    BY <1>2, <2>3
  <2>7. StreamAt(kind, start, ready, n, k + 1)
    BY <1>1, <2>3, <2>5, <2>6 DEF StreamAt, new
  <2> QED
    BY <2>3, <2>6, <2>7
<1>4. CASE c.pos # B
  <2>1. ready = c
    BY <1>4 DEF Stream!Reload
  <2>2. c.pos \in 0..B
    BY <1>1
  <2>3. c.pos < B
    BY <1>2, <1>4, <2>2
  <2> QED
    BY <2>1, <2>3
<1> QED
  BY <1>3, <1>4

(* Part of the block that is open. *)
LEMMA TakeStep ==
  ASSUME CtrConstants, NEW start \in CBlock, NEW c, NEW n \in Nat, NEW k \in Nat, NEW kind,
         StreamAt(kind, start, c, n, k), c.pos < B, NEW take \in Nat, take <= B - c.pos
  PROVE  /\ StreamAt(kind, start, [c EXCEPT !.pos = @ + take], n + take, k)
         /\ \A j \in 1..take : <<c.keystream, c.pos + j - 1>> = StreamByte(kind, start, n + j - 1)
<1>1. /\ c \in [cipher : {"AesCtr", "ChaCha20"}, counter : CBlock, keystream : CBlock, pos : 0..B]
      /\ c.counter = Ctr!CounterAfter(kind, start, k)
      /\ k * B = n + (B - c.pos)
      /\ k > 0 /\ c.keystream = Ctr!CounterAfter(kind, start, k - 1)
  BY DEF StreamAt
<1>2. B \in Nat /\ B > 0 /\ k * B \in Nat
  BY SMTT(30) DEF CtrConstants
<1> DEFINE a == [c EXCEPT !.pos = @ + take]
<1>3. /\ a \in [cipher : {"AesCtr", "ChaCha20"}, counter : CBlock, keystream : CBlock, pos : 0..B]
      /\ a.counter = c.counter /\ a.keystream = c.keystream /\ a.pos = c.pos + take
  <2>1. c.pos + take \in 0..B
    BY <1>1, <1>2
  <2> QED
    BY <1>1, <2>1
<1>4. k * B = (n + take) + (B - a.pos)
  BY <1>1, <1>2, <1>3
<1> HIDE DEF a
<1>5. StreamAt(kind, start, a, n + take, k)
  BY <1>1, <1>3, <1>4 DEF StreamAt
<1>6. ASSUME NEW j \in 1..take
      PROVE  <<c.keystream, c.pos + j - 1>> = StreamByte(kind, start, n + j - 1)
  <2> DEFINE r == c.pos + j - 1
  <2>1. r \in 0..(B - 1) /\ n + j - 1 \in Nat /\ k - 1 \in Nat
    BY <1>1, <1>2
  <2>2. (k - 1) * B = k * B - B
    BY <1>2, SMTT(30)
  <2>3. n + j - 1 = (k - 1) * B + r
    BY <1>1, <1>2, <2>2
  <2> HIDE DEF r
  <2>4. StreamByte(kind, start, n + j - 1) = <<Ctr!CounterAfter(kind, start, k - 1), r>>
    BY <2>1, <2>3, StreamByteAt
  <2> QED
    BY <1>1, <2>4 DEF r
<1> QED
  BY <1>5, <1>6 DEF a

(* Pads of a stream, from one place in it on. *)
PadsFrom(kind, start, n, s) ==
  s \in Seq(CBlock \X Nat) /\ \A i \in 1..Len(s) : s[i] = StreamByte(kind, start, n + i - 1)

(* What is put through next continues the pads. *)
LEMMA PadsGoOn ==
  ASSUME CtrConstants, NEW kind, NEW start, NEW old, NEW new,
         PadsFrom(kind, start, 0, old), PadsFrom(kind, start, Len(old), new)
  PROVE  PadsFrom(kind, start, 0, old \o new) /\ Len(old \o new) = Len(old) + Len(new)
<1> DEFINE T == CBlock \X Nat
           got == old \o new
           l == Len(old)
           m == Len(new)
           At(i) == StreamByte(kind, start, i)
<1>1. new \in Seq(T) /\ old \in Seq(T) /\ l \in Nat /\ m \in Nat
  BY DEF PadsFrom
<1>2. \A i \in 1..l : old[i] = At(i - 1)
  <2> TAKE i \in 1..l
  <2>1. 0 + i - 1 = i - 1
    OBVIOUS
  <2>2. old[i] = At(0 + i - 1)
    BY DEF PadsFrom
  <2> QED
    BY <2>1, <2>2
<1>3. \A j \in 1..m : new[j] = At(l + j - 1)
  BY DEF PadsFrom
<1> HIDE DEF T, At
<1>4. got \in Seq(T) /\ Len(got) = l + m
  BY <1>1, ConcatProperties
<1>5. \A i \in 1..(l + m) : got[i] = IF i <= l THEN old[i] ELSE new[i - l]
  BY <1>1, ConcatProperties
<1> HIDE DEF got, l, m
<1>6. ASSUME NEW i \in 1..Len(got) PROVE got[i] = At(i - 1)
  <2>1. i \in 1..(l + m)
    BY <1>4
  <2>2. got[i] = IF i <= l THEN old[i] ELSE new[i - l]
    BY <1>5, <2>1
  <2>3. CASE i <= l
    BY <1>1, <1>2, <2>1, <2>2, <2>3
  <2>4. CASE i > l
    <3>1. i - l \in 1..m /\ l + (i - l) - 1 = i - 1 /\ got[i] = new[i - l]
      BY <1>1, <2>1, <2>2, <2>4
    <3>2. new[i - l] = At(l + (i - l) - 1)
      BY <1>3, <3>1
    <3> QED
      BY <3>1, <3>2
  <2> QED
    BY <1>1, <2>1, <2>3, <2>4
<1>7. ASSUME NEW i \in 1..Len(got) PROVE got[i] = At(0 + i - 1)
  <2>1. 0 + i - 1 = i - 1
    OBVIOUS
  <2> QED
    BY <1>6, <2>1
<1> QED
  BY <1>4, <1>7 DEF T, got, At, l, m, PadsFrom

(* Bytes of the stream are typed. *)
LEMMA StreamByteTyped ==
  ASSUME CtrConstants, NEW kind, NEW start \in CBlock, NEW i \in Nat
  PROVE  StreamByte(kind, start, i) \in CBlock \X Nat
<1>1. i \div B \in Nat /\ i % B \in 0..(B - 1)
  BY NatDivision DEF CtrConstants
<1>2. Ctr!CounterAfter(kind, start, i \div B) \in CBlock
  BY <1>1, CounterUnfolds
<1> QED
  BY <1>1, <1>2 DEF StreamByte

(* A fresh context is at the start of its stream. *)
LEMMA StreamInitial ==
  ASSUME CtrConstants, Stream!Init
  PROVE  StreamIInv
<1>1. PICK cipher \in {"AesCtr", "ChaCha20"}, start \in Starts :
        /\ st = [cipher |-> cipher, counter |-> start, keystream |-> start, pos |-> B]
        /\ log = [todo |-> 0, start |-> start, pads |-> <<>>]
  BY DEF Stream!Init
<1>2. start \in CBlock
  BY SymmetricAssumption DEF Stream!KeystreamParameters, CBlock, Digit
<1>3. B \in Nat /\ B > 0 /\ 0 * B = 0 + (B - B)
  BY DEF CtrConstants
<1>4. Ctr!CounterAfter(Stream!IncOf(st.cipher), start, 0) = start
  BY <1>2, CounterUnfolds
<1>5. StreamAt(Stream!IncOf(st.cipher), start, st, 0, 0)
  BY <1>1, <1>2, <1>3, <1>4 DEF StreamAt
<1>6. log.start = start /\ log.pads = <<>> /\ Len(log.pads) = 0
      /\ log \in [todo : Nat, start : CBlock, pads : Seq(CBlock \X Nat)]
  BY <1>1, <1>2
<1>7. log.todo <= MaxStream
  <2>1. MaxStream \in Nat /\ log.todo = 0
    BY <1>1, SymmetricAssumption DEF Stream!KeystreamParameters
  <2> QED
    BY <2>1
<1> QED
  BY <1>5, <1>6, <1>7 DEF StreamIInv

(* A call asks for more of the stream and takes none yet. *)
LEMMA StreamCallStep ==
  ASSUME StreamIInv, NEW n \in Nat, n <= MaxStream, Stream!Call(n)
  PROVE  StreamIInv'
<1>1. st' = st /\ log' = [log EXCEPT !.todo = n]
  BY DEF Stream!Call
<1>2. log \in [todo : Nat, start : CBlock, pads : Seq(CBlock \X Nat)]
  BY DEF StreamIInv
<1>3. /\ log' \in [todo : Nat, start : CBlock, pads : Seq(CBlock \X Nat)]
      /\ log'.todo = n /\ log'.start = log.start /\ log'.pads = log.pads
  BY <1>1, <1>2
<1> QED
  BY <1>1, <1>3 DEF StreamIInv

(* Bytes put through, and the pads that they met. *)
LEMMA UsedStep ==
  ASSUME CtrConstants, NEW kind,
         log \in [todo : Nat, start : CBlock, pads : Seq(CBlock \X Nat)],
         NEW pads, NEW m \in Nat, m <= log.todo, Len(pads) = m, Stream!Used(pads),
         log.pads \o pads \in Seq(CBlock \X Nat)
  PROVE  /\ log' \in [todo : Nat, start : CBlock, pads : Seq(CBlock \X Nat)]
         /\ log'.todo <= log.todo /\ log'.start = log.start /\ log'.pads = log.pads \o pads
<1> DEFINE new == log.pads \o pads
           rest == log.todo - m
<1>1. log' = [log EXCEPT !.todo = rest, !.pads = new]
  BY DEF Stream!Used
<1>2. rest \in Nat /\ rest <= log.todo /\ new \in Seq(CBlock \X Nat)
  OBVIOUS
<1> HIDE DEF new, rest
<1>3. log = [todo |-> log.todo, start |-> log.start, pads |-> log.pads] /\ log.start \in CBlock
  OBVIOUS
<1>4. log' = [todo |-> rest, start |-> log.start, pads |-> new]
  BY <1>1, <1>3
<1> QED
  BY <1>2, <1>3, <1>4 DEF new

(* A turn of the loop takes the next bytes of the stream. *)
LEMMA StreamTurnStep ==
  ASSUME CtrConstants, StreamIInv, Stream!Turn
  PROVE  StreamIInv'
<1> DEFINE kind  == Stream!IncOf(st.cipher)
           start == log.start
           old   == log.pads
           bulk  == Stream!BulkBytes(st, log.todo)
           after == Stream!AfterBulk(st, bulk)
           left  == log.todo - bulk
           ready == Stream!Reload(after)
           n     == Stream!Smaller(B - ready.pos, left)
           p1    == Stream!CtrApply(kind, st.counter, bulk)
           p2    == [j \in 1..n |-> <<ready.keystream, ready.pos + j - 1>>]
           T     == CBlock \X Nat
           moved == [ready EXCEPT !.pos = @ + n]
<1>1. /\ log \in [todo : Nat, start : CBlock, pads : Seq(CBlock \X Nat)]
      /\ log.todo <= MaxStream /\ MaxStream \in Nat
      /\ \A i \in 1..Len(old) : old[i] = StreamByte(kind, start, i - 1)
  BY SymmetricAssumption DEF StreamIInv, Stream!KeystreamParameters
<1>2. PICK k \in Nat : StreamAt(kind, start, st, Len(old), k)
  BY DEF StreamIInv
<1>3. log.todo \in Nat /\ start \in CBlock /\ old \in Seq(CBlock \X Nat) /\ Len(old) \in Nat
  BY <1>1
<1>4. IF left = 0 THEN st' = after /\ Stream!Used(p1)
      ELSE st' = moved /\ Stream!Used(p1 \o p2)
  BY DEF Stream!Turn
<1>5. /\ bulk \in 0..log.todo /\ after.cipher = st.cipher
      /\ \E m \in Nat : StreamAt(kind, start, after, Len(old) + bulk, m)
      /\ p1 = [i \in 1..bulk |-> StreamByte(kind, start, Len(old) + i - 1)]
  <2> HIDE DEF kind, start, old
  <2> QED
    BY <1>2, <1>3, BulkStep DEF kind
<1>6. PICK k1 \in Nat : StreamAt(kind, start, after, Len(old) + bulk, k1)
  BY <1>5
<1> HIDE DEF kind, start, old, bulk, after, left, ready, n, p1, p2, moved
<1>7. bulk \in Nat /\ left \in Nat /\ Len(old) + bulk \in Nat
  BY <1>3, <1>5 DEF left
<1> DEFINE got == old \o p1
<1>8. /\ p1 \in Seq(CBlock \X Nat) /\ Len(p1) = bulk
      /\ \A j \in 1..Len(p1) : p1[j] = StreamByte(kind, start, Len(old) + j - 1)
  <2>1. \A j \in 1..bulk : p1[j] = StreamByte(kind, start, Len(old) + j - 1)
    BY <1>5
  <2>2. ASSUME NEW j \in 1..bulk
        PROVE  StreamByte(kind, start, Len(old) + j - 1) \in CBlock \X Nat
    <3>1. Len(old) + j - 1 \in Nat
      BY <1>3, <1>7
    <3> QED
      BY <1>3, <3>1, StreamByteTyped
  <2>3. p1 \in [1..bulk -> CBlock \X Nat]
    BY <1>5, <2>2
  <2> HIDE <1>5
  <2>4. p1 \in Seq(CBlock \X Nat) /\ Len(p1) = bulk
    BY <1>7, <2>3, SequenceOf
  <2> QED
    BY <2>1, <2>4
<1>9. /\ got \in Seq(CBlock \X Nat) /\ Len(got) = Len(old) + bulk
      /\ \A i \in 1..Len(got) : got[i] = StreamByte(kind, start, i - 1)
  <2>1. PadsFrom(kind, start, 0, old)
    BY <1>1, <1>3 DEF PadsFrom
  <2>2. PadsFrom(kind, start, Len(old), p1)
    BY <1>8 DEF PadsFrom
  <2>3. PadsFrom(kind, start, 0, got) /\ Len(got) = Len(old) + Len(p1)
    BY <2>1, <2>2, PadsGoOn
  <2> QED
    BY <1>8, <2>3 DEF PadsFrom
<1>10. CASE left = 0
  <2>1. st' = after /\ Stream!Used(p1)
    BY <1>4, <1>10
  <2>2. /\ log' \in [todo : Nat, start : CBlock, pads : Seq(CBlock \X Nat)]
        /\ log'.todo <= log.todo /\ log'.start = start /\ log'.pads = got
    <3>1. bulk <= log.todo /\ log.pads \o p1 \in Seq(CBlock \X Nat)
      BY <1>3, <1>5, <1>9 DEF old
    <3> QED
      BY <1>1, <1>7, <1>8, <2>1, <3>1, UsedStep DEF start, old
  <2>3. Stream!IncOf(st'.cipher) = kind
    BY <1>5, <2>1 DEF kind
  <2> HIDE DEF got
  <2>4. \A i \in 1..Len(log'.pads) :
          log'.pads[i] = StreamByte(Stream!IncOf(st'.cipher), log'.start, i - 1)
    BY <1>9, <2>2, <2>3
  <2>5. StreamAt(Stream!IncOf(st'.cipher), log'.start, st', Len(log'.pads), k1)
    BY <1>6, <1>9, <2>1, <2>2, <2>3
  <2>6. log'.todo <= MaxStream
    BY <1>1, <2>2
  <2> QED
    BY <2>2, <2>4, <2>5, <2>6 DEF StreamIInv
<1>11. CASE left # 0
  <2>1. st' = moved /\ Stream!Used(p1 \o p2)
    BY <1>4, <1>11
  <2>2. PICK k2 \in Nat : /\ StreamAt(kind, start, ready, Len(old) + bulk, k2)
                          /\ ready.pos < B /\ ready.cipher = st.cipher
    <3>1. kind = Stream!IncOf(after.cipher)
      BY <1>5 DEF kind
    <3> QED
      BY <1>3, <1>5, <1>6, <1>7, <3>1, ReloadStep DEF ready
  <2>3. ready.pos \in 0..B /\ B \in Nat
    BY <2>2 DEF StreamAt, CtrConstants
  <2>4. n \in Nat /\ n <= B - ready.pos /\ n <= left
    BY <1>7, <2>2, <2>3 DEF n, Stream!Smaller
  <2>5. /\ StreamAt(kind, start, moved, Len(old) + bulk + n, k2)
        /\ \A j \in 1..n : <<ready.keystream, ready.pos + j - 1>>
                             = StreamByte(kind, start, Len(old) + bulk + j - 1)
    <3> DEFINE at == Len(old) + bulk
    <3>1. /\ start \in CBlock /\ at \in Nat /\ k2 \in Nat /\ n \in Nat
          /\ StreamAt(kind, start, ready, at, k2) /\ ready.pos < B /\ n <= B - ready.pos
      BY <1>3, <1>7, <2>2, <2>4
    <3> HIDE DEF at
    <3>2. /\ StreamAt(kind, start, [ready EXCEPT !.pos = @ + n], at + n, k2)
          /\ \A j \in 1..n : <<ready.keystream, ready.pos + j - 1>>
                               = StreamByte(kind, start, at + j - 1)
      BY <3>1, TakeStep
    <3> QED
      BY <3>2 DEF moved, at
  <2>6. /\ p2 \in Seq(CBlock \X Nat) /\ Len(p2) = n
        /\ \A j \in 1..Len(p2) : p2[j] = StreamByte(kind, start, Len(got) + j - 1)
    <3>1. \A j \in 1..n : p2[j] = StreamByte(kind, start, Len(got) + j - 1)
      BY <1>9, <2>5 DEF p2
    <3>2. p2 \in [1..n -> CBlock \X Nat]
      <4>1. ready.keystream \in CBlock
        BY <2>2 DEF StreamAt
      <4>2. \A j \in 1..n : ready.pos + j - 1 \in Nat
        BY <2>3, <2>4
      <4> QED
        BY <4>1, <4>2 DEF p2
    <3>3. p2 \in Seq(CBlock \X Nat) /\ Len(p2) = n
      BY <2>4, <3>2, SequenceOf
    <3> QED
      BY <3>1, <3>3
  <2> DEFINE all == got \o p2
  <2>7. /\ all \in Seq(CBlock \X Nat) /\ Len(all) = Len(got) + n
        /\ \A i \in 1..Len(all) : all[i] = StreamByte(kind, start, i - 1)
    <3> HIDE DEF got
    <3>1. PadsFrom(kind, start, 0, got)
      BY <1>9 DEF PadsFrom
    <3>2. PadsFrom(kind, start, Len(got), p2)
      BY <2>6 DEF PadsFrom
    <3>3. PadsFrom(kind, start, 0, all) /\ Len(all) = Len(got) + Len(p2)
      BY <3>1, <3>2, PadsGoOn
    <3> QED
      BY <2>6, <3>3 DEF PadsFrom
  <2>9. old \o (p1 \o p2) = all /\ Len(p1 \o p2) = bulk + n
    <3> HIDE DEF T
    <3>1. old \in Seq(T) /\ p1 \in Seq(T) /\ p2 \in Seq(T)
      BY <1>3, <1>8, <2>6 DEF T
    <3>2. old \o (p1 \o p2) = (old \o p1) \o p2
      BY <3>1, ConcatAssociative
    <3>3. Len(p1 \o p2) = Len(p1) + Len(p2)
      BY <3>1, ConcatProperties
    <3> QED
      BY <1>8, <2>6, <3>2, <3>3
  <2>10. /\ log' \in [todo : Nat, start : CBlock, pads : Seq(CBlock \X Nat)]
         /\ log'.todo <= log.todo /\ log'.start = start /\ log'.pads = all
    <3> DEFINE pads == p1 \o p2
               m == bulk + n
    <3>1. /\ m \in Nat /\ m <= log.todo /\ Len(pads) = m /\ Stream!Used(pads)
          /\ log.pads \o pads \in Seq(CBlock \X Nat) /\ log.pads \o pads = all
      <4>1. m \in Nat /\ m <= log.todo
        BY <1>3, <1>7, <2>4 DEF left
      <4>2. log.pads \o pads = all
        BY <2>9 DEF old
      <4> HIDE DEF all
      <4> QED
        BY <2>1, <2>7, <2>9, <4>1, <4>2
    <3> HIDE DEF pads, m, all
    <3> QED
      BY <1>1, <3>1, UsedStep DEF start
  <2>11. Stream!IncOf(st'.cipher) = kind
    <3>1. moved.cipher = ready.cipher
      BY <2>2 DEF moved, StreamAt
    <3> QED
      BY <2>1, <2>2, <3>1 DEF kind
  <2>12. Len(all) = Len(old) + bulk + n
    BY <1>9, <2>7
  <2> HIDE DEF all, got
  <2>13. \A i \in 1..Len(log'.pads) :
           log'.pads[i] = StreamByte(Stream!IncOf(st'.cipher), log'.start, i - 1)
    BY <2>7, <2>10, <2>11
  <2>14. StreamAt(Stream!IncOf(st'.cipher), log'.start, st', Len(log'.pads), k2)
    BY <2>1, <2>5, <2>10, <2>11, <2>12
  <2>15. log'.todo <= MaxStream
    BY <1>1, <2>10
  <2> QED
    BY <2>10, <2>13, <2>14, <2>15 DEF StreamIInv
<1> QED
  BY <1>10, <1>11

(* Every step keeps the place in the stream. *)
LEMMA StreamStep ==
  ASSUME CtrConstants, StreamIInv, Stream!Next
  PROVE  StreamIInv'
<1>1. CASE \E n \in 1..(MaxStream - Len(log.pads)) : Stream!Call(n)
  <2>1. MaxStream \in Nat /\ Len(log.pads) \in Nat
    BY SymmetricAssumption DEF Stream!KeystreamParameters, StreamIInv
  <2>2. \A n \in 1..(MaxStream - Len(log.pads)) : n \in Nat /\ n <= MaxStream
    BY <2>1
  <2> QED
    BY <1>1, <2>2, StreamCallStep
<1>2. CASE Stream!Turn
  BY <1>2, StreamTurnStep
<1> QED
  BY <1>1, <1>2 DEF Stream!Next

(* The bytes taken are one stream, in order. *)
LEMMA StreamIInvImplies ==
  ASSUME CtrConstants, StreamIInv
  PROVE  Stream!OneKeystream
<1> DEFINE kind == Stream!IncOf(st.cipher)
<1> SUFFICES ASSUME NEW n \in 1..Len(log.pads)
             PROVE  /\ Stream!BlockValue(log.pads[n][1])
                         = Stream!ExpectedCounter(st.cipher, log.start, (n - 1) \div B)
                    /\ log.pads[n][2] = (n - 1) % B
  BY DEF Stream!OneKeystream
<1>1. log.pads[n] = StreamByte(kind, log.start, n - 1) /\ log.start \in CBlock
      /\ n \in Nat /\ n >= 1
  BY DEF StreamIInv
<1> DEFINE k == (n - 1) \div B
<1>2. k \in Nat
  BY <1>1, NatDivision DEF CtrConstants
<1>3. log.pads[n] = <<Ctr!CounterAfter(kind, log.start, k), (n - 1) % B>>
  BY <1>1 DEF StreamByte
<1>4. st.cipher \in {"AesCtr", "ChaCha20"}
  BY DEF StreamIInv, StreamAt
<1>5. IF st.cipher = "AesCtr" THEN B - High(kind) = B ELSE B - High(kind) = LowBytes
  BY <1>4 DEF CtrConstants, Stream!IncOf, High
<1> HIDE DEF k, kind
<1> DEFINE v == Stream!BlockValue(log.start)
           W == Stream!Power(B - High(kind))
<1>6. Stream!BlockValue(Ctr!CounterAfter(kind, log.start, k)) = (v - (v % W)) + ((v + k) % W)
  BY <1>1, <1>2, CounterValue
<1>7. W = IF st.cipher = "AesCtr" THEN Stream!Power(B) ELSE Stream!Power(LowBytes)
  BY <1>5, Zenon
<1> HIDE DEF v, W
<1>9. Stream!ExpectedCounter(st.cipher, log.start, k) = (v - (v % W)) + ((v + k) % W)
  BY <1>7 DEF Stream!ExpectedCounter, v
<1>8. log.pads[n][1] = Ctr!CounterAfter(kind, log.start, k) /\ log.pads[n][2] = (n - 1) % B
  BY <1>3
<1> QED
  BY <1>6, <1>9, <1>8 DEF k

-------------------------------------------------------------------------------
(* CBC, and how sequences of blocks are put together. *)

(* CBC.  A sequence, whatever it is of. *)
IsSeq(s) == \E T : s \in Seq(T)

(* A sequence has a length and is defined up to it. *)
LEMMA IsSeqFacts ==
  ASSUME NEW s, IsSeq(s)
  PROVE  Len(s) \in Nat /\ DOMAIN s = 1..Len(s)
  BY DEF IsSeq

(* A function that is written on 1..n is a sequence. *)
LEMMA ListIsSeq ==
  ASSUME NEW n \in Nat, NEW s, s = [i \in 1..n |-> s[i]]
  PROVE  IsSeq(s) /\ Len(s) = n
<1> DEFINE T == {s[i] : i \in 1..n}
<1>1. s \in [1..n -> T]
  <2>1. \A i \in 1..n : s[i] \in T
    OBVIOUS
  <2> HIDE DEF T
  <2> QED
    BY <2>1
<1> HIDE DEF T
<1>2. s \in Seq(T) /\ Len(s) = n
  BY <1>1, SequenceOf
<1> QED
  BY <1>2 DEF IsSeq

(* Two sequences joined, element by element. *)
LEMMA JoinIsSeq ==
  ASSUME NEW s, IsSeq(s), NEW t, IsSeq(t)
  PROVE  /\ IsSeq(s \o t) /\ Len(s \o t) = Len(s) + Len(t)
         /\ \A i \in 1..(Len(s) + Len(t)) :
              (s \o t)[i] = IF i <= Len(s) THEN s[i] ELSE t[i - Len(s)]
<1>1. PICK S : s \in Seq(S)
  BY DEF IsSeq
<1>2. PICK T : t \in Seq(T)
  BY DEF IsSeq
<1> DEFINE U == S \cup T
<1>3. s \in Seq(U) /\ t \in Seq(U)
  BY <1>1, <1>2
<1> HIDE DEF U
<1>4. s \o t \in Seq(U)
  BY <1>3, ConcatProperties
<1> QED
  BY <1>3, <1>4, ConcatProperties DEF IsSeq

(* A part of a sequence, element by element. *)
LEMMA PartIsSeq ==
  ASSUME NEW s, IsSeq(s), NEW a \in 1..(Len(s) + 1), NEW b \in (a - 1)..Len(s)
  PROVE  /\ IsSeq(SubSeq(s, a, b)) /\ Len(SubSeq(s, a, b)) = b - a + 1
         /\ \A i \in 1..(b - a + 1) : SubSeq(s, a, b)[i] = s[a + i - 1]
<1>1. PICK S : s \in Seq(S)
  BY DEF IsSeq
<1>2. /\ SubSeq(s, a, b) \in Seq(S) /\ Len(SubSeq(s, a, b)) = b - a + 1
      /\ \A i \in 1..(b - a + 1) : SubSeq(s, a, b)[i] = s[a + i - 1]
  BY <1>1, SubSeqProperties
<1> QED
  BY <1>2 DEF IsSeq

(* Block i of a message, enciphered behind the block p. *)
Chained(i, p) == Stream!Encrypted(Stream!Xor(Stream!Plain(i), p))

(* The chain that a call goes through, from what stands in its iv. *)
Chain(from, l, n) ==
  CHOOSE c : c = [i \in 0..n |-> IF i = 0 THEN from
                                 ELSE Stream!Encrypted(Stream!Xor(Stream!Plain(l + i), c[i - 1]))]

(* The chain of CBC, block by block. *)
LEMMA ChainUnfolded ==
  ASSUME NEW from, NEW l, NEW n \in Nat
  PROVE  /\ Chain(from, l, n)[0] = from
         /\ \A i \in 1..n : Chain(from, l, n)[i] = Chained(l + i, Chain(from, l, n)[i - 1])
<1> DEFINE Step(i, p) == Stream!Encrypted(Stream!Xor(Stream!Plain(l + i), p))
           Is(c, m) == c = [i \in 0..m |-> IF i = 0 THEN from ELSE Step(i, c[i - 1])]
           S == {m \in Nat : \E c : Is(c, m)}
<1> HIDE DEF Step
<1>1. 0 \in S
  <2>1. Is([i \in 0..0 |-> from], 0)
    OBVIOUS
  <2> QED
    BY <2>1
<1>2. ASSUME NEW m \in Nat, m \in S PROVE m + 1 \in S
  <2>1. PICK c : Is(c, m)
    BY <1>2
  <2> DEFINE d == [i \in 0..(m + 1) |-> IF i <= m THEN c[i] ELSE Step(i, c[m])]
  <2>2. ASSUME NEW i \in 0..(m + 1) PROVE d[i] = IF i = 0 THEN from ELSE Step(i, d[i - 1])
    <3>1. CASE i = 0
      <4>1. d[i] = c[0] /\ c[0] = from
        BY <2>1, <3>1
      <4> QED
        BY <3>1, <4>1
    <3>2. CASE i # 0 /\ i <= m
      <4>1. d[i] = c[i] /\ d[i - 1] = c[i - 1] /\ c[i] = Step(i, c[i - 1])
        BY <2>1, <3>2
      <4> QED
        BY <3>2, <4>1
    <3>3. CASE i = m + 1
      <4>1. d[i] = Step(i, c[m]) /\ d[i - 1] = c[m] /\ i # 0
        BY <3>3
      <4> QED
        BY <4>1
    <3> QED
      BY <3>1, <3>2, <3>3
  <2>3. d = [i \in 0..(m + 1) |-> d[i]]
    OBVIOUS
  <2> HIDE DEF d
  <2>4. Is(d, m + 1)
    BY <2>2, <2>3
  <2> QED
    BY <2>4
<1>3. n \in S
  <2> HIDE DEF S
  <2> QED
    BY <1>1, <1>2, Induction
<1>4. \E c : Is(c, n)
  BY <1>3
<1>5. Chain(from, l, n) = CHOOSE c : Is(c, n)
  BY DEF Chain, Step
<1>6. Is(Chain(from, l, n), n)
  <2> HIDE DEF Is
  <2> QED
    BY <1>4, <1>5
<1> QED
  BY <1>6 DEF Chained, Step

(* What was enciphered comes back. *)
LEMMA Deciphered ==
  ASSUME NEW i, NEW p
  PROVE  Stream!Xor(Stream!Decrypted(Chained(i, p)), p) = Stream!Plain(i)
<1> DEFINE x == Stream!Xor(Stream!Plain(i), p)
           t == <<"E", x>>
<1>1. Chained(i, p) = {t}
  BY DEF Chained, Stream!Encrypted
<1> HIDE DEF x
<1>2. t[1] = "E" /\ t[2] = x
  OBVIOUS
<1> HIDE DEF t
<1>3. (CHOOSE u \in {t} : TRUE) = t
  OBVIOUS
<1>4. \E u \in {t} : {t} = {u} /\ u[1] = "E"
  BY <1>2
<1>5. Stream!Decrypted({t}) = x
  BY <1>2, <1>3, <1>4 DEF Stream!Decrypted
<1>6. Stream!Xor(x, p) = Stream!Plain(i)
  BY DEF x, Stream!Xor
<1> QED
  BY <1>1, <1>5, <1>6

(* What a context carries behind n blocks. *)
CarriedAt(ct, n) == IF n = 0 THEN Stream!Iv ELSE ct[n]

CbcIInv ==
  /\ st = [enc |-> st.enc, dec |-> st.dec] /\ log = [ct |-> log.ct, out |-> log.out]
  /\ IsSeq(log.ct) /\ IsSeq(log.out) /\ Len(log.out) <= Len(log.ct)
  /\ st.enc = CarriedAt(log.ct, Len(log.ct)) /\ st.dec = CarriedAt(log.ct, Len(log.out))
  /\ \A i \in 1..Len(log.ct) : log.ct[i] = Chained(i, CarriedAt(log.ct, i - 1))
  /\ \A i \in 1..Len(log.out) : log.out[i] = Stream!Plain(i)

(* Nothing is chained at first. *)
LEMMA CbcInitial ==
  ASSUME Stream!CbcInit
  PROVE  CbcIInv
<1>1. st = [enc |-> Stream!Iv, dec |-> Stream!Iv] /\ log = [ct |-> <<>>, out |-> <<>>]
  BY DEF Stream!CbcInit
<1>2. <<>> \in Seq({}) /\ Len(<<>>) = 0
  OBVIOUS
<1>3. /\ st.enc = Stream!Iv /\ st.dec = Stream!Iv /\ log.ct = <<>> /\ log.out = <<>>
      /\ st = [enc |-> st.enc, dec |-> st.dec] /\ log = [ct |-> log.ct, out |-> log.out]
  BY <1>1
<1>4. IsSeq(log.ct) /\ IsSeq(log.out)
  BY <1>2, <1>3 DEF IsSeq
<1> QED
  BY <1>2, <1>3, <1>4 DEF CbcIInv, CarriedAt

(* An encryption chains its blocks to the last one. *)
LEMMA CbcEncryptStep ==
  ASSUME CbcIInv, NEW n \in Nat, n > 0, Stream!EncryptCall(n)
  PROVE  CbcIInv'
<1> DEFINE l == Len(log.ct)
           c == Chain(st.enc, l, n)
           made == [i \in 1..n |-> c[i]]
           all == log.ct \o made
<1>1. log' = [log EXCEPT !.ct = all] /\ st' = [st EXCEPT !.enc = c[n]]
  BY DEF Stream!EncryptCall, Chain
<1>2. /\ st = [enc |-> st.enc, dec |-> st.dec] /\ log = [ct |-> log.ct, out |-> log.out]
      /\ IsSeq(log.ct) /\ IsSeq(log.out) /\ Len(log.out) <= Len(log.ct)
      /\ st.enc = CarriedAt(log.ct, Len(log.ct)) /\ st.dec = CarriedAt(log.ct, Len(log.out))
  BY DEF CbcIInv
<1>3. c[0] = st.enc /\ \A i \in 1..n : c[i] = Chained(l + i, c[i - 1])
  BY ChainUnfolded
<1> HIDE DEF c
<1>4. IsSeq(made) /\ Len(made) = n
  <2>1. made = [i \in 1..n |-> made[i]]
    OBVIOUS
  <2> HIDE DEF made
  <2> QED
    BY <2>1, ListIsSeq
<1>5. \A i \in 1..n : made[i] = c[i]
  OBVIOUS
<1>6. l \in Nat /\ Len(log.out) \in Nat
  BY <1>2, IsSeqFacts
<1> HIDE DEF made, l
<1>7. /\ IsSeq(all) /\ Len(all) = l + n
      /\ \A i \in 1..(l + n) : all[i] = IF i <= l THEN log.ct[i] ELSE made[i - l]
  BY <1>2, <1>4, JoinIsSeq DEF l
<1> HIDE DEF all
<1>8. /\ log' = [ct |-> all, out |-> log.out] /\ st' = [enc |-> c[n], dec |-> st.dec]
  BY <1>1, <1>2
<1>9. /\ log'.ct = all /\ log'.out = log.out /\ st'.enc = c[n] /\ st'.dec = st.dec
      /\ log' = [ct |-> log'.ct, out |-> log'.out] /\ st' = [enc |-> st'.enc, dec |-> st'.dec]
  BY <1>8
<1>10. \A i \in 0..n : c[i] = CarriedAt(all, l + i)
  <2>1. c[0] = CarriedAt(all, l + 0)
    BY <1>2, <1>3, <1>6, <1>7 DEF CarriedAt, l
  <2>2. ASSUME NEW i \in 1..n PROVE c[i] = CarriedAt(all, l + i)
    <3>1. all[l + i] = made[(l + i) - l] /\ (l + i) - l = i /\ l + i # 0
      BY <1>6, <1>7
    <3> QED
      BY <1>5, <3>1 DEF CarriedAt
  <2> QED
    BY <2>1, <2>2
<1>11. ASSUME NEW i \in 1..(l + n) PROVE all[i] = Chained(i, CarriedAt(all, i - 1))
  <2>1. CASE i <= l
    <3>1. all[i] = log.ct[i] /\ CarriedAt(all, i - 1) = CarriedAt(log.ct, i - 1)
      <4>1. all[i] = log.ct[i]
        BY <1>7, <2>1
      <4>2. i - 1 # 0 => i - 1 \in 1..(l + n) /\ i - 1 <= l
        BY <1>6, <2>1
      <4>3. i - 1 # 0 => all[i - 1] = log.ct[i - 1]
        BY <1>7, <4>2
      <4> QED
        BY <4>1, <4>3 DEF CarriedAt
    <3>2. log.ct[i] = Chained(i, CarriedAt(log.ct, i - 1))
      BY <2>1 DEF CbcIInv, l
    <3> QED
      BY <3>1, <3>2
  <2>2. CASE i > l
    <3> DEFINE j == i - l
    <3>1. j \in 1..n /\ l + j = i /\ j - 1 \in 0..n /\ l + (j - 1) = i - 1
      BY <1>6, <2>2
    <3>2. all[i] = made[j]
      BY <1>6, <1>7, <2>2
    <3> HIDE DEF j
    <3>3. made[j] = Chained(i, c[j - 1])
      BY <1>3, <1>5, <3>1
    <3>4. c[j - 1] = CarriedAt(all, i - 1)
      BY <1>10, <3>1
    <3> QED
      BY <3>2, <3>3, <3>4
  <2> QED
    BY <1>6, <2>1, <2>2
<1>12. st'.dec = CarriedAt(log'.ct, Len(log'.out))
  <2>1. Len(log.out) # 0 => all[Len(log.out)] = log.ct[Len(log.out)]
    BY <1>2, <1>6, <1>7 DEF l
  <2> QED
    BY <1>2, <1>9, <2>1 DEF CarriedAt
<1>13. st'.enc = CarriedAt(log'.ct, Len(log'.ct))
  BY <1>7, <1>9, <1>10
<1>14. \A i \in 1..Len(log'.out) : log'.out[i] = Stream!Plain(i)
  BY <1>9 DEF CbcIInv
<1>15. IsSeq(log'.ct) /\ IsSeq(log'.out) /\ Len(log'.out) <= Len(log'.ct)
  BY <1>2, <1>6, <1>7, <1>9 DEF l
<1>16. \A i \in 1..Len(log'.ct) : log'.ct[i] = Chained(i, CarriedAt(log'.ct, i - 1))
  BY <1>7, <1>9, <1>11
<1> QED
  BY <1>9, <1>12, <1>13, <1>14, <1>15, <1>16 DEF CbcIInv

(* A decryption gives the blocks back, and keeps the last one it took. *)
LEMMA CbcDecryptStep ==
  ASSUME CbcIInv, NEW n \in Nat, n > 0, n <= Len(log.ct) - Len(log.out), Stream!DecryptCall(n)
  PROVE  CbcIInv'
<1> DEFINE o == Len(log.out)
           ct == SubSeq(log.ct, o + 1, o + n)
           back == [i \in 1..n |-> Stream!Recovered(ct, st.dec, i)]
           all == log.out \o back
<1>1. log' = [log EXCEPT !.out = all] /\ st' = [st EXCEPT !.dec = Stream!LastOf(ct)]
  BY DEF Stream!DecryptCall
<1>2. /\ st = [enc |-> st.enc, dec |-> st.dec] /\ log = [ct |-> log.ct, out |-> log.out]
      /\ IsSeq(log.ct) /\ IsSeq(log.out) /\ Len(log.out) <= Len(log.ct)
      /\ st.enc = CarriedAt(log.ct, Len(log.ct)) /\ st.dec = CarriedAt(log.ct, Len(log.out))
  BY DEF CbcIInv
<1>3. o \in Nat /\ Len(log.ct) \in Nat
  BY <1>2, IsSeqFacts
<1>4. Len(ct) = n /\ \A i \in 1..n : ct[i] = log.ct[o + i]
  <2>1. o + 1 \in 1..(Len(log.ct) + 1) /\ o + n \in ((o + 1) - 1)..Len(log.ct)
    BY <1>3
  <2>2. (o + n) - (o + 1) + 1 = n
    BY <1>3
  <2> HIDE DEF o
  <2>3. /\ Len(ct) = (o + n) - (o + 1) + 1
        /\ \A i \in 1..((o + n) - (o + 1) + 1) : ct[i] = log.ct[(o + 1) + i - 1]
    BY <1>2, <2>1, PartIsSeq
  <2>4. ASSUME NEW i \in 1..n PROVE ct[i] = log.ct[o + i]
    <3>1. (o + 1) + i - 1 = o + i
      BY <1>3
    <3> QED
      BY <2>2, <2>3, <3>1
  <2> QED
    BY <2>2, <2>3, <2>4
<1> HIDE DEF ct
<1>5. ASSUME NEW i \in 1..n PROVE back[i] = Stream!Plain(o + i)
  <2> DEFINE p == IF i = 1 THEN st.dec ELSE ct[i - 1]
  <2>1. back[i] = Stream!Xor(Stream!Decrypted(ct[i]), p)
    BY DEF Stream!Recovered
  <2>2. p = CarriedAt(log.ct, (o + i) - 1)
    <3>1. CASE i = 1
      <4>1. (o + i) - 1 = o
        BY <1>3, <3>1
      <4> QED
        BY <1>2, <3>1, <4>1
    <3>2. CASE i # 1
      <4>1. i - 1 \in 1..n /\ o + (i - 1) = (o + i) - 1 /\ (o + i) - 1 # 0
        BY <1>3, <3>2
      <4>2. ct[i - 1] = log.ct[(o + i) - 1]
        BY <1>4, <4>1
      <4> QED
        BY <3>2, <4>1, <4>2 DEF CarriedAt
    <3> QED
      BY <3>1, <3>2
  <2> HIDE DEF p
  <2>3. ct[i] = Chained(o + i, p)
    <3>1. o + i \in 1..Len(log.ct)
      BY <1>3
    <3>2. log.ct[o + i] = Chained(o + i, CarriedAt(log.ct, (o + i) - 1))
      BY <3>1 DEF CbcIInv
    <3> QED
      BY <1>4, <2>2, <3>2
  <2> QED
    BY <2>1, <2>3, Deciphered
<1>6. IsSeq(back) /\ Len(back) = n
  <2>1. back = [i \in 1..n |-> back[i]]
    OBVIOUS
  <2> HIDE DEF back
  <2> QED
    BY <2>1, ListIsSeq
<1> HIDE DEF back, o
<1>7. /\ IsSeq(all) /\ Len(all) = o + n
      /\ \A i \in 1..(o + n) : all[i] = IF i <= o THEN log.out[i] ELSE back[i - o]
  BY <1>2, <1>6, JoinIsSeq DEF o
<1> HIDE DEF all
<1>8. ASSUME NEW i \in 1..(o + n) PROVE all[i] = Stream!Plain(i)
  <2>1. CASE i <= o
    <3>1. all[i] = log.out[i] /\ i \in 1..o
      BY <1>3, <1>7, <2>1
    <3> QED
      BY <3>1 DEF CbcIInv, o
  <2>2. CASE i > o
    <3>1. i - o \in 1..n /\ o + (i - o) = i /\ all[i] = back[i - o]
      BY <1>3, <1>7, <2>2
    <3> QED
      BY <1>5, <3>1
  <2> QED
    BY <1>3, <2>1, <2>2
<1>9. Stream!LastOf(ct) = log.ct[o + n]
  <2>1. n \in 1..n
    OBVIOUS
  <2> QED
    BY <1>4, <2>1 DEF Stream!LastOf
<1>10. log' = [ct |-> log.ct, out |-> all] /\ st' = [enc |-> st.enc, dec |-> log.ct[o + n]]
  BY <1>1, <1>2, <1>9
<1>11. /\ log'.ct = log.ct /\ log'.out = all /\ st'.enc = st.enc /\ st'.dec = log.ct[o + n]
       /\ log' = [ct |-> log'.ct, out |-> log'.out] /\ st' = [enc |-> st'.enc, dec |-> st'.dec]
  BY <1>10
<1>12. Len(log'.out) = o + n /\ o + n # 0 /\ o + n <= Len(log'.ct)
  <2>1. o + n # 0 /\ o + n <= Len(log.ct)
    BY <1>3 DEF o
  <2> QED
    BY <1>7, <1>11, <2>1
<1>13. st'.dec = CarriedAt(log'.ct, Len(log'.out))
  BY <1>11, <1>12 DEF CarriedAt
<1>14. \A i \in 1..Len(log'.out) : log'.out[i] = Stream!Plain(i)
  BY <1>8, <1>11, <1>12
<1>15. \A i \in 1..Len(log'.ct) : log'.ct[i] = Chained(i, CarriedAt(log'.ct, i - 1))
  BY <1>11 DEF CbcIInv
<1> QED
  BY <1>2, <1>7, <1>11, <1>12, <1>13, <1>14, <1>15 DEF CbcIInv

(* Every step keeps the chain. *)
LEMMA CbcStep ==
  ASSUME CbcIInv, Stream!CbcNext
  PROVE  CbcIInv'
<1>1. Len(log.ct) \in Nat /\ Len(log.out) \in Nat /\ MaxBlocks \in Nat
  BY IsSeqFacts, SymmetricAssumption DEF CbcIInv, Stream!KeystreamParameters
<1>2. ASSUME NEW n \in 1..(MaxBlocks - Len(log.ct)), Stream!EncryptCall(n)
      PROVE  CbcIInv'
  <2>1. n \in Nat /\ n > 0
    BY <1>1
  <2> QED
    BY <1>2, <2>1, CbcEncryptStep
<1>3. ASSUME NEW n \in 1..(Len(log.ct) - Len(log.out)), Stream!DecryptCall(n)
      PROVE  CbcIInv'
  <2>1. n \in Nat /\ n > 0 /\ n <= Len(log.ct) - Len(log.out)
    BY <1>1
  <2> QED
    BY <1>3, <2>1, CbcDecryptStep
<1> QED
  BY <1>2, <1>3 DEF Stream!CbcNext

(* Every block is chained to the one before it and comes back. *)
LEMMA CbcIInvImplies ==
  ASSUME CbcIInv
  PROVE  Stream!ChainsAcrossCalls
<1>1. ASSUME NEW i \in 1..Len(log.ct)
      PROVE  log.ct[i] = Stream!Encrypted(Stream!Xor(Stream!Plain(i),
                           IF i = 1 THEN Stream!Iv ELSE log.ct[i - 1]))
  <2>1. CarriedAt(log.ct, i - 1) = IF i = 1 THEN Stream!Iv ELSE log.ct[i - 1]
    BY DEF CarriedAt
  <2>2. log.ct[i] = Chained(i, CarriedAt(log.ct, i - 1))
    BY DEF CbcIInv
  <2> QED
    BY <2>1, <2>2 DEF Chained
<1> QED
  BY <1>1 DEF Stream!ChainsAcrossCalls, CbcIInv

StreamsIInv == (routine = "stream" => StreamIInv) /\ (routine = "cbc" => CbcIInv)

LEMMA StreamsInvariant == SymmetricSpec => []StreamsIInv
<1>1. CtrConstants
  BY CtrParameters
<1> DEFINE Inv == (routine = "stream" => StreamIInv) /\ (routine = "cbc" => CbcIInv)
<1>2. SymmetricInit => Inv
  BY <1>1, StreamInitial, CbcInitial DEF SymmetricInit
<1>3. Inv /\ [SymmetricNext]_symmetricVars => Inv'
  <2> SUFFICES ASSUME Inv, [SymmetricNext]_symmetricVars
               PROVE  Inv'
    OBVIOUS
  <2>1. ASSUME SymmetricNext PROVE Inv'
    <3>1. /\ routine' = routine
          /\ routine = "stream" => Stream!Next
          /\ routine = "cbc" => Stream!CbcNext
      BY <2>1 DEF SymmetricNext
    <3> HIDE <2>1
    <3>2. routine = "stream" => StreamIInv'
      BY <1>1, <3>1, StreamStep
    <3>3. routine = "cbc" => CbcIInv'
      BY <3>1, CbcStep
    <3> QED
      BY <3>1, <3>2, <3>3
  <2>2. ASSUME UNCHANGED symmetricVars PROVE Inv'
    <3>1. routine' = routine /\ st' = st /\ log' = log
      BY <2>2 DEF symmetricVars
    <3>2. StreamIInv => StreamIInv'
      BY <3>1 DEF StreamIInv
    <3>3. CbcIInv => CbcIInv'
      BY <3>1 DEF CbcIInv
    <3> QED
      BY <3>1, <3>2, <3>3
  <2> QED
    BY <2>1, <2>2
<1>4. Inv <=> StreamsIInv
  BY DEF StreamsIInv
<1> QED
  BY <1>2, <1>3, <1>4, PTL DEF SymmetricSpec

(* The keystream is used once and in order, and every block of CBC is chained to
   the one before it and comes back, however the calls cut the data. *)
THEOREM StreamsAreIndependentOfCuts == SymmetricSpec => []CutsDoNotMatter
<1>1. StreamsIInv => CutsDoNotMatter
  <2> SUFFICES ASSUME StreamsIInv PROVE CutsDoNotMatter
    OBVIOUS
  <2>1. routine = "stream" => Stream!OneKeystream
    BY CtrParameters, StreamIInvImplies DEF StreamsIInv
  <2>2. routine = "cbc" => Stream!ChainsAcrossCalls
    BY CbcIInvImplies DEF StreamsIInv
  <2> QED
    BY <2>1, <2>2 DEF CutsDoNotMatter
<1> QED
  BY <1>1, StreamsInvariant, PTL
-------------------------------------------------------------------------------
(* Numbers in bytes. *)

(* Numbers in bytes: what is left of v above byte i of n. *)
Rest(v, n) ==
  CHOOSE rest : rest = [i \in 0..n |-> IF i = n THEN v ELSE rest[i + 1] \div Radix]

(* What is left of a number above each of its bytes. *)
LEMMA RestUnfolded ==
  ASSUME CtrConstants, NEW v \in Nat, NEW n \in Nat
  PROVE  /\ Rest(v, n)[n] = v
         /\ \A i \in 0..n : Rest(v, n)[i] \in Nat
         /\ \A i \in 1..n : Rest(v, n)[i - 1] = Rest(v, n)[i] \div Radix
         /\ Seal!BigEndian(v, n) = [i \in 1..n |-> Rest(v, n)[i] % Radix]
<1> DEFINE Step(x) == x \div Radix
           F == [j \in 1..n |-> [x \in Nat |-> Step(x)]]
           body(g) == [i \in 0..n |-> IF i = n THEN v ELSE Step(g[i + 1])]
           s == CHOOSE g : g = body(g)
           h == Unfolded(n, Nat, v, F)
           r == [i \in 0..n |-> h[n - i]]
<1>1. Rest(v, n) = s
  BY DEF Rest
<1>13. Seal!BigEndian(v, n) = [i \in 1..n |-> s[i] % Radix]
  BY DEF Seal!BigEndian
<1>2. \A x \in Nat : Step(x) \in Nat
  BY NatDivision DEF CtrConstants
<1> HIDE DEF Step
<1>3. F \in [1..n -> [Nat -> Nat]]
  BY <1>2
<1>4. h \in [0..n -> Nat] /\ h[0] = v /\ \A j \in 1..n : h[j] = F[j][h[j - 1]]
  <2> DEFINE V == Nat \cup {v}
  <2>1. F \in [1..n -> [V -> V]] /\ v \in V
    <3>1. V = Nat
      OBVIOUS
    <3> HIDE DEF V
    <3> QED
      BY <1>3, <3>1
  <2> DEFINE a == v
  <2>2. a \in V
    BY <2>1
  <2> HIDE DEF F, V, a
  <2>3. /\ Unfolded(n, V, a, F) \in [0..n -> V] /\ Unfolded(n, V, a, F)[0] = a
        /\ \A j \in 1..n : Unfolded(n, V, a, F)[j] = F[j][Unfolded(n, V, a, F)[j - 1]]
    <3>1. F \in [1..n -> [V -> V]]
      BY <2>1
    <3> HIDE <2>1
    <3> QED
      BY <2>2, <3>1, Unfolding
  <2>4. V = Nat
    BY DEF V
  <2> QED
    BY <2>3, <2>4 DEF a
<1> HIDE DEF h
<1>5. \A j \in 1..n : h[j] = Step(h[j - 1])
  <2> TAKE j \in 1..n
  <2>1. h[j - 1] \in Nat /\ h[j] = F[j][h[j - 1]]
    BY <1>4
  <2>2. F[j] = [x \in Nat |-> Step(x)]
    OBVIOUS
  <2> QED
    BY <2>1, <2>2
<1>6. r = body(r)
  <2>1. ASSUME NEW i \in 0..n PROVE r[i] = IF i = n THEN v ELSE Step(r[i + 1])
    <3>1. CASE i = n
      <4>1. n - i = 0
        BY <3>1
      <4> QED
        BY <1>4, <3>1, <4>1
    <3>2. CASE i # n
      <4>1. n - i \in 1..n /\ (n - i) - 1 = n - (i + 1) /\ i + 1 \in 0..n
        BY <3>2
      <4>2. r[i] = h[n - i] /\ r[i + 1] = h[n - (i + 1)]
        BY <4>1
      <4> QED
        BY <1>5, <3>2, <4>1, <4>2
    <3> QED
      BY <3>1, <3>2
  <2>2. r = [i \in 0..n |-> r[i]]
    OBVIOUS
  <2> HIDE DEF r
  <2> QED
    BY <2>1, <2>2
<1>7. s = body(s)
  <2> HIDE DEF body, r
  <2> QED
    BY <1>6
<1> HIDE DEF s
<1>8. \A i \in 0..n : s[i] = IF i = n THEN v ELSE Step(s[i + 1])
  BY <1>7, Zenon
<1>9. \A i \in 1..n : s[i - 1] = Step(s[i])
  <2> TAKE i \in 1..n
  <2>1. i - 1 \in 0..n /\ i - 1 # n /\ (i - 1) + 1 = i
    OBVIOUS
  <2> QED
    BY <1>8, <2>1
<1> DEFINE S == {j \in 0..n : s[n - j] \in Nat}
<1>10. 0 \in S /\ \A j \in 1..n : j - 1 \in S => j \in S
  <2>1. 0 \in S
    <3>1. n - 0 = n /\ 0 \in 0..n /\ s[n] = v
      BY <1>8
    <3> QED
      BY <3>1
  <2>2. ASSUME NEW j \in 1..n, j - 1 \in S PROVE j \in S
    <3>1. n - (j - 1) \in 1..n /\ (n - (j - 1)) - 1 = n - j /\ s[n - (j - 1)] \in Nat
      BY <2>2
    <3>2. s[n - j] = Step(s[n - (j - 1)])
      BY <1>9, <3>1
    <3> QED
      BY <1>2, <3>1, <3>2
  <2> QED
    BY <2>1, <2>2
<1>11. 0..n \subseteq S
  <2> HIDE DEF S
  <2> QED
    BY <1>10, UpTo
<1>12. \A i \in 0..n : s[i] \in Nat
  <2> TAKE i \in 0..n
  <2>1. n - i \in S /\ n - (n - i) = i
    BY <1>11
  <2> QED
    BY <2>1
<1>14. s[n] = v
  BY <1>8
<1> QED
  BY <1>1, <1>9, <1>12, <1>13, <1>14 DEF Step

(* The powers are the same in both modules. *)
LEMMA PowersAreOne ==
  ASSUME NEW n
  PROVE  Stream!Power(n) = Seal!Power(n)
  BY DEF Stream!Power, Seal!Power

(* Numbers in bytes are bytes, and tell numbers that fit apart. *)
LEMMA BigEndianBytes ==
  ASSUME CtrConstants, NEW v \in Nat, NEW n \in Nat
  PROVE  /\ Seal!BigEndian(v, n) \in [1..n -> Digit]
         /\ Seal!BigEndian(v, n) \in Seq(Digit) /\ Len(Seal!BigEndian(v, n)) = n
<1>1. Seal!BigEndian(v, n) = [i \in 1..n |-> Rest(v, n)[i] % Radix]
  BY RestUnfolded
<1>2. \A i \in 0..n : Rest(v, n)[i] \in Nat
  BY RestUnfolded
<1>3. ASSUME NEW i \in 1..n PROVE Rest(v, n)[i] % Radix \in Digit
  <2> DEFINE x == Rest(v, n)[i]
  <2>1. x \in Nat /\ Radix \in Nat /\ Radix > 0
    BY <1>2 DEF CtrConstants
  <2> HIDE DEF x
  <2>2. x % Radix \in 0..(Radix - 1)
    BY <2>1, NatDivision
  <2> QED
    BY <2>2 DEF x, Digit
<1>4. Seal!BigEndian(v, n) \in [1..n -> Digit]
  BY <1>1, <1>3
<1> QED
  BY <1>4, SequenceOf

(* Nothing is left above the bytes of a number that fits them. *)
LEMMA RestBounds ==
  ASSUME CtrConstants, NEW n \in Nat, NEW v \in Nat, v < Seal!Power(n)
  PROVE  Rest(v, n)[0] = 0
<1> DEFINE r(i) == Rest(v, n)[i]
           Pw(i) == Stream!Power(i)
           S == {j \in 0..n : r(n - j) < Pw(n - j)}
<1>1. /\ r(n) = v /\ \A i \in 0..n : r(i) \in Nat
      /\ \A i \in 1..n : r(i - 1) = r(i) \div Radix
  BY RestUnfolded
<1>2. Pw(0) = 1 /\ \A i \in Nat : Pw(i) \in Nat \ {0} /\ Pw(i + 1) = Radix * Pw(i)
  BY PowerUnfolds
<1>3. v < Pw(n)
  BY PowersAreOne
<1> HIDE DEF r, Pw
<1>4. 0 \in S
  <2>1. n - 0 = n
    OBVIOUS
  <2> QED
    BY <1>1, <1>3, <2>1
<1>5. ASSUME NEW j \in 1..n, j - 1 \in S PROVE j \in S
  <2> DEFINE i == n - j
             x == r(i + 1)
             p == Pw(i)
  <2>1. i \in 0..n /\ i + 1 \in 1..n /\ i + 1 = n - (j - 1) /\ (i + 1) - 1 = i
    OBVIOUS
  <2>2. x \in Nat /\ r(i) = x \div Radix /\ x < Radix * p /\ p \in Nat \ {0}
    <3>1. Pw(i + 1) = Radix * Pw(i) /\ p \in Nat \ {0}
      BY <1>2, <2>1
    <3>2. r(i) = x \div Radix /\ x \in Nat
      BY <1>1, <2>1
    <3>3. x < Pw(i + 1)
      BY <1>5, <2>1
    <3> QED
      BY <3>1, <3>2, <3>3
  <2> HIDE DEF x, p
  <2>3. Radix * p = p * Radix /\ Radix \in Nat /\ Radix > 0
    BY <2>2, SMTT(30) DEF CtrConstants
  <2>4. x \div Radix \in 0..(p - 1)
    <3>1. p \in Nat /\ x < p * Radix
      BY <2>2, <2>3
    <3> QED
      BY <2>2, <2>3, <3>1, QuotientBound
  <2>5. r(i) < Pw(i)
    BY <2>2, <2>4 DEF p
  <2> QED
    BY <2>1, <2>5
<1>6. 0..n \subseteq S
  <2> HIDE DEF S
  <2> QED
    BY <1>4, <1>5, UpTo
<1>7. r(0) < Pw(0)
  <2>1. n \in S /\ n - n = 0
    BY <1>6
  <2> QED
    BY <2>1
<1> QED
  BY <1>1, <1>2, <1>7 DEF r

(* Numbers that fit are told apart by their bytes. *)
LEMMA BigEndianInjective ==
  ASSUME CtrConstants, NEW n \in Nat, NEW v \in Nat, v < Seal!Power(n),
         NEW w \in Nat, w < Seal!Power(n), Seal!BigEndian(v, n) = Seal!BigEndian(w, n)
  PROVE  v = w
<1> DEFINE r == Rest(v, n)
           s == Rest(w, n)
           S == {i \in 0..n : r[i] = s[i]}
<1>1. /\ r[n] = v /\ \A i \in 0..n : r[i] \in Nat
      /\ \A i \in 1..n : r[i - 1] = r[i] \div Radix
      /\ Seal!BigEndian(v, n) = [i \in 1..n |-> r[i] % Radix]
  BY RestUnfolded
<1>2. /\ s[n] = w /\ \A i \in 0..n : s[i] \in Nat
      /\ \A i \in 1..n : s[i - 1] = s[i] \div Radix
      /\ Seal!BigEndian(w, n) = [i \in 1..n |-> s[i] % Radix]
  BY RestUnfolded
<1>3. r[0] = 0 /\ s[0] = 0
  BY RestBounds
<1> HIDE DEF r, s
<1>4. ASSUME NEW i \in 1..n PROVE r[i] % Radix = s[i] % Radix
  <2>1. [j \in 1..n |-> r[j] % Radix][i] = [j \in 1..n |-> s[j] % Radix][i]
    BY <1>1, <1>2
  <2> QED
    BY <2>1
<1>5. 0 \in S
  BY <1>3
<1>6. ASSUME NEW i \in 1..n, i - 1 \in S PROVE i \in S
  <2> DEFINE x == r[i]
             y == s[i]
  <2>1. x \in Nat /\ y \in Nat /\ x \div Radix = y \div Radix /\ x % Radix = y % Radix
    BY <1>1, <1>2, <1>4, <1>6
  <2> HIDE DEF x, y
  <2>2. x = Radix * (x \div Radix) + (x % Radix) /\ y = Radix * (y \div Radix) + (y % Radix)
    BY <2>1, NatDivision DEF CtrConstants
  <2>3. x = y
    BY <2>1, <2>2
  <2> QED
    BY <2>3 DEF x, y
<1>7. 0..n \subseteq S
  <2> HIDE DEF S
  <2> QED
    BY <1>5, <1>6, UpTo
<1>8. n \in S
  BY <1>7
<1> QED
  BY <1>1, <1>2, <1>8

-------------------------------------------------------------------------------
(* Bytes in blocks. *)

(* Sequences that agree everywhere are one. *)
LEMMA SameSeq ==
  ASSUME NEW s, IsSeq(s), NEW t, IsSeq(t), Len(s) = Len(t),
         \A i \in 1..Len(s) : s[i] = t[i]
  PROVE  s = t
<1>1. PICK S : s \in Seq(S)
  BY DEF IsSeq
<1>2. PICK T : t \in Seq(T)
  BY DEF IsSeq
<1> QED
  BY <1>1, <1>2

(* A sequence of one element. *)
LEMMA SinglesAreSeqs ==
  ASSUME NEW x
  PROVE  IsSeq(<<x>>) /\ Len(<<x>>) = 1 /\ <<x>>[1] = x
<1>1. <<x>> \in Seq({x})
  OBVIOUS
<1> QED
  BY <1>1 DEF IsSeq

(* The sequence of none. *)
LEMMA EmptyIsSeq == IsSeq(<<>>) /\ Len(<<>>) = 0
<1>1. <<>> \in Seq({})
  OBVIOUS
<1> QED
  BY <1>1 DEF IsSeq

(* Joined sequences whose first parts are as long fall apart in one way. *)
LEMMA JoinCancels ==
  ASSUME NEW a, IsSeq(a), NEW b, IsSeq(b), NEW c, IsSeq(c), NEW d, IsSeq(d),
         Len(a) = Len(c), a \o b = c \o d
  PROVE  a = c /\ b = d
<1> DEFINE x == a \o b
           y == c \o d
           l == Len(a)
<1>1. /\ Len(x) = l + Len(b) /\ l \in Nat /\ Len(b) \in Nat
      /\ \A i \in 1..(l + Len(b)) : x[i] = IF i <= l THEN a[i] ELSE b[i - l]
  BY JoinIsSeq, IsSeqFacts
<1>2. /\ Len(y) = l + Len(d) /\ Len(d) \in Nat
      /\ \A i \in 1..(l + Len(d)) : y[i] = IF i <= l THEN c[i] ELSE d[i - l]
  BY JoinIsSeq, IsSeqFacts
<1>3. x = y
  OBVIOUS
<1> HIDE DEF x, y
<1>4. Len(b) = Len(d)
  BY <1>1, <1>2, <1>3
<1>5. ASSUME NEW i \in 1..Len(a) PROVE a[i] = c[i]
  <2>1. i \in 1..(l + Len(b)) /\ i \in 1..(l + Len(d)) /\ i <= l
    BY <1>1, <1>2
  <2> QED
    BY <1>1, <1>2, <1>3, <2>1
<1>6. ASSUME NEW i \in 1..Len(b) PROVE b[i] = d[i]
  <2> DEFINE j == l + i
  <2>1. j \in 1..(l + Len(b)) /\ j \in 1..(l + Len(d)) /\ ~ (j <= l) /\ j - l = i
    BY <1>1, <1>2, <1>4
  <2> HIDE DEF j
  <2>2. x[j] = b[j - l] /\ y[j] = d[j - l]
    BY <1>1, <1>2, <2>1
  <2> QED
    BY <1>3, <2>1, <2>2
<1>7. a = c
  BY <1>5, SameSeq
<1>8. b = d
  BY <1>4, <1>6, SameSeq
<1> QED
  BY <1>7, <1>8
-------------------------------------------------------------------------------
(* How many blocks bytes take, and that each byte lies in one of them. *)
LEMMA BlocksFacts ==
  ASSUME CtrConstants, NEW n \in Nat
  PROVE  /\ Seal!Blocks(n) \in 0..n
         /\ \A j \in 1..n : (j - 1) \div B + 1 \in 1..Seal!Blocks(n)
<1> DEFINE x == n + B - 1
           q == x \div B
           r == x % B
<1>0. B \in Nat /\ B > 0
  BY DEF CtrConstants
<1>1. q \in Nat /\ r \in 0..(B - 1) /\ x = B * q + r /\ x \in Nat
  <2>1. x \in Nat
    BY <1>0
  <2> HIDE DEF x
  <2> QED
    BY <1>0, <2>1, NatDivision
<1>2. Seal!Blocks(n) = q
  BY DEF Seal!Blocks
<1> HIDE DEF q, r
<1>3. q <= n
  <2> SUFFICES ASSUME q >= n + 1 PROVE FALSE
    BY <1>1
  <2>1. B * q >= B * (n + 1) /\ B * (n + 1) = B * n + B /\ B * n >= n
    BY <1>0, <1>1, SMTT(30)
  <2>2. B * n \in Nat /\ B * q \in Nat
    BY <1>0, <1>1, SMTT(30)
  <2> QED
    BY <1>0, <1>1, <2>1, <2>2
<1>4. ASSUME NEW j \in 1..n PROVE (j - 1) \div B + 1 \in 1..q
  <2> DEFINE y == j - 1
             d == y \div B
             e == y % B
  <2>1. d \in Nat /\ e \in 0..(B - 1) /\ y = B * d + e /\ y \in Nat
    <3>1. y \in Nat
      OBVIOUS
    <3> HIDE DEF y
    <3> QED
      BY <1>0, <3>1, NatDivision
  <2> HIDE DEF d, e
  <2>2. d + 1 <= q
    <3> SUFFICES ASSUME d >= q PROVE FALSE
      BY <1>1, <2>1
    <3>1. B * d >= B * q /\ B * d \in Nat /\ B * q \in Nat
      BY <1>0, <1>1, <2>1, SMTT(30)
    <3> QED
      BY <1>0, <1>1, <2>1, <3>1
  <2> QED
    BY <1>1, <2>1, <2>2 DEF d
<1> QED
  BY <1>1, <1>2, <1>3, <1>4

PadBlock(s, b) ==
  [i \in 1..B |-> IF (b - 1) * B + i <= Len(s) THEN s[(b - 1) * B + i] ELSE {}]

(* Padding gives whole blocks. *)
LEMMA PadBlocksFacts ==
  ASSUME CtrConstants, NEW s, IsSeq(s)
  PROVE  /\ IsSeq(Seal!PadBlocks(s)) /\ Len(Seal!PadBlocks(s)) = Seal!Blocks(Len(s))
         /\ \A b \in 1..Seal!Blocks(Len(s)) :
              Seal!PadBlocks(s)[b] = PadBlock(s, b) /\ IsSeq(PadBlock(s, b)) /\ Len(PadBlock(s, b)) = B
<1> DEFINE n == Seal!Blocks(Len(s))
           p == Seal!PadBlocks(s)
<1>1. n \in Nat
  BY IsSeqFacts, BlocksFacts
<1>2. p = [b \in 1..n |-> PadBlock(s, b)]
  BY DEF Seal!PadBlocks, PadBlock
<1> HIDE DEF p, n
<1>3. p = [b \in 1..n |-> p[b]]
  BY <1>2
<1>4. IsSeq(p) /\ Len(p) = n
  BY <1>1, <1>3, ListIsSeq
<1>5. ASSUME NEW b \in 1..n PROVE IsSeq(PadBlock(s, b)) /\ Len(PadBlock(s, b)) = B
  <2> DEFINE k == PadBlock(s, b)
  <2>1. k = [i \in 1..B |-> k[i]] /\ B \in Nat
    BY DEF PadBlock, CtrConstants
  <2> HIDE DEF k
  <2>2. IsSeq(k) /\ Len(k) = B
    BY <2>1, ListIsSeq
  <2> QED
    BY <2>2 DEF k
<1> QED
  BY <1>2, <1>4, <1>5 DEF p, n

(* The padding leaves no doubt what was padded, once its length is known. *)
LEMMA PadBlocksInjective ==
  ASSUME CtrConstants, NEW s, IsSeq(s), NEW t, IsSeq(t), Len(s) = Len(t),
         Seal!PadBlocks(s) = Seal!PadBlocks(t)
  PROVE  s = t
<1> DEFINE n == Len(s)
<1>1. n \in Nat /\ B \in Nat /\ B > 0
  BY IsSeqFacts DEF CtrConstants
<1>2. ASSUME NEW j \in 1..n PROVE s[j] = t[j]
  <2> DEFINE y == j - 1
             b == (y \div B) + 1
             i == (y % B) + 1
  <2>1. y \in Nat
    OBVIOUS
  <2>2. y \div B \in Nat /\ y % B \in 0..(B - 1) /\ y = B * (y \div B) + (y % B)
    <3> HIDE DEF y
    <3> QED
      BY <1>1, <2>1, NatDivision
  <2>3. b \in 1..Seal!Blocks(n) /\ i \in 1..B
    BY <1>1, <2>2, BlocksFacts
  <2>4. (b - 1) * B + i = j
    <3> DEFINE d == y \div B
    <3>1. d \in Nat
      BY <2>2
    <3> HIDE DEF d
    <3>2. d * B = B * d /\ B * d \in Nat
      BY <1>1, <3>1, SMTT(30)
    <3>3. b - 1 = d
      BY <3>1 DEF d
    <3>4. j - 1 = B * d + (y % B)
      BY <2>2 DEF d
    <3> QED
      BY <2>2, <3>2, <3>3, <3>4
  <2> HIDE DEF b, i
  <2>5. PadBlock(s, b) = PadBlock(t, b)
    BY <2>3, PadBlocksFacts
  <2>6. PadBlock(s, b)[i] = s[j] /\ PadBlock(t, b)[i] = t[j]
    BY <2>3, <2>4 DEF PadBlock
  <2> QED
    BY <2>5, <2>6
<1> QED
  BY <1>2, SameSeq
-------------------------------------------------------------------------------
(* Plain bytes are told apart, and only zero is empty. *)
LEMMA NumInjective ==
  ASSUME NEW v \in Nat, NEW w \in Nat
  PROVE  /\ Seal!Num(v) = Seal!Num(w) => v = w
         /\ Seal!Num(v) = {} => v = 0
<1>1. CASE v = 0 \/ w = 0
  BY <1>1 DEF Seal!Num
<1>2. CASE v # 0 /\ w # 0
  <2>1. Seal!Num(v) = {<<"num", v>>} /\ Seal!Num(w) = {<<"num", w>>}
    BY <1>2 DEF Seal!Num
  <2>2. {<<"num", v>>} = {<<"num", w>>} => <<"num", v>> = <<"num", w>>
    OBVIOUS
  <2>3. <<"num", v>> = <<"num", w>> => v = w
    OBVIOUS
  <2> QED
    BY <2>1, <2>2, <2>3
<1> QED
  BY <1>1, <1>2

-------------------------------------------------------------------------------
(* What GHASH tells apart. *)

(* Where the zeros at the front of a sequence of blocks end. *)
Front(x) ==
  CHOOSE k \in 0..Len(x) : /\ \A b \in 1..k : Seal!IsZero(x[b])
                           /\ k < Len(x) => ~ Seal!IsZero(x[k + 1])

(* The zero blocks at the front that GHASH does not see. *)
LEMMA FrontFacts ==
  ASSUME NEW x, IsSeq(x)
  PROVE  /\ Front(x) \in 0..Len(x)
         /\ \A b \in 1..Front(x) : Seal!IsZero(x[b])
         /\ Front(x) < Len(x) => ~ Seal!IsZero(x[Front(x) + 1])
         /\ Seal!Ghash(x) = SubSeq(x, Front(x) + 1, Len(x))
<1> DEFINE n == Len(x)
           Clear(b) == Seal!IsZero(x[b])
           Good(k) == (\A b \in 1..k : Clear(b)) /\ (k < n => ~ Clear(k + 1))
           T == {k \in 0..n : k < n => ~ Clear(k + 1)}
<1>1. n \in Nat
  BY IsSeqFacts
<1> HIDE DEF Clear, n
<1>2. PICK k \in T : \A y \in T : k <= y
  <2>1. n \in T /\ T \subseteq Nat
    BY <1>1
  <2> HIDE DEF T
  <2> QED
    BY <2>1, SmallestMember
<1>3. k \in 0..n /\ (k < n => ~ Clear(k + 1))
  BY <1>2
<1>4. ASSUME NEW b \in 1..k PROVE Clear(b)
  <2> SUFFICES ASSUME ~ Clear(b) PROVE FALSE
    OBVIOUS
  <2>1. b - 1 \in 0..n /\ (b - 1) + 1 = b /\ ~ (k <= b - 1)
    BY <1>1, <1>3
  <2>2. b - 1 \in T
    BY <2>1
  <2> QED
    BY <1>2, <2>1, <2>2
<1>5. \E j \in 0..n : Good(j)
  BY <1>3, <1>4
<1>6. Front(x) = CHOOSE j \in 0..n : Good(j)
  BY DEF Front, Clear, n
<1>7. Front(x) \in 0..n /\ Good(Front(x))
  <2> HIDE DEF Good
  <2> QED
    BY <1>5, <1>6
<1>8. Seal!Ghash(x) = SubSeq(x, Front(x) + 1, n)
  BY DEF Seal!Ghash, Front, n
<1> QED
  BY <1>7, <1>8 DEF Clear, n

(* The last block of GHASH tells both lengths. *)
LEMMA LengthBlockFacts ==
  ASSUME NEW a \in Nat, NEW c \in Nat, NEW e \in Nat, NEW f \in Nat
  PROVE  /\ Seal!IsZero(Seal!LengthBlock(a, c)) => a = 0 /\ c = 0
         /\ Seal!LengthBlock(a, c) = Seal!LengthBlock(e, f) => a = e /\ c = f
<1> DEFINE x == Seal!Num(8 * a)
           y == Seal!Num(8 * c)
           u == Seal!Num(8 * e)
           v == Seal!Num(8 * f)
<1>1. 8 * a \in Nat /\ 8 * c \in Nat /\ 8 * e \in Nat /\ 8 * f \in Nat
  OBVIOUS
<1>2. (x = {} => a = 0) /\ (y = {} => c = 0) /\ (x = u => a = e) /\ (y = v => c = f)
  <2>1. (x = {} => 8 * a = 0) /\ (y = {} => 8 * c = 0)
        /\ (x = u => 8 * a = 8 * e) /\ (y = v => 8 * c = 8 * f)
    BY <1>1, NumInjective
  <2> HIDE DEF x, y, u, v
  <2> QED
    BY <2>1
<1>3. Seal!LengthBlock(a, c) = <<x, y>> /\ Seal!LengthBlock(e, f) = <<u, v>>
  BY DEF Seal!LengthBlock
<1> HIDE DEF x, y, u, v
<1>4. <<x, y>> = <<u, v>> => x = u /\ y = v
  OBVIOUS
<1>5. Seal!IsZero(<<x, y>>) => x = {} /\ y = {}
  BY DEF Seal!IsZero
<1> QED
  BY <1>2, <1>3, <1>4, <1>5

(* The parts of GHASH's input: the blocks of two strings, and their lengths. *)
GhashParts(a, c, p, q, x) ==
  /\ IsSeq(p) /\ IsSeq(q) /\ IsSeq(p \o q) /\ IsSeq(x)
  /\ Len(p) = Seal!Blocks(Len(a)) /\ Len(q) = Seal!Blocks(Len(c))
  /\ Len(p \o q) = Len(p) + Len(q) /\ Len(x) = Len(p) + Len(q) + 1
  /\ Len(p) \in Nat /\ Len(q) \in Nat
  /\ x[Len(x)] = Seal!LengthBlock(Len(a), Len(c))
  /\ \A b \in 1..(Len(p) + Len(q)) : x[b] = (p \o q)[b] /\ IsSeq(x[b]) /\ Len(x[b]) = B

(* The input of GHASH has the parts that GhashParts names. *)
LEMMA GhashInputFacts ==
  ASSUME CtrConstants, NEW a, IsSeq(a), NEW c, IsSeq(c)
  PROVE  GhashParts(a, c, Seal!PadBlocks(a), Seal!PadBlocks(c), Seal!GhashInput(a, c))
<1> DEFINE p == Seal!PadBlocks(a)
           q == Seal!PadBlocks(c)
           l == Seal!LengthBlock(Len(a), Len(c))
           pq == p \o q
           x == pq \o <<l>>
<1>1. Seal!GhashInput(a, c) = x
  BY DEF Seal!GhashInput
<1>2. /\ IsSeq(p) /\ Len(p) = Seal!Blocks(Len(a))
      /\ \A b \in 1..Len(p) : IsSeq(p[b]) /\ Len(p[b]) = B
  BY PadBlocksFacts
<1>3. /\ IsSeq(q) /\ Len(q) = Seal!Blocks(Len(c))
      /\ \A b \in 1..Len(q) : IsSeq(q[b]) /\ Len(q[b]) = B
  BY PadBlocksFacts
<1>4. Len(p) \in Nat /\ Len(q) \in Nat
  BY <1>2, <1>3, IsSeqFacts
<1> HIDE DEF p, q, l
<1>5. /\ IsSeq(pq) /\ Len(pq) = Len(p) + Len(q)
      /\ \A i \in 1..(Len(p) + Len(q)) : pq[i] = IF i <= Len(p) THEN p[i] ELSE q[i - Len(p)]
  BY <1>2, <1>3, JoinIsSeq
<1> HIDE DEF pq
<1>6. IsSeq(<<l>>) /\ Len(<<l>>) = 1 /\ <<l>>[1] = l
  BY SinglesAreSeqs
<1>7. /\ IsSeq(x) /\ Len(x) = Len(pq) + 1
      /\ \A i \in 1..(Len(pq) + 1) : x[i] = IF i <= Len(pq) THEN pq[i] ELSE <<l>>[i - Len(pq)]
  <2> DEFINE one == <<l>>
  <2>1. IsSeq(one) /\ Len(one) = 1
    BY <1>6
  <2> HIDE DEF one
  <2> QED
    BY <1>5, <2>1, JoinIsSeq DEF one
<1> HIDE DEF x
<1>8. ASSUME NEW b \in 1..(Len(p) + Len(q)) PROVE x[b] = pq[b] /\ IsSeq(x[b]) /\ Len(x[b]) = B
  <2>1. b \in 1..(Len(pq) + 1) /\ b <= Len(pq)
    BY <1>4, <1>5
  <2>2. x[b] = pq[b]
    BY <1>7, <2>1
  <2>3. pq[b] = IF b <= Len(p) THEN p[b] ELSE q[b - Len(p)]
    BY <1>5
  <2>4. CASE b <= Len(p)
    BY <1>2, <1>4, <2>2, <2>3, <2>4
  <2>5. CASE b > Len(p)
    <3>1. b - Len(p) \in 1..Len(q) /\ ~ (b <= Len(p))
      BY <1>4, <2>5
    <3>2. pq[b] = q[b - Len(p)]
      BY <2>3, <3>1
    <3> QED
      BY <1>3, <2>2, <3>1, <3>2
  <2> QED
    BY <1>4, <2>4, <2>5
<1>9. x[Len(x)] = l
  <2> DEFINE m == Len(pq)
             one == <<l>>
  <2>1. m \in Nat /\ Len(x) = m + 1 /\ one[1] = l
    BY <1>4, <1>5, <1>6, <1>7
  <2>2. \A i \in 1..(m + 1) : x[i] = IF i <= m THEN pq[i] ELSE one[i - m]
    BY <1>7
  <2> HIDE DEF m, one
  <2>3. m + 1 \in 1..(m + 1) /\ ~ (m + 1 <= m) /\ (m + 1) - m = 1
    BY <2>1
  <2> QED
    BY <2>1, <2>2, <2>3
<1>10. Len(x) = Len(p) + Len(q) + 1
  BY <1>4, <1>5, <1>7
<1> QED
  BY <1>1, <1>2, <1>3, <1>4, <1>5, <1>7, <1>8, <1>9, <1>10 DEF GhashParts, p, q, pq, l

(* GHASH's input tells its two strings apart, although zeros at its front are
   lost: the block of lengths stands at its end. *)
LEMMA GhashTellsApart ==
  ASSUME CtrConstants, NEW a, IsSeq(a), NEW c, IsSeq(c), NEW e, IsSeq(e), NEW f, IsSeq(f),
         Seal!Ghash(Seal!GhashInput(a, c)) = Seal!Ghash(Seal!GhashInput(e, f))
  PROVE  a = e /\ c = f
<1> DEFINE x == Seal!GhashInput(a, c)
           y == Seal!GhashInput(e, f)
           p == Seal!PadBlocks(a)
           q == Seal!PadBlocks(c)
           r == Seal!PadBlocks(e)
           s == Seal!PadBlocks(f)
           m == Len(x)
           n == Len(y)
           i == Front(x)
           j == Front(y)
<1>1. /\ IsSeq(p) /\ IsSeq(q) /\ IsSeq(p \o q) /\ IsSeq(x)
      /\ Len(p) = Seal!Blocks(Len(a)) /\ Len(q) = Seal!Blocks(Len(c))
      /\ Len(p \o q) = Len(p) + Len(q) /\ m = Len(p) + Len(q) + 1
      /\ Len(p) \in Nat /\ Len(q) \in Nat
      /\ x[m] = Seal!LengthBlock(Len(a), Len(c))
      /\ \A b \in 1..(Len(p) + Len(q)) : x[b] = (p \o q)[b] /\ IsSeq(x[b]) /\ Len(x[b]) = B
  <2>1. GhashParts(a, c, p, q, x)
    BY GhashInputFacts
  <2> HIDE DEF p, q, x
  <2> QED
    BY <2>1 DEF GhashParts
<1>2. /\ IsSeq(r) /\ IsSeq(s) /\ IsSeq(r \o s) /\ IsSeq(y)
      /\ Len(r) = Seal!Blocks(Len(e)) /\ Len(s) = Seal!Blocks(Len(f))
      /\ Len(r \o s) = Len(r) + Len(s) /\ n = Len(r) + Len(s) + 1
      /\ Len(r) \in Nat /\ Len(s) \in Nat
      /\ y[n] = Seal!LengthBlock(Len(e), Len(f))
      /\ \A b \in 1..(Len(r) + Len(s)) : y[b] = (r \o s)[b] /\ IsSeq(y[b]) /\ Len(y[b]) = B
  <2>1. GhashParts(e, f, r, s, y)
    BY GhashInputFacts
  <2> HIDE DEF r, s, y
  <2> QED
    BY <2>1 DEF GhashParts
<1>3. Len(a) \in Nat /\ Len(c) \in Nat /\ Len(e) \in Nat /\ Len(f) \in Nat
  BY IsSeqFacts
<1> HIDE DEF p, q, r, s
<1>4. /\ i \in 0..m /\ (\A b \in 1..i : Seal!IsZero(x[b]))
      /\ Seal!Ghash(x) = SubSeq(x, i + 1, m)
  <2> HIDE DEF x
  <2> QED
    BY <1>1, FrontFacts
<1>5. /\ j \in 0..n /\ (\A b \in 1..j : Seal!IsZero(y[b]))
      /\ Seal!Ghash(y) = SubSeq(y, j + 1, n)
  <2> HIDE DEF y
  <2> QED
    BY <1>2, FrontFacts
<1>ranges. m \in Nat \ {0} /\ n \in Nat \ {0} /\ i \in 0..m /\ j \in 0..n
  <2> DEFINE u == Len(p)
             v == Len(q)
             w == Len(r)
             z == Len(s)
  <2>1. u \in Nat /\ v \in Nat /\ w \in Nat /\ z \in Nat
    BY <1>1, <1>2, Zenon
  <2>2. m = u + v + 1 /\ n = w + z + 1
    BY <1>1, <1>2, Zenon
  <2>3. i \in 0..m /\ j \in 0..n
    BY <1>4, <1>5, Zenon
  <2> HIDE DEF u, v, w, z, m, n, i, j
  <2> QED
    BY <2>1, <2>2, <2>3
<1> DEFINE g == SubSeq(x, i + 1, m)
           h == SubSeq(y, j + 1, n)
<1>6. g = h
  BY <1>4, <1>5
<1> HIDE DEF x, y, i, j
<1>7. Len(g) = m - i /\ \A b \in 1..(m - i) : g[b] = x[i + b]
  <2>1. i + 1 \in 1..(m + 1) /\ m \in ((i + 1) - 1)..m /\ m - (i + 1) + 1 = m - i
    <3> HIDE DEF m, i
    <3> QED
      BY <1>ranges
  <2> HIDE DEF g
  <2>2. Len(g) = m - (i + 1) + 1 /\ \A b \in 1..(m - (i + 1) + 1) : g[b] = x[(i + 1) + b - 1]
    BY <1>1, <2>1, PartIsSeq DEF g
  <2>3. ASSUME NEW b \in 1..(m - i) PROVE g[b] = x[i + b]
    <3>1. (i + 1) + b - 1 = i + b
      BY <1>ranges
    <3> QED
      BY <2>1, <2>2, <3>1
  <2> QED
    BY <2>1, <2>2, <2>3
<1>8. Len(h) = n - j /\ \A b \in 1..(n - j) : h[b] = y[j + b]
  <2>1. j + 1 \in 1..(n + 1) /\ n \in ((j + 1) - 1)..n /\ n - (j + 1) + 1 = n - j
    <3> HIDE DEF n, j
    <3> QED
      BY <1>ranges
  <2> HIDE DEF h
  <2>2. Len(h) = n - (j + 1) + 1 /\ \A b \in 1..(n - (j + 1) + 1) : h[b] = y[(j + 1) + b - 1]
    BY <1>2, <2>1, PartIsSeq DEF h
  <2>3. ASSUME NEW b \in 1..(n - j) PROVE h[b] = y[j + b]
    <3>1. (j + 1) + b - 1 = j + b
      BY <1>ranges
    <3> QED
      BY <2>1, <2>2, <3>1
  <2> QED
    BY <2>1, <2>2, <2>3
<1> HIDE DEF g, h, m, n
<1>9. m \in Nat \ {0} /\ n \in Nat \ {0} /\ m - i = n - j
  <2>1. m \in Nat \ {0} /\ n \in Nat \ {0}
    BY <1>ranges
  <2>2. m - i = n - j
    BY <1>6, <1>7, <1>8
  <2> QED
    BY <2>1, <2>2
<1>10. CASE i = m
  <2>1. j = n /\ m \in 1..i /\ n \in 1..j
    BY <1>4, <1>5, <1>9, <1>10
  <2>2. Seal!IsZero(x[m]) /\ Seal!IsZero(y[n])
    BY <1>4, <1>5, <2>1
  <2>3. Len(a) = 0 /\ Len(c) = 0 /\ Len(e) = 0 /\ Len(f) = 0
    BY <1>1, <1>2, <1>3, <2>2, LengthBlockFacts, SMTT(30)
  <2> QED
    BY <2>3, SameSeq
<1>11. CASE i # m
  <2>1. m - i \in 1..(m - i) /\ m - i \in 1..(n - j) /\ i + (m - i) = m /\ j + (m - i) = n
    BY <1>4, <1>5, <1>9, <1>11
  <2>2. x[m] = y[n]
    BY <1>6, <1>7, <1>8, <2>1
  <2>3. Len(a) = Len(e) /\ Len(c) = Len(f)
    <3>1. Seal!LengthBlock(Len(a), Len(c)) = Seal!LengthBlock(Len(e), Len(f))
      BY <1>1, <1>2, <2>2
    <3> QED
      BY <1>3, <3>1, LengthBlockFacts
  <2>4. Len(p) = Len(r) /\ Len(q) = Len(s) /\ m = n /\ i = j
    <3>1. Len(p) = Len(r) /\ Len(q) = Len(s)
      BY <1>1, <1>2, <2>3
    <3>2. m = n
      BY <1>1, <1>2, <3>1
    <3> QED
      BY <1>4, <1>5, <1>9, <3>1, <3>2
  <2>5. ASSUME NEW b \in 1..Len(p \o q) PROVE (p \o q)[b] = (r \o s)[b]
    <3>1. /\ b \in 1..(Len(p) + Len(q)) /\ b \in 1..(Len(r) + Len(s))
          /\ b < m /\ b \in Nat /\ b >= 1
      BY <1>1, <1>2, <2>4
    <3>2. x[b] = (p \o q)[b] /\ y[b] = (r \o s)[b]
      BY <1>1, <1>2, <3>1
    <3>3. CASE b <= i
      <4>1. Seal!IsZero(x[b]) /\ Seal!IsZero(y[b])
        BY <1>4, <1>5, <2>4, <3>1, <3>3
      <4>2. IsSeq(x[b]) /\ Len(x[b]) = B /\ IsSeq(y[b]) /\ Len(y[b]) = B
        BY <1>1, <1>2, <3>1
      <4> DEFINE u == x[b]
                 v == y[b]
      <4>3. u = v
        <5>1. \A k \in 1..Len(u) : u[k] = v[k]
          BY <4>1, <4>2 DEF Seal!IsZero
        <5>2. IsSeq(u) /\ IsSeq(v) /\ Len(u) = Len(v)
          BY <4>2
        <5> HIDE DEF u, v
        <5> QED
          BY <5>1, <5>2, SameSeq
      <4> QED
        BY <3>2, <4>3
    <3>4. CASE b > i
      <4>1. b - i \in 1..(m - i) /\ b - i \in 1..(n - j) /\ i + (b - i) = b /\ j + (b - i) = b
        BY <1>4, <1>5, <1>9, <2>4, <3>1, <3>4
      <4>2. x[b] = y[b]
        BY <1>6, <1>7, <1>8, <4>1
      <4> QED
        BY <3>2, <4>2
    <3> QED
      BY <1>4, <3>1, <3>3, <3>4
  <2>6. p \o q = r \o s
    <3> DEFINE u == p \o q
               v == r \o s
    <3>1. IsSeq(u) /\ IsSeq(v) /\ Len(u) = Len(v) /\ \A b \in 1..Len(u) : u[b] = v[b]
      BY <1>1, <1>2, <2>4, <2>5
    <3> HIDE DEF u, v
    <3>2. u = v
      BY <3>1, SameSeq
    <3> QED
      BY <3>2 DEF u, v
  <2>7. p = r /\ q = s
    <3>1. IsSeq(p) /\ IsSeq(q) /\ IsSeq(r) /\ IsSeq(s) /\ Len(p) = Len(r)
      BY <1>1, <1>2, <2>4
    <3> QED
      BY <2>6, <3>1, JoinCancels
  <2>8. a = e
    BY <2>3, <2>7, PadBlocksInjective DEF p, r
  <2>9. c = f
    BY <2>3, <2>7, PadBlocksInjective DEF q, s
  <2> QED
    BY <2>8, <2>9
<1> QED
  BY <1>10, <1>11

-------------------------------------------------------------------------------
(* The blocks of CCM. *)

Pads(x) == {e \in x : e[1] = "ks"}    \* the keystream on a byte

AeadConstants ==
  /\ B >= 6
  /\ \A n \in Nonces : n \in Seq(Digit)
  /\ NonceLens \subseteq 1..(B - 3)
  /\ \A t \in GoodTagLens : t \in 4..16 /\ t % 2 = 0
  /\ MaxAad \in Nat /\ MaxAad < Seal!Power(4)
  /\ \A s \in Aads \cup Messages : IsSeq(s)
  /\ \A m \in Messages : Seal!Blocks(Len(m)) < Seal!Power(LowBytes)
  /\ \A m \in Messages : \A i \in 1..Len(m) : Pads(m[i]) = {}

(* What the authenticated ciphers need of the constants. *)
LEMMA AeadConstantsHold == AeadConstants
<1>1. Seal!AeadParameters
  BY SymmetricAssumption
<1>2. \A n \in Nonces : n \in Seq(Digit)
  <2> TAKE n \in Nonces
  <2>1. PICK k \in 1..B : n \in [1..k -> 0..(Radix - 1)]
    BY <1>1 DEF Seal!AeadParameters
  <2>2. k \in Nat /\ n \in [1..k -> Digit]
    BY <2>1, CtrParameters DEF Digit, CtrConstants
  <2> QED
    BY <2>2, SequenceOf
<1>3. \A s \in Aads \cup Messages : IsSeq(s)
  BY <1>1 DEF Seal!AeadParameters, IsSeq
<1>4. ASSUME NEW m \in Messages, NEW i \in 1..Len(m) PROVE Pads(m[i]) = {}
  <2> DEFINE T == {"num"} \X (1..(Radix - 1))
  <2>1. m \in Seq(SUBSET T)
    BY <1>1 DEF Seal!AeadParameters
  <2>2. \A e \in T : e[1] # "ks"
    OBVIOUS
  <2> HIDE DEF T
  <2>3. m[i] \subseteq T
    BY <2>1
  <2> QED
    BY <2>2, <2>3 DEF Pads
<1> QED
  BY <1>1, <1>2, <1>3, <1>4 DEF Seal!AeadParameters, AeadConstants

(* A sequence of digits is one of numbers, and a block of them a counter. *)
LEMMA DigitSeqs ==
  ASSUME NEW s \in Seq(Digit)
  PROVE  IsSeq(s) /\ Len(s) \in Nat
  BY DEF IsSeq

(* Bytes are numbers. *)
LEMMA DigitsAreNumbers ==
  ASSUME CtrConstants, NEW s \in Seq(Digit)
  PROVE  s \in Seq(Nat)
<1> DEFINE T == Digit
<1>1. T \subseteq Nat /\ s \in Seq(T)
  BY DEF Digit, CtrConstants
<1> HIDE DEF T
<1>2. Len(s) \in Nat /\ s \in [1..Len(s) -> T]
  BY <1>1
<1>3. s \in [1..Len(s) -> Nat]
  BY <1>1, <1>2
<1> QED
  BY <1>2, <1>3, SequenceOf

(* The block that masks the tag of GCM tells the nonce. *)
LEMMA J0Facts ==
  ASSUME CtrConstants, AeadConstants, NEW n \in Seal!GcmNonces, NEW m \in Seal!GcmNonces
  PROVE  /\ Seal!J0(n) \in CBlock
         /\ Seal!J0(n) = Seal!J0(m) => n = m
<1> DEFINE e == Seal!BigEndian(1, LowBytes)
<1>1. e \in Seq(Digit) /\ Len(e) = LowBytes /\ LowBytes \in Nat /\ B \in Nat
  <2>1. LowBytes \in Nat /\ B \in Nat /\ 1 \in Nat
    BY DEF CtrConstants
  <2> QED
    BY <2>1, BigEndianBytes
<1>2. n \in Seq(Digit) /\ m \in Seq(Digit) /\ Len(n) = B - LowBytes /\ Len(m) = B - LowBytes
  BY DEF AeadConstants, Seal!GcmNonces
<1>3. Seal!J0(n) = n \o e /\ Seal!J0(m) = m \o e
  BY DEF Seal!J0
<1> HIDE DEF e
<1>4. n \o e \in Seq(Digit) /\ Len(n \o e) = B
  <2>1. n \o e \in Seq(Digit) /\ Len(n \o e) = Len(n) + Len(e)
    BY <1>1, <1>2, ConcatProperties
  <2> QED
    BY <1>1, <1>2, <2>1
<1>5. Seal!J0(n) \in CBlock
  <2> DEFINE s == n \o e
  <2>1. s \in Seq(Digit) /\ Len(s) = B
    BY <1>4
  <2> HIDE DEF s
  <2>2. s \in [1..B -> Digit]
    BY <2>1
  <2> QED
    BY <1>3, <2>2 DEF CBlock, s
<1>6. n \o e = m \o e => n = m
  <2>1. IsSeq(n) /\ IsSeq(m) /\ IsSeq(e) /\ Len(n) = Len(m)
    BY <1>1, <1>2, DigitSeqs
  <2> QED
    BY <2>1, JoinCancels
<1> QED
  BY <1>3, <1>5, <1>6
-------------------------------------------------------------------------------
(* A byte, a nonce, and a number behind it: CCM's counters and first block. *)
CcmBlock(flag, nonce, v) == <<flag>> \o nonce \o Seal!BigEndian(v, Seal!Q(nonce))

(* A block of CCM has B bytes, the flags first. *)
LEMMA CcmBlockFacts ==
  ASSUME CtrConstants, AeadConstants, NEW flag \in Nat, NEW n \in Seq(Digit),
         Len(n) \in NonceLens, NEW v \in Nat
  PROVE  /\ Seal!Q(n) \in Nat /\ Seal!Q(n) >= 2
         /\ CcmBlock(flag, n, v) \in Seq(Nat) /\ Len(CcmBlock(flag, n, v)) = B
         /\ CcmBlock(flag, n, v)[1] = flag
<1>1. Seal!Q(n) \in Nat /\ Seal!Q(n) >= 2 /\ Len(n) + Seal!Q(n) + 1 = B /\ Len(n) \in Nat
  BY DEF AeadConstants, CtrConstants, Seal!Q
<1> DEFINE e == Seal!BigEndian(v, Seal!Q(n))
           h == <<flag>> \o n
<1>2. e \in Seq(Digit) /\ Len(e) = Seal!Q(n)
  BY <1>1, BigEndianBytes
<1>3. Digit \subseteq Nat
  BY DEF Digit, CtrConstants
<1>4. CcmBlock(flag, n, v) = h \o e
  BY DEF CcmBlock
<1> HIDE DEF e
<1>5. n \in Seq(Nat) /\ e \in Seq(Nat) /\ <<flag>> \in Seq(Nat)
  <2>1. <<flag>> \in Seq(Nat)
    OBVIOUS
  <2> QED
    BY <1>2, <2>1, DigitsAreNumbers
<1>6. h \in Seq(Nat) /\ Len(h) = 1 + Len(n) /\ h[1] = flag
  BY <1>5
<1> HIDE DEF h
<1>7. h \o e \in Seq(Nat) /\ Len(h \o e) = Len(h) + Len(e)
  BY <1>5, <1>6, ConcatProperties
<1>8. (h \o e)[1] = h[1]
  <2>1. 1 \in 1..(Len(h) + Len(e)) /\ 1 <= Len(h)
    BY <1>1, <1>2, <1>6
  <2> QED
    BY <1>5, <1>6, <2>1, ConcatProperties
<1> QED
  BY <1>1, <1>2, <1>4, <1>6, <1>7, <1>8

(* A block of CCM tells its flags, its nonce and the bytes of its number. *)
LEMMA CcmBlockInjective ==
  ASSUME CtrConstants, AeadConstants, NEW f \in Nat, NEW n \in Seq(Digit),
         Len(n) \in NonceLens, NEW v \in Nat,
         NEW g \in Nat, NEW m \in Seq(Digit), Len(m) = Len(n), NEW w \in Nat,
         CcmBlock(f, n, v) = CcmBlock(g, m, w)
  PROVE  f = g /\ n = m /\ Seal!BigEndian(v, Seal!Q(n)) = Seal!BigEndian(w, Seal!Q(n))
<1> DEFINE d == Seal!BigEndian(v, Seal!Q(n))
           e == Seal!BigEndian(w, Seal!Q(m))
           h == <<f>> \o n
           i == <<g>> \o m
<1>1. Seal!Q(n) \in Nat /\ Seal!Q(m) = Seal!Q(n)
  BY DEF AeadConstants, CtrConstants, Seal!Q
<1>2. d \in Seq(Digit) /\ e \in Seq(Digit) /\ Len(d) = Len(e)
  BY <1>1, BigEndianBytes
<1>3. h \o d = i \o e
  BY DEF CcmBlock
<1>4. IsSeq(d) /\ IsSeq(e) /\ IsSeq(n) /\ IsSeq(m)
  BY <1>2, DigitSeqs
<1> HIDE DEF d, e
<1> DEFINE a == <<f>>
           b == <<g>>
<1>5. IsSeq(a) /\ IsSeq(b) /\ Len(a) = 1 /\ Len(b) = 1 /\ a[1] = f /\ b[1] = g
  BY SinglesAreSeqs
<1>6. h = a \o n /\ i = b \o m
  OBVIOUS
<1> HIDE DEF a, b, h, i
<1>7. IsSeq(h) /\ IsSeq(i) /\ Len(h) = Len(i)
  <2>1. IsSeq(a \o n) /\ Len(a \o n) = 1 + Len(n)
    BY <1>4, <1>5, JoinIsSeq
  <2>2. IsSeq(b \o m) /\ Len(b \o m) = 1 + Len(m)
    BY <1>4, <1>5, JoinIsSeq
  <2> QED
    BY <1>6, <2>1, <2>2
<1>8. h = i /\ d = e
  BY <1>3, <1>4, <1>7, JoinCancels
<1>9. a = b /\ n = m
  BY <1>4, <1>5, <1>6, <1>8, JoinCancels
<1> QED
  BY <1>1, <1>5, <1>8, <1>9 DEF d, e

(* A counter of CCM is such a block. *)
LEMMA CcmCounterIsBlock ==
  ASSUME NEW n, NEW k
  PROVE  Seal!CcmCounter(n, k) = CcmBlock(Seal!Q(n) - 1, n, k)
  BY DEF Seal!CcmCounter, CcmBlock

B0Flags(n, aadLen, t) ==
  (IF aadLen = 0 THEN 0 ELSE 64) + 8 * ((t - 2) \div 2) + Seal!Q(n) - 1

(* So is the first block of its MAC. *)
LEMMA B0IsBlock ==
  ASSUME NEW n, NEW l, NEW k, NEW t
  PROVE  Seal!B0(n, l, k, t) = CcmBlock(B0Flags(n, l, t), n, k)
  BY DEF Seal!B0, CcmBlock, B0Flags

(* The code of a tag length in the flags. *)
LEMMA TagLenCode ==
  ASSUME NEW t, t \in 4..16, t % 2 = 0
  PROVE  (t - 2) \div 2 \in 1..7 /\ t = 2 * ((t - 2) \div 2) + 2
<1>1. t \div 2 \in Int /\ t = 2 * (t \div 2) + (t % 2)
  BY Division
<1> DEFINE d == t \div 2
<1>2. d \in Int /\ t = 2 * d
  BY <1>1
<1> HIDE DEF d
<1> DEFINE x == t - 2
           e == d - 1
           m == 2
<1>3. x \in Int /\ e \in Int /\ x = m * e + 0 /\ m \in Nat /\ m > 0 /\ 0 \in 0..(m - 1)
  BY <1>2
<1> HIDE DEF x, e, m
<1>4. x \div m = e
  BY <1>3, DivisionUnique
<1> QED
  BY <1>2, <1>4 DEF x, e, m

(* The flags tell the length of the tag, and whether there is associated data. *)
LEMMA FlagsTellApart ==
  ASSUME CtrConstants, AeadConstants, NEW n, Len(n) \in NonceLens, NEW m, Len(m) = Len(n),
         NEW a \in Nat, NEW e \in Nat, NEW t \in GoodTagLens, NEW u \in GoodTagLens
  PROVE  /\ B0Flags(n, a, t) \in Nat /\ B0Flags(n, a, t) > Seal!Q(n) - 1
         /\ B0Flags(n, a, t) = B0Flags(m, e, u) => t = u /\ (a = 0 <=> e = 0)
<1> DEFINE c == (t - 2) \div 2
           d == (u - 2) \div 2
           q == Seal!Q(n)
<1>1. t \in 4..16 /\ t % 2 = 0 /\ u \in 4..16 /\ u % 2 = 0
  BY DEF AeadConstants
<1>2. c \in 1..7 /\ t = 2 * c + 2
  BY <1>1, TagLenCode
<1>3. d \in 1..7 /\ u = 2 * d + 2
  BY <1>1, TagLenCode
<1>4. q \in Nat /\ q >= 2 /\ Seal!Q(m) = q
  BY DEF AeadConstants, CtrConstants, Seal!Q
<1>5. /\ B0Flags(n, a, t) = (IF a = 0 THEN 0 ELSE 64) + 8 * c + q - 1
      /\ B0Flags(m, e, u) = (IF e = 0 THEN 0 ELSE 64) + 8 * d + q - 1
  BY <1>4 DEF B0Flags
<1> HIDE DEF c, d, q
<1>6. B0Flags(n, a, t) \in Nat /\ B0Flags(n, a, t) > q - 1
  BY <1>2, <1>4, <1>5
<1>7. B0Flags(n, a, t) = B0Flags(m, e, u) => t = u /\ (a = 0 <=> e = 0)
  BY <1>2, <1>3, <1>4, <1>5
<1> QED
  BY <1>6, <1>7 DEF q
-------------------------------------------------------------------------------
(* Numbers as plain bytes, one by one. *)
LEMMA AsBytesFacts ==
  ASSUME NEW s \in Seq(Nat)
  PROVE  /\ IsSeq(Seal!AsBytes(s)) /\ Len(Seal!AsBytes(s)) = Len(s)
         /\ \A i \in 1..Len(s) : Seal!AsBytes(s)[i] = Seal!Num(s[i])
<1> DEFINE b == Seal!AsBytes(s)
           n == Len(s)
<1>1. b = [i \in 1..n |-> Seal!Num(s[i])] /\ n \in Nat
  BY DEF Seal!AsBytes
<1> HIDE DEF b, n
<1>2. b = [i \in 1..n |-> b[i]]
  BY <1>1
<1>3. IsSeq(b) /\ Len(b) = n
  BY <1>1, <1>2, ListIsSeq
<1>4. \A i \in 1..n : b[i] = Seal!Num(s[i])
  BY <1>1
<1> QED
  BY <1>3, <1>4 DEF b, n

(* Plain bytes tell their numbers. *)
LEMMA AsBytesInjective ==
  ASSUME NEW s \in Seq(Nat), NEW t \in Seq(Nat), Seal!AsBytes(s) = Seal!AsBytes(t)
  PROVE  s = t
<1>1. Len(s) = Len(t) /\ \A i \in 1..Len(s) : Seal!Num(s[i]) = Seal!Num(t[i])
  BY AsBytesFacts
<1>2. ASSUME NEW i \in 1..Len(s) PROVE s[i] = t[i]
  <2>1. s[i] \in Nat /\ t[i] \in Nat /\ Seal!Num(s[i]) = Seal!Num(t[i])
    BY <1>1
  <2> DEFINE v == s[i]
             w == t[i]
  <2>2. v \in Nat /\ w \in Nat /\ Seal!Num(v) = Seal!Num(w)
    BY <2>1
  <2> HIDE DEF v, w
  <2>3. v = w
    BY <2>2, NumInjective
  <2> QED
    BY <2>3 DEF v, w
<1> QED
  BY <1>1, <1>2

(* The length in front of the associated data, in its short and its long form. *)
ShortAad(n) == n < (Radix - 1) * Radix

(* The two-byte header does not start like the long one. *)
LEMMA ShortHeader ==
  ASSUME CtrConstants, NEW n \in Nat, ShortAad(n)
  PROVE  /\ n < Seal!Power(2)
         /\ Seal!BigEndian(n, 2)[1] < Radix - 1
<1>0. Radix \in Nat /\ Radix > 1
  BY DEF CtrConstants
<1>1. Stream!Power(2) = Radix * Radix
  <2>1. Stream!Power(1) = Radix * 1
    <3>1. 0 \in Nat /\ 0 + 1 = 1
      OBVIOUS
    <3> QED
      BY <3>1, PowerUnfolds
  <2>2. Stream!Power(2) = Radix * Stream!Power(1)
    <3>1. 1 \in Nat /\ 1 + 1 = 2
      OBVIOUS
    <3> QED
      BY <3>1, PowerUnfolds
  <2> QED
    BY <1>0, <2>1, <2>2
<1>2. (Radix - 1) * Radix < Radix * Radix
  BY <1>0, SMTT(30)
<1>3. n < Seal!Power(2)
  <2>1. (Radix - 1) * Radix \in Int /\ Radix * Radix \in Int
    BY <1>0, SMTT(30)
  <2>2. n < Radix * Radix
    BY <1>2, <2>1 DEF ShortAad
  <2> QED
    BY <1>1, <2>2, PowersAreOne
<1>4. n \div Radix \in 0..((Radix - 1) - 1)
  <2> DEFINE b == Radix - 1
  <2>1. b \in Nat /\ n < b * Radix
    BY <1>0 DEF ShortAad
  <2> HIDE DEF b
  <2>2. n \div Radix \in 0..(b - 1)
    BY <1>0, <2>1, QuotientBound
  <2> QED
    BY <2>2 DEF b
<1>5. Seal!BigEndian(n, 2)[1] = (n \div Radix) % Radix
  <2>1. 2 \in Nat /\ 1 \in 1..2 /\ 2 \in 1..2 /\ 2 - 1 = 1
    OBVIOUS
  <2>2. /\ Rest(n, 2)[2] = n /\ Rest(n, 2)[2 - 1] = Rest(n, 2)[2] \div Radix
        /\ Seal!BigEndian(n, 2) = [i \in 1..2 |-> Rest(n, 2)[i] % Radix]
    <3>1. /\ Rest(n, 2)[2] = n
          /\ \A i \in 1..2 : Rest(n, 2)[i - 1] = Rest(n, 2)[i] \div Radix
          /\ Seal!BigEndian(n, 2) = [i \in 1..2 |-> Rest(n, 2)[i] % Radix]
      BY <1>0, <2>1, RestUnfolded
    <3> QED
      BY <2>1, <3>1
  <2>3. Seal!BigEndian(n, 2)[1] = Rest(n, 2)[1] % Radix
    BY <2>1, <2>2
  <2> QED
    BY <2>1, <2>2, <2>3
<1> DEFINE x == n \div Radix
<1>6. x \in 0..(Radix - 2)
  BY <1>0, <1>4
<1> HIDE DEF x
<1>7. x % Radix = x
  <2> DEFINE z == 0
  <2>1. x \in Int /\ z \in Int /\ x \in 0..(Radix - 1) /\ x = Radix * z + x
    BY <1>0, <1>6
  <2> HIDE DEF z
  <2> QED
    BY <1>0, <2>1, DivisionUnique
<1>8. x < Radix - 1
  BY <1>0, <1>6
<1> QED
  BY <1>3, <1>5, <1>7, <1>8 DEF x

(* The six-byte header, byte by byte. *)
LEMMA LongHeader ==
  ASSUME CtrConstants, NEW n \in Nat
  PROVE  LET e == Seal!BigEndian(n, 4)
             h == <<Radix - 1, Radix - 2>> \o e
         IN  /\ h \in Seq(Nat) /\ Len(h) = 6 /\ h[1] = Radix - 1
             /\ e \in Seq(Digit) /\ Len(e) = 4 /\ \A i \in 1..4 : h[i + 2] = e[i]
<1> DEFINE e == Seal!BigEndian(n, 4)
           f == <<Radix - 1, Radix - 2>>
           h == f \o e
<1>1. e \in Seq(Digit) /\ Len(e) = 4
  BY BigEndianBytes
<1>2. e \in Seq(Nat)
  BY <1>1, DigitsAreNumbers
<1>3. f \in Seq(Nat) /\ Len(f) = 2 /\ f[1] = Radix - 1
  <2>1. Radix - 1 \in Nat /\ Radix - 2 \in Nat
    BY DEF CtrConstants
  <2> QED
    BY <2>1
<1> HIDE DEF e, f
<1>4. /\ h \in Seq(Nat) /\ Len(h) = Len(f) + Len(e)
      /\ \A i \in 1..(Len(f) + Len(e)) : h[i] = IF i <= Len(f) THEN f[i] ELSE e[i - Len(f)]
  BY <1>2, <1>3, ConcatProperties
<1> HIDE DEF h
<1>5. Len(h) = 6 /\ \A i \in 1..6 : h[i] = IF i <= 2 THEN f[i] ELSE e[i - 2]
  BY <1>1, <1>3, <1>4
<1>6. h[1] = Radix - 1
  BY <1>3, <1>5
<1>7. ASSUME NEW i \in 1..4 PROVE h[i + 2] = e[i]
  <2>1. i + 2 \in 1..6 /\ ~ (i + 2 <= 2) /\ (i + 2) - 2 = i
    OBVIOUS
  <2> QED
    BY <1>5, <2>1
<1> QED
  BY <1>1, <1>4, <1>5, <1>6, <1>7 DEF e, f, h

(* A header has two bytes or six. *)
LEMMA HeaderTyped ==
  ASSUME CtrConstants, NEW n \in Nat
  PROVE  Seal!AadHeader(n) \in Seq(Nat) /\ Len(Seal!AadHeader(n)) \in {2, 6}
<1>1. CASE ShortAad(n)
  <2>1. Seal!AadHeader(n) = Seal!BigEndian(n, 2)
    BY <1>1 DEF Seal!AadHeader, ShortAad
  <2> QED
    BY <2>1, BigEndianBytes, DigitsAreNumbers
<1>2. CASE ~ ShortAad(n)
  <2>1. Seal!AadHeader(n) = <<Radix - 1, Radix - 2>> \o Seal!BigEndian(n, 4)
    BY <1>2 DEF Seal!AadHeader, ShortAad
  <2> QED
    BY <2>1, LongHeader
<1> QED
  BY <1>1, <1>2

(* What starts with a header tells the length in it. *)
LEMMA HeaderTellsApart ==
  ASSUME CtrConstants, NEW n \in Nat, n < Seal!Power(4), NEW m \in Nat, m < Seal!Power(4),
         \A i \in 1..6 : i <= Len(Seal!AadHeader(n)) /\ i <= Len(Seal!AadHeader(m))
           => Seal!AadHeader(n)[i] = Seal!AadHeader(m)[i]
  PROVE  n = m
<1> DEFINE h == Seal!AadHeader(n)
           g == Seal!AadHeader(m)
<1>1. ShortAad(n) => /\ h = Seal!BigEndian(n, 2) /\ Len(h) = 2 /\ h \in [1..2 -> Digit]
                     /\ h[1] < Radix - 1 /\ n < Seal!Power(2)
  BY BigEndianBytes, ShortHeader DEF Seal!AadHeader, ShortAad
<1>2. ShortAad(m) => /\ g = Seal!BigEndian(m, 2) /\ Len(g) = 2 /\ g \in [1..2 -> Digit]
                     /\ g[1] < Radix - 1 /\ m < Seal!Power(2)
  BY BigEndianBytes, ShortHeader DEF Seal!AadHeader, ShortAad
<1>3. ~ ShortAad(n) => /\ Len(h) = 6 /\ h[1] = Radix - 1
                       /\ Seal!BigEndian(n, 4) \in [1..4 -> Digit]
                       /\ \A i \in 1..4 : h[i + 2] = Seal!BigEndian(n, 4)[i]
  <2> SUFFICES ASSUME ~ ShortAad(n)
               PROVE  /\ Len(h) = 6 /\ h[1] = Radix - 1
                      /\ Seal!BigEndian(n, 4) \in [1..4 -> Digit]
                      /\ \A i \in 1..4 : h[i + 2] = Seal!BigEndian(n, 4)[i]
    OBVIOUS
  <2>1. h = <<Radix - 1, Radix - 2>> \o Seal!BigEndian(n, 4)
    BY DEF Seal!AadHeader, ShortAad
  <2>2. Seal!BigEndian(n, 4) \in [1..4 -> Digit]
    BY BigEndianBytes
  <2> DEFINE k == <<Radix - 1, Radix - 2>> \o Seal!BigEndian(n, 4)
  <2>3. /\ Len(k) = 6 /\ k[1] = Radix - 1
        /\ \A i \in 1..4 : k[i + 2] = Seal!BigEndian(n, 4)[i]
    BY LongHeader
  <2> HIDE DEF k, h
  <2> QED
    BY <2>1, <2>2, <2>3 DEF k
<1>4. ~ ShortAad(m) => /\ Len(g) = 6 /\ g[1] = Radix - 1
                       /\ Seal!BigEndian(m, 4) \in [1..4 -> Digit]
                       /\ \A i \in 1..4 : g[i + 2] = Seal!BigEndian(m, 4)[i]
  <2> SUFFICES ASSUME ~ ShortAad(m)
               PROVE  /\ Len(g) = 6 /\ g[1] = Radix - 1
                      /\ Seal!BigEndian(m, 4) \in [1..4 -> Digit]
                      /\ \A i \in 1..4 : g[i + 2] = Seal!BigEndian(m, 4)[i]
    OBVIOUS
  <2>1. g = <<Radix - 1, Radix - 2>> \o Seal!BigEndian(m, 4)
    BY DEF Seal!AadHeader, ShortAad
  <2>2. Seal!BigEndian(m, 4) \in [1..4 -> Digit]
    BY BigEndianBytes
  <2> DEFINE k == <<Radix - 1, Radix - 2>> \o Seal!BigEndian(m, 4)
  <2>3. /\ Len(k) = 6 /\ k[1] = Radix - 1
        /\ \A i \in 1..4 : k[i + 2] = Seal!BigEndian(m, 4)[i]
    BY LongHeader
  <2> HIDE DEF k, g
  <2> QED
    BY <2>1, <2>2, <2>3 DEF k
<1>5. \A i \in 1..6 : i <= Len(h) /\ i <= Len(g) => h[i] = g[i]
  OBVIOUS
<1>6. Radix \in Nat /\ 1 \in 1..6
  BY DEF CtrConstants
<1> HIDE DEF h, g
<1>7. h[1] = g[1]
  BY <1>1, <1>2, <1>3, <1>4, <1>5, <1>6
<1>8. ShortAad(n) <=> ShortAad(m)
  <2>1. ShortAad(n) => h[1] # Radix - 1
    <3>1. ShortAad(n) => h[1] \in Digit
      BY <1>1
    <3> QED
      BY <1>1, <1>6, <3>1 DEF Digit
  <2>2. ShortAad(m) => g[1] # Radix - 1
    <3>1. ShortAad(m) => g[1] \in Digit
      BY <1>2
    <3> QED
      BY <1>2, <1>6, <3>1 DEF Digit
  <2> QED
    BY <1>3, <1>4, <1>7, <2>1, <2>2
<1>9. CASE ShortAad(n)
  <2>1. h[1] = g[1] /\ h[2] = g[2]
    BY <1>1, <1>2, <1>5, <1>8, <1>9
  <2>2. h = g
    BY <1>1, <1>2, <1>8, <1>9, <2>1
  <2> QED
    BY <1>1, <1>2, <1>8, <1>9, <2>2, BigEndianInjective
<1>10. CASE ~ ShortAad(n)
  <2> DEFINE d == Seal!BigEndian(n, 4)
             e == Seal!BigEndian(m, 4)
  <2>1. ASSUME NEW i \in 1..4 PROVE d[i] = e[i]
    <3>1. i + 2 \in 1..6 /\ i + 2 <= Len(h) /\ i + 2 <= Len(g)
      BY <1>3, <1>4, <1>8, <1>10
    <3>2. h[i + 2] = g[i + 2]
      BY <1>5, <3>1
    <3> QED
      BY <1>3, <1>4, <1>8, <1>10, <3>2
  <2>2. d \in [1..4 -> Digit] /\ e \in [1..4 -> Digit]
    BY <1>3, <1>4, <1>8, <1>10
  <2>3. d = e
    <3> HIDE DEF d, e
    <3> QED
      BY <2>1, <2>2
  <2> QED
    BY <2>3, BigEndianInjective
<1> QED
  BY <1>9, <1>10
-------------------------------------------------------------------------------
(* The blocks of associated data tell it, if there is any. *)
LEMMA AadTellsApart ==
  ASSUME CtrConstants, AeadConstants, NEW a, IsSeq(a), Len(a) <= MaxAad,
         NEW e, IsSeq(e), Len(e) <= MaxAad, Len(a) = 0 <=> Len(e) = 0,
         Seal!AadBlocks(a) = Seal!AadBlocks(e)
  PROVE  a = e
<1> DEFINE h == Seal!AadHeader(Len(a))
           g == Seal!AadHeader(Len(e))
           s == Seal!AsBytes(h) \o a
           t == Seal!AsBytes(g) \o e
<1>1. Len(a) \in Nat /\ Len(e) \in Nat
  BY IsSeqFacts
<1>2. CASE Len(a) = 0
  BY <1>1, <1>2, SameSeq
<1>3. CASE Len(a) # 0
  <2>1. a # <<>> /\ e # <<>>
    BY <1>3, EmptyIsSeq
  <2>2. Seal!PadBlocks(s) = Seal!PadBlocks(t)
    BY <2>1 DEF Seal!AadBlocks
  <2>3. h \in Seq(Nat) /\ g \in Seq(Nat) /\ Len(h) \in {2, 6} /\ Len(g) \in {2, 6}
    BY <1>1, HeaderTyped
  <2> DEFINE u == Seal!AsBytes(h)
             v == Seal!AsBytes(g)
  <2>4. IsSeq(u) /\ Len(u) = Len(h) /\ \A i \in 1..Len(h) : u[i] = Seal!Num(h[i])
    BY <2>3, AsBytesFacts
  <2>5. IsSeq(v) /\ Len(v) = Len(g) /\ \A i \in 1..Len(g) : v[i] = Seal!Num(g[i])
    BY <2>3, AsBytesFacts
  <2> HIDE DEF u, v, h, g
  <2>6. /\ IsSeq(s) /\ Len(s) = Len(h) + Len(a)
        /\ \A i \in 1..(Len(h) + Len(a)) : s[i] = IF i <= Len(h) THEN u[i] ELSE a[i - Len(h)]
    <3>1. s = u \o a
      BY DEF u
    <3> HIDE DEF s
    <3>2. /\ IsSeq(u \o a) /\ Len(u \o a) = Len(u) + Len(a)
          /\ \A i \in 1..(Len(u) + Len(a)) :
               (u \o a)[i] = IF i <= Len(u) THEN u[i] ELSE a[i - Len(u)]
      BY <2>4, JoinIsSeq
    <3> QED
      BY <2>4, <3>1, <3>2
  <2>7. /\ IsSeq(t) /\ Len(t) = Len(g) + Len(e)
        /\ \A i \in 1..(Len(g) + Len(e)) : t[i] = IF i <= Len(g) THEN v[i] ELSE e[i - Len(g)]
    <3>1. t = v \o e
      BY DEF v
    <3> HIDE DEF t
    <3>2. /\ IsSeq(v \o e) /\ Len(v \o e) = Len(v) + Len(e)
          /\ \A i \in 1..(Len(v) + Len(e)) :
               (v \o e)[i] = IF i <= Len(v) THEN v[i] ELSE e[i - Len(v)]
      BY <2>5, JoinIsSeq
    <3> QED
      BY <2>5, <3>1, <3>2
  <2> HIDE DEF s, t
  <2>14. /\ Len(h) \in Nat /\ Len(h) >= 2 /\ Len(g) \in Nat /\ Len(g) >= 2
         /\ Len(s) \in Nat /\ Len(s) >= Len(h) /\ Len(s) >= 1
         /\ Len(t) \in Nat /\ Len(t) >= Len(g) /\ Len(t) >= 1
    <3>1. Len(h) \in Nat /\ Len(h) >= 2 /\ Len(g) \in Nat /\ Len(g) >= 2
      <4>1. (Len(h) = 2 \/ Len(h) = 6) /\ (Len(g) = 2 \/ Len(g) = 6)
        BY <2>3
      <4> DEFINE k == Len(h)
                 l == Len(g)
      <4>2. (k = 2 \/ k = 6) /\ (l = 2 \/ l = 6)
        BY <4>1
      <4> HIDE DEF k, l
      <4>3. k \in Nat /\ k >= 2 /\ l \in Nat /\ l >= 2
        BY <4>2
      <4> QED
        BY <4>3 DEF k, l
    <3>2. Len(s) = Len(h) + Len(a)
      BY <2>6
    <3>3. Len(t) = Len(g) + Len(e)
      BY <2>7
    <3> QED
      BY <1>1, <3>1, <3>2, <3>3
  <2>8. PadBlock(s, 1) = PadBlock(t, 1)
    <3>1. Len(s) \in Nat /\ Len(s) >= 1 /\ Len(t) \in Nat /\ Len(t) >= 1
      BY <2>14
    <3>2. 1 \in 1..Seal!Blocks(Len(s)) /\ 1 \in 1..Seal!Blocks(Len(t))
      <4>1. 1 \in 1..Len(s) /\ 1 \in 1..Len(t) /\ (1 - 1) \div B + 1 = 1
        <5>1. 0 \div B = 0
          BY SMTT(30) DEF CtrConstants
        <5> QED
          BY <3>1, <5>1
      <4> QED
        BY <3>1, <4>1, BlocksFacts
    <3>3. Seal!PadBlocks(s)[1] = PadBlock(s, 1)
      BY <2>6, <3>2, PadBlocksFacts
    <3>4. Seal!PadBlocks(t)[1] = PadBlock(t, 1)
      BY <2>7, <3>2, PadBlocksFacts
    <3> QED
      BY <2>2, <3>3, <3>4
  <2>9. ASSUME NEW i \in 1..6, i <= Len(h), i <= Len(g) PROVE h[i] = g[i]
    <3>1. i \in 1..B /\ (1 - 1) * B + i = i
      BY DEF AeadConstants, CtrConstants
    <3>2. i <= Len(s) /\ i <= Len(t) /\ i \in 1..Len(h) /\ i \in 1..Len(g)
      BY <2>9, <2>14
    <3>3. PadBlock(s, 1)[i] = s[i] /\ PadBlock(t, 1)[i] = t[i]
      BY <3>1, <3>2 DEF PadBlock
    <3>4. s[i] = u[i] /\ t[i] = v[i]
      <4>1. i \in 1..(Len(h) + Len(a)) /\ i \in 1..(Len(g) + Len(e))
        BY <1>1, <2>3, <3>2
      <4> QED
        BY <2>6, <2>7, <2>9, <4>1
    <3>5. Seal!Num(h[i]) = Seal!Num(g[i]) /\ h[i] \in Nat /\ g[i] \in Nat
      <4>1. s[i] = PadBlock(s, 1)[i] /\ t[i] = PadBlock(t, 1)[i]
        BY <3>3
      <4>2. Seal!Num(h[i]) = u[i] /\ Seal!Num(g[i]) = v[i]
        BY <2>4, <2>5, <3>2
      <4>3. h[i] \in Nat /\ g[i] \in Nat
        BY <2>3, <3>2
      <4>4. PadBlock(s, 1)[i] = PadBlock(t, 1)[i]
        BY <2>8
      <4> QED
        BY <3>4, <4>1, <4>2, <4>3, <4>4
    <3> DEFINE x == h[i]
               y == g[i]
    <3>6. x \in Nat /\ y \in Nat /\ Seal!Num(x) = Seal!Num(y)
      BY <3>5
    <3> HIDE DEF x, y
    <3>7. x = y
      BY <3>6, NumInjective
    <3> QED
      BY <3>7 DEF x, y
  <2>10. Len(a) = Len(e)
    <3> DEFINE n == Len(a)
               m == Len(e)
    <3>1. n \in Nat /\ m \in Nat /\ n < Seal!Power(4) /\ m < Seal!Power(4)
      <4>1. Seal!Power(4) \in Nat
        BY PowersAreOne, PowerUnfolds
      <4> QED
        BY <1>1, <4>1 DEF AeadConstants
    <3>2. h = Seal!AadHeader(n) /\ g = Seal!AadHeader(m)
      BY DEF h, g
    <3> HIDE DEF n, m
    <3>3. \A i \in 1..6 : i <= Len(Seal!AadHeader(n)) /\ i <= Len(Seal!AadHeader(m))
            => Seal!AadHeader(n)[i] = Seal!AadHeader(m)[i]
      BY <2>9, <3>2
    <3>4. n = m
      BY <3>1, <3>3, HeaderTellsApart
    <3> QED
      BY <3>4 DEF n, m
  <2>11. h = g /\ u = v
    BY <2>10 DEF h, g, u, v
  <2>12. s = t
    <3>1. Len(s) = Len(t)
      BY <2>6, <2>7, <2>10, <2>11
    <3> QED
      BY <2>2, <2>6, <2>7, <3>1, PadBlocksInjective
  <2>13. u \o a = v \o e
    BY <2>12 DEF s, t, u, v
  <2> QED
    BY <2>4, <2>5, <2>11, <2>13, JoinCancels
<1> QED
  BY <1>2, <1>3

(* Encryption keeps the length and takes byte for byte. *)
LEMMA CryptFacts ==
  ASSUME NEW d, IsSeq(d), NEW p
  PROVE  /\ IsSeq(Seal!Crypt(d, p)) /\ Len(Seal!Crypt(d, p)) = Len(d)
         /\ \A i \in 1..Len(d) : Seal!Crypt(d, p)[i] = Seal!Xor(d[i], {<<"ks", p[i]>>})
<1> DEFINE c == Seal!Crypt(d, p)
           n == Len(d)
<1>1. c = [i \in 1..n |-> Seal!Xor(d[i], {<<"ks", p[i]>>})] /\ n \in Nat
  BY IsSeqFacts DEF Seal!Crypt
<1> HIDE DEF c, n
<1>2. c = [i \in 1..n |-> c[i]]
  BY <1>1
<1>3. IsSeq(c) /\ Len(c) = n
  BY <1>1, <1>2, ListIsSeq
<1>4. \A i \in 1..n : c[i] = Seal!Xor(d[i], {<<"ks", p[i]>>})
  BY <1>1
<1> QED
  BY <1>3, <1>4 DEF c, n

(* What was encrypted with a keystream is decrypted with it. *)
LEMMA CryptTwice ==
  ASSUME NEW d, IsSeq(d), NEW p
  PROVE  Seal!Crypt(Seal!Crypt(d, p), p) = d
<1> DEFINE c == Seal!Crypt(d, p)
           e == Seal!Crypt(c, p)
<1>1. /\ IsSeq(c) /\ Len(c) = Len(d)
      /\ \A i \in 1..Len(d) : c[i] = Seal!Xor(d[i], {<<"ks", p[i]>>})
  BY CryptFacts
<1> HIDE DEF c
<1>2. /\ IsSeq(e) /\ Len(e) = Len(c)
      /\ \A i \in 1..Len(c) : e[i] = Seal!Xor(c[i], {<<"ks", p[i]>>})
  <2>1. IsSeq(c)
    BY <1>1
  <2> QED
    BY <2>1, CryptFacts
<1> HIDE DEF e
<1>3. ASSUME NEW i \in 1..Len(e) PROVE e[i] = d[i]
  <2>1. e[i] = Seal!Xor(Seal!Xor(d[i], {<<"ks", p[i]>>}), {<<"ks", p[i]>>})
    BY <1>1, <1>2
  <2> DEFINE x == d[i]
             y == {<<"ks", p[i]>>}
  <2>2. e[i] = Seal!Xor(Seal!Xor(x, y), y)
    BY <2>1
  <2> HIDE DEF x, y
  <2>3. Seal!Xor(Seal!Xor(x, y), y) = x
    BY DEF Seal!Xor
  <2> QED
    BY <2>2, <2>3 DEF x
<1>4. e = d
  BY <1>1, <1>2, <1>3, SameSeq
<1> QED
  BY <1>4 DEF c, e

(* GCM encrypts and decrypts with one keystream. *)
LEMMA GcmCryptTwice ==
  ASSUME NEW n, NEW d, IsSeq(d)
  PROVE  /\ IsSeq(Seal!GcmCrypt(n, d)) /\ Len(Seal!GcmCrypt(n, d)) = Len(d)
         /\ Seal!GcmCrypt(n, Seal!GcmCrypt(n, d)) = d
<1> DEFINE p == Seal!CtrApply("inc32", Seal!Inc32(Seal!J0(n)), Len(d))
           c == Seal!Crypt(d, p)
<1>1. Seal!GcmCrypt(n, d) = c
  BY DEF Seal!GcmCrypt
<1>2. IsSeq(c) /\ Len(c) = Len(d)
  BY CryptFacts
<1>3. Seal!GcmCrypt(n, c) = Seal!Crypt(c, p)
  <2> HIDE DEF c
  <2> QED
    BY <1>2 DEF Seal!GcmCrypt
<1>4. Seal!Crypt(c, p) = d
  BY CryptTwice
<1> QED
  BY <1>1, <1>2, <1>3, <1>4

(* So does CCM. *)
LEMMA CcmCryptTwice ==
  ASSUME NEW n, NEW d, IsSeq(d)
  PROVE  /\ IsSeq(Seal!CcmCrypt(n, d)) /\ Len(Seal!CcmCrypt(n, d)) = Len(d)
         /\ Seal!CcmCrypt(n, Seal!CcmCrypt(n, d)) = d
<1> DEFINE p(l) == [i \in 1..l |-> <<Seal!CcmCounter(n, (i - 1) \div B + 1), (i - 1) % B>>]
           q == p(Len(d))
           c == Seal!Crypt(d, q)
<1>1. \A x : Seal!CcmCrypt(n, x) = Seal!Crypt(x, p(Len(x)))
  BY DEF Seal!CcmCrypt
<1>5. Seal!CcmCrypt(n, d) = c
  BY <1>1
<1>2. IsSeq(c) /\ Len(c) = Len(d)
  BY CryptFacts
<1>3. Seal!CcmCrypt(n, c) = Seal!Crypt(c, q)
  <2> HIDE DEF c, p
  <2> QED
    BY <1>1, <1>2
<1>4. Seal!Crypt(c, q) = d
  BY CryptTwice
<1> QED
  BY <1>2, <1>3, <1>4, <1>5
-------------------------------------------------------------------------------
(* A counter of CCM tells its nonce, whatever the length of that. *)
LEMMA CcmCounterTellsApart ==
  ASSUME CtrConstants, AeadConstants, NEW n \in Seq(Digit), Len(n) \in NonceLens,
         NEW m \in Seq(Digit), Len(m) \in NonceLens, NEW j \in Nat, NEW k \in Nat,
         Seal!CcmCounter(n, j) = Seal!CcmCounter(m, k)
  PROVE  n = m /\ Seal!BigEndian(j, Seal!Q(n)) = Seal!BigEndian(k, Seal!Q(n))
<1> DEFINE f == Seal!Q(n) - 1
           g == Seal!Q(m) - 1
<1>1. f \in Nat /\ g \in Nat
  BY DEF AeadConstants, CtrConstants, Seal!Q
<1>2. CcmBlock(f, n, j) = CcmBlock(g, m, k)
  BY CcmCounterIsBlock
<1>3. f = Seal!Q(n) - 1 /\ g = Seal!Q(m) - 1
  OBVIOUS
<1> HIDE DEF f, g
<1>4. CcmBlock(f, n, j)[1] = f
  BY <1>1, CcmBlockFacts
<1>5. CcmBlock(g, m, k)[1] = g
  BY <1>1, CcmBlockFacts
<1>6. f = g
  BY <1>2, <1>4, <1>5
<1>7. Len(n) = Len(m)
  <2>1. Len(n) \in Int /\ Len(m) \in Int /\ B \in Int
    BY DEF CtrConstants
  <2> QED
    BY <1>3, <1>6, <2>1 DEF Seal!Q
<1> QED
  BY <1>1, <1>2, <1>7, CcmBlockInjective

(* The blocks of CCM's CBC-MAC and the block that masks them tell nonce,
   associated data, message and length of the tag. *)
LEMMA CcmTellsApart ==
  ASSUME CtrConstants, AeadConstants,
         NEW n \in Seq(Digit), NEW a, IsSeq(a), NEW d, IsSeq(d), NEW t,
         Seal!ParamsOk(n, t), Seal!MacOk(n, a, Len(d)),
         NEW m \in Seq(Digit), NEW e, IsSeq(e), NEW f, IsSeq(f), NEW u,
         Seal!ParamsOk(m, u), Seal!MacOk(m, e, Len(f)),
         Seal!CcmTag(n, a, d, t).of = Seal!CcmTag(m, e, f, u).of
  PROVE  n = m /\ a = e /\ d = f /\ t = u
<1> DEFINE x == Seal!AsBytes(Seal!B0(n, Len(a), Len(d), t))
           y == Seal!AsBytes(Seal!B0(m, Len(e), Len(f), u))
           A == Seal!AadBlocks(a)
           E == Seal!AadBlocks(e)
           D == Seal!PadBlocks(d)
           F == Seal!PadBlocks(f)
           X == (<<x>> \o A) \o D
           Y == (<<y>> \o E) \o F
           q == Seal!Q(n)
<1>1. X = Y /\ Seal!CcmCounter(n, 0) = Seal!CcmCounter(m, 0)
  <2>1. Seal!CcmTag(n, a, d, t).of = <<X, Seal!CcmCounter(n, 0)>>
    BY DEF Seal!CcmTag
  <2>2. Seal!CcmTag(m, e, f, u).of = <<Y, Seal!CcmCounter(m, 0)>>
    BY DEF Seal!CcmTag
  <2> HIDE DEF X, Y
  <2>3. <<X, Seal!CcmCounter(n, 0)>> = <<Y, Seal!CcmCounter(m, 0)>>
    BY <2>1, <2>2
  <2> QED
    BY <2>3
<1>2. /\ Len(n) \in NonceLens /\ Len(m) \in NonceLens /\ t \in GoodTagLens /\ u \in GoodTagLens
      /\ Len(d) < Seal!Power(q) /\ Len(f) < Seal!Power(Seal!Q(m))
      /\ Len(a) <= MaxAad /\ Len(e) <= MaxAad
  BY DEF Seal!ParamsOk, Seal!MacOk, Seal!LengthOk
<1>3. Len(a) \in Nat /\ Len(d) \in Nat /\ Len(e) \in Nat /\ Len(f) \in Nat
  BY IsSeqFacts
<1>4. n = m
  <2>1. 0 \in Nat
    OBVIOUS
  <2> QED
    BY <1>1, <1>2, <2>1, CcmCounterTellsApart
<1>5. IsSeq(D) /\ Len(D) = Seal!Blocks(Len(d))
  BY PadBlocksFacts
<1>6. IsSeq(F) /\ Len(F) = Seal!Blocks(Len(f))
  BY PadBlocksFacts
<1>7. IsSeq(A)
  <2>1. CASE a = <<>>
    BY <2>1, EmptyIsSeq DEF Seal!AadBlocks
  <2>2. CASE a # <<>>
    <3> DEFINE h == Seal!AsBytes(Seal!AadHeader(Len(a)))
    <3>1. IsSeq(h)
      BY <1>3, HeaderTyped, AsBytesFacts
    <3>2. A = Seal!PadBlocks(h \o a)
      BY <2>2 DEF Seal!AadBlocks
    <3> HIDE DEF h, A
    <3>3. IsSeq(h \o a)
      BY <3>1, JoinIsSeq
    <3> QED
      BY <3>2, <3>3, PadBlocksFacts
  <2> QED
    BY <2>1, <2>2
<1>8. IsSeq(E)
  <2>1. CASE e = <<>>
    BY <2>1, EmptyIsSeq DEF Seal!AadBlocks
  <2>2. CASE e # <<>>
    <3> DEFINE h == Seal!AsBytes(Seal!AadHeader(Len(e)))
    <3>1. IsSeq(h)
      BY <1>3, HeaderTyped, AsBytesFacts
    <3>2. E = Seal!PadBlocks(h \o e)
      BY <2>2 DEF Seal!AadBlocks
    <3> HIDE DEF h, E
    <3>3. IsSeq(h \o e)
      BY <3>1, JoinIsSeq
    <3> QED
      BY <3>2, <3>3, PadBlocksFacts
  <2> QED
    BY <2>1, <2>2
<1> HIDE DEF A, E, D, F, x, y, X, Y
<1> DEFINE v == <<x>>
           w == <<y>>
<1>9. IsSeq(v) /\ IsSeq(w) /\ Len(v) = 1 /\ Len(w) = 1 /\ v[1] = x /\ w[1] = y
  BY SinglesAreSeqs
<1>10. X = (v \o A) \o D /\ Y = (w \o E) \o F
  BY DEF X, Y
<1> HIDE DEF v, w
<1>11. IsSeq(v \o A) /\ Len(v \o A) \in Nat /\ (v \o A)[1] = x
  <2>1. /\ IsSeq(v \o A) /\ Len(v \o A) = Len(v) + Len(A)
        /\ \A i \in 1..(Len(v) + Len(A)) : (v \o A)[i] = IF i <= Len(v) THEN v[i] ELSE A[i - Len(v)]
    BY <1>7, <1>9, JoinIsSeq
  <2>2. Len(A) \in Nat
    BY <1>7, IsSeqFacts
  <2>3. 1 \in 1..(Len(v) + Len(A)) /\ 1 <= Len(v)
    BY <1>9, <2>2
  <2>4. (v \o A)[1] = v[1]
    BY <2>1, <2>3
  <2> QED
    BY <1>9, <2>1, <2>2, <2>4
<1>12. IsSeq(w \o E) /\ Len(w \o E) \in Nat /\ (w \o E)[1] = y
  <2>1. /\ IsSeq(w \o E) /\ Len(w \o E) = Len(w) + Len(E)
        /\ \A i \in 1..(Len(w) + Len(E)) : (w \o E)[i] = IF i <= Len(w) THEN w[i] ELSE E[i - Len(w)]
    BY <1>8, <1>9, JoinIsSeq
  <2>2. Len(E) \in Nat
    BY <1>8, IsSeqFacts
  <2>3. 1 \in 1..(Len(w) + Len(E)) /\ 1 <= Len(w)
    BY <1>9, <2>2
  <2>4. (w \o E)[1] = w[1]
    BY <2>1, <2>3
  <2> QED
    BY <1>9, <2>1, <2>2, <2>4
<1>13. X[1] = x
  <2>1. /\ Len(D) \in Nat /\ Len(v) = 1 /\ Len(v \o A) = Len(v) + Len(A) /\ Len(A) \in Nat
    BY <1>5, <1>7, <1>9, IsSeqFacts, JoinIsSeq
  <2> DEFINE s == v \o A
  <2>2. IsSeq(s) /\ s[1] = x /\ 1 \in 1..(Len(s) + Len(D)) /\ 1 <= Len(s)
    BY <1>11, <2>1
  <2> HIDE DEF s
  <2>3. (s \o D)[1] = s[1]
    BY <1>5, <2>2, JoinIsSeq
  <2> QED
    BY <1>10, <2>2, <2>3 DEF s
<1>14. Y[1] = y
  <2>1. /\ Len(F) \in Nat /\ Len(w) = 1 /\ Len(w \o E) = Len(w) + Len(E) /\ Len(E) \in Nat
    BY <1>6, <1>8, <1>9, IsSeqFacts, JoinIsSeq
  <2> DEFINE s == w \o E
  <2>2. IsSeq(s) /\ s[1] = y /\ 1 \in 1..(Len(s) + Len(F)) /\ 1 <= Len(s)
    BY <1>12, <2>1
  <2> HIDE DEF s
  <2>3. (s \o F)[1] = s[1]
    BY <1>6, <2>2, JoinIsSeq
  <2> QED
    BY <1>10, <2>2, <2>3 DEF s
<1>15. x = y
  BY <1>1, <1>13, <1>14
<1> DEFINE g == B0Flags(n, Len(a), t)
           h == B0Flags(m, Len(e), u)
<1>16. g \in Nat /\ h \in Nat /\ (g = h => t = u /\ (Len(a) = 0 <=> Len(e) = 0))
  <2>1. g \in Nat
    BY <1>2, <1>3, FlagsTellApart
  <2>2. h \in Nat
    BY <1>2, <1>3, FlagsTellApart
  <2>3. g = h => t = u /\ (Len(a) = 0 <=> Len(e) = 0)
    BY <1>2, <1>3, <1>4, FlagsTellApart
  <2> QED
    BY <2>1, <2>2, <2>3
<1> HIDE DEF g, h
<1>17. g = h /\ Seal!BigEndian(Len(d), q) = Seal!BigEndian(Len(f), q)
  <2> DEFINE b == CcmBlock(g, n, Len(d))
             c == CcmBlock(h, m, Len(f))
  <2>1. x = Seal!AsBytes(b) /\ y = Seal!AsBytes(c)
    BY B0IsBlock DEF x, y, g, h
  <2>2. b \in Seq(Nat) /\ c \in Seq(Nat)
    BY <1>2, <1>3, <1>16, CcmBlockFacts
  <2>3. b = c
    <3> HIDE DEF b, c
    <3> QED
      BY <1>15, <2>1, <2>2, AsBytesInjective
  <2> HIDE DEF q
  <2> QED
    BY <1>2, <1>3, <1>4, <1>16, <2>3, CcmBlockInjective DEF q
<1>18. t = u /\ (Len(a) = 0 <=> Len(e) = 0)
  BY <1>16, <1>17
<1>19. Len(d) = Len(f)
  <2>1. q \in Nat
    BY <1>2, <1>3, CcmBlockFacts
  <2>2. Len(f) < Seal!Power(q)
    BY <1>2, <1>4
  <2> HIDE DEF q
  <2> QED
    BY <1>2, <1>3, <1>17, <2>1, <2>2, BigEndianInjective
<1>20. v \o A = w \o E /\ D = F
  <2> DEFINE r == v \o A
             s == w \o E
  <2>1. IsSeq(r) /\ IsSeq(s) /\ r \o D = s \o F
    BY <1>1, <1>10, <1>11, <1>12
  <2> HIDE DEF r, s
  <2>2. Len(r) \in Nat /\ Len(s) \in Nat /\ Len(D) \in Nat /\ Len(D) = Len(F)
    BY <1>5, <1>6, <1>19, <2>1, IsSeqFacts
  <2>3. Len(r \o D) = Len(r) + Len(D) /\ Len(s \o F) = Len(s) + Len(F)
    BY <1>5, <1>6, <2>1, JoinIsSeq
  <2>4. Len(r) = Len(s)
    BY <2>1, <2>2, <2>3
  <2>5. r = s /\ D = F
    BY <1>5, <1>6, <2>1, <2>4, JoinCancels
  <2> QED
    BY <2>5 DEF r, s
<1>21. A = E
  BY <1>7, <1>8, <1>9, <1>20, JoinCancels
<1>0. a = e
  BY <1>2, <1>18, <1>21, AadTellsApart DEF A, E
<1>23. d = f
  BY <1>19, <1>20, PadBlocksInjective DEF D, F
<1> QED
  BY <1>4, <1>18, <1>0, <1>23

-------------------------------------------------------------------------------
(* Sender and receiver. *)

Sender(c, n, a, m, b, t, r) ==
  [cipher |-> c, nonce |-> n, aad |-> a, msg |-> m, buf |-> b, tag |-> t, res |-> r]
Receiver(n, a, g, b, t, r, p) ==
  [nonce |-> n, aad |-> a, given |-> g, buf |-> b, tag |-> t, res |-> r, past |-> p]

AeadTyped ==
  /\ st = Receiver(st.nonce, st.aad, st.given, st.buf, st.tag, st.res, st.past)
  /\ IsSeq(st.aad) /\ IsSeq(st.given) /\ IsSeq(st.buf)
  /\ IsSeq(log.aad) /\ IsSeq(log.msg) /\ IsSeq(log.buf)
  /\ Len(st.buf) = Len(st.given) /\ Len(log.buf) = Len(log.msg)
  /\ log.res \in {"none", "ok", "InvalidInput"}
  /\ st.res \in {"idle", "called", "ok", "InvalidInput", "InvalidSignature"}

GcmSent == /\ log.cipher = "gcm" /\ log.nonce \in Seal!GcmNonces
           /\ log.buf = Seal!GcmCrypt(log.nonce, log.msg)
           /\ log.tag = Seal!GcmTag(log.nonce, log.aad, log.buf)

CcmSent == /\ log.cipher = "ccm" /\ log.nonce \in Nonces
           /\ Seal!ParamsOk(log.nonce, log.tag.len)
           /\ Seal!MacOk(log.nonce, log.aad, Len(log.msg))
           /\ log.buf = Seal!CcmCrypt(log.nonce, log.msg)
           /\ log.tag = Seal!CcmTag(log.nonce, log.aad, log.msg, log.tag.len)

AeadSent == log.res = "ok" => log.msg \in Messages /\ (GcmSent \/ CcmSent)

(* Nothing is received before it was sent, and of tags only what was sent or nothing. *)
AeadArrived ==
  /\ log.res # "ok" => st.res = "idle"
  /\ st.res # "idle" => /\ st.nonce \in IF log.cipher = "gcm" THEN Seal!GcmNonces ELSE Nonces
                        /\ st.tag.of \in {log.tag.of, <<>>}
  /\ st.res = "called" => st.given = st.buf

(* The keystream is on the same bytes, if there are as many. *)
SamePads(s, t) == Len(s) = Len(t) => \A i \in 1..Len(t) : Pads(s[i]) = Pads(t[i])

(* A buffer with the keystream of some nonces put on it. *)
Pad(n, i) == <<"ks", <<Seal!CcmCounter(n, (i - 1) \div B + 1), (i - 1) % B>> >>
Spoilt(s, N) == [i \in 1..Len(s) |-> Seal!Xor(s[i], {Pad(n, i) : n \in N})]

GcmPast == /\ st.res # "InvalidInput"
           /\ st.past.spent = {} => st.given = st.past.first
           /\ st.past.spent # {} => Seal!IsZero(st.given)
           /\ st.res = "InvalidSignature" => Seal!IsZero(st.buf)

CcmPast == /\ \A n \in st.past.spent : n \in Nonces /\ Len(n) \in NonceLens
           /\ st.given = Spoilt(st.past.first, st.past.spent)
           /\ Seal!Done => st.buf = Spoilt(st.past.first, Seal!Spent)

(* What the calls before this one have left of what arrived. *)
AeadPast ==
  st.res # "idle" =>
    /\ IsSeq(st.past.first) /\ Len(st.past.first) = Len(st.buf)
    /\ SamePads(st.past.first, log.buf)
    /\ log.cipher = "gcm" => GcmPast
    /\ log.cipher = "ccm" => CcmPast

AeadIInv == AeadTyped /\ AeadSent /\ AeadArrived /\ AeadPast /\ Seal!AcceptsWhatWasSent

(* Nothing was sent and nothing received at first. *)
LEMMA AeadInitial ==
  ASSUME Seal!Init
  PROVE  AeadIInv
<1>1. /\ log.res = "none" /\ log.aad = <<>> /\ log.msg = <<>> /\ log.buf = <<>>
      /\ st.res = "idle" /\ st.aad = <<>> /\ st.given = <<>> /\ st.buf = <<>>
      /\ st = Receiver(st.nonce, st.aad, st.given, st.buf, st.tag, st.res, st.past)
  BY DEF Seal!Init, Receiver
<1>2. AeadTyped /\ AeadSent /\ AeadArrived
  BY <1>1, EmptyIsSeq DEF AeadTyped, AeadSent, AeadArrived
<1>3. AeadPast /\ Seal!AcceptsWhatWasSent
  BY <1>1 DEF AeadPast, Seal!AcceptsWhatWasSent, Seal!Done
<1> QED
  BY <1>2, <1>3 DEF AeadIInv

(* What an encryption leaves, field by field. *)
LEMMA SenderFields ==
  ASSUME NEW c, NEW n, NEW a, NEW m, NEW b, NEW t, NEW r,
         log' = [cipher |-> c, nonce |-> n, aad |-> a, msg |-> m, buf |-> b, tag |-> t,
                 res |-> r]
  PROVE  /\ log'.cipher = c /\ log'.nonce = n /\ log'.aad = a /\ log'.msg = m
         /\ log'.buf = b /\ log'.tag = t /\ log'.res = r
  OBVIOUS

(* A GCM encryption sends what its key, nonce and texts give. *)
LEMMA GcmEncryptStep ==
  ASSUME AeadConstants, AeadIInv, log.res = "none",
         NEW aad \in Aads, NEW msg \in Messages, NEW nonce \in Seal!GcmNonces,
         Seal!GcmEncrypt(nonce, aad, msg)
  PROVE  AeadIInv'
<1> DEFINE ct == Seal!GcmCrypt(nonce, msg)
           tag == Seal!GcmTag(nonce, aad, ct)
<1>1. /\ st' = st
      /\ log' = [cipher |-> "gcm", nonce |-> nonce, aad |-> aad, msg |-> msg,
                 buf |-> ct, tag |-> tag, res |-> "ok"]
  BY DEF Seal!GcmEncrypt
<1>2. IsSeq(aad) /\ IsSeq(msg)
  BY DEF AeadConstants
<1>3. IsSeq(ct) /\ Len(ct) = Len(msg)
  BY <1>2, GcmCryptTwice
<1> HIDE DEF ct, tag
<1>4. /\ log'.cipher = "gcm" /\ log'.nonce = nonce /\ log'.aad = aad /\ log'.msg = msg
      /\ log'.buf = ct /\ log'.tag = tag /\ log'.res = "ok"
  BY <1>1, SenderFields
<1> HIDE <1>1
<1>5. st' = st /\ st.res = "idle"
  BY <1>1 DEF AeadIInv, AeadArrived
<1>6. AeadTyped'
  BY <1>2, <1>3, <1>4, <1>5 DEF AeadIInv, AeadTyped
<1>7. AeadSent'
  BY <1>4 DEF AeadSent, GcmSent, ct, tag
<1>8. AeadArrived' /\ AeadPast' /\ Seal!AcceptsWhatWasSent'
  BY <1>4, <1>5 DEF AeadArrived, AeadPast, Seal!AcceptsWhatWasSent, Seal!Done
<1> QED
  BY <1>6, <1>7, <1>8 DEF AeadIInv

(* A CCM encryption does, or refuses its parameters. *)
LEMMA CcmEncryptStep ==
  ASSUME AeadConstants, AeadIInv, log.res = "none",
         NEW aad \in Aads, NEW msg \in Messages, NEW nonce \in Nonces, NEW t \in TagLens,
         Seal!CcmEncrypt(nonce, aad, msg, t)
  PROVE  AeadIInv'
<1> DEFINE ok == Seal!ParamsOk(nonce, t) /\ Seal!MacOk(nonce, aad, Len(msg))
           ct == IF ok THEN Seal!CcmCrypt(nonce, msg) ELSE msg
           tag == IF ok THEN Seal!CcmTag(nonce, aad, msg, t)
                  ELSE [Seal!Nothing EXCEPT !.len = t]
           res == IF ok THEN "ok" ELSE "InvalidInput"
<1>1. /\ st' = st
      /\ log' = [cipher |-> "ccm", nonce |-> nonce, aad |-> aad, msg |-> msg,
                 buf |-> ct, tag |-> tag, res |-> res]
  BY DEF Seal!CcmEncrypt
<1>2. IsSeq(aad) /\ IsSeq(msg)
  BY DEF AeadConstants
<1>3. IsSeq(ct) /\ Len(ct) = Len(msg)
  BY <1>2, CcmCryptTwice
<1>4. ok => /\ ct = Seal!CcmCrypt(nonce, msg) /\ tag = Seal!CcmTag(nonce, aad, msg, t)
            /\ tag.len = t
  BY DEF Seal!CcmTag
<1>5. res \in {"ok", "InvalidInput"} /\ (res = "ok" => ok)
  OBVIOUS
<1> HIDE DEF ct, tag, res, ok
<1>6. /\ log'.cipher = "ccm" /\ log'.nonce = nonce /\ log'.aad = aad /\ log'.msg = msg
      /\ log'.buf = ct /\ log'.tag = tag /\ log'.res = res
  BY <1>1, SenderFields
<1>7. st' = st /\ st.res = "idle"
  BY <1>1 DEF AeadIInv, AeadArrived
<1> HIDE <1>1
<1>8. AeadTyped'
  BY <1>2, <1>3, <1>5, <1>6, <1>7 DEF AeadIInv, AeadTyped
<1>9. AeadSent'
  BY <1>4, <1>5, <1>6 DEF AeadSent, CcmSent, ok
<1>10. AeadArrived' /\ AeadPast' /\ Seal!AcceptsWhatWasSent'
  BY <1>6, <1>7 DEF AeadArrived, AeadPast, Seal!AcceptsWhatWasSent, Seal!Done
<1> QED
  BY <1>8, <1>9, <1>10 DEF AeadIInv
-------------------------------------------------------------------------------
(* What is on a spoilt buffer, byte by byte. *)
LEMMA SpoiltFacts ==
  ASSUME NEW s, IsSeq(s), NEW N
  PROVE  /\ IsSeq(Spoilt(s, N)) /\ Len(Spoilt(s, N)) = Len(s)
         /\ \A i \in 1..Len(s) : Spoilt(s, N)[i] = Seal!Xor(s[i], {Pad(n, i) : n \in N})
<1> DEFINE t == Spoilt(s, N)
           l == Len(s)
<1>1. t = [i \in 1..l |-> Seal!Xor(s[i], {Pad(n, i) : n \in N})] /\ l \in Nat
  BY IsSeqFacts DEF Spoilt
<1> HIDE DEF t, l
<1>2. t = [i \in 1..l |-> t[i]]
  BY <1>1
<1>3. IsSeq(t) /\ Len(t) = l
  BY <1>1, <1>2, ListIsSeq
<1>4. \A i \in 1..l : t[i] = Seal!Xor(s[i], {Pad(n, i) : n \in N})
  BY <1>1
<1> QED
  BY <1>3, <1>4 DEF t, l

(* No keystream leaves the buffer as it is. *)
LEMMA SpoiltByNone ==
  ASSUME NEW s, IsSeq(s)
  PROVE  Spoilt(s, {}) = s
<1> DEFINE t == Spoilt(s, {})
<1>1. /\ IsSeq(t) /\ Len(t) = Len(s)
      /\ \A i \in 1..Len(s) : t[i] = Seal!Xor(s[i], {Pad(n, i) : n \in {}})
  BY SpoiltFacts
<1> HIDE DEF t
<1>2. \A i \in 1..Len(s) : t[i] = s[i]
  BY <1>1 DEF Seal!Xor
<1>3. t = s
  BY <1>1, <1>2, SameSeq
<1> QED
  BY <1>3 DEF t

(* A byte of CCM's keystream tells its nonce. *)
LEMMA PadTellsNonce ==
  ASSUME CtrConstants, AeadConstants, NEW i \in Nat \ {0},
         NEW m \in Nonces, Len(m) \in NonceLens, NEW n \in Nonces, Len(n) \in NonceLens,
         Pad(m, i) = Pad(n, i)
  PROVE  m = n
<1> DEFINE k == (i - 1) \div B + 1
<1>1. k \in Nat
  <2>1. i - 1 \in Nat /\ B \in Nat \ {0}
    BY DEF CtrConstants
  <2>2. (i - 1) \div B \in Nat
    BY <2>1, NatDivision
  <2> QED
    BY <2>2
<1>2. Seal!CcmCounter(m, k) = Seal!CcmCounter(n, k)
  BY DEF Pad
<1>3. m \in Seq(Digit) /\ n \in Seq(Digit)
  BY DEF AeadConstants
<1> HIDE DEF k
<1> QED
  BY <1>1, <1>2, <1>3, CcmCounterTellsApart

(* The keystream of one more nonce, or of one less. *)
LEMMA SpoiltOnceMore ==
  ASSUME CtrConstants, AeadConstants, NEW s, IsSeq(s),
         NEW N, \A m \in N : m \in Nonces /\ Len(m) \in NonceLens,
         NEW n \in Nonces, Len(n) \in NonceLens
  PROVE  Seal!CcmCrypt(n, Spoilt(s, N)) = Spoilt(s, Seal!Xor(N, {n}))
<1> DEFINE M == Seal!Xor(N, {n})
           t == Spoilt(s, N)
           u == Spoilt(s, M)
           q(i) == <<Seal!CcmCounter(n, (i - 1) \div B + 1), (i - 1) % B>>
           p == [i \in 1..Len(t) |-> q(i)]
           c == Seal!Crypt(t, p)
<1>1. /\ IsSeq(t) /\ Len(t) = Len(s)
      /\ \A i \in 1..Len(s) : t[i] = Seal!Xor(s[i], {Pad(m, i) : m \in N})
  BY SpoiltFacts
<1>2. /\ IsSeq(u) /\ Len(u) = Len(s)
      /\ \A i \in 1..Len(s) : u[i] = Seal!Xor(s[i], {Pad(m, i) : m \in M})
  BY SpoiltFacts
<1>3. Seal!CcmCrypt(n, t) = c
  BY DEF Seal!CcmCrypt
<1> HIDE DEF t, u
<1>4. \A i \in 1..Len(s) : <<"ks", p[i]>> = Pad(n, i)
  <2>1. \A i \in 1..Len(s) : <<"ks", q(i)>> = Pad(n, i)
    BY DEF Pad
  <2> HIDE DEF q
  <2>2. \A i \in 1..Len(s) : p[i] = q(i)
    BY <1>1
  <2> HIDE DEF p
  <2> QED
    BY <2>1, <2>2
<1> HIDE DEF p, q
<1>5. /\ IsSeq(c) /\ Len(c) = Len(s)
      /\ \A i \in 1..Len(s) : c[i] = Seal!Xor(t[i], {<<"ks", p[i]>>})
  <2>1. /\ IsSeq(c) /\ Len(c) = Len(t)
        /\ \A i \in 1..Len(t) : c[i] = Seal!Xor(t[i], {<<"ks", p[i]>>})
    BY <1>1, CryptFacts
  <2> HIDE DEF c
  <2> QED
    BY <1>1, <2>1
<1> HIDE DEF c
<1>6. ASSUME NEW i \in 1..Len(s) PROVE c[i] = u[i]
  <2>1. c[i] = Seal!Xor(Seal!Xor(s[i], {Pad(m, i) : m \in N}), {Pad(n, i)})
    BY <1>1, <1>4, <1>5
  <2>2. u[i] = Seal!Xor(s[i], {Pad(m, i) : m \in M})
    BY <1>2
  <2>3. \A m \in N : Pad(m, i) = Pad(n, i) => m = n
    BY PadTellsNonce
  <2> DEFINE P(m) == Pad(m, i)
  <2>4. {P(m) : m \in M} = Seal!Xor({P(m) : m \in N}, {P(n)})
    <3>1. \A m \in N : P(m) = P(n) => m = n
      BY <2>3
    <3> HIDE DEF P
    <3> QED
      BY <3>1 DEF Seal!Xor
  <2> DEFINE K == {P(m) : m \in N}
  <2>5. c[i] = Seal!Xor(Seal!Xor(s[i], K), {P(n)}) /\ u[i] = Seal!Xor(s[i], Seal!Xor(K, {P(n)}))
    BY <2>1, <2>2, <2>4
  <2> HIDE DEF K, P
  <2> QED
    BY <2>5 DEF Seal!Xor
<1>7. c = u
  BY <1>2, <1>5, <1>6, SameSeq
<1> QED
  BY <1>3, <1>7 DEF t, u

(* A buffer that keystream was put on is another than one that has none of it. *)
LEMMA SpoiltIsOther ==
  ASSUME NEW s, IsSeq(s), NEW t, IsSeq(t), SamePads(s, t), NEW N, N # {}, t = Spoilt(s, N)
  PROVE  Len(t) = 0
<1>1. /\ Len(t) = Len(s)
      /\ \A i \in 1..Len(s) : t[i] = Seal!Xor(s[i], {Pad(n, i) : n \in N})
  BY SpoiltFacts
<1>2. SUFFICES ASSUME Len(t) # 0 PROVE FALSE
  OBVIOUS
<1>3. Len(t) \in Nat /\ 1 \in 1..Len(t)
  BY <1>2, IsSeqFacts
<1> DEFINE K == {Pad(n, 1) : n \in N}
<1>4. t[1] = Seal!Xor(s[1], K) /\ Pads(s[1]) = Pads(t[1])
  BY <1>1, <1>3 DEF SamePads
<1>5. PICK n : n \in N
  OBVIOUS
<1> DEFINE e == Pad(n, 1)
<1>6. e \in K
  BY <1>5
<1>7. e[1] = "ks"
  BY DEF Pad
<1> HIDE DEF K, e
<1>8. e \in t[1] <=> e \notin s[1]
  BY <1>4, <1>6 DEF Seal!Xor
<1>9. (e \in Pads(s[1]) <=> e \in s[1]) /\ (e \in Pads(t[1]) <=> e \in t[1])
  BY <1>7 DEF Pads
<1> QED
  BY <1>4, <1>8, <1>9

(* GCM leaves no byte of a message without keystream. *)
LEMMA GcmPadsMessages ==
  ASSUME AeadConstants, NEW m \in Messages, NEW n,
         Seal!IsZero(Seal!GcmCrypt(n, m))
  PROVE  Seal!GcmCrypt(n, m) = <<>>
<1> DEFINE p == Seal!CtrApply("inc32", Seal!Inc32(Seal!J0(n)), Len(m))
           c == Seal!Crypt(m, p)
<1>1. IsSeq(m)
  BY DEF AeadConstants
<1>2. Seal!GcmCrypt(n, m) = c
  BY DEF Seal!GcmCrypt
<1>3. /\ IsSeq(c) /\ Len(c) = Len(m)
      /\ \A i \in 1..Len(m) : c[i] = Seal!Xor(m[i], {<<"ks", p[i]>>})
  BY <1>1, CryptFacts
<1>4. Seal!IsZero(c)
  BY <1>2
<1> HIDE DEF c, p
<1>5. Len(c) = 0
  <2>1. SUFFICES ASSUME Len(c) # 0 PROVE FALSE
    OBVIOUS
  <2>2. 1 \in 1..Len(c)
    BY <1>3, <2>1, IsSeqFacts
  <2> DEFINE k == <<"ks", p[1]>>
  <2>3. Seal!Xor(m[1], {k}) = {} /\ Pads(m[1]) = {}
    BY <1>3, <1>4, <2>2 DEF Seal!IsZero, AeadConstants
  <2>4. k[1] = "ks"
    OBVIOUS
  <2> HIDE DEF k
  <2> QED
    BY <2>3, <2>4 DEF Seal!Xor, Pads
<1> QED
  BY <1>2, <1>3, <1>5, EmptyIsSeq, SameSeq
-------------------------------------------------------------------------------
Arrival(n, a, b, t) == [nonce |-> n, aad |-> a, buf |-> b, tag |-> t]

GoodArrival(a) ==
  /\ a.nonce \in IF log.cipher = "gcm" THEN Seal!GcmNonces ELSE Nonces
  /\ IsSeq(a.aad) /\ IsSeq(a.buf) /\ a.tag.of \in {log.tag.of, <<>>}
  /\ SamePads(a.buf, log.buf)

(* The tag that was sent, and the nonces there are. *)
LEMMA SentTag ==
  ASSUME AeadIInv, log.res = "ok"
  PROVE  /\ log.tag = [of |-> log.tag.of, len |-> log.tag.len]
         /\ log.nonce \in IF log.cipher = "gcm" THEN Seal!GcmNonces ELSE Nonces
         /\ Seal!GcmNonces \subseteq Nonces
<1>1. Seal!GcmNonces \subseteq Nonces
  BY DEF Seal!GcmNonces
<1>2. CASE GcmSent
  <2> DEFINE x == <<Seal!Ghash(Seal!GhashInput(log.aad, log.buf)), Seal!J0(log.nonce)>>
  <2>1. log.tag = [of |-> x, len |-> B]
    BY <1>2 DEF GcmSent, Seal!GcmTag
  <2> HIDE DEF x
  <2> QED
    BY <1>1, <1>2, <2>1 DEF GcmSent
<1>3. CASE CcmSent
  <2>1. log.tag = Seal!CcmTag(log.nonce, log.aad, log.msg, log.tag.len)
    BY <1>3 DEF CcmSent
  <2>2. \E x, l : log.tag = [of |-> x, len |-> l]
    BY <2>1 DEF Seal!CcmTag
  <2>3. log.tag = [of |-> log.tag.of, len |-> log.tag.len]
    BY <2>2
  <2> QED
    BY <1>1, <1>3, <2>3 DEF CcmSent
<1> QED
  BY <1>2, <1>3 DEF AeadIInv, AeadSent

(* A part of a sequence is one, also the part that is empty. *)
LEMMA AnyPartIsSeq ==
  ASSUME NEW s, IsSeq(s), NEW a \in Nat \ {0}, NEW b \in Nat, b <= Len(s)
  PROVE  IsSeq(SubSeq(s, a, b))
<1>1. PICK S : s \in Seq(S)
  BY DEF IsSeq
<1>2. SubSeq(s, a, b) \in Seq(S)
  BY <1>1
<1> QED
  BY <1>2 DEF IsSeq

(* A sequence changed in a place, or by one more element. *)
LEMMA ChangedIsSeq ==
  ASSUME NEW s, IsSeq(s), NEW i, NEW x
  PROVE  IsSeq([s EXCEPT ![i] = x]) /\ IsSeq(Append(s, x))
<1>1. PICK S : s \in Seq(S)
  BY DEF IsSeq
<1> DEFINE T == S \cup {x}
<1>2. s \in Seq(T) /\ x \in T
  BY <1>1
<1> HIDE DEF T
<1>3. [s EXCEPT ![i] = x] \in Seq(T)
  <2>1. s \in [1..Len(s) -> T] /\ Len(s) \in Nat
    BY <1>2
  <2>2. [s EXCEPT ![i] = x] \in [1..Len(s) -> T]
    BY <1>2, <2>1
  <2> QED
    BY <2>1, <2>2, SequenceOf
<1>4. Append(s, x) \in Seq(T)
  BY <1>2
<1> QED
  BY <1>3, <1>4 DEF IsSeq

(* A byte that is changed keeps the keystream on it. *)
LEMMA FlipKeepsPads ==
  ASSUME NEW s, IsSeq(s), NEW i \in 1..Len(s)
  PROVE  SamePads(Seal!Flip(s, i), s)
<1> DEFINE x == Seal!Xor(s[i], Seal!Num(1))
           t == [s EXCEPT ![i] = x]
<1>1. Seal!Flip(s, i) = t
  BY DEF Seal!Flip
<1>2. Pads(x) = Pads(s[i])
  <2>1. Seal!Num(1) = {<<"num", 1>>}
    BY DEF Seal!Num
  <2>2. <<"num", 1>>[1] # "ks"
    OBVIOUS
  <2> DEFINE o == <<"num", 1>>
  <2>3. o[1] # "ks" /\ x = Seal!Xor(s[i], {o})
    BY <2>1, <2>2
  <2> HIDE DEF o, x
  <2> QED
    BY <2>3 DEF Pads, Seal!Xor
<1>3. DOMAIN s = 1..Len(s)
  BY IsSeqFacts
<1> HIDE DEF x
<1>4. \A j \in 1..Len(s) : t[j] = IF j = i THEN x ELSE s[j]
  BY <1>3
<1> HIDE DEF t
<1>5. \A j \in 1..Len(s) : Pads(t[j]) = Pads(s[j])
  BY <1>2, <1>4
<1> QED
  BY <1>1, <1>5 DEF SamePads

(* A part from the front is as long only if it is all. *)
LEMMA HeadKeepsPads ==
  ASSUME NEW s, IsSeq(s), NEW n \in 0..Len(s)
  PROVE  SamePads(SubSeq(s, 1, n), s)
<1>1. PICK S : s \in Seq(S)
  BY DEF IsSeq
<1>2. n \in Nat /\ Len(s) \in Nat /\ Len(SubSeq(s, 1, n)) = n
  BY <1>1
<1>3. n = Len(s) => SubSeq(s, 1, n) = s
  BY <1>1
<1> QED
  BY <1>2, <1>3 DEF SamePads

(* So is a part up to the end. *)
LEMMA TailKeepsPads ==
  ASSUME NEW s, IsSeq(s), NEW n \in 0..Len(s)
  PROVE  SamePads(Seal!From(s, n + 1), s)
<1>1. PICK S : s \in Seq(S)
  BY DEF IsSeq
<1>2. n \in Nat /\ Len(s) \in Nat /\ Len(SubSeq(s, n + 1, Len(s))) = Len(s) - n
  BY <1>1
<1>3. n = 0 => SubSeq(s, n + 1, Len(s)) = s
  BY <1>1
<1> QED
  BY <1>2, <1>3 DEF SamePads, Seal!From

(* A part that starts in a sequence is not empty. *)
LEMMA LongTail ==
  ASSUME NEW s, IsSeq(s), NEW n \in 1..Len(s)
  PROVE  Len(Seal!From(s, n)) \in Nat \ {0}
<1>1. PICK S : s \in Seq(S)
  BY DEF IsSeq
<1>2. n \in Nat /\ Len(s) \in Nat /\ Len(SubSeq(s, n, Len(s))) = Len(s) - n + 1
  BY <1>1
<1> QED
  BY <1>2 DEF Seal!From

(* Whatever arrives, its tag is the one that was sent, or none, and no keystream
   was put on its bytes or taken from them. *)
LEMMA ArrivalIsGood ==
  ASSUME AeadConstants, AeadIInv, log.res = "ok", NEW a \in Seal!Arrivals
  PROVE  GoodArrival(a)
<1> DEFINE sent == [nonce |-> log.nonce, aad |-> log.aad, buf |-> log.buf, tag |-> log.tag]
           N == IF log.cipher = "gcm" THEN Seal!GcmNonces ELSE Nonces
<1>1. /\ log.tag = [of |-> log.tag.of, len |-> log.tag.len] /\ log.nonce \in N
  BY SentTag
<1>2. IsSeq(log.aad) /\ IsSeq(log.buf)
  BY DEF AeadIInv, AeadTyped
<1>3. /\ sent.nonce = log.nonce /\ sent.aad = log.aad /\ sent.buf = log.buf
      /\ sent.tag = log.tag /\ DOMAIN sent = {"nonce", "aad", "buf", "tag"}
  OBVIOUS
<1> HIDE DEF sent, N
<1>0. SamePads(log.buf, log.buf)
  BY DEF SamePads
<1>4. GoodArrival(sent)
  BY <1>1, <1>2, <1>3, <1>0 DEF GoodArrival, N
<1>5. ASSUME NEW n \in N PROVE GoodArrival([sent EXCEPT !.nonce = n])
  BY <1>1, <1>2, <1>3, <1>0 DEF GoodArrival, N
<1>6. ASSUME NEW x, IsSeq(x) PROVE GoodArrival([sent EXCEPT !.aad = x])
  BY <1>1, <1>2, <1>3, <1>6, <1>0 DEF GoodArrival, N
<1>7. ASSUME NEW x, IsSeq(x), SamePads(x, log.buf) PROVE GoodArrival([sent EXCEPT !.buf = x])
  BY <1>1, <1>2, <1>3, <1>7 DEF GoodArrival, N
<1>8. ASSUME NEW x, IsSeq(x), NEW y, IsSeq(y), SamePads(y, log.buf)
      PROVE  /\ GoodArrival([sent EXCEPT !.aad = x, !.buf = y])
             /\ GoodArrival([sent EXCEPT !.buf = y, !.aad = x])
  BY <1>1, <1>2, <1>3, <1>8 DEF GoodArrival, N
<1>9. ASSUME NEW x, x.of \in {log.tag.of, <<>>}
      PROVE  GoodArrival([sent EXCEPT !.tag = x])
  BY <1>1, <1>2, <1>3, <1>9, <1>0 DEF GoodArrival, N
<1>10. Len(log.buf) \in Nat /\ Len(log.aad) \in Nat
  BY <1>2, IsSeqFacts
<1>11. CASE a = sent
  BY <1>4, <1>11
<1>12. CASE a = [sent EXCEPT !.tag.of = <<>>]
  <2> DEFINE x == [log.tag EXCEPT !.of = <<>>]
  <2>1. x.of = <<>>
    BY <1>1
  <2>2. a = [sent EXCEPT !.tag = x]
    BY <1>3, <1>12
  <2> HIDE DEF x
  <2> QED
    BY <1>9, <2>1, <2>2
<1>13. CASE a = [sent EXCEPT !.buf = Append(@, {})]
  <2>1. IsSeq(Append(log.buf, {}))
    BY <1>2, ChangedIsSeq
  <2>2. SamePads(Append(log.buf, {}), log.buf)
    <3>1. Len(Append(log.buf, {})) = Len(log.buf) + 1
      BY <1>2 DEF IsSeq
    <3> QED
      BY <1>10, <3>1 DEF SamePads
  <2> QED
    BY <1>3, <1>7, <1>13, <2>1, <2>2
<1>14. CASE a = [sent EXCEPT !.aad = Append(@, {})]
  <2>1. IsSeq(Append(log.aad, {}))
    BY <1>2, ChangedIsSeq
  <2> QED
    BY <1>3, <1>6, <1>14, <2>1
<1>15. CASE \E n \in N : a = [sent EXCEPT !.nonce = n]
  BY <1>5, <1>15
<1>16. CASE \E x \in Aads : a = [sent EXCEPT !.aad = x]
  BY <1>6, <1>16 DEF AeadConstants
<1>17. CASE \E t : a = [sent EXCEPT !.tag.len = t]
  <2>1. PICK t : a = [sent EXCEPT !.tag.len = t]
    BY <1>17
  <2> DEFINE x == [log.tag EXCEPT !.len = t]
  <2>2. x.of = log.tag.of
    BY <1>1
  <2>3. a = [sent EXCEPT !.tag = x]
    BY <1>3, <2>1
  <2> HIDE DEF x
  <2> QED
    BY <1>9, <2>2, <2>3
<1>18. CASE \E i \in 1..Len(log.buf) : a = [sent EXCEPT !.buf = Seal!Flip(@, i)]
  <2>1. PICK i \in 1..Len(log.buf) : a = [sent EXCEPT !.buf = Seal!Flip(@, i)]
    BY <1>18
  <2>2. IsSeq(Seal!Flip(log.buf, i))
    BY <1>2, ChangedIsSeq DEF Seal!Flip
  <2>3. SamePads(Seal!Flip(log.buf, i), log.buf)
    BY <1>2, FlipKeepsPads
  <2> QED
    BY <1>3, <1>7, <2>1, <2>2, <2>3
<1>19. CASE \E n \in 0..Len(log.buf) : a = [sent EXCEPT !.buf = SubSeq(@, 1, n)]
  <2>1. PICK n \in 0..Len(log.buf) : a = [sent EXCEPT !.buf = SubSeq(@, 1, n)]
    BY <1>19
  <2>2. IsSeq(SubSeq(log.buf, 1, n))
    <3>1. 1 \in Nat \ {0} /\ n \in Nat /\ n <= Len(log.buf)
      BY <1>10
    <3> QED
      BY <1>2, <3>1, AnyPartIsSeq
  <2>3. SamePads(SubSeq(log.buf, 1, n), log.buf)
    BY <1>2, HeadKeepsPads
  <2> QED
    BY <1>3, <1>7, <2>1, <2>2, <2>3
<1>20. CASE \E n \in 0..Len(log.buf) :
              a = [sent EXCEPT !.aad = @ \o SubSeq(log.buf, 1, n), !.buf = Seal!From(@, n + 1)]
  <2>1. PICK n \in 0..Len(log.buf) :
               a = [sent EXCEPT !.aad = @ \o SubSeq(log.buf, 1, n), !.buf = Seal!From(@, n + 1)]
    BY <1>20
  <2>2. /\ 1 \in Nat \ {0} /\ n \in Nat /\ n <= Len(log.buf) /\ n + 1 \in Nat \ {0}
        /\ Len(log.buf) <= Len(log.buf)
    BY <1>10
  <2>3. IsSeq(SubSeq(log.buf, 1, n))
    BY <1>2, <2>2, AnyPartIsSeq
  <2>4. IsSeq(Seal!From(log.buf, n + 1))
    BY <1>2, <1>10, <2>2, AnyPartIsSeq DEF Seal!From
  <2> DEFINE s == SubSeq(log.buf, 1, n)
             x == log.aad \o s
             y == Seal!From(log.buf, n + 1)
  <2>5. a = [sent EXCEPT !.aad = x, !.buf = y]
    BY <1>3, <2>1
  <2>6. IsSeq(x)
    <3>1. IsSeq(s)
      BY <2>3
    <3> HIDE DEF s
    <3> QED
      BY <1>2, <3>1, JoinIsSeq
  <2> HIDE DEF x, y
  <2>7. IsSeq(y) /\ SamePads(y, log.buf)
    BY <1>2, <2>4, TailKeepsPads DEF y
  <2> QED
    BY <1>8, <2>5, <2>6, <2>7
<1>21. CASE \E n \in 1..Len(log.aad) :
              a = [sent EXCEPT !.buf = Seal!From(log.aad, n) \o @, !.aad = SubSeq(@, 1, n - 1)]
  <2>1. PICK n \in 1..Len(log.aad) :
               a = [sent EXCEPT !.buf = Seal!From(log.aad, n) \o @, !.aad = SubSeq(@, 1, n - 1)]
    BY <1>21
  <2>2. /\ 1 \in Nat \ {0} /\ n - 1 \in Nat /\ n - 1 <= Len(log.aad) /\ n \in Nat \ {0}
        /\ Len(log.aad) <= Len(log.aad)
    BY <1>10
  <2>3. IsSeq(SubSeq(log.aad, 1, n - 1))
    BY <1>2, <2>2, AnyPartIsSeq
  <2>4. IsSeq(Seal!From(log.aad, n))
    BY <1>2, <1>10, <2>2, AnyPartIsSeq DEF Seal!From
  <2> DEFINE s == Seal!From(log.aad, n)
             x == SubSeq(log.aad, 1, n - 1)
             y == s \o log.buf
  <2>5. a = [sent EXCEPT !.buf = y, !.aad = x]
    BY <1>3, <2>1
  <2>6. IsSeq(y) /\ SamePads(y, log.buf)
    <3>1. IsSeq(s) /\ Len(s) \in Nat \ {0}
      BY <1>2, <2>4, LongTail
    <3> HIDE DEF s
    <3>2. IsSeq(y) /\ Len(y) = Len(s) + Len(log.buf)
      BY <1>2, <3>1, JoinIsSeq
    <3> QED
      BY <1>10, <3>1, <3>2 DEF SamePads
  <2> HIDE DEF x, y
  <2>7. IsSeq(x)
    BY <2>3 DEF x
  <2> QED
    BY <1>8, <2>5, <2>6, <2>7
<1> QED
  <2> USE DEF sent, N
  <2>1. \/ a = sent
        \/ a = [sent EXCEPT !.tag.of = <<>>]
        \/ a = [sent EXCEPT !.buf = Append(@, {})]
        \/ a = [sent EXCEPT !.aad = Append(@, {})]
        \/ \E n \in N : a = [sent EXCEPT !.nonce = n]
        \/ \E x \in Aads : a = [sent EXCEPT !.aad = x]
        \/ \E t : a = [sent EXCEPT !.tag.len = t]
        \/ \E i \in 1..Len(log.buf) : a = [sent EXCEPT !.buf = Seal!Flip(@, i)]
        \/ \E n \in 0..Len(log.buf) : a = [sent EXCEPT !.buf = SubSeq(@, 1, n)]
        \/ \E n \in 0..Len(log.buf) :
              a = [sent EXCEPT !.aad = @ \o SubSeq(log.buf, 1, n), !.buf = Seal!From(@, n + 1)]
        \/ \E n \in 1..Len(log.aad) :
              a = [sent EXCEPT !.buf = Seal!From(log.aad, n) \o @, !.aad = SubSeq(@, 1, n - 1)]
    BY Zenon DEF Seal!Arrivals
  <2> HIDE DEF sent, N
  <2> QED
    BY <1>11, <1>12, <1>13, <1>14, <1>15, <1>16, <1>17, <1>18, <1>19, <1>20, <1>21, <2>1

(* What a call of the receiver holds, field by field. *)
LEMMA ReceiverFields ==
  ASSUME NEW n, NEW a, NEW g, NEW b, NEW t, NEW r, NEW p,
         st' = Receiver(n, a, g, b, t, r, p)
  PROVE  /\ st'.nonce = n /\ st'.aad = a /\ st'.given = g /\ st'.buf = b
         /\ st'.tag = t /\ st'.res = r /\ st'.past = p
         /\ st' = Receiver(st'.nonce, st'.aad, st'.given, st'.buf, st'.tag, st'.res, st'.past)
  BY DEF Receiver

(* What is known of the calls before. *)
LEMMA PastFields ==
  ASSUME NEW f, NEW u, NEW c, NEW p, p = [first |-> f, spent |-> u, calls |-> c]
  PROVE  p.first = f /\ p.spent = u /\ p.calls = c
  OBVIOUS

(* An arrival fills the call of the receiver. *)
LEMMA ArriveStep ==
  ASSUME AeadConstants, AeadIInv, Seal!Arrive
  PROVE  AeadIInv'
<1>1. log.res = "ok" /\ st.res = "idle" /\ log' = log
  BY DEF Seal!Arrive
<1>2. PICK a \in Seal!Arrivals :
        st' = Receiver(a.nonce, a.aad, a.buf, a.buf, a.tag, "called",
                       [first |-> a.buf, spent |-> {}, calls |-> 1])
  BY DEF Seal!Arrive, Receiver
<1>3. GoodArrival(a)
  BY <1>1, ArrivalIsGood
<1> DEFINE p == [first |-> a.buf, spent |-> {}, calls |-> 1]
<1>4. /\ st'.nonce = a.nonce /\ st'.aad = a.aad /\ st'.given = a.buf /\ st'.buf = a.buf
      /\ st'.tag = a.tag /\ st'.res = "called" /\ st'.past = p
      /\ st' = Receiver(st'.nonce, st'.aad, st'.given, st'.buf, st'.tag, st'.res, st'.past)
  BY <1>2, ReceiverFields
<1>5. p.first = a.buf /\ p.spent = {}
  BY PastFields
<1> HIDE <1>2 DEF p
<1>6. AeadTyped'
  BY <1>1, <1>3, <1>4 DEF AeadIInv, AeadTyped, GoodArrival
<1>7. AeadSent'
  BY <1>1 DEF AeadIInv, AeadSent, GcmSent, CcmSent
<1>8. AeadArrived'
  BY <1>1, <1>3, <1>4 DEF AeadArrived, GoodArrival
<1>9. GcmPast' /\ CcmPast'
  <2>1. IsSeq(a.buf)
    BY <1>3 DEF GoodArrival
  <2> QED
    BY <1>4, <1>5, <2>1, SpoiltByNone DEF GcmPast, CcmPast, Seal!Done
<1>10. AeadPast'
  BY <1>1, <1>3, <1>4, <1>5, <1>9 DEF AeadPast, GoodArrival
<1>11. Seal!AcceptsWhatWasSent'
  BY <1>4 DEF Seal!AcceptsWhatWasSent, Seal!Done
<1> QED
  BY <1>6, <1>7, <1>8, <1>10, <1>11 DEF AeadIInv

(* Another call on the same buffer continues what is known of those before. *)
LEMMA RetryStep ==
  ASSUME AeadConstants, AeadIInv, Seal!Retry
  PROVE  AeadIInv'
<1>1. st.res \in {"InvalidInput", "InvalidSignature"} /\ log' = log
  BY DEF Seal!Retry
<1>2. PICK a \in {st, log} :
        st' = Receiver(a.nonce, a.aad, st.buf, st.buf, a.tag, "called",
                       [first |-> st.past.first, spent |-> Seal!Spent,
                        calls |-> st.past.calls + 1])
  BY DEF Seal!Retry, Receiver
<1> DEFINE p == [first |-> st.past.first, spent |-> Seal!Spent, calls |-> st.past.calls + 1]
<1>3. /\ st'.nonce = a.nonce /\ st'.aad = a.aad /\ st'.given = st.buf /\ st'.buf = st.buf
      /\ st'.tag = a.tag /\ st'.res = "called" /\ st'.past = p
      /\ st' = Receiver(st'.nonce, st'.aad, st'.given, st'.buf, st'.tag, st'.res, st'.past)
  BY <1>2, ReceiverFields
<1>4. p.first = st.past.first /\ p.spent = Seal!Spent
  BY PastFields
<1> HIDE <1>2 DEF p
<1>5. log.res = "ok" /\ AeadPast
  BY <1>1 DEF AeadIInv, AeadArrived
<1>6. /\ a.nonce \in IF log.cipher = "gcm" THEN Seal!GcmNonces ELSE Nonces
      /\ a.tag.of \in {log.tag.of, <<>>} /\ IsSeq(a.aad) /\ IsSeq(st.buf)
  <2>1. CASE a = st
    BY <1>1, <2>1 DEF AeadIInv, AeadTyped, AeadArrived
  <2>2. CASE a = log
    BY <1>5, <2>2, SentTag DEF AeadIInv, AeadTyped
  <2> QED
    BY <2>1, <2>2
<1>7. AeadTyped'
  BY <1>1, <1>3, <1>6 DEF AeadIInv, AeadTyped
<1>8. AeadSent'
  BY <1>1 DEF AeadIInv, AeadSent, GcmSent, CcmSent
<1>9. AeadArrived'
  BY <1>1, <1>3, <1>5, <1>6 DEF AeadArrived
<1>10. log.cipher = "gcm" => GcmPast'
  <2> SUFFICES ASSUME log.cipher = "gcm" PROVE GcmPast'
    OBVIOUS
  <2>1. st.res = "InvalidSignature" /\ Seal!IsZero(st.buf)
    BY <1>1, <1>5 DEF AeadPast, GcmPast
  <2>2. Seal!Spent # {}
    BY DEF Seal!Spent
  <2> QED
    BY <1>3, <1>4, <2>1, <2>2 DEF GcmPast
<1>11. log.cipher = "ccm" => CcmPast'
  <2> SUFFICES ASSUME log.cipher = "ccm" PROVE CcmPast'
    OBVIOUS
  <2>1. CcmPast /\ st.buf = Spoilt(st.past.first, Seal!Spent)
    BY <1>1, <1>5 DEF AeadPast, CcmPast, Seal!Done
  <2>2. \A n \in Seal!Spent : n \in Nonces /\ Len(n) \in NonceLens
    <3>1. st.nonce \in Nonces
      BY <1>1 DEF AeadIInv, AeadArrived
    <3> QED
      BY <2>1, <3>1 DEF CcmPast, Seal!Spent, Seal!ParamsOk, Seal!Xor
  <2>3. st'.past.spent = Seal!Spent /\ st'.past.first = st.past.first
    BY <1>3, <1>4
  <2>4. ~ Seal!Done'
    BY <1>3 DEF Seal!Done
  <2> QED
    BY <1>3, <2>1, <2>2, <2>3, <2>4 DEF CcmPast
<1>12. AeadPast'
  BY <1>1, <1>3, <1>4, <1>5, <1>10, <1>11 DEF AeadPast
<1>13. Seal!AcceptsWhatWasSent'
  BY <1>3 DEF Seal!AcceptsWhatWasSent, Seal!Done
<1> QED
  BY <1>7, <1>8, <1>9, <1>12, <1>13 DEF AeadIInv

(* What a decryption leaves of the call: the buffer and the result. *)
LEMMA Returned ==
  ASSUME CtrConstants, AeadConstants,
         AeadIInv, st.res = "called", log' = log, NEW b, IsSeq(b), Len(b) = Len(st.buf),
         NEW r \in {"ok", "InvalidInput", "InvalidSignature"},
         st' = Receiver(st.nonce, st.aad, st.given, b, st.tag, r, st.past),
         r = "ok" <=> (/\ st.nonce = log.nonce /\ st.aad = log.aad
                       /\ st.buf = log.buf /\ st.tag = log.tag),
         r = "ok" => b = log.msg,
         log.cipher = "gcm" => r # "InvalidInput" /\ (r = "InvalidSignature" => Seal!IsZero(b)),
         log.cipher = "ccm" => b = IF Seal!ParamsOk(st.nonce, st.tag.len)
                                   THEN Seal!CcmCrypt(st.nonce, st.buf) ELSE st.buf
  PROVE  AeadIInv'
<1>1. /\ st'.nonce = st.nonce /\ st'.aad = st.aad /\ st'.given = st.given /\ st'.buf = b
      /\ st'.tag = st.tag /\ st'.res = r /\ st'.past = st.past
      /\ st' = Receiver(st'.nonce, st'.aad, st'.given, st'.buf, st'.tag, st'.res, st'.past)
  BY ReceiverFields
<1>2. st.given = st.buf /\ st.nonce \in IF log.cipher = "gcm" THEN Seal!GcmNonces ELSE Nonces
  BY DEF AeadIInv, AeadArrived
<1>3. AeadTyped'
  BY <1>1 DEF AeadIInv, AeadTyped
<1>4. AeadSent'
  BY DEF AeadIInv, AeadSent, GcmSent, CcmSent
<1>5. AeadArrived'
  BY <1>1 DEF AeadIInv, AeadArrived
<1>6. Seal!Unchanged' <=> r = "ok"
  BY <1>1, <1>2 DEF Seal!Unchanged
<1>7. Seal!AcceptsWhatWasSent'
  BY <1>1, <1>6 DEF Seal!AcceptsWhatWasSent
<1>8. AeadPast
  BY DEF AeadIInv
<1>9. log.cipher = "gcm" => GcmPast'
  BY <1>1, <1>8 DEF AeadPast, GcmPast
<1>10. log.cipher = "ccm" => CcmPast'
  <2> SUFFICES ASSUME log.cipher = "ccm" PROVE CcmPast'
    OBVIOUS
  <2> DEFINE f == st.past.first
             N == st.past.spent
             n == st.nonce
             ok == Seal!ParamsOk(n, st.tag.len)
  <2>1. /\ \A m \in N : m \in Nonces /\ Len(m) \in NonceLens
        /\ st.buf = Spoilt(f, N) /\ IsSeq(f) /\ n \in Nonces
    BY <1>2, <1>8 DEF AeadPast, CcmPast
  <2>2. Seal!Spent' = IF ok THEN Seal!Xor(N, {n}) ELSE N
    BY <1>1 DEF Seal!Spent
  <2>3. ok => Len(n) \in NonceLens
    BY DEF Seal!ParamsOk
  <2> HIDE DEF f, N, n
  <2>4. b = Spoilt(f, IF ok THEN Seal!Xor(N, {n}) ELSE N)
    <3>1. CASE ok
      <4>1. b = Seal!CcmCrypt(n, Spoilt(f, N))
        BY <2>1, <3>1 DEF n
      <4>2. Seal!CcmCrypt(n, Spoilt(f, N)) = Spoilt(f, Seal!Xor(N, {n}))
        BY <2>1, <2>3, <3>1, SpoiltOnceMore
      <4> QED
        BY <3>1, <4>1, <4>2
    <3>2. CASE ~ ok
      BY <2>1, <3>2 DEF n
    <3> QED
      BY <3>1, <3>2
  <2>5. st'.past.first = f /\ st'.past.spent = N /\ st'.given = Spoilt(f, N)
    BY <1>1, <1>2, <2>1 DEF f, N
  <2>6. st'.buf = Spoilt(st'.past.first, Seal!Spent')
    BY <1>1, <2>2, <2>4, <2>5
  <2> QED
    BY <2>1, <2>5, <2>6 DEF CcmPast
<1>11. AeadPast'
  BY <1>1, <1>8, <1>9, <1>10 DEF AeadPast
<1> QED
  BY <1>3, <1>4, <1>5, <1>7, <1>11 DEF AeadIInv

(* A buffer that was erased. *)
LEMMA ZerosFacts ==
  ASSUME NEW n \in Nat
  PROVE  IsSeq(Seal!Zeros(n)) /\ Len(Seal!Zeros(n)) = n /\ Seal!IsZero(Seal!Zeros(n))
<1> DEFINE z == Seal!Zeros(n)
<1>1. z = [i \in 1..n |-> {}]
  BY DEF Seal!Zeros
<1> HIDE DEF z
<1>2. z = [i \in 1..n |-> z[i]]
  BY <1>1
<1>3. IsSeq(z) /\ Len(z) = n
  BY <1>2, ListIsSeq
<1>4. Seal!IsZero(z)
  BY <1>1, <1>3 DEF Seal!IsZero
<1> QED
  BY <1>3, <1>4 DEF z

(* A GCM decryption tells what was sent from everything else, before it decrypts. *)
LEMMA GcmDecryptStep ==
  ASSUME CtrConstants, AeadConstants, AeadIInv, Seal!GcmDecrypt
  PROVE  AeadIInv'
<1> DEFINE good == Seal!GcmTag(st.nonce, st.aad, st.buf) = st.tag
           plain == Seal!GcmCrypt(st.nonce, st.buf)
           zeros == Seal!Zeros(Len(st.buf))
           b == IF good THEN plain ELSE zeros
           r == IF good THEN "ok" ELSE "InvalidSignature"
<1>1. /\ st.res = "called" /\ log.cipher = "gcm" /\ log' = log
      /\ st' = IF good THEN [st EXCEPT !.buf = plain, !.res = "ok"]
               ELSE [st EXCEPT !.buf = zeros, !.res = "InvalidSignature"]
  BY DEF Seal!GcmDecrypt
<1>2. /\ st = Receiver(st.nonce, st.aad, st.given, st.buf, st.tag, st.res, st.past)
      /\ IsSeq(st.aad) /\ IsSeq(st.buf) /\ IsSeq(log.aad) /\ IsSeq(log.msg) /\ IsSeq(log.buf)
      /\ log.res = "ok" /\ st.nonce \in Seal!GcmNonces /\ st.tag.of \in {log.tag.of, <<>>}
      /\ GcmSent
  BY <1>1 DEF AeadIInv, AeadTyped, AeadArrived, AeadSent, CcmSent
<1>3. IsSeq(plain) /\ Len(plain) = Len(st.buf) /\ Len(st.buf) \in Nat
  BY <1>2, GcmCryptTwice, IsSeqFacts
<1>4. IsSeq(zeros) /\ Len(zeros) = Len(st.buf) /\ Seal!IsZero(zeros)
  BY <1>3, ZerosFacts
<1>5. good <=> (/\ st.nonce = log.nonce /\ st.aad = log.aad
                /\ st.buf = log.buf /\ st.tag = log.tag)
  <2>1. ASSUME good
        PROVE  st.nonce = log.nonce /\ st.aad = log.aad /\ st.buf = log.buf /\ st.tag = log.tag
    <3> DEFINE x == Seal!Ghash(Seal!GhashInput(st.aad, st.buf))
               y == Seal!Ghash(Seal!GhashInput(log.aad, log.buf))
               i == Seal!J0(st.nonce)
               j == Seal!J0(log.nonce)
    <3>1. st.tag = [of |-> <<x, i>>, len |-> B] /\ log.tag = [of |-> <<y, j>>, len |-> B]
      BY <1>2, <2>1 DEF GcmSent, Seal!GcmTag
    <3> HIDE DEF x, y, i, j
    <3>2. x = y /\ i = j
      <4>1. st.tag.of = <<x, i>> /\ log.tag.of = <<y, j>> /\ <<x, i>> # <<>>
        BY <3>1
      <4>2. <<x, i>> = <<y, j>>
        BY <1>2, <4>1
      <4> QED
        BY <4>2
    <3>3. st.aad = log.aad /\ st.buf = log.buf
      BY <1>2, <3>2, GhashTellsApart DEF x, y
    <3>4. st.nonce = log.nonce
      BY <1>2, <3>2, J0Facts DEF GcmSent, i, j
    <3> QED
      BY <3>1, <3>2, <3>3, <3>4
  <2>2. ASSUME st.nonce = log.nonce /\ st.aad = log.aad /\ st.buf = log.buf /\ st.tag = log.tag
        PROVE  good
    BY <1>2, <2>2 DEF GcmSent
  <2> QED
    BY <2>1, <2>2
<1>6. good => plain = log.msg
  <2>1. good => plain = Seal!GcmCrypt(log.nonce, log.buf)
    BY <1>5
  <2>2. log.buf = Seal!GcmCrypt(log.nonce, log.msg)
    BY <1>2 DEF GcmSent
  <2>3. Seal!GcmCrypt(log.nonce, Seal!GcmCrypt(log.nonce, log.msg)) = log.msg
    BY <1>2, GcmCryptTwice
  <2> QED
    BY <2>1, <2>2, <2>3
<1> HIDE DEF good, plain, zeros
<1>7. st' = Receiver(st.nonce, st.aad, st.given, b, st.tag, r, st.past)
  <2> DEFINE n == st.nonce
             a == st.aad
             g == st.given
             u == st.buf
             t == st.tag
             o == st.res
             p == st.past
  <2>1. st = Receiver(n, a, g, u, t, o, p)
    BY <1>2
  <2>2. st' = [st EXCEPT !.buf = b, !.res = r]
    BY <1>1
  <2> HIDE DEF n, a, g, u, t, o, p, b, r
  <2>3. [Receiver(n, a, g, u, t, o, p) EXCEPT !.buf = b, !.res = r] = Receiver(n, a, g, b, t, r, p)
    <3> DEFINE f == Receiver(n, a, g, u, t, o, p)
               h == [f EXCEPT !.buf = b, !.res = r]
    <3>1. h = [[f EXCEPT !.buf = b] EXCEPT !.res = r]
      OBVIOUS
    <3>2. [f EXCEPT !.buf = b] = Receiver(n, a, g, b, t, o, p)
      BY DEF Receiver
    <3>3. [Receiver(n, a, g, b, t, o, p) EXCEPT !.res = r] = Receiver(n, a, g, b, t, r, p)
      BY DEF Receiver
    <3> HIDE DEF h, f
    <3>4. h = Receiver(n, a, g, b, t, r, p)
      BY <3>1, <3>2, <3>3 DEF f
    <3> QED
      BY <3>4 DEF h, f
  <2>4. st' = Receiver(n, a, g, b, t, r, p)
    BY <2>1, <2>2, <2>3
  <2> QED
    BY <2>4 DEF n, a, g, t, p
<1>8. /\ IsSeq(b) /\ Len(b) = Len(st.buf)
      /\ r \in {"ok", "InvalidInput", "InvalidSignature"} /\ (r = "ok" <=> good)
      /\ (r = "ok" => b = log.msg) /\ (r = "InvalidSignature" => Seal!IsZero(b))
  BY <1>3, <1>4, <1>6
<1>9. r # "InvalidInput" /\ log.cipher # "ccm"
  BY <1>1
<1> HIDE DEF b, r
<1> QED
  BY <1>1, <1>5, <1>7, <1>8, <1>9, Returned

(* A CCM decryption does, after it has decrypted. *)
LEMMA CcmDecryptStep ==
  ASSUME CtrConstants, AeadConstants, AeadIInv, Seal!CcmDecrypt
  PROVE  AeadIInv'
<1> DEFINE t == st.tag.len
           plain == Seal!CcmCrypt(st.nonce, st.buf)
           params == Seal!ParamsOk(st.nonce, t)
           mac == Seal!MacOk(st.nonce, st.aad, Len(st.buf))
           tagOk == Seal!CcmTag(st.nonce, st.aad, plain, t) = st.tag
           good == params /\ mac /\ tagOk
           b == IF params THEN plain ELSE st.buf
           r == IF good THEN "ok" ELSE IF params /\ mac THEN "InvalidSignature" ELSE "InvalidInput"
<1>1. /\ st.res = "called" /\ log.cipher = "ccm" /\ log' = log
      /\ st' = IF ~ params THEN [st EXCEPT !.res = "InvalidInput"]
               ELSE IF ~ mac THEN [st EXCEPT !.buf = plain, !.res = "InvalidInput"]
               ELSE [st EXCEPT !.buf = plain,
                       !.res = IF tagOk THEN "ok" ELSE "InvalidSignature"]
  BY DEF Seal!CcmDecrypt
<1>2. /\ st = Receiver(st.nonce, st.aad, st.given, st.buf, st.tag, st.res, st.past)
      /\ IsSeq(st.aad) /\ IsSeq(st.buf) /\ IsSeq(log.aad) /\ IsSeq(log.msg) /\ IsSeq(log.buf)
      /\ log.res = "ok" /\ st.nonce \in Nonces /\ st.tag.of \in {log.tag.of, <<>>}
      /\ CcmSent
  BY <1>1 DEF AeadIInv, AeadTyped, AeadArrived, AeadSent, GcmSent
<1>3. IsSeq(plain) /\ Len(plain) = Len(st.buf)
  BY <1>2, CcmCryptTwice
<1>4. good <=> (/\ st.nonce = log.nonce /\ st.aad = log.aad
                /\ st.buf = log.buf /\ st.tag = log.tag)
  <2>1. ASSUME good
        PROVE  st.nonce = log.nonce /\ st.aad = log.aad /\ st.buf = log.buf /\ st.tag = log.tag
    <3> DEFINE u == log.tag.len
               x == Seal!CcmTag(st.nonce, st.aad, plain, t)
               y == Seal!CcmTag(log.nonce, log.aad, log.msg, u)
    <3>1. x = st.tag /\ y = log.tag
      BY <1>2, <2>1 DEF CcmSent
    <3>2. x.of # <<>>
      BY DEF Seal!CcmTag
    <3>3. x.of = y.of
      <4> HIDE DEF x, y
      <4> QED
        BY <1>2, <3>1, <3>2
    <3>4. /\ Seal!ParamsOk(st.nonce, t) /\ Seal!MacOk(st.nonce, st.aad, Len(plain))
          /\ Seal!ParamsOk(log.nonce, u) /\ Seal!MacOk(log.nonce, log.aad, Len(log.msg))
      BY <1>2, <1>3, <2>1 DEF CcmSent
    <3>5. st.nonce \in Seq(Digit) /\ log.nonce \in Seq(Digit)
      BY <1>2 DEF AeadConstants, CcmSent
    <3> HIDE DEF plain, t, u, params, mac, tagOk
    <3>6. st.nonce = log.nonce /\ st.aad = log.aad /\ plain = log.msg /\ t = u
      BY <1>2, <1>3, <3>3, <3>4, <3>5, CcmTellsApart
    <3>7. st.tag = log.tag
      BY <3>1, <3>6
    <3>8. st.buf = log.buf
      <4>1. Seal!CcmCrypt(st.nonce, Seal!CcmCrypt(st.nonce, st.buf)) = st.buf
        BY <1>2, CcmCryptTwice
      <4>2. log.buf = Seal!CcmCrypt(log.nonce, log.msg)
        BY <1>2 DEF CcmSent
      <4> QED
        BY <3>6, <4>1, <4>2 DEF plain
    <3> QED
      BY <3>6, <3>7, <3>8
  <2>2. ASSUME st.nonce = log.nonce /\ st.aad = log.aad /\ st.buf = log.buf /\ st.tag = log.tag
        PROVE  good
    <3>1. log.buf = Seal!CcmCrypt(log.nonce, log.msg) /\ Len(log.buf) = Len(log.msg)
          /\ Seal!CcmCrypt(log.nonce, log.buf) = log.msg
      BY <1>2, CcmCryptTwice DEF CcmSent
    <3>2. plain = log.msg
      BY <2>2, <3>1
    <3> QED
      BY <1>2, <2>2, <3>1, <3>2 DEF CcmSent
  <2> QED
    BY <2>1, <2>2
<1>5. good => plain = log.msg
  <2>1. good => plain = Seal!CcmCrypt(log.nonce, log.buf)
    BY <1>4
  <2>2. log.buf = Seal!CcmCrypt(log.nonce, log.msg)
    BY <1>2 DEF CcmSent
  <2>3. Seal!CcmCrypt(log.nonce, Seal!CcmCrypt(log.nonce, log.msg)) = log.msg
    BY <1>2, CcmCryptTwice
  <2> QED
    BY <2>1, <2>2, <2>3
<1>6. good <=> params /\ mac /\ tagOk
  OBVIOUS
<1> HIDE DEF params, mac, tagOk, plain, t
<1>7. st' = Receiver(st.nonce, st.aad, st.given, b, st.tag, r, st.past)
  <2> DEFINE n == st.nonce
             a == st.aad
             g == st.given
             u == st.buf
             v == st.tag
             o == st.res
             p == st.past
             i == IF tagOk THEN "ok" ELSE "InvalidSignature"
  <2>1. st = Receiver(n, a, g, u, v, o, p)
    BY <1>2
  <2>2. CASE ~ params
    <3>1. st' = [st EXCEPT !.res = "InvalidInput"] /\ b = u /\ r = "InvalidInput"
      BY <1>1, <2>2
    <3> HIDE DEF n, a, g, u, v, o, p, b, r
    <3>2. [Receiver(n, a, g, u, v, o, p) EXCEPT !.res = "InvalidInput"]
            = Receiver(n, a, g, u, v, "InvalidInput", p)
      BY DEF Receiver
    <3>3. st' = Receiver(n, a, g, b, v, r, p)
      BY <2>1, <3>1, <3>2
    <3> QED
      BY <3>3 DEF n, a, g, v, p
  <2>3. CASE params
    <3>1. st' = [st EXCEPT !.buf = plain, !.res = r] /\ b = plain
      BY <1>1, <2>3
    <3> HIDE DEF n, a, g, u, v, o, p, b, r
    <3>2. [Receiver(n, a, g, u, v, o, p) EXCEPT !.buf = plain, !.res = r]
            = Receiver(n, a, g, plain, v, r, p)
      <4> DEFINE f == Receiver(n, a, g, u, v, o, p)
                 h == [f EXCEPT !.buf = plain, !.res = r]
      <4>1. h = [[f EXCEPT !.buf = plain] EXCEPT !.res = r]
        OBVIOUS
      <4>2. [f EXCEPT !.buf = plain] = Receiver(n, a, g, plain, v, o, p)
        BY DEF Receiver
      <4>3. [Receiver(n, a, g, plain, v, o, p) EXCEPT !.res = r] = Receiver(n, a, g, plain, v, r, p)
        BY DEF Receiver
      <4> HIDE DEF h, f
      <4>4. h = Receiver(n, a, g, plain, v, r, p)
        BY <4>1, <4>2, <4>3 DEF f
      <4> QED
        BY <4>4 DEF h, f
    <3>3. st' = Receiver(n, a, g, b, v, r, p)
      BY <2>1, <3>1, <3>2
    <3> QED
      BY <3>3 DEF n, a, g, v, p
  <2> QED
    BY <2>2, <2>3
<1>8. /\ IsSeq(b) /\ Len(b) = Len(st.buf)
      /\ r \in {"ok", "InvalidInput", "InvalidSignature"} /\ (r = "ok" <=> good)
      /\ (r = "ok" => b = log.msg)
  BY <1>2, <1>3, <1>5
<1>9. /\ log.cipher # "gcm"
      /\ b = IF Seal!ParamsOk(st.nonce, st.tag.len)
             THEN Seal!CcmCrypt(st.nonce, st.buf) ELSE st.buf
  BY <1>1 DEF params, plain, t
<1> HIDE DEF b, r, good
<1> QED
  BY <1>1, <1>4, <1>7, <1>8, <1>9, Returned

(* Every step of sender and receiver keeps the invariant. *)
LEMMA AeadStep ==
  ASSUME CtrConstants, AeadConstants, AeadIInv, Seal!Next
  PROVE  AeadIInv'
<1>1. CASE Seal!Encrypt
  BY <1>1, GcmEncryptStep, CcmEncryptStep DEF Seal!Encrypt
<1>2. CASE Seal!Arrive
  BY <1>2, ArriveStep
<1>3. CASE Seal!GcmDecrypt
  BY <1>3, GcmDecryptStep
<1>4. CASE Seal!CcmDecrypt
  BY <1>4, CcmDecryptStep
<1>5. CASE Seal!Retry
  BY <1>5, RetryStep
<1> QED
  BY <1>1, <1>2, <1>3, <1>4, <1>5 DEF Seal!Next

SealIInv == routine = "aead" => AeadIInv

(* The invariant of the authenticated ciphers. *)
LEMMA SealInvariant == SymmetricSpec => []SealIInv
<1>1. CtrConstants /\ AeadConstants
  BY CtrParameters, AeadConstantsHold
<1>2. SymmetricInit => SealIInv
  BY AeadInitial DEF SymmetricInit, SealIInv
<1>3. SealIInv /\ [SymmetricNext]_symmetricVars => SealIInv'
  <2> SUFFICES ASSUME SealIInv, [SymmetricNext]_symmetricVars, routine' = "aead"
               PROVE  AeadIInv'
    BY DEF SealIInv
  <2>1. ASSUME SymmetricNext PROVE AeadIInv'
    <3>1. routine = "aead" /\ Seal!Next
      BY <2>1 DEF SymmetricNext
    <3>2. AeadIInv
      BY <3>1 DEF SealIInv
    <3> QED
      BY <1>1, <3>1, <3>2, AeadStep
  <2>2. ASSUME UNCHANGED symmetricVars PROVE AeadIInv'
    <3>1. routine' = routine /\ st' = st /\ log' = log
      BY <2>2 DEF symmetricVars
    <3>2. AeadIInv
      BY <3>1 DEF SealIInv
    <3> QED
      BY <3>1, <3>2
        DEF AeadIInv, AeadTyped, AeadSent, GcmSent, CcmSent, AeadArrived,
            AeadPast, GcmPast, CcmPast, Seal!Spent,
            Seal!AcceptsWhatWasSent, Seal!Done, Seal!Unchanged
  <2> QED
    BY <2>1, <2>2
<1> QED
  BY <1>2, <1>3, PTL DEF SymmetricSpec

(* A tag is accepted only with the nonce, the associated data and the ciphertext it
   was made of, and then the buffer holds the message that was sent. *)
THEOREM SealedIsWhatIsOpened == SymmetricSpec => []AcceptsWhatWasSent
<1>1. SealIInv => AcceptsWhatWasSent
  BY DEF SealIInv, AeadIInv, AcceptsWhatWasSent
<1> QED
  BY <1>1, SealInvariant, PTL

(* Whether a receiver that calls again succeeds: the buffer it calls on is what was
   sent only if nothing is left of the calls before. *)
LEMMA PastDecides ==
  ASSUME AeadConstants, AeadIInv, Seal!Done
  PROVE  st.given = log.buf <=> /\ st.past.first = log.buf
                                /\ log.buf = <<>> \/ st.past.spent = {}
<1> DEFINE f == st.past.first
           N == st.past.spent
           g == st.given
           w == log.buf
<1>1. /\ log.res = "ok" /\ IsSeq(f) /\ IsSeq(g) /\ IsSeq(w) /\ IsSeq(log.msg)
      /\ Len(f) = Len(g) /\ SamePads(f, w) /\ log.msg \in Messages
      /\ Len(w) = Len(log.msg)
      /\ (log.cipher = "gcm" => GcmPast) /\ (log.cipher = "ccm" => CcmPast)
      /\ GcmSent \/ CcmSent
  BY DEF AeadIInv, AeadTyped, AeadArrived, AeadSent, AeadPast, Seal!Done
<1>2. /\ Len(f) \in Nat /\ Len(w) \in Nat /\ Len(<<>>) = 0
      /\ (Len(f) = 0 => f = <<>>) /\ (Len(g) = 0 => g = <<>>) /\ (Len(w) = 0 => w = <<>>)
  <2>1. \A s : IsSeq(s) /\ Len(s) = 0 => s = <<>>
    BY EmptyIsSeq, SameSeq
  <2> QED
    BY <1>1, <2>1, IsSeqFacts, EmptyIsSeq
<1>3. N = {} => g = f
  <2>1. CASE log.cipher = "gcm"
    BY <1>1, <2>1 DEF GcmPast
  <2>2. CASE log.cipher = "ccm"
    BY <1>1, <2>2, SpoiltByNone DEF CcmPast
  <2> QED
    BY <1>1, <2>1, <2>2 DEF GcmSent, CcmSent
<1>4. ASSUME N # {}, g = w PROVE w = <<>>
  <2>1. CASE GcmSent
    <3> DEFINE c == Seal!GcmCrypt(log.nonce, log.msg)
    <3>1. w = c /\ Seal!IsZero(w)
      BY <1>1, <1>4, <2>1 DEF GcmPast, GcmSent
    <3> QED
      BY <1>1, <3>1, GcmPadsMessages
  <2>2. CASE CcmSent
    <3>1. w = Spoilt(f, N)
      BY <1>1, <1>4, <2>2 DEF CcmPast, CcmSent
    <3> HIDE DEF f, w, N
    <3> QED
      BY <1>1, <1>2, <1>4, <3>1, SpoiltIsOther
  <2> QED
    BY <1>1, <2>1, <2>2
<1> HIDE DEF f, N, g, w
<1>5. g = w => f = w /\ (w = <<>> \/ N = {})
  BY <1>1, <1>2, <1>3, <1>4
<1>6. f = w /\ (w = <<>> \/ N = {}) => g = w
  BY <1>1, <1>2, <1>3
<1> QED
  BY <1>5, <1>6 DEF f, N, g, w

(* A receiver that calls again succeeds only on the ciphertext that was sent: GCM
   has erased it, CCM has put keystream on it, which another call takes off. *)
THEOREM RetriesMeetTheCiphertext == SymmetricSpec => []RetriesNeedTheCiphertext
<1>1. SealIInv => RetriesNeedTheCiphertext
  <2> SUFFICES ASSUME AeadIInv, Seal!Done PROVE
        st.res = "ok" <=> /\ st.nonce = log.nonce /\ st.aad = log.aad
                          /\ st.tag = log.tag /\ st.past.first = log.buf
                          /\ log.buf = <<>> \/ st.past.spent = {}
    BY DEF SealIInv, RetriesNeedTheCiphertext, Seal!RetriesNeedTheCiphertext
  <2>1. st.res = "ok" <=> Seal!Unchanged
    BY DEF AeadIInv, Seal!AcceptsWhatWasSent
  <2>2. st.given = log.buf <=> st.past.first = log.buf /\ (log.buf = <<>> \/ st.past.spent = {})
    BY AeadConstantsHold, PastDecides
  <2> QED
    BY <2>1, <2>2 DEF Seal!Unchanged
<1> QED
  BY <1>1, SealInvariant, PTL

-------------------------------------------------------------------------------
(* The blocks that are enciphered. *)

(* As many values as numbers they are made of. *)
LEMMA CountedOnce ==
  ASSUME NEW n \in Nat, NEW f, f = [k \in 1..n |-> f[k]],
         \A j \in 1..n, k \in 1..n : f[j] = f[k] => j = k
  PROVE  Seal!Cardinality({f[k] : k \in 1..n}) = n
<1> DEFINE S == 1..n
           T == {f[k] : k \in S}
<1>1. IsFiniteSet(S) /\ Cardinality(S) = n
  <2>1. 1 \in Int /\ n \in Int
    OBVIOUS
  <2>2. IsFiniteSet(1..n) /\ Cardinality(1..n) = IF 1 > n THEN 0 ELSE n - 1 + 1
    BY <2>1, FS_Interval
  <2> QED
    BY <2>2
<1> HIDE DEF S
<1>2. f \in Bijection(S, T)
  BY DEF S, Bijection, Injection, Surjection, IsInjective
<1>3. ExistsBijection(S, T)
  BY <1>2 DEF ExistsBijection
<1>4. Cardinality(T) = n
  BY <1>1, <1>3, FS_Bijection
<1>5. Seal!Cardinality(T) = Cardinality(T)
  BY DEF Cardinality, Seal!Cardinality
<1> QED
  BY <1>4, <1>5 DEF S

(* Numbers that are closer than a modulus and have one remainder are one. *)
LEMMA CloseRemainders ==
  ASSUME NEW W \in Nat, W > 0, NEW a \in Nat, NEW b \in Nat, a <= b, b < a + W, a % W = b % W
  PROVE  a = b
<1> DEFINE c == a \div W
           d == b \div W
           r == a % W
<1>1. c \in Int /\ d \in Int /\ r \in Int /\ a = W * c + r /\ b = W * d + r
  BY Division
<1> HIDE DEF c, d, r
<1> DEFINE e == d - c
<1>2. e \in Int /\ b - a = W * e
  BY <1>1, SMTT(30)
<1> HIDE DEF e
<1>3. W * e >= 0 /\ W * e < W
  BY <1>2
<1>4. e = 0
  BY <1>2, <1>3, SMTT(30)
<1> QED
  BY <1>2, <1>4

(* Fewer counters on than the low part of the block can count, no counter repeats. *)
LEMMA CountersDiffer ==
  ASSUME CtrConstants, NEW kind, NEW blk \in CBlock, NEW j \in Nat, NEW k \in Nat, j <= k,
         k < Stream!Power(B - High(kind)),
         Ctr!CounterAfter(kind, blk, j) = Ctr!CounterAfter(kind, blk, k)
  PROVE  j = k
<1> DEFINE v == Stream!BlockValue(blk)
           W == Stream!Power(B - High(kind))
<1>1. v \in Nat /\ W \in Nat /\ W > 0
  BY IncValue
<1>2. Stream!BlockValue(Ctr!CounterAfter(kind, blk, j)) = (v - (v % W)) + ((v + j) % W)
  BY CounterValue
<1>3. Stream!BlockValue(Ctr!CounterAfter(kind, blk, k)) = (v - (v % W)) + ((v + k) % W)
  BY CounterValue
<1>4. k < W
  OBVIOUS
<1> HIDE DEF v, W
<1> DEFINE a == v + j
           b == v + k
           r == v % W
           p == a % W
           q == b % W
<1>5. r \in Int /\ p \in Int /\ q \in Int
  BY <1>1, Division
<1>6. (v - r) + p = (v - r) + q
  BY <1>2, <1>3
<1>7. p = q
  <2> HIDE DEF r, p, q
  <2> QED
    BY <1>1, <1>5, <1>6
<1>8. a \in Nat /\ b \in Nat /\ a <= b /\ b < a + W /\ a % W = b % W
  BY <1>1, <1>4, <1>7
<1> HIDE DEF a, b
<1>9. a = b
  BY <1>1, <1>8, CloseRemainders
<1> QED
  BY <1>1, <1>9 DEF a, b

(* GCM: the counters of the data, as they follow the one that masks the tag. *)
LEMMA GcmCounters ==
  ASSUME CtrConstants, AeadConstants, NEW n \in Seal!GcmNonces, NEW k \in Nat
  PROVE  Seal!CounterAfter("inc32", Seal!Inc32(Seal!J0(n)), k)
           = Ctr!CounterAfter("inc32", Seal!J0(n), k + 1)
<1> DEFINE j == Seal!J0(n)
           C(i) == Ctr!CounterAfter("inc32", j, i)
<1>1. j \in CBlock
  BY J0Facts
<1>2. Seal!Inc32(j) = Ctr!Inc("inc32", j)
  BY DEF Seal!Inc32, Ctr!Inc, Ctr!Inc32
<1>3. C(0) = j /\ C(0 + 1) = Ctr!Inc("inc32", C(0))
  <2>1. 0 \in Nat
    OBVIOUS
  <2> HIDE DEF j
  <2> QED
    BY <1>1, <2>1, CounterUnfolds
<1>4. Seal!Inc32(j) = C(1)
  BY <1>2, <1>3
<1>5. Seal!CounterAfter("inc32", C(1), k) = Ctr!CounterAfter("inc32", C(1), k)
  BY CounterIsTable
<1>6. Ctr!CounterAfter("inc32", C(1), k) = C(1 + k)
  <2>1. 1 \in Nat
    OBVIOUS
  <2> HIDE DEF j
  <2> QED
    BY <1>1, <2>1, CountersAdd
<1>7. 1 + k = k + 1
  OBVIOUS
<1> QED
  BY <1>4, <1>5, <1>6, <1>7

(* GCM enciphers every block for one purpose only. *)
LEMMA GcmSeparates ==
  ASSUME CtrConstants, AeadConstants, GcmSent, IsSeq(log.msg), log.msg \in Messages
  PROVE  Seal!BlocksSeparate
<1> DEFINE j == Seal!J0(log.nonce)
           n == Seal!Blocks(Len(log.buf))
           C(i) == Ctr!CounterAfter("inc32", j, i)
           f == [k \in 1..n |-> C(k)]
           W == Stream!Power(B - High("inc32"))
<1>1. /\ log.cipher = "gcm" /\ log.nonce \in Seal!GcmNonces
      /\ log.buf = Seal!GcmCrypt(log.nonce, log.msg)
      /\ log.tag = Seal!GcmTag(log.nonce, log.aad, log.buf)
  BY DEF GcmSent
<1>2. Len(log.buf) = Len(log.msg) /\ Len(log.msg) \in Nat
  BY <1>1, GcmCryptTwice, IsSeqFacts
<1>3. n \in Nat /\ n < Seal!Power(LowBytes)
  <2>1. /\ Seal!Blocks(Len(log.msg)) \in Nat
        /\ Seal!Blocks(Len(log.msg)) < Seal!Power(LowBytes)
    BY <1>2, BlocksFacts, SMTT(30) DEF AeadConstants
  <2> QED
    BY <1>2, <2>1
<1>4. W = Seal!Power(LowBytes)
  <2>1. B - High("inc32") = LowBytes
    BY DEF High, CtrConstants
  <2> QED
    BY <2>1, PowersAreOne
<1>5. log.tag.of[2] = j
  BY <1>1 DEF Seal!GcmTag
<1>6. j \in CBlock /\ C(0) = j
  <2>1. j \in CBlock
    BY <1>1, J0Facts
  <2>2. 0 \in Nat
    OBVIOUS
  <2> HIDE DEF j
  <2> QED
    BY <2>1, <2>2, CounterUnfolds
<1>7. Seal!DataCounters = {f[k] : k \in 1..n}
  <2> DEFINE e(k) == Seal!CounterAfter("inc32", Seal!Inc32(j), k)
  <2>1. Seal!DataCounters = {e(k) : k \in 0..(n - 1)}
    BY <1>1 DEF Seal!DataCounters
  <2>2. \A k \in Nat : e(k) = C(k + 1)
    BY <1>1, GcmCounters
  <2> HIDE DEF e, C, n
  <2>3. {e(k) : k \in 0..(n - 1)} \subseteq {f[k] : k \in 1..n}
    <3> SUFFICES ASSUME NEW k \in 0..(n - 1) PROVE \E i \in 1..n : e(k) = f[i]
      OBVIOUS
    <3>1. k + 1 \in 1..n /\ k \in Nat
      BY <1>3
    <3>2. e(k) = f[k + 1]
      BY <2>2, <3>1
    <3> QED
      BY <3>1, <3>2
  <2>4. {f[k] : k \in 1..n} \subseteq {e(k) : k \in 0..(n - 1)}
    <3> SUFFICES ASSUME NEW k \in 1..n PROVE \E i \in 0..(n - 1) : f[k] = e(i)
      OBVIOUS
    <3>1. k - 1 \in 0..(n - 1) /\ k - 1 \in Nat /\ (k - 1) + 1 = k
      BY <1>3
    <3>2. e(k - 1) = f[k]
      BY <2>2, <3>1
    <3> QED
      BY <3>1, <3>2
  <2> QED
    BY <2>1, <2>3, <2>4
<1>8. ASSUME NEW a \in 0..n, NEW b \in 0..n, C(a) = C(b) PROVE a = b
  <2>0. n \in Nat /\ n < W
    BY <1>3, <1>4
  <2> HIDE DEF n, j, W
  <2>1. a \in Nat /\ b \in Nat /\ a < W /\ b < W
    <3>1. a <= n /\ b <= n /\ W \in Int
      BY <2>0, IncValue, <1>6 DEF W
    <3> QED
      BY <2>0, <3>1
  <2>2. CASE a <= b
    BY <1>6, <1>8, <2>1, <2>2, CountersDiffer DEF W
  <2>3. CASE b <= a
    BY <1>6, <1>8, <2>1, <2>3, CountersDiffer DEF W
  <2> QED
    BY <2>1, <2>2, <2>3
<1> HIDE DEF C, j, n
<1>9. \A a \in 1..n, b \in 1..n : f[a] = f[b] => a = b
  <2> SUFFICES ASSUME NEW a \in 1..n, NEW b \in 1..n, f[a] = f[b] PROVE a = b
    OBVIOUS
  <2>1. a \in 0..n /\ b \in 0..n /\ C(a) = C(b)
    BY <1>3
  <2> QED
    BY <1>8, <2>1
<1>10. f = [k \in 1..n |-> f[k]]
  OBVIOUS
<1>11. \A k \in 1..n : f[k] # j
  <2> TAKE k \in 1..n
  <2>1. 0 \in 0..n /\ k \in 0..n /\ k # 0
    BY <1>3
  <2> QED
    BY <1>6, <1>8, <2>1
<1> HIDE DEF f
<1>12. Seal!Cardinality({f[k] : k \in 1..n}) = n
  BY <1>3, <1>9, <1>10, CountedOnce
<1> QED
  BY <1>1, <1>5, <1>7, <1>11, <1>12 DEF Seal!BlocksSeparate, n

(* CCM: a counter that fits its bytes is no other counter, and no first block. *)
LEMMA CcmCountersDiffer ==
  ASSUME CtrConstants, AeadConstants, NEW n \in Seq(Digit), Len(n) \in NonceLens,
         NEW j \in Nat, j < Seal!Power(Seal!Q(n)), NEW k \in Nat, k < Seal!Power(Seal!Q(n)),
         Seal!CcmCounter(n, j) = Seal!CcmCounter(n, k)
  PROVE  j = k
<1> DEFINE q == Seal!Q(n)
<1>1. q \in Nat
  BY DEF AeadConstants, CtrConstants, Seal!Q
<1>2. Seal!BigEndian(j, q) = Seal!BigEndian(k, q)
  BY CcmCounterTellsApart
<1>3. j < Seal!Power(q) /\ k < Seal!Power(q)
  OBVIOUS
<1> HIDE DEF q
<1> QED
  BY <1>1, <1>2, <1>3, BigEndianInjective

(* The flags of the first block are no length of a counter. *)
LEMMA FirstBlockIsNoCounter ==
  ASSUME CtrConstants, AeadConstants, NEW n \in Seq(Digit), NEW t, Seal!ParamsOk(n, t),
         NEW a \in Nat, NEW d \in Nat, NEW k \in Nat
  PROVE  Seal!B0(n, a, d, t) # Seal!CcmCounter(n, k)
<1> DEFINE f == B0Flags(n, a, t)
           g == Seal!Q(n) - 1
<1>1. Len(n) \in NonceLens /\ t \in GoodTagLens
  BY DEF Seal!ParamsOk
<1>2. f \in Nat /\ f > Seal!Q(n) - 1
  BY <1>1, FlagsTellApart
<1>3. g \in Nat /\ Seal!Q(n) - 1 = g
  BY <1>1 DEF AeadConstants, CtrConstants, Seal!Q
<1>4. Seal!B0(n, a, d, t) = CcmBlock(f, n, d) /\ Seal!CcmCounter(n, k) = CcmBlock(g, n, k)
  BY B0IsBlock, CcmCounterIsBlock
<1> HIDE DEF f, g
<1>5. CcmBlock(f, n, d)[1] = f
  BY <1>1, <1>2, CcmBlockFacts
<1>6. CcmBlock(g, n, k)[1] = g
  BY <1>1, <1>3, CcmBlockFacts
<1>7. f # g
  BY <1>2, <1>3
<1> QED
  BY <1>4, <1>5, <1>6, <1>7

(* CCM enciphers every block for one purpose only. *)
LEMMA CcmSeparates ==
  ASSUME CtrConstants, AeadConstants, CcmSent, IsSeq(log.msg), IsSeq(log.aad)
  PROVE  Seal!BlocksSeparate
<1> DEFINE v == log.nonce
           t == log.tag.len
           n == Seal!Blocks(Len(log.buf))
           C(k) == Seal!CcmCounter(v, k)
           f == [k \in 1..n |-> C(k)]
           W == Seal!Power(Seal!Q(v))
           first == Seal!B0(v, Len(log.aad), Len(log.msg), t)
<1>1. /\ log.cipher = "ccm" /\ v \in Seq(Digit) /\ Seal!ParamsOk(v, t)
      /\ Len(log.msg) < W
      /\ log.buf = Seal!CcmCrypt(v, log.msg)
      /\ log.tag = Seal!CcmTag(v, log.aad, log.msg, t)
  BY DEF CcmSent, Seal!MacOk, Seal!LengthOk, AeadConstants
<1>2. Len(log.buf) = Len(log.msg) /\ Len(log.msg) \in Nat /\ Len(log.aad) \in Nat
  BY <1>1, CcmCryptTwice, IsSeqFacts
<1>3. n \in Nat /\ n <= Len(log.msg)
  BY <1>2, BlocksFacts
<1>4. W \in Nat /\ Len(v) \in NonceLens
  <2>1. Len(v) \in NonceLens
    BY <1>1 DEF Seal!ParamsOk
  <2>2. Seal!Q(v) \in Nat
    BY <2>1 DEF AeadConstants, CtrConstants, Seal!Q
  <2>3. Stream!Power(Seal!Q(v)) \in Nat
    BY <2>2, PowerUnfolds
  <2> QED
    BY <2>1, <2>3, PowersAreOne
<1>5. log.tag.of[2] = C(0)
  <2>1. Seal!CcmTag(v, log.aad, log.msg, t).of[2] = C(0)
    BY DEF Seal!CcmTag
  <2> QED
    BY <1>1, <2>1
<1>6. Seal!DataCounters = {f[k] : k \in 1..n}
  <2>1. Seal!DataCounters = {C(k) : k \in 1..n}
    BY <1>1 DEF Seal!DataCounters
  <2> HIDE DEF C, n
  <2> QED
    BY <2>1
<1>7. ASSUME NEW a \in 0..n, NEW b \in 0..n, C(a) = C(b) PROVE a = b
  <2>0. n \in Nat /\ n < W /\ W \in Nat
    BY <1>1, <1>2, <1>3, <1>4
  <2>1. v \in Seq(Digit) /\ Len(v) \in NonceLens
    BY <1>1, <1>4
  <2> HIDE DEF n, v, W
  <2>2. a \in Nat /\ b \in Nat /\ a < W /\ b < W
    BY <2>0
  <2> QED
    BY <1>7, <2>1, <2>2, CcmCountersDiffer DEF W
<1>8. ASSUME NEW k \in Nat PROVE first # C(k)
  <2>1. v \in Seq(Digit) /\ Seal!ParamsOk(v, t)
    BY <1>1
  <2> HIDE DEF v, t
  <2> QED
    BY <1>2, <2>1, FirstBlockIsNoCounter
<1>9. first = Seal!B0(log.nonce, Len(log.aad), Len(log.msg), log.tag.len)
  OBVIOUS
<1> HIDE DEF C, n, first
<1>10. \A a \in 1..n, b \in 1..n : f[a] = f[b] => a = b
  <2> SUFFICES ASSUME NEW a \in 1..n, NEW b \in 1..n, f[a] = f[b] PROVE a = b
    OBVIOUS
  <2>1. a \in 0..n /\ b \in 0..n /\ C(a) = C(b)
    BY <1>3
  <2> QED
    BY <1>7, <2>1
<1>11. f = [k \in 1..n |-> f[k]]
  OBVIOUS
<1>12. \A k \in 1..n : f[k] # C(0) /\ first # f[k]
  <2> TAKE k \in 1..n
  <2>1. 0 \in 0..n /\ k \in 0..n /\ k # 0 /\ k \in Nat
    BY <1>3
  <2>2. f[k] = C(k)
    OBVIOUS
  <2>3. C(k) # C(0)
    BY <1>7, <2>1
  <2>4. first # C(k)
    BY <1>8, <2>1
  <2> QED
    BY <2>2, <2>3, <2>4
<1>13. first # C(0)
  <2>1. 0 \in Nat
    OBVIOUS
  <2> QED
    BY <1>8, <2>1
<1> HIDE DEF f
<1>14. Seal!Cardinality({f[k] : k \in 1..n}) = n
  BY <1>3, <1>10, <1>11, CountedOnce
<1> QED
  BY <1>1, <1>5, <1>6, <1>9, <1>12, <1>13, <1>14 DEF Seal!BlocksSeparate, n

(* Under one key and nonce no block is enciphered for two purposes. *)
THEOREM NoBlockTwice == SymmetricSpec => []BlocksSeparate
<1>1. SealIInv => BlocksSeparate
  <2> SUFFICES ASSUME SealIInv, routine = "aead", log.res = "ok"
               PROVE  Seal!BlocksSeparate
    BY DEF BlocksSeparate, Seal!BlocksSeparate
  <2>1. IsSeq(log.msg) /\ IsSeq(log.aad) /\ log.msg \in Messages /\ (GcmSent \/ CcmSent)
    BY DEF SealIInv, AeadIInv, AeadTyped, AeadSent
  <2> QED
    BY <2>1, CtrParameters, AeadConstantsHold, GcmSeparates, CcmSeparates
<1> QED
  BY <1>1, SealInvariant, PTL
-------------------------------------------------------------------------------
(* The authentication codes over a buffer. *)

(* The buffer of the hashers and the one of GHASH and HMAC are the same code. *)
LEMMA MacsBuffer ==
  /\ Macs!NewContext = NewContext /\ Macs!Zero = Zero
  /\ \A c, data : Macs!Absorb(c, data) = Absorb(c, data)
  /\ \A c : Macs!Fed(c) = Fed(c)
<1>1. Macs!NewContext = NewContext /\ Macs!Zero = Zero
  BY DEF Macs!NewContext, NewContext, Macs!Zero, Zero
<1>2. \A c : Macs!Fed(c) = Fed(c)
  BY DEF Macs!Fed, Fed, Macs!FedLen, FedLen
<1>3. \A c, data : Macs!Absorb(c, data) = Absorb(c, data)
  BY DEF Macs!Absorb, Absorb, Macs!FedLen, FedLen, Macs!BulkAndTail, BulkAndTail,
         Macs!Fill, Fill, Macs!FillCount, FillCount, Macs!CopyInto, CopyInto,
         Macs!Take, Take, Macs!Drop, Drop, Macs!BulkLen, BulkLen, Macs!Zero, Zero
<1> QED
  BY <1>1, <1>2, <1>3

(* Absorbing leaves a record of the same fields. *)
IsBuffer(c) == c = [buffer |-> c.buffer, bufLen |-> c.bufLen, totalLen |-> c.totalLen, hashed |-> c.hashed]

LEMMA BufferStays ==
  IsBuffer(NewContext) /\ \A c, data : IsBuffer(Absorb(c, data))
BY DEF IsBuffer, NewContext, Absorb, BulkAndTail

(* A context that has been fed s, whatever its bytes are. *)
Holds(c, s) == \E T : IsContext(c, T) /\ Fed(c) = s

LEMMA HoldsFacts ==
  ASSUME NEW c, NEW s, Holds(c, s)
  PROVE  /\ IsSeq(s) /\ IsSeq(c.hashed) /\ Len(s) = Len(c.hashed) + c.bufLen
         /\ c.bufLen \in 0..(Block - 1) /\ WholeBlocks(Len(c.hashed))
         /\ \A i \in 1..Len(c.hashed) : s[i] = c.hashed[i]
         /\ \A i \in 1..c.bufLen : s[Len(c.hashed) + i] = c.buffer[i]
<1>1. PICK T : IsContext(c, T) /\ Fed(c) = s
  BY DEF Holds
<1>2. c.hashed \in Seq(T) /\ c.bufLen \in 0..(Block - 1) /\ WholeBlocks(Len(c.hashed))
  BY <1>1 DEF IsContext
<1> QED
  BY <1>1, <1>2, FedBytes DEF IsSeq

LEMMA HoldsNothing == Holds(NewContext, <<>>)
<1> DEFINE c == NewContext
           T == {Zero}
<1>1. /\ c.buffer = [i \in 1..Block |-> Zero] /\ c.bufLen = 0
      /\ c.totalLen = 0 /\ c.hashed = <<>>
  BY DEF NewContext
<1> HIDE DEF c
<1>2. c.buffer \in [1..Block -> T] /\ c.hashed \in Seq(T) /\ Len(c.hashed) = 0
  BY <1>1
<1>3. IsContext(c, T)
  BY <1>1, <1>2, ConstantFacts, WholeBlocksOne DEF IsContext
<1>4. Fed(c) = <<>>
  BY <1>1 DEF Fed, FedLen
<1> QED
  BY <1>3, <1>4 DEF Holds, c

LEMMA HoldsMore ==
  ASSUME NEW c, NEW s, Holds(c, s), NEW data, IsSeq(data)
  PROVE  Holds(Absorb(c, data), s \o data)
<1>1. PICK T : IsContext(c, T) /\ Fed(c) = s
  BY DEF Holds
<1>2. PICK U : data \in Seq(U)
  BY DEF IsSeq
<1> DEFINE V == T \cup U
           d == Absorb(c, data)
<1>3. IsContext(c, V) /\ data \in Seq(V)
  <2>1. c.buffer \in [1..Block -> V] /\ c.hashed \in Seq(V)
    BY <1>1 DEF IsContext
  <2> QED
    BY <1>1, <1>2, <2>1 DEF IsContext
<1> HIDE DEF V
<1>4. IsContext(d, V) /\ Extends(c, d, data)
  BY <1>3, AbsorbExtends
<1> HIDE DEF d
<1>5. Fed(d) \in Seq(V) /\ Len(Fed(d)) = FedLen(d) /\ s \in Seq(V) /\ Len(s) = FedLen(c)
  BY <1>1, <1>3, <1>4, FedBytes
<1>6. /\ Len(s) \in Nat /\ Len(data) \in Nat /\ Len(Fed(d)) = Len(s) + Len(data)
      /\ \A i \in 1..Len(s) : Fed(d)[i] = s[i]
      /\ \A i \in 1..Len(data) : Fed(d)[Len(s) + i] = data[i]
  BY <1>1, <1>3, <1>4, <1>5 DEF Extends
<1>7. IsSeq(s) /\ IsSeq(Fed(d)) /\ IsSeq(data)
  BY <1>3, <1>5 DEF IsSeq
<1>8. /\ IsSeq(s \o data) /\ Len(s \o data) = Len(s) + Len(data)
      /\ \A i \in 1..(Len(s) + Len(data)) :
              (s \o data)[i] = IF i <= Len(s) THEN s[i] ELSE data[i - Len(s)]
  BY <1>7, JoinIsSeq
<1>9. ASSUME NEW i \in 1..Len(Fed(d)) PROVE Fed(d)[i] = (s \o data)[i]
  <2>1. i \in 1..(Len(s) + Len(data))
    BY <1>6
  <2>2. CASE i <= Len(s)
    BY <1>6, <1>8, <2>1, <2>2
  <2>3. CASE ~ (i <= Len(s))
    <3> DEFINE j == i - Len(s)
    <3>1. j \in 1..Len(data) /\ Len(s) + j = i
      BY <1>6, <2>1, <2>3
    <3> HIDE DEF j
    <3>2. Fed(d)[i] = data[j]
      BY <1>6, <3>1
    <3> QED
      BY <1>8, <2>1, <2>3, <3>2 DEF j
  <2> QED
    BY <2>2, <2>3
<1>10. Fed(d) = s \o data
  BY <1>6, <1>7, <1>8, <1>9, SameSeq
<1> QED
  BY <1>4, <1>10 DEF Holds, d
-------------------------------------------------------------------------------
(* GHASH. *)

(* The message counts its bytes; what was fed is as long, and is the message until a
   block overtakes bytes that wait, after which some compressed byte is not the one
   at its place in the message. *)
GhashIInv ==
  /\ log = [mac |-> "ghash", overtaken |-> log.overtaken, msg |-> log.msg, tag |-> log.tag]
  /\ log.overtaken \in BOOLEAN
  /\ IsBuffer(st)
  /\ IsSeq(log.msg) /\ \A j \in 1..Len(log.msg) : log.msg[j] = <<"msg", j>>
  /\ \E s : Holds(st, s) /\ Len(s) = Len(log.msg) /\ (~ log.overtaken => s = log.msg)
  /\ log.overtaken => \E p \in 1..Len(st.hashed) : p <= Len(log.msg) /\ st.hashed[p] # log.msg[p]
  /\ log.tag = <<>> \/ \E v : log.tag = <<v>> /\ (v = Macs!ZeroPadded(log.msg) <=> ~ log.overtaken)

LEMMA MessageIsSeq ==
  ASSUME NEW n \in Nat
  PROVE  IsSeq(Macs!Message(n)) /\ Len(Macs!Message(n)) = n
BY ListIsSeq DEF Macs!Message

LEMMA GhashInitial ==
  ASSUME Macs!GhashInit
  PROVE  GhashIInv
<1>1. /\ Holds(st, <<>>) /\ IsBuffer(st)
      /\ log = [mac |-> "ghash", overtaken |-> FALSE, msg |-> <<>>, tag |-> <<>>]
  BY HoldsNothing, BufferStays, MacsBuffer DEF Macs!GhashInit
<1>2. IsSeq(log.msg) /\ Len(log.msg) = 0
  BY <1>1, EmptyIsSeq
<1> QED
  BY <1>1, <1>2 DEF GhashIInv

(* A context that is fed more keeps what it has compressed. *)
LEMMA HashedGrows ==
  ASSUME NEW c, NEW s, NEW d, NEW data, Holds(c, s), IsSeq(data), Holds(d, s \o data)
  PROVE  /\ Len(c.hashed) \in Nat /\ Len(d.hashed) \in Nat /\ Len(c.hashed) <= Len(d.hashed)
         /\ \A i \in 1..Len(c.hashed) : d.hashed[i] = c.hashed[i]
<1> DEFINE h == Len(c.hashed)
           k == Len(d.hashed)
           t == s \o data
<1>1. /\ IsSeq(s) /\ h \in Nat /\ Len(s) = h + c.bufLen
      /\ c.bufLen \in 0..(Block - 1) /\ WholeBlocks(h)
      /\ \A i \in 1..h : s[i] = c.hashed[i]
  BY HoldsFacts, IsSeqFacts
<1>2. /\ k \in Nat /\ Len(t) = k + d.bufLen
      /\ d.bufLen \in 0..(Block - 1) /\ WholeBlocks(k)
      /\ \A i \in 1..k : t[i] = d.hashed[i]
  BY HoldsFacts, IsSeqFacts
<1>3. /\ Len(t) = Len(s) + Len(data) /\ Len(data) \in Nat
      /\ \A i \in 1..(Len(s) + Len(data)) : t[i] = IF i <= Len(s) THEN s[i] ELSE data[i - Len(s)]
  BY <1>1, JoinIsSeq, IsSeqFacts
<1>4. PICK q \in Nat : h = q * Block
  BY <1>1 DEF WholeBlocks
<1>5. PICK r \in Nat : k = r * Block
  BY <1>2 DEF WholeBlocks
<1>6. Block \in Nat /\ Block > 0
  BY ConstantFacts
<1> HIDE DEF h, k, t
<1>7. h <= k
  <2>1. CASE r >= q
    <3>1. r * Block >= q * Block
      BY <1>6, <2>1, SMTT(30)
    <3> QED
      BY <1>4, <1>5, <3>1
  <2>2. CASE ~ (r >= q)
    <3>1. (r + 1) * Block <= q * Block /\ (r + 1) * Block = r * Block + Block
      BY <1>6, <2>2, SMTT(30)
    <3> DEFINE rb == r * Block
               qb == q * Block
    <3>2. rb + Block <= qb /\ h = qb /\ k = rb
      BY <1>4, <1>5, <3>1
    <3> HIDE DEF rb, qb
    <3> QED
      BY <1>1, <1>2, <1>3, <1>6, <3>2
  <2> QED
    BY <2>1, <2>2
<1>8. ASSUME NEW i \in 1..h PROVE d.hashed[i] = c.hashed[i]
  <2>1. i \in 1..k /\ i \in 1..(Len(s) + Len(data)) /\ i <= Len(s)
    BY <1>1, <1>2, <1>3, <1>7
  <2> QED
    BY <1>1, <1>2, <1>3, <2>1
<1> QED
  BY <1>1, <1>2, <1>7, <1>8 DEF h, k

(* The message goes on counting. *)
LEMMA MessageCounts ==
  ASSUME NEW n \in Nat, IsSeq(log.msg), \A j \in 1..Len(log.msg) : log.msg[j] = <<"msg", j>>,
         NEW m, m = log.msg \o Macs!Message(n)
  PROVE  /\ IsSeq(m) /\ Len(m) = Len(log.msg) + n /\ Len(log.msg) \in Nat
         /\ \A j \in 1..Len(m) : m[j] = <<"msg", j>>
         /\ \A j \in 1..Len(log.msg) : m[j] = log.msg[j]
<1> DEFINE x == Macs!Message(n)
           l == Len(log.msg)
<1>1. IsSeq(x) /\ Len(x) = n /\ \A j \in 1..n : x[j] = <<"msg", l + j>>
  BY MessageIsSeq DEF Macs!Message
<1>2. l \in Nat
  BY IsSeqFacts
<1>3. m = log.msg \o x
  OBVIOUS
<1> HIDE DEF x
<1>4. /\ IsSeq(m) /\ Len(m) = l + n
      /\ \A i \in 1..(l + n) : m[i] = IF i <= l THEN log.msg[i] ELSE x[i - l]
  <2> DEFINE u == log.msg
  <2>1. IsSeq(u) /\ l = Len(u)
    OBVIOUS
  <2> HIDE DEF u, l
  <2>2. /\ IsSeq(u \o x) /\ Len(u \o x) = Len(u) + Len(x)
        /\ \A i \in 1..(Len(u) + Len(x)) : (u \o x)[i] = IF i <= Len(u) THEN u[i] ELSE x[i - Len(u)]
    BY <1>1, <2>1, JoinIsSeq
  <2>3. m = u \o x
    BY <1>3 DEF u
  <2>4. \A i \in 1..(l + n) : m[i] = IF i <= l THEN u[i] ELSE x[i - l]
    BY <1>1, <2>1, <2>2, <2>3
  <2> QED
    BY <1>1, <2>1, <2>2, <2>3, <2>4 DEF u
<1>5. \A j \in 1..l : log.msg[j] = <<"msg", j>>
  OBVIOUS
<1> HIDE DEF l
<1>6. ASSUME NEW j \in 1..(l + n) PROVE m[j] = <<"msg", j>>
  <2>1. CASE j <= l
    BY <1>2, <1>4, <1>5, <2>1
  <2>2. CASE ~ (j <= l)
    <3> DEFINE i == j - l
    <3>1. i \in 1..n /\ l + i = j
      BY <1>2, <2>2
    <3>2. m[j] = x[i]
      BY <1>4, <2>2
    <3> HIDE DEF i
    <3> QED
      BY <1>1, <3>1, <3>2 DEF l
  <2> QED
    BY <2>1, <2>2
<1>7. \A j \in 1..l : m[j] = log.msg[j]
  BY <1>2, <1>4
<1> QED
  BY <1>2, <1>4, <1>6, <1>7 DEF l

LEMMA GhashUpdateStep ==
  ASSUME GhashIInv, NEW n \in Nat, Macs!GhashUpdate(n)
  PROVE  GhashIInv'
<1> DEFINE x == Macs!Message(n)
           m == log.msg \o x
           o == log.overtaken
<1>1. log.tag = <<>> /\ st' = Absorb(st, x) /\ log' = [log EXCEPT !.msg = m]
  BY MacsBuffer DEF Macs!GhashUpdate, Macs!Open
<1>2. IsSeq(x) /\ Len(x) = n
  BY MessageIsSeq
<1>3. IsSeq(log.msg) /\ \A j \in 1..Len(log.msg) : log.msg[j] = <<"msg", j>>
  BY DEF GhashIInv
<1>4. /\ IsSeq(m) /\ Len(m) = Len(log.msg) + n /\ Len(log.msg) \in Nat
      /\ \A j \in 1..Len(m) : m[j] = <<"msg", j>>
      /\ \A j \in 1..Len(log.msg) : m[j] = log.msg[j]
  BY <1>3, MessageCounts
<1>5. PICK s : Holds(st, s) /\ Len(s) = Len(log.msg) /\ (~ o => s = log.msg)
  BY DEF GhashIInv
<1> HIDE DEF x
<1>6. Holds(st', s \o x) /\ IsBuffer(st')
  BY <1>1, <1>2, <1>5, HoldsMore, BufferStays
<1>7. Len(s \o x) = Len(m) /\ (~ o => s \o x = m)
  <2>1. Len(s \o x) = Len(s) + Len(x)
    BY <1>2, <1>5, HoldsFacts, JoinIsSeq
  <2> QED
    BY <1>2, <1>4, <1>5, <2>1
<1>8. ASSUME o PROVE \E p \in 1..Len(st'.hashed) : p <= Len(m) /\ st'.hashed[p] # m[p]
  <2>1. PICK p \in 1..Len(st.hashed) : p <= Len(log.msg) /\ st.hashed[p] # log.msg[p]
    BY <1>8 DEF GhashIInv
  <2>2. /\ Len(st.hashed) \in Nat /\ Len(st'.hashed) \in Nat /\ Len(st.hashed) <= Len(st'.hashed)
        /\ \A i \in 1..Len(st.hashed) : st'.hashed[i] = st.hashed[i]
    BY <1>2, <1>5, <1>6, HashedGrows
  <2>3. p \in 1..Len(st'.hashed) /\ p \in 1..Len(log.msg) /\ p <= Len(m)
    BY <1>4, <2>1, <2>2
  <2> QED
    BY <1>4, <2>1, <2>2, <2>3
<1> HIDE DEF m
<1>9. log' = [mac |-> "ghash", overtaken |-> log.overtaken, msg |-> m, tag |-> <<>>]
  BY <1>1 DEF GhashIInv
<1>10. log.overtaken \in BOOLEAN
  BY DEF GhashIInv
<1> QED
  BY <1>4, <1>6, <1>7, <1>8, <1>9, <1>10 DEF GhashIInv

(* update_block goes round the buffer, whatever it holds. *)
LEMMA GhashUpdateBlockStep ==
  ASSUME GhashIInv, Macs!GhashUpdateBlock
  PROVE  GhashIInv'
<1> DEFINE x == Macs!Message(Block)
           m == log.msg \o x
           h == st.hashed
           y == h \o x
           d == [st EXCEPT !.hashed = y]
           b == st.bufLen
           o == log.overtaken
           w == o \/ b > 0
<1>1. log.tag = <<>> /\ log' = [log EXCEPT !.msg = m, !.overtaken = w] /\ st' = d
  BY DEF Macs!GhashUpdateBlock, Macs!Open
<1>2. IsSeq(x) /\ Len(x) = Block /\ Block \in Nat /\ Block > 0
      /\ x[1] = <<"msg", Len(log.msg) + 1>>
  <2>1. Block \in Nat /\ Block > 0 /\ 1 \in 1..Block
    BY ConstantFacts
  <2>2. x = [j \in 1..Block |-> <<"msg", Len(log.msg) + j>>]
    BY DEF Macs!Message
  <2>3. IsSeq(x) /\ Len(x) = Block
    BY <2>1, MessageIsSeq
  <2> HIDE DEF x
  <2>4. x[1] = <<"msg", Len(log.msg) + 1>>
    BY <2>1, <2>2
  <2> QED
    BY <2>1, <2>3, <2>4
<1>3. IsSeq(log.msg) /\ \A j \in 1..Len(log.msg) : log.msg[j] = <<"msg", j>>
  BY DEF GhashIInv
<1>4. /\ IsSeq(m) /\ Len(m) = Len(log.msg) + Block /\ Len(log.msg) \in Nat
      /\ \A j \in 1..Len(m) : m[j] = <<"msg", j>>
      /\ \A j \in 1..Len(log.msg) : m[j] = log.msg[j]
  BY <1>2, <1>3, MessageCounts
<1>5. PICK s : Holds(st, s) /\ Len(s) = Len(log.msg) /\ (~ o => s = log.msg)
  BY DEF GhashIInv
<1>6. PICK T : IsContext(st, T) /\ Fed(st) = s
  BY <1>5 DEF Holds
<1>7. PICK U : x \in Seq(U)
  BY <1>2 DEF IsSeq
<1> HIDE DEF x
<1>8. /\ IsSeq(s) /\ IsSeq(h) /\ Len(h) \in Nat /\ Len(s) = Len(h) + b
      /\ b \in 0..(Block - 1) /\ WholeBlocks(Len(h)) /\ \A i \in 1..Len(h) : s[i] = h[i]
  BY <1>5, HoldsFacts, IsSeqFacts
<1>9. /\ IsSeq(y) /\ Len(y) = Len(h) + Block
      /\ \A i \in 1..(Len(h) + Block) : y[i] = IF i <= Len(h) THEN h[i] ELSE x[i - Len(h)]
  BY <1>2, <1>8, JoinIsSeq
<1>10. y \in Seq(T \cup U) /\ WholeBlocks(Len(y))
  <2>1. h \in Seq(T \cup U) /\ x \in Seq(T \cup U)
    BY <1>6, <1>7 DEF IsContext
  <2>2. y \in Seq(T \cup U)
    BY <2>1, ConcatProperties
  <2>3. WholeBlocks(Len(h) + Block)
    BY <1>8, WholeBlocksOne, WholeBlocksAdd
  <2> QED
    BY <1>9, <2>2, <2>3
<1>11. d = [buffer |-> st.buffer, bufLen |-> b, totalLen |-> st.totalLen, hashed |-> y]
  <2> DEFINE a == st.buffer
             e == st.bufLen
             u == st.totalLen
             g == st.hashed
  <2>1. st = [buffer |-> a, bufLen |-> e, totalLen |-> u, hashed |-> g]
    BY DEF GhashIInv, IsBuffer
  <2>2. d = [st EXCEPT !.hashed = y]
    OBVIOUS
  <2> HIDE DEF a, e, u, g, y, d
  <2>3. d = [buffer |-> a, bufLen |-> e, totalLen |-> u, hashed |-> y]
    BY <2>1, <2>2
  <2> QED
    BY <2>3 DEF a, e, u
<1> HIDE DEF d
<1>12. /\ IsBuffer(d) /\ d.hashed = y /\ d.bufLen = b /\ d.buffer = st.buffer
       /\ d.totalLen = st.totalLen
  BY <1>11 DEF IsBuffer
<1> HIDE DEF y
<1>13. IsContext(d, T \cup U)
  <2>1. st.buffer \in [1..Block -> T \cup U] /\ st.totalLen \in Nat
    BY <1>6 DEF IsContext
  <2> QED
    BY <1>8, <1>10, <1>12, <2>1 DEF IsContext
<1> DEFINE f == Fed(d)
<1>14. Holds(d, f)
  BY <1>13 DEF Holds
<1>15. Len(f) = Len(m)
  <2>1. Len(f) = FedLen(d) /\ FedLen(d) = Len(y) + b
    BY <1>12, <1>13, FedBytes DEF FedLen
  <2> HIDE DEF f, m, h, b
  <2> QED
    BY <1>2, <1>4, <1>5, <1>8, <1>9, <2>1
<1>16. ASSUME ~ w PROVE f = m
  <2>1. b = 0 /\ s = log.msg
    BY <1>5, <1>8, <1>16
  <2>2. h = log.msg
    BY <1>5, <1>8, <2>1, SameSeq
  <2>3. y = m
    BY <2>2 DEF y
  <2>4. Len(m) \in Nat /\ FedLen(d) = Len(m)
    BY <1>4, <1>12, <2>1, <2>3 DEF FedLen
  <2>5. f = [i \in 1..Len(m) |-> m[i]]
    BY <1>12, <2>3, <2>4 DEF Fed
  <2>6. m = [i \in 1..Len(m) |-> m[i]]
    <3>1. m \in Seq(T \cup U)
      BY <1>10, <2>3
    <3> HIDE DEF m
    <3> QED
      BY <3>1
  <2> QED
    BY <2>5, <2>6
<1>17. ASSUME w PROVE \E p \in 1..Len(d.hashed) : p <= Len(m) /\ d.hashed[p] # m[p]
  <2>1. CASE o
    <3>1. PICK p \in 1..Len(h) : p <= Len(log.msg) /\ h[p] # log.msg[p]
      BY <2>1 DEF GhashIInv
    <3>2. p \in 1..(Len(h) + Block) /\ p <= Len(h) /\ p \in 1..Len(log.msg) /\ p <= Len(m)
      BY <1>2, <1>4, <1>8, <3>1
    <3>3. y[p] = h[p] /\ m[p] = log.msg[p]
      BY <1>4, <1>9, <3>2
    <3> QED
      BY <1>9, <1>12, <3>1, <3>2, <3>3
  <2>2. CASE ~ o
    <3> DEFINE p == Len(h) + 1
               l == Len(log.msg) + 1
    <3>1. b > 0 /\ s = log.msg
      BY <1>5, <1>17, <2>2
    <3>2. /\ p \in 1..(Len(h) + Block) /\ ~ (p <= Len(h)) /\ p - Len(h) = 1
          /\ p \in 1..Len(m) /\ p <= Len(m) /\ p # l
      <4> HIDE DEF m, h, b
      <4> QED
        BY <1>2, <1>4, <1>8, <3>1
    <3>3. m[p] = <<"msg", p>>
      <4> HIDE DEF m, p
      <4> QED
        BY <1>4, <3>2
    <3>4. y[p] = <<"msg", l>>
      BY <1>2, <1>9, <3>2
    <3> HIDE DEF p, l, m
    <3>5. y[p] # m[p]
      BY <3>2, <3>3, <3>4
    <3> QED
      BY <1>9, <1>12, <3>2, <3>5
  <2> QED
    BY <2>1, <2>2
<1> HIDE DEF m, f
<1>18. w \in BOOLEAN
  OBVIOUS
<1> HIDE DEF w
<1>19. log' = [mac |-> "ghash", overtaken |-> w, msg |-> m, tag |-> <<>>]
  <2> DEFINE u == log.msg
             g == log.tag
  <2>1. log = [mac |-> "ghash", overtaken |-> o, msg |-> u, tag |-> g] /\ g = <<>>
    BY <1>1 DEF GhashIInv
  <2> HIDE DEF u, g, o
  <2>2. log' = [mac |-> "ghash", overtaken |-> w, msg |-> m, tag |-> g]
    BY <1>1, <2>1
  <2> QED
    BY <2>1, <2>2
<1>20. /\ log'.overtaken = w /\ log'.msg = m /\ log'.tag = <<>>
       /\ log' = [mac |-> "ghash", overtaken |-> log'.overtaken, msg |-> log'.msg, tag |-> log'.tag]
  BY <1>19
<1>21. \E r : Holds(st', r) /\ Len(r) = Len(m) /\ (~ w => r = m)
  BY <1>1, <1>14, <1>15, <1>16
<1> QED
  BY <1>1, <1>4, <1>12, <1>17, <1>18, <1>20, <1>21 DEF GhashIInv

(* A message of q whole blocks and b bytes ends in the block that b asks for. *)
LEMMA RoundedUp ==
  ASSUME NEW q \in Nat, NEW b \in 0..(Block - 1)
  PROVE  ((q * Block + b + Block - 1) \div Block) * Block
           = IF b = 0 THEN q * Block ELSE q * Block + Block
<1>1. Block \in Nat /\ Block > 0
  BY ConstantFacts
<1>2. CASE b = 0
  <2>1. q * Block + b + Block - 1 = q * Block + (Block - 1) /\ Block - 1 \in 0..(Block - 1)
    BY <1>1, <1>2
  <2> QED
    BY <1>2, <2>1, WholeBlocksDiv
<1>3. CASE b # 0
  <2>1. /\ q * Block + b + Block - 1 = (q + 1) * Block + (b - 1) /\ b - 1 \in 0..(Block - 1)
        /\ q + 1 \in Nat /\ (q + 1) * Block = q * Block + Block
    BY <1>1, <1>3
  <2> QED
    BY <1>3, <2>1, WholeBlocksDiv
<1> QED
  BY <1>2, <1>3

(* A context's blocks, and what waits, padded, are what it was fed, padded. *)
Padded(c) == c.hashed \o (IF c.bufLen = 0 THEN <<>>
                          ELSE [i \in 1..Block |-> IF i <= c.bufLen THEN c.buffer[i] ELSE Zero])

LEMMA PaddedIs ==
  ASSUME NEW m, Holds(st, m)
  PROVE  Padded(st) = Macs!ZeroPadded(m)
<1> DEFINE h == st.hashed
           b == st.bufLen
           blk == [i \in 1..Block |-> IF i <= b THEN st.buffer[i] ELSE Zero]
           x == IF b = 0 THEN <<>> ELSE blk
<1>1. Padded(st) = h \o x
  BY DEF Padded
<1>2. /\ IsSeq(m) /\ IsSeq(h) /\ Len(m) = Len(h) + b /\ Len(h) \in Nat
      /\ b \in 0..(Block - 1) /\ WholeBlocks(Len(h))
      /\ \A i \in 1..Len(h) : m[i] = h[i]
      /\ \A i \in 1..b : m[Len(h) + i] = st.buffer[i]
  BY HoldsFacts, IsSeqFacts
<1>3. PICK q \in Nat : Len(h) = q * Block
  BY <1>2 DEF WholeBlocks
<1>4. Block \in Nat /\ Block > 0
  BY ConstantFacts
<1>5. IsSeq(x) /\ Len(x) = IF b = 0 THEN 0 ELSE Block
  <2>1. IsSeq(blk) /\ Len(blk) = Block
    BY <1>4, ListIsSeq
  <2> HIDE DEF blk
  <2> QED
    BY <2>1, EmptyIsSeq
<1>6. b # 0 => \A i \in 1..Block : x[i] = IF i <= b THEN st.buffer[i] ELSE Zero
  OBVIOUS
<1> HIDE DEF x
<1>7. /\ IsSeq(h \o x) /\ Len(h \o x) = Len(h) + Len(x)
      /\ \A i \in 1..(Len(h) + Len(x)) : (h \o x)[i] = IF i <= Len(h) THEN h[i] ELSE x[i - Len(h)]
  BY <1>2, <1>5, JoinIsSeq
<1> DEFINE z == Macs!ZeroPadded(m)
           l == ((Len(m) + Block - 1) \div Block) * Block
<1>8. l = Len(h) + Len(x) /\ Len(h) + Len(x) \in Nat
  <2>1. Len(m) + Block - 1 = q * Block + b + Block - 1
    BY <1>2, <1>3, <1>4
  <2>2. ((q * Block + b + Block - 1) \div Block) * Block
          = IF b = 0 THEN q * Block ELSE q * Block + Block
    BY <1>2, RoundedUp
  <2>3. l = IF b = 0 THEN q * Block ELSE q * Block + Block
    BY <2>1, <2>2, Zenon
  <2> HIDE DEF l, h, b
  <2> QED
    BY <1>2, <1>3, <1>4, <1>5, <2>3
<1>9. z = [i \in 1..(Len(h) + Len(x)) |-> IF i <= Len(m) THEN m[i] ELSE Zero]
  BY <1>8, MacsBuffer DEF Macs!ZeroPadded
<1> HIDE DEF z, l, h, b
<1>10. IsSeq(z) /\ Len(z) = Len(h) + Len(x)
  BY <1>8, <1>9, ListIsSeq
<1>11. ASSUME NEW i \in 1..Len(z) PROVE z[i] = (h \o x)[i]
  <2>1. i \in 1..(Len(h) + Len(x)) /\ i \in Nat /\ i > 0
    BY <1>8, <1>10
  <2>2. CASE i <= Len(h)
    BY <1>2, <1>7, <1>9, <2>1, <2>2
  <2>3. CASE ~ (i <= Len(h))
    <3> DEFINE j == i - Len(h)
    <3>1. b # 0 /\ j \in 1..Block /\ Len(h) + j = i /\ (i <= Len(m) <=> j <= b)
      BY <1>2, <1>5, <2>1, <2>3
    <3>2. (h \o x)[i] = IF j <= b THEN st.buffer[j] ELSE Zero
      BY <1>6, <1>7, <2>1, <2>3, <3>1
    <3> HIDE DEF j
    <3>3. j <= b => m[i] = st.buffer[j]
      BY <1>2, <3>1
    <3> QED
      BY <1>9, <2>1, <3>1, <3>2, <3>3
  <2> QED
    BY <2>2, <2>3
<1>12. h \o x = z
  BY <1>7, <1>10, <1>11, SameSeq
<1> QED
  BY <1>1, <1>12 DEF z

LEMMA GhashFinalizeStep ==
  ASSUME GhashIInv, Macs!GhashFinalize
  PROVE  GhashIInv'
<1> DEFINE m == log.msg
           o == log.overtaken
           v == Padded(st)
           z == Macs!ZeroPadded(m)
<1>1. st' = st /\ log' = [log EXCEPT !.tag = <<v>>]
  BY MacsBuffer DEF Macs!GhashFinalize, Macs!Open, Padded
<1>2. ASSUME ~ o PROVE v = z
  <2>1. Holds(st, m)
    BY <1>2 DEF GhashIInv
  <2> QED
    BY <2>1, PaddedIs
<1>3. ASSUME o PROVE v # z
  <2>1. PICK p \in 1..Len(st.hashed) : p <= Len(m) /\ st.hashed[p] # m[p]
    BY <1>3 DEF GhashIInv
  <2>2. PICK s : Holds(st, s) /\ Len(s) = Len(m)
    BY DEF GhashIInv
  <2>3. v = Macs!ZeroPadded(s)
    BY <2>2, PaddedIs
  <2>4. Len(m) \in Nat /\ Len(st.hashed) \in Nat /\ s[p] = st.hashed[p]
    BY <2>1, <2>2, HoldsFacts, IsSeqFacts DEF GhashIInv
  <2> DEFINE l == ((Len(m) + Block - 1) \div Block) * Block
  <2>5. /\ v = [i \in 1..l |-> IF i <= Len(m) THEN s[i] ELSE Zero]
        /\ z = [i \in 1..l |-> IF i <= Len(m) THEN m[i] ELSE Zero]
    BY <2>2, <2>3, MacsBuffer DEF Macs!ZeroPadded
  <2>6. l \in Nat /\ l >= Len(m)
    <3> DEFINE n == Len(m) + Block - 1
               q == n \div Block
               rest0 == n % Block
               qb == q * Block
    <3>1. Block \in Nat /\ Block > 0 /\ n \in Nat /\ n = Len(m) + (Block - 1)
      BY <2>4, ConstantFacts
    <3> HIDE DEF n
    <3>2. q \in Nat /\ n = Block * q + rest0 /\ rest0 \in 0..(Block - 1)
      BY <3>1, NatDivision
    <3> HIDE DEF q, rest0
    <3>3. n = qb + rest0 /\ qb \in Nat
      BY <3>1, <3>2
    <3> HIDE DEF qb
    <3>4. qb >= Len(m)
      BY <2>4, <3>1, <3>2, <3>3
    <3> QED
      BY <3>3, <3>4 DEF qb, q, n
  <2>7. p \in 1..l
    BY <2>1, <2>4, <2>6
  <2> HIDE DEF l, v, z, m
  <2>8. v[p] = s[p] /\ z[p] = m[p]
    BY <2>1, <2>5, <2>7
  <2> QED
    BY <2>1, <2>4, <2>8
<1>4. v = z <=> ~ o
  BY <1>2, <1>3
<1> HIDE DEF v
<1>5. /\ log' = [mac |-> "ghash", overtaken |-> log'.overtaken, msg |-> log'.msg, tag |-> log'.tag]
      /\ log'.overtaken = log.overtaken /\ log'.msg = log.msg /\ log'.tag = <<v>>
  BY <1>1 DEF GhashIInv
<1> QED
  BY <1>1, <1>4, <1>5 DEF GhashIInv
-------------------------------------------------------------------------------
(* HMAC. *)

(* The bytes of a digest of s. *)
Digest(s, n) == [j \in 1..n |-> <<"dig", <<s, j>>>>]

LEMMA DigestOf ==
  ASSUME NEW n \in Nat
  PROVE  /\ \A s : IsSeq(Digest(s, n)) /\ Len(Digest(s, n)) = n
         /\ \A c, s : Holds(c, s) => Macs!Hash(c, n) = Digest(s, n)
<1>1. \A s : IsSeq(Digest(s, n)) /\ Len(Digest(s, n)) = n
  BY ListIsSeq DEF Digest
<1>2. \A c, s : Holds(c, s) => Macs!Hash(c, n) = Digest(s, n)
  BY MacsBuffer DEF Holds, Macs!Hash, Digest
<1> QED
  BY <1>1, <1>2

LEMMA JoinNothing ==
  ASSUME NEW s, IsSeq(s)
  PROVE  <<>> \o s = s
<1>1. PICK S : s \in Seq(S)
  BY DEF IsSeq
<1> QED
  BY <1>1

LEMMA JoinTwice ==
  ASSUME NEW s, IsSeq(s), NEW t, IsSeq(t), NEW u, IsSeq(u)
  PROVE  (s \o t) \o u = s \o (t \o u)
<1>1. PICK S : s \in Seq(S)
  BY DEF IsSeq
<1>2. PICK T : t \in Seq(T)
  BY DEF IsSeq
<1>3. PICK U : u \in Seq(U)
  BY DEF IsSeq
<1> DEFINE V == S \cup T \cup U
<1>4. s \in Seq(V) /\ t \in Seq(V) /\ u \in Seq(V)
  BY <1>1, <1>2, <1>3
<1> HIDE DEF V
<1> QED
  BY <1>4

LEMMA HoldsOnce ==
  ASSUME NEW s, IsSeq(s)
  PROVE  Holds(Absorb(NewContext, s), s)
<1>1. Holds(Absorb(NewContext, s), <<>> \o s)
  BY HoldsNothing, HoldsMore
<1> QED
  BY <1>1, JoinNothing

(* The block that the key is put in is the one of RFC 2104. *)
LEMMA KeyBlockIsStandard ==
  ASSUME NEW key, IsSeq(key), NEW n \in Nat
  PROVE  LET short == IF Len(key) > Block THEN Digest(key, n) ELSE key
         IN  Macs!KeyBlock(key, n) = [i \in 1..Block |-> IF i <= Len(short) THEN short[i] ELSE Zero]
<1> DEFINE short == IF Len(key) > Block THEN Digest(key, n) ELSE key
<1>1. Macs!Hash(Absorb(NewContext, key), n) = Digest(key, n)
  BY HoldsOnce, DigestOf
<1>2. Macs!KeyBlock(key, n) = Macs!CopyInto(NewContext.buffer, 0, short)
  BY <1>1, MacsBuffer DEF Macs!KeyBlock
<1>3. Len(short) \in Nat
  BY DigestOf, IsSeqFacts
<1> HIDE DEF short
<1>4. NewContext.buffer = [i \in 1..Block |-> Zero]
  BY DEF NewContext
<1> DEFINE f == Macs!CopyInto(NewContext.buffer, 0, short)
<1>5. f = [i \in 1..Block |-> IF 0 < i /\ i <= 0 + Len(short) THEN short[i - 0] ELSE NewContext.buffer[i]]
  BY DEF Macs!CopyInto
<1>6. \A i \in 1..Block : /\ 0 < i /\ i - 0 = i /\ 0 + Len(short) = Len(short)
                          /\ NewContext.buffer[i] = Zero
  BY <1>3, <1>4, ConstantFacts
<1>7. f = [i \in 1..Block |-> IF i <= Len(short) THEN short[i] ELSE Zero]
  BY <1>5, <1>6
<1> QED
  BY <1>2, <1>7 DEF short

(* What the code computes, step by step, is the standard's formula. *)
HmacOf(block, msg, n) ==
  Digest(Macs!Pad("opad", block) \o Digest(Macs!Pad("ipad", block) \o msg, n), n)

LEMMA HmacIsStandard ==
  ASSUME NEW key, IsSeq(key), NEW n \in Nat, NEW msg
  PROVE  Macs!StandardHmac(key, msg, n) = HmacOf(Macs!KeyBlock(key, n), msg, n)
<1> DEFINE short == IF Len(key) > Block THEN Digest(key, n) ELSE key
           K(kind) == [i \in 1..Block |-> <<kind, IF i <= Len(short) THEN short[i] ELSE Zero>>]
           block == Macs!KeyBlock(key, n)
<1>1. Macs!StandardHmac(key, msg, n) = Digest(K("opad") \o Digest(K("ipad") \o msg, n), n)
  BY MacsBuffer DEF Macs!StandardHmac, Digest
<1>2. block = [i \in 1..Block |-> IF i <= Len(short) THEN short[i] ELSE Zero]
  BY KeyBlockIsStandard
<1> HIDE DEF short, block
<1>3. K("opad") = Macs!Pad("opad", block) /\ K("ipad") = Macs!Pad("ipad", block)
  BY <1>2 DEF Macs!Pad
<1> HIDE DEF K
<1> QED
  BY <1>1, <1>3 DEF HmacOf, block

LEMMA PadIsSeq ==
  ASSUME NEW kind, NEW block
  PROVE  IsSeq(Macs!Pad(kind, block))
BY ListIsSeq, ConstantFacts DEF Macs!Pad

HmacIInv ==
  /\ log = [mac |-> "hmac", key |-> log.key, msg |-> log.msg, tag |-> log.tag]
  /\ st = [inner |-> st.inner, opad |-> st.opad, outLen |-> st.outLen]
  /\ IsSeq(log.key) /\ IsSeq(log.msg) /\ st.outLen \in OutLens
  /\ st.opad = Macs!Pad("opad", Macs!KeyBlock(log.key, st.outLen))
  /\ Holds(st.inner, Macs!Pad("ipad", Macs!KeyBlock(log.key, st.outLen)) \o log.msg)
  /\ log.tag = <<>> \/ log.tag = <<Macs!StandardHmac(log.key, log.msg, st.outLen)>>

MacConstants == OutLens \subseteq 1..Block /\ MaxKey \in Nat /\ MaxGhash \in Nat
                /\ MaxHmac \in Nat /\ MaxCmac \in Nat

LEMMA HmacInitial ==
  ASSUME MacConstants, Macs!HmacInit
  PROVE  HmacIInv
<1>1. PICK l \in 0..MaxKey, o \in OutLens :
        /\ st = Macs!HmacNew(Macs!Key(l), o)
        /\ log = [mac |-> "hmac", key |-> Macs!Key(l), msg |-> <<>>, tag |-> <<>>]
  BY DEF Macs!HmacInit
<1> DEFINE key == Macs!Key(l)
           block == Macs!KeyBlock(key, o)
           p == Macs!Pad("ipad", block)
<1>2. IsSeq(key)
  <2>1. l \in Nat
    BY DEF MacConstants
  <2> QED
    BY <2>1, ListIsSeq DEF Macs!Key
<1> HIDE DEF key
<1>3. st = [inner |-> Absorb(NewContext, p), opad |-> Macs!Pad("opad", block), outLen |-> o]
  BY <1>1, MacsBuffer DEF Macs!HmacNew, key
<1>4. log = [mac |-> "hmac", key |-> key, msg |-> <<>>, tag |-> <<>>]
  BY <1>1 DEF key
<1>5. IsSeq(p) /\ Holds(Absorb(NewContext, p), p)
  BY PadIsSeq, HoldsOnce
<1>6. p \o <<>> = p
  BY <1>5 DEF IsSeq
<1> HIDE DEF block, p
<1>7. IsSeq(<<>>)
  BY EmptyIsSeq
<1> QED
  BY <1>2, <1>3, <1>4, <1>5, <1>6, <1>7 DEF HmacIInv, block, p

LEMMA HmacUpdateStep ==
  ASSUME HmacIInv, NEW n \in Nat, Macs!HmacUpdate(n)
  PROVE  HmacIInv'
<1> DEFINE x == Macs!Message(n)
           m == log.msg \o x
           p == Macs!Pad("ipad", Macs!KeyBlock(log.key, st.outLen))
<1>1. /\ log.tag = <<>> /\ st' = [st EXCEPT !.inner = Absorb(st.inner, x)]
      /\ log' = [log EXCEPT !.msg = m]
  BY MacsBuffer DEF Macs!HmacUpdate, Macs!Open
<1>2. IsSeq(x) /\ IsSeq(p) /\ IsSeq(log.msg) /\ Holds(st.inner, p \o log.msg)
  BY MessageIsSeq, PadIsSeq DEF HmacIInv
<1>3. IsSeq(m) /\ (p \o log.msg) \o x = p \o m
  <2> DEFINE y == log.msg
  <2>1. IsSeq(x) /\ IsSeq(p) /\ IsSeq(y)
    BY <1>2
  <2> HIDE DEF x, p, y
  <2>2. IsSeq(y \o x)
    BY <2>1, JoinIsSeq
  <2>3. (p \o y) \o x = p \o (y \o x)
    BY <2>1, JoinTwice
  <2> QED
    BY <2>2, <2>3 DEF y
<1>4. Holds(Absorb(st.inner, x), p \o m)
  BY <1>2, <1>3, HoldsMore
<1> DEFINE a == Absorb(st.inner, x)
<1> HIDE DEF m, a, x
<1>5. st' = [inner |-> a, opad |-> st.opad, outLen |-> st.outLen]
  BY <1>1 DEF HmacIInv, a
<1>6. log' = [mac |-> "hmac", key |-> log.key, msg |-> m, tag |-> <<>>]
  BY <1>1 DEF HmacIInv
<1>7. /\ st'.inner = a /\ st'.opad = st.opad /\ st'.outLen = st.outLen
      /\ log'.key = log.key /\ log'.msg = m /\ log'.tag = <<>>
  BY <1>5, <1>6
<1>8. Holds(a, p \o m)
  BY <1>4 DEF a
<1> QED
  BY <1>3, <1>5, <1>6, <1>7, <1>8 DEF HmacIInv

LEMMA HmacFinalizeStep ==
  ASSUME MacConstants, HmacIInv, Macs!HmacFinalize
  PROVE  HmacIInv'
<1> DEFINE o == st.outLen
           block == Macs!KeyBlock(log.key, o)
           p == Macs!Pad("ipad", block)
           q == Macs!Pad("opad", block)
           inner == Macs!Hash(st.inner, o)
           outer == Absorb(Absorb(NewContext, st.opad), inner)
           t == <<Macs!Hash(outer, o)>>
<1>1. st' = st /\ log' = [log EXCEPT !.tag = t]
  BY MacsBuffer DEF Macs!HmacFinalize, Macs!Open
<1>2. o \in Nat
  BY ConstantFacts DEF HmacIInv, MacConstants
<1>3. inner = Digest(p \o log.msg, o) /\ IsSeq(inner)
  BY <1>2, DigestOf DEF HmacIInv
<1>4. st.opad = q /\ IsSeq(q)
  BY PadIsSeq DEF HmacIInv
<1> HIDE DEF inner
<1>5. Holds(outer, q \o inner)
  BY <1>3, <1>4, HoldsOnce, HoldsMore
<1>6. Macs!Hash(outer, o) = Digest(q \o inner, o)
  <2> HIDE DEF outer, q
  <2> QED
    BY <1>2, <1>5, DigestOf
<1>7. t = <<Macs!StandardHmac(log.key, log.msg, o)>>
  <2>1. IsSeq(log.key)
    BY DEF HmacIInv
  <2>2. Macs!StandardHmac(log.key, log.msg, o) = HmacOf(block, log.msg, o)
    BY <1>2, <2>1, HmacIsStandard
  <2>3. HmacOf(block, log.msg, o) = Digest(q \o inner, o)
    BY <1>3 DEF HmacOf
  <2> QED
    BY <1>6, <2>2, <2>3
<1> HIDE DEF t
<1>8. log' = [mac |-> "hmac", key |-> log.key, msg |-> log.msg, tag |-> t]
  BY <1>1 DEF HmacIInv
<1>9. log'.key = log.key /\ log'.msg = log.msg /\ log'.tag = t
  BY <1>8
<1> QED
  BY <1>1, <1>7, <1>8, <1>9 DEF HmacIInv
-------------------------------------------------------------------------------
(* CMAC. *)

(* The context has been fed s: whole blocks of it are in the state, and the last
   block of it, even a whole one, waits in the buffer. *)
HoldsBack(c, s) ==
  /\ c = [state |-> c.state, buffer |-> c.buffer, bufLen |-> c.bufLen]
  /\ c.buffer = [i \in 1..Block |-> c.buffer[i]]
  /\ IsSeq(s) /\ IsSeq(c.state) /\ WholeBlocks(Len(c.state))
  /\ c.bufLen \in 0..Block /\ Len(s) = Len(c.state) + c.bufLen
  /\ \A i \in 1..Len(c.state) : s[i] = c.state[i]
  /\ \A i \in 1..c.bufLen : s[Len(c.state) + i] = c.buffer[i]

CmacIInv ==
  /\ log = [mac |-> "cmac", run |-> log.run, data |-> log.data, msg |-> log.msg, tag |-> log.tag]
  /\ IsSeq(log.data) /\ HoldsBack(st, log.msg)
  /\ log.data = <<>> \/ log.tag = <<>>
  /\ log.msg # <<>> => st.bufLen > 0
  /\ log.tag = <<>> \/ log.tag = <<Macs!StandardCmac(log.msg)>>

(* An empty buffer, whatever bytes it has left. *)
LEMMA HoldsBackNothing ==
  ASSUME NEW b, b = [i \in 1..Block |-> b[i]]
  PROVE  HoldsBack([state |-> <<>>, buffer |-> b, bufLen |-> 0], <<>>)
<1> DEFINE c == [state |-> <<>>, buffer |-> b, bufLen |-> 0]
<1>1. c.state = <<>> /\ c.buffer = b /\ c.bufLen = 0 /\ 0 \in 0..Block
  BY ConstantFacts
<1>2. c = [state |-> c.state, buffer |-> c.buffer, bufLen |-> c.bufLen]
  BY <1>1
<1> HIDE DEF c
<1>3. HoldsBack(c, <<>>)
  BY <1>1, <1>2, EmptyIsSeq, WholeBlocksOne DEF HoldsBack
<1> QED
  BY <1>3 DEF c

LEMMA CmacFresh ==
  ASSUME NEW r, NEW b, b = [i \in 1..Block |-> b[i]],
         st' = [state |-> <<>>, buffer |-> b, bufLen |-> 0], log' = Macs!CmacLog(r)
  PROVE  CmacIInv'
<1>1. HoldsBack(st', <<>>)
  BY HoldsBackNothing
<1>2. log' = [mac |-> "cmac", run |-> r, data |-> <<>>, msg |-> <<>>, tag |-> <<>>]
  BY DEF Macs!CmacLog
<1> QED
  BY <1>1, <1>2, EmptyIsSeq DEF CmacIInv

(* A full buffer goes to the state. *)
LEMMA FlushHolds ==
  ASSUME NEW c, NEW s, HoldsBack(c, s)
  PROVE  HoldsBack(Macs!Flush(c), s) /\ Macs!Flush(c).bufLen \in 0..(Block - 1)
<1> DEFINE d == Macs!Flush(c)
           x == c.state
           b == c.buffer
           n == c.bufLen
<1>1. /\ c = [state |-> x, buffer |-> b, bufLen |-> n] /\ b = [i \in 1..Block |-> b[i]]
      /\ IsSeq(s) /\ IsSeq(x) /\ WholeBlocks(Len(x)) /\ n \in 0..Block
      /\ Len(s) = Len(x) + n /\ \A i \in 1..Len(x) : s[i] = x[i]
      /\ \A i \in 1..n : s[Len(x) + i] = b[i]
  BY DEF HoldsBack
<1>2. Block \in Nat /\ Block > 0 /\ Len(x) \in Nat
  BY <1>1, ConstantFacts, IsSeqFacts
<1>3. CASE n # Block
  <2>1. d = c
    BY <1>3 DEF Macs!Flush
  <2>2. n \in 0..(Block - 1)
    <3>1. n \in 0..Block
      BY <1>1
    <3> HIDE DEF n
    <3> QED
      BY <1>2, <1>3, <3>1
  <2> QED
    BY <2>1, <2>2
<1>4. CASE n = Block
  <2> DEFINE y == x \o b
  <2>1. d = [c EXCEPT !.state = y, !.bufLen = 0]
    BY <1>4 DEF Macs!Flush
  <2>2. IsSeq(b) /\ Len(b) = Block
    BY <1>1, <1>2, ListIsSeq
  <2> HIDE DEF x, b, n
  <2>3. /\ IsSeq(y) /\ Len(y) = Len(x) + Block
        /\ \A i \in 1..(Len(x) + Block) : y[i] = IF i <= Len(x) THEN x[i] ELSE b[i - Len(x)]
    BY <1>1, <2>2, JoinIsSeq
  <2> HIDE DEF y, d
  <2>4. d = [state |-> y, buffer |-> b, bufLen |-> 0]
    BY <1>1, <2>1
  <2>5. WholeBlocks(Len(y))
    BY <1>1, <2>3, WholeBlocksOne, WholeBlocksAdd
  <2>6. ASSUME NEW i \in 1..Len(y) PROVE s[i] = y[i]
    <3>1. i \in 1..(Len(x) + Block)
      BY <2>3
    <3>2. CASE i <= Len(x)
      <4>1. i \in 1..Len(x)
        BY <1>2, <3>1, <3>2
      <4> QED
        BY <1>1, <2>3, <3>1, <3>2, <4>1, Zenon
    <3>3. CASE ~ (i <= Len(x))
      <4> DEFINE j == i - Len(x)
      <4>1. j \in 1..n /\ Len(x) + j = i
        BY <1>2, <1>4, <3>1, <3>3
      <4> HIDE DEF j
      <4>2. s[i] = b[j]
        BY <1>1, <4>1, Zenon
      <4>3. y[i] = b[j]
        BY <2>3, <3>1, <3>3, Zenon DEF j
      <4> QED
        BY <4>2, <4>3
    <3> QED
      BY <3>2, <3>3
  <2>7. d.state = y /\ d.buffer = b /\ d.bufLen = 0
    BY <2>4
  <2>8. 0 \in 0..Block /\ 0 \in 0..(Block - 1) /\ Len(s) = Len(y) + 0
    <3>1. Len(s) = Len(x) + Block /\ Len(y) = Len(x) + Block
      BY <1>1, <1>4, <2>3, Zenon
    <3> HIDE DEF Holds
    <3> QED
      BY <1>2, <3>1
  <2>9. HoldsBack(d, s)
    <3>1. d = [state |-> d.state, buffer |-> d.buffer, bufLen |-> d.bufLen]
      BY <2>4, <2>7
    <3>2. d.buffer = [i \in 1..Block |-> d.buffer[i]]
      BY <1>1, <2>7
    <3>3. IsSeq(s) /\ IsSeq(d.state) /\ WholeBlocks(Len(d.state))
      BY <1>1, <2>3, <2>5, <2>7
    <3>4. d.bufLen \in 0..Block /\ Len(s) = Len(d.state) + d.bufLen
      BY <2>7, <2>8
    <3>5. \A i \in 1..Len(d.state) : s[i] = d.state[i]
      BY <2>6, <2>7
    <3>6. \A i \in 1..d.bufLen : s[Len(d.state) + i] = d.buffer[i]
      BY <2>7
    <3> QED
      BY <3>1, <3>2, <3>3, <3>4, <3>5, <3>6 DEF HoldsBack
  <2> QED
    BY <2>7, <2>8, <2>9 DEF d
<1> QED
  BY <1>3, <1>4

LEMMA SplitSeq ==
  ASSUME NEW s, IsSeq(s), NEW n \in 0..Len(s)
  PROVE  /\ IsSeq(Take(s, n)) /\ Len(Take(s, n)) = n /\ \A i \in 1..n : Take(s, n)[i] = s[i]
         /\ IsSeq(Drop(s, n))
<1>1. PICK T : s \in Seq(T)
  BY DEF IsSeq
<1> QED
  BY <1>1, TakeDrop DEF IsSeq

(* A turn of update's loop: the buffer takes what fits. *)
LEMMA CopiedHolds ==
  ASSUME NEW c, NEW s, HoldsBack(c, s), c.bufLen < Block, NEW data, IsSeq(data), data # <<>>
  PROVE  LET n == Macs!CopyCount(c, data)
         IN  /\ n \in 0..Len(data) /\ n > 0
             /\ HoldsBack(Macs!Copied(c, data), s \o Take(data, n))
             /\ Macs!Copied(c, data).bufLen = c.bufLen + n
<1> DEFINE n == Macs!CopyCount(c, data)
           d == Macs!Copied(c, data)
           x == c.state
           b == c.buffer
           l == c.bufLen
           t == Take(data, n)
           e == Macs!CopyInto(b, l, t)
           z == s \o t
<1>1. /\ c = [state |-> x, buffer |-> b, bufLen |-> l] /\ b = [i \in 1..Block |-> b[i]]
      /\ IsSeq(s) /\ IsSeq(x) /\ WholeBlocks(Len(x)) /\ l \in 0..Block /\ l < Block
      /\ Len(s) = Len(x) + l /\ \A i \in 1..Len(x) : s[i] = x[i]
      /\ \A i \in 1..l : s[Len(x) + i] = b[i]
  BY DEF HoldsBack
<1>2. Block \in Nat /\ Block > 0 /\ Len(x) \in Nat /\ Len(data) \in Nat /\ Len(data) > 0
  <2>1. Len(data) # 0
    <3> SUFFICES ASSUME Len(data) = 0 PROVE FALSE
      OBVIOUS
    <3>1. IsSeq(<<>>) /\ Len(<<>>) = 0
      BY EmptyIsSeq
    <3>2. Len(data) = Len(<<>>) /\ \A i \in 1..Len(data) : data[i] = <<>>[i]
      BY <3>1
    <3> QED
      BY <3>1, <3>2, SameSeq
  <2>2. Len(x) \in Nat /\ Len(data) \in Nat
    BY <1>1, IsSeqFacts
  <2> QED
    BY <2>1, <2>2, ConstantFacts
<1>3. n \in 0..Len(data) /\ n > 0 /\ l + n \in 0..Block /\ n \in Nat
  <2>1. n = IF Block - l < Len(data) THEN Block - l ELSE Len(data)
    BY DEF Macs!CopyCount
  <2>2. l \in 0..Block /\ l < Block
    BY <1>1
  <2> HIDE DEF n, l
  <2> QED
    BY <1>2, <2>1, <2>2
<1>4. d = [c EXCEPT !.buffer = e, !.bufLen = l + n]
  BY DEF Macs!Copied, Macs!Take, Take
<1>5. IsSeq(t) /\ Len(t) = n
  BY <1>3, SplitSeq
<1>6. e = [i \in 1..Block |-> IF l < i /\ i <= l + n THEN t[i - l] ELSE b[i]]
  BY <1>5 DEF Macs!CopyInto
<1> HIDE DEF x, b, l, n, t, d, e
<1>7. e = [i \in 1..Block |-> e[i]]
  BY <1>6
<1>8. /\ IsSeq(z) /\ Len(z) = Len(s) + n
      /\ \A i \in 1..(Len(s) + n) : z[i] = IF i <= Len(s) THEN s[i] ELSE t[i - Len(s)]
  BY <1>1, <1>5, JoinIsSeq
<1> HIDE DEF z
<1>9. d = [state |-> x, buffer |-> e, bufLen |-> l + n]
  BY <1>1, <1>4
<1>10. d.state = x /\ d.buffer = e /\ d.bufLen = l + n
  BY <1>9
<1> DEFINE v == Len(x)
           w == Len(s)
<1>15. v \in Nat /\ l \in 0..Block /\ n \in Nat /\ w = v + l
  BY <1>1, <1>2, <1>3
<1>16. Len(z) = w + n
  BY <1>8
<1> HIDE DEF v, w
<1>11. Len(z) = v + (l + n)
  BY <1>2, <1>15, <1>16
<1>12. ASSUME NEW i \in 1..Len(x) PROVE z[i] = x[i]
  <2>1. i \in 1..v
    BY DEF v
  <2>2. i \in 1..(w + n) /\ i <= w
    BY <1>2, <1>15, <2>1
  <2> QED
    BY <1>1, <1>8, <2>2 DEF w
<1>13. ASSUME NEW i \in 1..(l + n) PROVE z[v + i] = e[i]
  <2> DEFINE k == v + i
  <2>1. k \in 1..(w + n) /\ i \in 1..Block
    BY <1>2, <1>3, <1>15
  <2>2. z[k] = IF k <= w THEN s[k] ELSE t[k - w]
    BY <1>8, <2>1 DEF w
  <2>3. CASE i <= l
    <3>1. k <= w /\ i \in 1..l /\ ~ (l < i)
      BY <1>2, <1>15, <2>3
    <3>2. s[k] = b[i]
      BY <1>1, <3>1 DEF v
    <3> HIDE DEF k
    <3>3. e[i] = b[i]
      BY <1>6, <2>1, <3>1
    <3> QED
      BY <2>2, <3>1, <3>2, <3>3 DEF k
  <2>4. CASE ~ (i <= l)
    <3>1. ~ (k <= w) /\ k - w = i - l /\ l < i /\ i <= l + n
      BY <1>2, <1>15, <2>4
    <3> HIDE DEF k
    <3>2. e[i] = t[i - l]
      BY <1>6, <2>1, <3>1
    <3> QED
      BY <2>2, <3>1, <3>2 DEF k
  <2> QED
    BY <2>3, <2>4
<1>14. HoldsBack(d, z)
  BY <1>1, <1>3, <1>7, <1>8, <1>9, <1>10, <1>11, <1>12, <1>13 DEF HoldsBack, v
<1> QED
  BY <1>3, <1>10, <1>14 DEF n, d, z, t, l

LEMMA JoinThree ==
  ASSUME NEW a, NEW b, NEW c
  PROVE  <<a>> \o <<b, c>> = <<a, b, c>>
<1> DEFINE s == <<a>>
           t == <<b, c>>
           u == <<a, b, c>>
<1>1. /\ s \in Seq({a, b, c}) /\ t \in Seq({a, b, c}) /\ u \in Seq({a, b, c})
      /\ Len(s) = 1 /\ Len(t) = 2 /\ Len(u) = 3
      /\ s[1] = a /\ t[1] = b /\ t[2] = c /\ u[1] = a /\ u[2] = b /\ u[3] = c
  OBVIOUS
<1> HIDE DEF s, t, u
<1>2. IsSeq(s) /\ IsSeq(t) /\ IsSeq(u)
  BY <1>1 DEF IsSeq
<1>3. /\ IsSeq(s \o t) /\ Len(s \o t) = 3
      /\ \A i \in 1..3 : (s \o t)[i] = IF i <= 1 THEN s[i] ELSE t[i - 1]
  <2>1. /\ IsSeq(s \o t) /\ Len(s \o t) = Len(s) + Len(t)
        /\ \A i \in 1..(Len(s) + Len(t)) :
                (s \o t)[i] = IF i <= Len(s) THEN s[i] ELSE t[i - Len(s)]
    BY <1>2, JoinIsSeq
  <2> QED
    BY <1>1, <2>1
<1>4. \A i \in 1..3 : (s \o t)[i] = u[i]
  BY <1>1, <1>3
<1>5. s \o t = u
  BY <1>1, <1>2, <1>3, <1>4, SameSeq
<1> QED
  BY <1>5 DEF s, t, u

(* The block that waits is the one that the standard enciphers last. *)
LEMMA LastBlockIsStandard ==
  ASSUME NEW c, NEW s, HoldsBack(c, s), s # <<>> => c.bufLen > 0
  PROVE  <<c.state>> \o Macs!LastBlock(c) = Macs!StandardCmac(s)
<1> DEFINE x == c.state
           b == c.buffer
           l == c.bufLen
           v == Len(x)
           w == Len(s)
           at == IF s = <<>> THEN 0 ELSE BulkLen(w - 1)
<1>1. /\ b = [i \in 1..Block |-> b[i]]
      /\ IsSeq(s) /\ IsSeq(x) /\ WholeBlocks(v) /\ l \in 0..Block
      /\ w = v + l /\ \A i \in 1..v : s[i] = x[i]
      /\ \A i \in 1..l : s[v + i] = b[i]
  BY DEF HoldsBack
<1>2. Block \in Nat /\ Block > 0 /\ v \in Nat /\ w \in Nat
  BY <1>1, ConstantFacts, IsSeqFacts
<1>3. s # <<>> => l > 0
  OBVIOUS
<1>4. s = <<>> => w = 0
  BY EmptyIsSeq
<1> HIDE DEF l, v, w
<1>11. w = v + l /\ l \in 0..Block
  BY <1>1
<1>5. at = v
  <2>1. CASE s = <<>>
    <3>1. w = 0
      BY <1>4, <2>1
    <3>2. v = 0
      BY <1>2, <1>11, <3>1
    <3> QED
      BY <2>1, <3>2
  <2>2. CASE s # <<>>
    <3>1. PICK q \in Nat : v = q * Block
      BY <1>1 DEF WholeBlocks
    <3>2. l - 1 \in 0..(Block - 1) /\ w - 1 = v + (l - 1)
      <4>1. l > 0
        BY <1>3, <2>2
      <4> QED
        BY <1>2, <1>11, <4>1
    <3>3. (q * Block + (l - 1)) \div Block = q
      BY <3>2, WholeBlocksDiv
    <3>4. (w - 1) \div Block = q
      BY <3>1, <3>2, <3>3
    <3>5. BulkLen(w - 1) = v
      BY <3>1, <3>4 DEF BulkLen
    <3> QED
      BY <2>2, <3>5
  <2> QED
    BY <2>1, <2>2
<1> DEFINE blk == [i \in 1..Block |-> IF at + i <= w THEN s[at + i]
                                      ELSE IF at + i = w + 1 THEN Macs!OneByte ELSE Zero]
           sub == IF w = at + Block THEN "k1" ELSE "k2"
<1>6. Macs!StandardCmac(s) = <<Take(s, at), blk, sub>>
  BY MacsBuffer DEF Macs!StandardCmac, Macs!BulkLen, BulkLen, Macs!Take, Take, w
<1>7. Take(s, v) = x
  <2>1. v \in 0..w
    BY <1>2, <1>11
  <2>2. IsSeq(Take(s, v)) /\ Len(Take(s, v)) = v /\ \A i \in 1..v : Take(s, v)[i] = s[i]
    BY <1>1, <2>1, SplitSeq DEF w
  <2> DEFINE y == Take(s, v)
  <2> HIDE DEF y
  <2>3. Len(y) = Len(x) /\ \A i \in 1..Len(y) : y[i] = x[i]
    BY <1>1, <2>2 DEF y, v
  <2>4. y = x
    BY <1>1, <2>2, <2>3, SameSeq DEF y
  <2> QED
    BY <2>4 DEF y
<1> HIDE DEF at
<1>8. sub = IF l = Block THEN "k1" ELSE "k2"
  <2>1. w = at + Block <=> l = Block
    BY <1>2, <1>5, <1>11
  <2> QED
    BY <2>1
<1>9. blk = IF l = Block THEN b
            ELSE [i \in 1..Block |-> IF i <= l THEN b[i]
                                     ELSE IF i = l + 1 THEN Macs!OneByte ELSE Zero]
  <2>1. ASSUME NEW i \in 1..Block
        PROVE  /\ (at + i <= w) <=> (i <= l)
               /\ (at + i = w + 1) <=> (i = l + 1)
               /\ i <= l => s[at + i] = b[i]
    <3>1. /\ (v + i <= w) <=> (i <= l)
          /\ (v + i = w + 1) <=> (i = l + 1)
      BY <1>2, <1>11
    <3>2. i <= l => i \in 1..l
      BY <1>2, <1>11
    <3> QED
      BY <1>1, <1>5, <3>1, <3>2
  <2>2. CASE l = Block
    <3>1. \A i \in 1..Block : at + i <= w /\ s[at + i] = b[i]
      BY <2>1, <2>2, <1>2
    <3>2. blk = [i \in 1..Block |-> b[i]]
      BY <3>1
    <3> HIDE DEF b
    <3> QED
      BY <1>1, <2>2, <3>2
  <2>3. CASE l # Block
    <3>1. blk = [i \in 1..Block |-> IF i <= l THEN b[i]
                                     ELSE IF i = l + 1 THEN Macs!OneByte ELSE Zero]
      BY <2>1
    <3> QED
      BY <2>3, <3>1
  <2> QED
    BY <2>2, <2>3
<1> HIDE DEF blk, sub
<1>10. Macs!LastBlock(c) = <<blk, sub>>
  <2>1. Macs!LastBlock(c) =
          IF l = Block THEN <<b, "k1">>
          ELSE <<[i \in 1..Block |-> IF i <= l THEN b[i]
                                     ELSE IF i = l + 1 THEN Macs!OneByte ELSE Zero], "k2">>
    BY MacsBuffer DEF Macs!LastBlock, l
  <2> QED
    BY <1>8, <1>9, <2>1
<1>12. <<x>> \o Macs!LastBlock(c) = <<x, blk, sub>>
  <2> HIDE DEF x
  <2> QED
    BY <1>10, JoinThree
<1> QED
  BY <1>5, <1>6, <1>7, <1>12

LEMMA CmacInitial ==
  ASSUME Macs!CmacInit
  PROVE  CmacIInv
<1> DEFINE b == NewContext.buffer
<1>1. b = [i \in 1..Block |-> b[i]]
  BY DEF NewContext
<1>2. st = [state |-> <<>>, buffer |-> b, bufLen |-> 0]
  BY MacsBuffer DEF Macs!CmacInit, Macs!CmacNew
<1>3. log = [mac |-> "cmac", run |-> 1, data |-> <<>>, msg |-> <<>>, tag |-> <<>>]
  BY DEF Macs!CmacInit, Macs!CmacLog
<1> HIDE DEF b
<1>4. HoldsBack(st, <<>>)
  BY <1>1, <1>2, HoldsBackNothing
<1> QED
  BY <1>3, <1>4, EmptyIsSeq DEF CmacIInv

LEMMA CmacUpdateStep ==
  ASSUME CmacIInv, NEW n \in Nat, Macs!CmacUpdate(n)
  PROVE  CmacIInv'
<1> DEFINE x == [j \in 1..n |-> <<"msg", <<log.run, Len(log.msg) + j>>>>]
<1>1. log.tag = <<>> /\ st' = st /\ log' = [log EXCEPT !.data = x]
  BY DEF Macs!CmacUpdate, Macs!CmacOpen, Macs!Open
<1>2. IsSeq(x)
  BY ListIsSeq
<1> HIDE DEF x
<1>3. log' = [mac |-> "cmac", run |-> log.run, data |-> x, msg |-> log.msg, tag |-> <<>>]
  BY <1>1 DEF CmacIInv
<1>4. log'.run = log.run /\ log'.data = x /\ log'.msg = log.msg /\ log'.tag = <<>>
  BY <1>3
<1> QED
  BY <1>1, <1>2, <1>3, <1>4 DEF CmacIInv

LEMMA CmacTurnStep ==
  ASSUME CmacIInv, Macs!CmacTurn
  PROVE  CmacIInv'
<1> DEFINE c == Macs!Flush(st)
           x == log.data
           n == Macs!CopyCount(c, x)
           d == Macs!Copied(c, x)
           m == log.msg \o Take(x, n)
           y == Drop(x, n)
<1>1. /\ st' = d /\ x # <<>> /\ log' = [log EXCEPT !.data = y, !.msg = m]
  BY MacsBuffer DEF Macs!CmacTurn, Macs!Advance, Macs!Take, Take, Macs!Drop, Drop
<1>2. IsSeq(x) /\ HoldsBack(c, log.msg) /\ c.bufLen \in 0..(Block - 1)
  BY FlushHolds DEF CmacIInv
<1>3. c.bufLen < Block /\ c.bufLen \in Nat
  <2> DEFINE l == c.bufLen
  <2>1. l \in 0..(Block - 1)
    BY <1>2
  <2> HIDE DEF l
  <2>2. l < Block /\ l \in Nat
    BY <2>1, ConstantFacts
  <2> QED
    BY <2>2 DEF l
<1> HIDE DEF c
<1>4. n \in 0..Len(x) /\ n > 0 /\ HoldsBack(d, m) /\ d.bufLen = c.bufLen + n
  BY <1>1, <1>2, <1>3, CopiedHolds
<1> HIDE DEF n, d, m
<1>5. IsSeq(y)
  BY <1>2, <1>4, SplitSeq
<1> HIDE DEF y
<1>6. d.bufLen > 0
  <2> DEFINE l == c.bufLen
             v == Len(x)
  <2>1. l \in Nat /\ v \in Nat /\ n \in 0..v /\ n > 0
    BY <1>2, <1>3, <1>4, IsSeqFacts
  <2> HIDE DEF l, v
  <2>2. l + n > 0
    BY <2>1
  <2> QED
    BY <1>4, <2>2 DEF l
<1>7. log' = [mac |-> "cmac", run |-> log.run, data |-> y, msg |-> m, tag |-> log.tag]
  <2> DEFINE r == log.run
             g == log.tag
             k == log.msg
  <2>1. log = [mac |-> "cmac", run |-> r, data |-> x, msg |-> k, tag |-> g]
    BY DEF CmacIInv
  <2> HIDE DEF r, g, k, x
  <2>2. log' = [mac |-> "cmac", run |-> r, data |-> y, msg |-> m, tag |-> g]
    BY <1>1, <2>1
  <2> QED
    BY <2>2 DEF r, g
<1>8. log'.data = y /\ log'.msg = m /\ log'.tag = <<>>
  BY <1>1, <1>7 DEF CmacIInv
<1> QED
  BY <1>1, <1>4, <1>5, <1>6, <1>7, <1>8 DEF CmacIInv

LEMMA CmacFinalizeStep ==
  ASSUME CmacIInv, Macs!CmacFinalize
  PROVE  CmacIInv'
<1> DEFINE t == <<<<st.state>> \o Macs!LastBlock(st)>>
<1>1. /\ log.data = <<>> /\ st' = st /\ log' = [log EXCEPT !.tag = t]
  BY DEF Macs!CmacFinalize, Macs!CmacOpen, Macs!Open
<1>2. <<st.state>> \o Macs!LastBlock(st) = Macs!StandardCmac(log.msg)
  BY LastBlockIsStandard DEF CmacIInv
<1>3. t = <<Macs!StandardCmac(log.msg)>>
  BY <1>2
<1> HIDE DEF t
<1>4. log' = [mac |-> "cmac", run |-> log.run, data |-> log.data, msg |-> log.msg, tag |-> t]
  BY <1>1 DEF CmacIInv
<1>5. log'.run = log.run /\ log'.data = log.data /\ log'.msg = log.msg /\ log'.tag = t
  BY <1>4
<1> QED
  BY <1>1, <1>3, <1>4, <1>5 DEF CmacIInv

LEMMA CmacResetStep ==
  ASSUME CmacIInv, Macs!CmacReset
  PROVE  CmacIInv'
<1> DEFINE b == st.buffer
<1>1. /\ st = [state |-> st.state, buffer |-> b, bufLen |-> st.bufLen]
      /\ b = [i \in 1..Block |-> b[i]]
  BY DEF CmacIInv, HoldsBack
<1> HIDE DEF b
<1>2. /\ st' = [st EXCEPT !.state = <<>>, !.bufLen = 0]
      /\ log' = Macs!CmacLog(log.run + 1)
  BY DEF Macs!CmacReset
<1>3. st' = [state |-> <<>>, buffer |-> b, bufLen |-> 0]
  <2> DEFINE x == st.state
             l == st.bufLen
  <2>1. st = [state |-> x, buffer |-> b, bufLen |-> l]
    BY <1>1
  <2> HIDE DEF x, l
  <2> QED
    BY <1>2, <2>1
<1> QED
  BY <1>1, <1>2, <1>3, CmacFresh

LEMMA CmacCloneStep ==
  ASSUME Macs!CmacClone
  PROVE  CmacIInv'
<1> DEFINE b == NewContext.buffer
<1>1. b = [i \in 1..Block |-> b[i]]
  BY DEF NewContext
<1>2. /\ st' = [state |-> <<>>, buffer |-> b, bufLen |-> 0]
      /\ log' = Macs!CmacLog(log.run + 1)
  BY MacsBuffer DEF Macs!CmacClone, Macs!CmacNew
<1> HIDE DEF b
<1> QED
  BY <1>1, <1>2, CmacFresh
-------------------------------------------------------------------------------
(* One of the three. *)

MacIInv == \/ log.mac = "ghash" /\ GhashIInv
           \/ log.mac = "hmac" /\ HmacIInv
           \/ log.mac = "cmac" /\ CmacIInv

LEMMA MacConstantsHold == MacConstants
  BY SymmetricAssumption DEF MacConstants, Macs!BlockMacsParameters

LEMMA MacInitial ==
  ASSUME MacConstants, Macs!Init
  PROVE  MacIInv
<1>1. CASE Macs!GhashInit
  BY <1>1, GhashInitial DEF MacIInv, GhashIInv
<1>2. CASE Macs!HmacInit
  BY <1>2, HmacInitial DEF MacIInv, HmacIInv
<1>3. CASE Macs!CmacInit
  BY <1>3, CmacInitial DEF MacIInv, CmacIInv
<1> QED
  BY <1>1, <1>2, <1>3 DEF Macs!Init

LEMMA MacStep ==
  ASSUME MacConstants, MacIInv, Macs!Next
  PROVE  MacIInv'
<1>1. Len(log.msg) \in Nat
  <2>1. GhashIInv => IsSeq(log.msg)
    BY DEF GhashIInv
  <2>2. HmacIInv => IsSeq(log.msg)
    BY DEF HmacIInv
  <2>3. CmacIInv => IsSeq(log.msg)
    BY DEF CmacIInv, HoldsBack
  <2> QED
    BY <2>1, <2>2, <2>3, IsSeqFacts DEF MacIInv
<1>2. ASSUME NEW n, n \in 1..(MaxGhash - Len(log.msg)) \/ n \in 1..(MaxHmac - Len(log.msg))
                      \/ n \in 1..(MaxCmac - Len(log.msg))
      PROVE  n \in Nat
  BY <1>1, <1>2 DEF MacConstants
<1>3. GhashIInv' => MacIInv'
  BY DEF MacIInv, GhashIInv
<1>4. HmacIInv' => MacIInv'
  BY DEF MacIInv, HmacIInv
<1>5. CmacIInv' => MacIInv'
  BY DEF MacIInv, CmacIInv
<1>6. /\ log.mac = "ghash" => GhashIInv
      /\ log.mac = "hmac" => HmacIInv
      /\ log.mac = "cmac" => CmacIInv
  BY DEF MacIInv
<1>7. ASSUME NEW n \in 1..(MaxGhash - Len(log.msg)), Macs!GhashUpdate(n) PROVE MacIInv'
  <2>1. GhashIInv /\ n \in Nat
    BY <1>2, <1>6, <1>7 DEF Macs!GhashUpdate, Macs!Open
  <2> QED
    BY <1>3, <1>7, <2>1, GhashUpdateStep
<1>8. ASSUME Macs!GhashUpdateBlock PROVE MacIInv'
  BY <1>3, <1>6, <1>8, GhashUpdateBlockStep DEF Macs!GhashUpdateBlock, Macs!Open
<1>9. ASSUME Macs!GhashFinalize PROVE MacIInv'
  BY <1>3, <1>6, <1>9, GhashFinalizeStep DEF Macs!GhashFinalize, Macs!Open
<1>10. ASSUME NEW n \in 1..(MaxHmac - Len(log.msg)), Macs!HmacUpdate(n) PROVE MacIInv'
  <2>1. HmacIInv /\ n \in Nat
    BY <1>2, <1>6, <1>10 DEF Macs!HmacUpdate, Macs!Open
  <2> QED
    BY <1>4, <1>10, <2>1, HmacUpdateStep
<1>11. ASSUME Macs!HmacFinalize PROVE MacIInv'
  BY <1>4, <1>6, <1>11, HmacFinalizeStep DEF Macs!HmacFinalize, Macs!Open
<1>12. ASSUME NEW n \in 1..(MaxCmac - Len(log.msg)), Macs!CmacUpdate(n) PROVE MacIInv'
  <2>1. CmacIInv /\ n \in Nat
    BY <1>2, <1>6, <1>12 DEF Macs!CmacUpdate, Macs!CmacOpen, Macs!Open
  <2> QED
    BY <1>5, <1>12, <2>1, CmacUpdateStep
<1>13. ASSUME Macs!CmacTurn PROVE MacIInv'
  BY <1>5, <1>6, <1>13, CmacTurnStep DEF Macs!CmacTurn
<1>14. ASSUME Macs!CmacFinalize PROVE MacIInv'
  BY <1>5, <1>6, <1>14, CmacFinalizeStep DEF Macs!CmacFinalize, Macs!CmacOpen, Macs!Open
<1>15. ASSUME Macs!CmacReset PROVE MacIInv'
  BY <1>5, <1>6, <1>15, CmacResetStep DEF Macs!CmacReset, Macs!CmacOpen, Macs!Open
<1>16. ASSUME Macs!CmacClone PROVE MacIInv'
  BY <1>5, <1>16, CmacCloneStep
<1> QED
  BY <1>7, <1>8, <1>9, <1>10, <1>11, <1>12, <1>13, <1>14, <1>15, <1>16, MacsBuffer DEF Macs!Next

LEMMA MacIInvImplies ==
  ASSUME MacConstants, MacIInv
  PROVE  Macs!TagIsStandard /\ Macs!TypeOK
<1>1. Block \in Nat /\ Block > 0
  BY ConstantFacts
<1>2. CASE log.mac = "ghash" /\ GhashIInv
  <2>1. Macs!Standard = Macs!ZeroPadded(log.msg)
    BY <1>2 DEF Macs!Standard
  <2>2. st.bufLen \in 0..(Block - 1)
    BY <1>2, HoldsFacts DEF GhashIInv
  <2>3. Macs!Overtaken <=> log.overtaken
    BY <1>2 DEF Macs!Overtaken, GhashIInv
  <2>4. log.tag # <<>> => (log.tag = <<Macs!ZeroPadded(log.msg)>> <=> ~ log.overtaken)
    <3>1. log.tag = <<>> \/ \E v : log.tag = <<v>> /\ (v = Macs!ZeroPadded(log.msg) <=> ~ log.overtaken)
      BY <1>2 DEF GhashIInv
    <3> QED
      BY <3>1
  <2> QED
    BY <1>2, <2>1, <2>2, <2>3, <2>4 DEF Macs!TagIsStandard, Macs!TypeOK
<1>3. CASE log.mac = "hmac" /\ HmacIInv
  <2>1. Macs!Standard = Macs!StandardHmac(log.key, log.msg, st.outLen)
    BY <1>3 DEF Macs!Standard
  <2>2. st.inner.bufLen \in 0..(Block - 1) /\ st.outLen \in OutLens
    BY <1>3, HoldsFacts DEF HmacIInv
  <2> QED
    BY <1>3, <2>1, <2>2 DEF Macs!TagIsStandard, Macs!Overtaken, Macs!TypeOK, HmacIInv
<1>4. CASE log.mac = "cmac" /\ CmacIInv
  <2>1. Macs!Standard = Macs!StandardCmac(log.msg)
    BY <1>4 DEF Macs!Standard
  <2>2. st.bufLen \in 0..Block /\ (log.msg # <<>> => st.bufLen > 0)
    BY <1>4 DEF CmacIInv, HoldsBack
  <2> QED
    BY <1>4, <2>1, <2>2 DEF Macs!TagIsStandard, Macs!Overtaken, Macs!TypeOK, CmacIInv
<1> QED
  BY <1>2, <1>3, <1>4 DEF MacIInv

MacsIInv == routine = "macs" => MacIInv

LEMMA MacsInvariant == SymmetricSpec => []MacsIInv
<1>1. MacConstants
  BY MacConstantsHold
<1>2. SymmetricInit => MacsIInv
  BY <1>1, MacInitial DEF SymmetricInit, MacsIInv
<1>3. MacsIInv /\ [SymmetricNext]_symmetricVars => MacsIInv'
  <2> SUFFICES ASSUME MacsIInv, [SymmetricNext]_symmetricVars, routine' = "macs"
               PROVE  MacIInv'
    BY DEF MacsIInv
  <2>1. ASSUME SymmetricNext PROVE MacIInv'
    <3>1. routine = "macs" /\ Macs!Next
      BY <2>1 DEF SymmetricNext
    <3>2. MacIInv
      BY <3>1 DEF MacsIInv
    <3> QED
      BY <1>1, <3>1, <3>2, MacStep
  <2>2. ASSUME UNCHANGED symmetricVars PROVE MacIInv'
    <3>1. routine' = routine /\ st' = st /\ log' = log
      BY <2>2 DEF symmetricVars
    <3>2. MacIInv
      BY <3>1 DEF MacsIInv
    <3> QED
      BY <3>1, <3>2 DEF MacIInv, GhashIInv, HmacIInv, CmacIInv
  <2> QED
    BY <2>1, <2>2
<1> QED
  BY <1>2, <1>3, PTL DEF SymmetricSpec

(* GHASH, HMAC and CMAC give the tag of their standard for every length of block,
   key and message, however the message is cut into calls, and CMAC also after a
   reset and in a clone; but GHASH gives another one as soon as a call of
   update_block has overtaken bytes of a block that was begun.  (Poly1305 is only model-checked.) *)
THEOREM TagsAreStandard == SymmetricSpec => [](routine # "poly" => MacsAreStandard)
<1>1. MacsIInv => (routine # "poly" => MacsAreStandard)
  BY MacConstantsHold, MacIInvImplies DEF MacsIInv, MacsAreStandard
<1> QED
  BY <1>1, MacsInvariant, PTL
-------------------------------------------------------------------------------
(* Types. *)

RestsIInv == routine \in {"sha512", "core"} => st = <<>> /\ log = <<>>

LEMMA RestsInvariant == SymmetricSpec => []RestsIInv
<1>1. SymmetricInit => RestsIInv
  BY DEF SymmetricInit, RestsIInv
<1>2. RestsIInv /\ [SymmetricNext]_symmetricVars => RestsIInv'
  BY DEF RestsIInv, SymmetricNext, symmetricVars
<1> QED
  BY <1>1, <1>2, PTL DEF SymmetricSpec

(* Positions stay within their blocks, lengths fit, and no result is another one
   than those of the code, for all constants.  (The limbs of Poly1305 are only
   model-checked.) *)
THEOREM SymmetricTypeCorrect == SymmetricSpec => [](routine # "poly" => SymmetricTypeOK)
<1> DEFINE SpongeInv == routine = "sponge" => SpongeIInv
           Known == routine \in {"sha512", "core", "sponge", "stream", "cbc", "macs", "poly", "aead"}
<1>1. SymmetricSpec => []Known
  <2>1. SymmetricInit => Known
    BY DEF SymmetricInit
  <2>2. Known /\ [SymmetricNext]_symmetricVars => Known'
    BY DEF SymmetricNext, symmetricVars
  <2> QED
    BY <2>1, <2>2, PTL DEF SymmetricSpec
<1>2. RestsIInv /\ SpongeInv /\ StreamsIInv /\ MacsIInv /\ SealIInv /\ Known
        => (routine # "poly" => SymmetricTypeOK)
  <2> SUFFICES ASSUME RestsIInv, SpongeInv, StreamsIInv, MacsIInv, SealIInv, Known,
                      routine # "poly"
               PROVE  SymmetricTypeOK
    OBVIOUS
  <2>1. CASE routine \in {"sha512", "core"}
    BY <2>1 DEF RestsIInv, SymmetricTypeOK
  <2>2. CASE routine = "sponge"
    <3>1. SpongeIInv
      BY <2>2
    <3>2. Sponge!TypeOK
      BY <3>1 DEF SpongeIInv, SpongeTyped, Absorbing, Sponge!TypeOK
    <3> QED
      BY <2>2, <3>2 DEF SymmetricTypeOK
  <2>3. CASE routine = "stream"
    <3>1. StreamIInv
      BY <2>3 DEF StreamsIInv
    <3>2. st \in [cipher : {"AesCtr", "ChaCha20"}, counter : CBlock, keystream : CBlock,
                  pos : 0..B]
      BY <3>1 DEF StreamIInv, StreamAt
    <3>3. log.todo \in 0..MaxStream
      <4>1. log.todo \in Nat /\ log.todo <= MaxStream
        BY <3>1 DEF StreamIInv
      <4>2. MaxStream \in Nat
        BY SymmetricAssumption DEF Stream!KeystreamParameters
      <4> QED
        BY <4>1, <4>2
    <3>4. Stream!TypeOK
      BY <3>2, <3>3 DEF Stream!TypeOK, CBlock, Digit
    <3> QED
      BY <2>3, <3>4 DEF SymmetricTypeOK
  <2>4. CASE routine = "cbc"
    BY <2>4 DEF StreamsIInv, CbcIInv, Stream!CbcTypeOK, SymmetricTypeOK
  <2>5. CASE routine = "macs"
    BY <2>5, MacConstantsHold, MacIInvImplies DEF MacsIInv, SymmetricTypeOK
  <2>6. CASE routine = "aead"
    BY <2>6 DEF SealIInv, AeadIInv, AeadTyped, Seal!TypeOK, SymmetricTypeOK
  <2> QED
    BY <2>1, <2>2, <2>3, <2>4, <2>5, <2>6
<1> QED
  BY <1>1, <1>2, RestsInvariant, SpongeInvariant, StreamsInvariant, MacsInvariant,
     SealInvariant, PTL
===============================================================================
