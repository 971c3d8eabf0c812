# A verification of mcu-crypto-asm in TLA+

`mcu-crypto-asm` is a `no_std` Rust library of cryptographic primitives for microcontrollers. It keeps
nothing between calls except in the objects it hands to its caller (hashers, ciphers, MAC states), starts no
thread, holds no lock and writes to no store. What can go wrong is of another kind: a long sequence of legal
calls that leaves a buffer in a place nobody tested; a carry that happens for one product in 2^190; a special
case of a point formula that a ladder meets for one scalar; a retry loop that loses what it made; checks in
an order that nobody wrote down; sums of coefficients that nothing reduces. This project models the Rust code of
the portable path, and that of P-256 on Cortex-M4, checks it with TLC on small instances where these
cases do happen, and proves part of it for all sizes with TLAPS.

Contents: [inventory](#1-inventory), [modules and code](#2-modules-and-code), [runs](#3-runs),
[fairness and deadlock](#4-fairness-and-deadlock), [proofs](#5-proofs),
[disagreements found](#6-disagreements-between-the-code-and-its-comments),
[what is not modelled](#7-what-is-not-modelled), [plan](#8-plan).

## 1. Inventory

All paths are under `src/`. "State" is what survives a call.

| Component | State | Operations | What makes it correct |
|---|---|---|---|
| Streaming SHA-512/384, `src/sha512.rs` | buffer, fill count, length, chaining value | `update`, `finalize` of `Sha512`, `Sha384`, `Sha512Core` | the digest does not depend on the cuts; the padding is FIPS 180-4's; the padding loop ends |
| Keccak sponge, `src/keccak.rs` | lanes, position, rate | `absorb`, `finalize_and_squeeze` | pad bytes land right at every length; output is one stream however it is asked for |
| Keystream ciphers, `src/aes.rs` (`AesCtr`), `src/chacha20.rs` | counter, keystream block, position | `apply_keystream` | no byte of keystream used twice or skipped, bulk path and counter wrap included |
| MACs: CMAC (`src/aes.rs`), GHASH (`src/ghash.rs`), Poly1305 (`src/poly1305.rs`), HMAC (`src/sha512.rs`) | partial block, accumulator; keys | `new`, `update`, `finalize`, `reset`, `clone` | the standard's tag for every cut; held-back last block; full reduction mod 2^130 - 5 |
| AES modes: GCM, CCM, CBC, ECB (`src/aes.rs`, drivers in `src/embassy.rs`) | key; CBC's chain | `encrypt`, `decrypt` | accept what was sent and nothing else; GCM releases nothing unauthenticated; blocks of one nonce never collide |
| Word arithmetic, `src/backend/portable.rs` | none | `mul_mont`, `add_mod`, `sub_mod`, `div2_n` | results below p, right mod p, no carry lost |
| NIST curve points, `src/point.rs`, `src/fe.rs` | none | point formulas in two coordinate systems, conversions, decoding, `mul_base`, `mul_scalar`, `lincomb` | every special case of an addition; recodings keep the value and stay in their tables; loops end |
| Inversions and roots, `src/fe.rs`, `src/scalar.rs`, others | none | addition chains, windows, square-and-multiply | the exponent is the one intended, at the real size |
| ECDH, `src/ecdh.rs` | none | key derivation (two encodings), `shared_secret` | both parties agree; no invalid key is accepted; on refusal nothing is written |
| ECDSA, `src/ecdsa.rs`, `src/scalar.rs` | none | `sign`, `verify` | `verify` is FIPS 186-4's predicate, r + n included |
| ECC drivers, `src/embassy.rs` | none | `P256Ecdsa`/`P384Ecdsa` `sign` (draw, retry, low s, wipe), `verify` (error mapping) | returns a low-s signature if any of eight nonces works, wipes the nonce on every way out |
| RSA public operation, `src/rsa.rs` | none | `modexp_public` on two builds | base^e mod m on both |
| secp256k1, `src/secp256k1.rs` | none | field (column products, reduction by folding), complete addition, ladder, SEC1 encodings, `ecdh` | no carry of a fold is lost; addition is complete; refuses what is not a point |
| Curve25519 field, `src/curve25519/portable.rs` | none | 51-bit limbs: `add`, `sub`, `mul`, `to_bytes` | limbs never borrow or overflow; canonical result |
| X25519, `src/curve25519/x25519.rs`, `portable.rs` | none | `public_key`, `x25519` | delayed swap, masking, clamping |
| Ed25519, `src/curve25519/ed25519.rs` | none | scalars, points, `ed25519_sign`, `ed25519_verify` | a signature verifies; what verifies is RFC 8032's, with the extra refusals |
| P-256 on Cortex-M4, `src/backend/cortex_m4/p256.rs` | none | fixed-base and variable-base products, `verify`'s ladder, `mod_n_inv`, key derivation, decoding, ECDH, ECDSA | the same results as the portable path, by other recodings; enough division steps; no addition meets a case the assembly does not take |
| ML-KEM arithmetic, `src/mlkem.rs` | a polynomial of 256 coefficients of 16 bits | `ntt`, `invntt`, `basemul`, `basemul_acc`, `add`, `sub`, `reduce`, bytes, `mul_ring` | no lost carry in any sum a client may form; each operation is right mod q |
| ML-DSA arithmetic, `src/mldsa.rs` | a polynomial of 256 coefficients of 32 bits | `pointwise_mont`, `pointwise_acc_mont`, `add`, `sub`, `reduce32`, `caddq`, `mul_ring` | how many sums fit before a reduction, and what they are then mod q |
| AES, SHA-512, Keccak, ChaCha20 cores; assembly backends; generated tables; crate root; tests; third-party code | - | - | section 7 |

Interaction is by call only, in one thread: drivers (`embassy.rs`) call schemes (`ecdsa`, `ecdh`, `x25519`,
`ed25519`, `aes`), schemes call points and scalars, these call fields, and fields call word arithmetic or
assembly. Callers interact with the library through the order and the sizes of their calls, and with each
other through the messages that carry keys, signatures and ciphertexts: those arrive changed.

The behaviours that are hard here: sequences of calls with every cut of the data; two parties and anything
that arrives in place of the peer's bytes; retry with a bounded number of draws; one check of several
failing; carries, borrows and special cases at boundaries; nested loops that move their index in both
directions; coefficients that only the caller reduces. There is no concurrency, no crash recovery and no time-out to model.
`PROJECT.json` lists each hazard at its line with the properties that cover it.

## 2. Modules and code

A module for one component states its variables, `Init`, one action per operation or per turn of a loop, and
`Next`. An `MC...` module composes components that a client uses one at a time, gives the instance its values and
names the properties. (The parts of such a composition share no state in the code; the composition is a way
of asking one question of several machines, and variables a part does not use are constant.)

**Hashing.** `BlockBuffer` is the absorption loop that the SHA-512 family, GHASH and Poly1305 share in shape:
fill the partial block, compress whole blocks straight from the input, keep the tail. A context is a record
of buffer, fill count, total length and what was compressed. `HashSpec` is the abstract promise, with no buffer in it:
*finalize compresses the padded message*. `Sha512` has the two hashers of `sha512.rs` as two machines on the
same variables: `Sha512`/`Sha384`, one action per public method, and `Sha512Core`, whose padding is a loop of one-byte
updates with one step per turn. Both implement `HashSpec`: `ImplementsHashSpec` is the refinement with
`length <- ctx.totalLen` and `padded <- digest`.

**Symmetric.** `Keccak`, `Keystream` (AES-CTR and ChaCha20 on `CounterBlock`, and CBC, which chains through the same
byte tokens), `BlockMacs` (GHASH and HMAC, on `BlockBuffer`, and CMAC with its own loop), `Poly1305` (its limb arithmetic is exact),
`Aead` (GCM and CCM: send, change, receive, and call again on the buffer that a failed call left); composed with the hashers by `MCSymmetric`. Block ciphers, permutations and
the GHASH product are ideal: a result is represented by the inputs it is a function of, so that two
results are equal exactly when their inputs are. A byte that was XORed is the set of the tokens in it, so that XOR is
symmetric difference. Two things are the caller's choice and part of the models: `update_block` of GHASH goes round the
buffer whatever waits there, and `log.overtaken` remembers that a block went past waiting bytes, since then and only then is the tag of
another message; and after a failure `Retry` calls `decrypt` again on the same buffer, with what was used before or with
what was sent. `past` keeps what arrived first and `Spent`, what the failed calls did to it. GCM has erased the only copy of the ciphertext,
so no retry succeeds; CCM has deciphered it, so that a second failure under the same nonce enciphers it again.

**Number fields.** `Montgomery` (`backend/portable.rs`, one step per word of `mul_mont`), `ModExp` (`rsa.rs`, both
builds), `FermatChains` (ten inversions and roots, one step per squaring or product), `Solinas` and `Comba`
(`secp256k1.rs`), `EdReduction` on `EdScalar` (Ed25519's scalars), `Fe51`; composed by `MCModular`. A slice of words
is the number it holds; each carry, borrow and conditional subtraction is kept. The assembly path of `ModExp` has the two ways in which
`bignum_mont_redc` ends (`asm/cortex_m_bignum.S`): a modulus whose top bit is set is subtracted on a carry and only then, so that
the accumulator may be the modulus or more (`Limit`), until `bignum_submod` brings it below in the return; any other modulus is
subtracted from what is not below it. In `FermatChains` a power of
the input is the set of one bits of its exponent, which makes the real sizes (up to 384 bits) checkable.

**Lattices.** `RingProduct` is `mul_ring` of both schemes, which is the same code with accumulators of 32 and of 64 bits: a turn
of the outer loop is a step, and a sum that does not fit ends the call. `MlDsa` is a client that keeps applying operations
to one coefficient (every portable operation but `mul_ring` is pointwise, and `ntt` and `invntt_tomont` do
nothing); a history variable counts how many numbers below q were summed since the last reduction. `MlKem` has two
machines: the transforms, a step for each block of a layer, with the source's tables and 16-bit
wrap-around; and a client that accumulates products, adds, reduces and encodes one pair of coefficients. Beside the
coefficients runs `kemVal`, the same computation in the integers modulo q. All are part of `MCModular`.

**Points and ladders.** `Curve` states the formulas of `point.rs` (both coordinate systems, decoding,
encodings) as constant expressions; `PointArith` applies them in any order. `Comb`, `MulScalar`, `Slide` and
`Lincomb` are `mul_base`, `mul_scalar`, `slide` and `lincomb`, one step per turn; `Koblitz` and `X25519` (on
`PrimeField`) are the formulas of secp256k1 and Curve25519, and `BitLadder` their ladders. `CortexM4` has what a
Cortex-M4 does for P-256 instead: the fixed-base product with its signed columns, the variable-base product and
`verify`'s joint ladder (both on `Slide`, which `slide_257` repeats), and the inverse by division steps.
`MCLadders` composes these. The ladders over recoded digits (`MulScalar`, `Lincomb`, `CortexM4`) represent a point by the
multiple that it is, since `PointArith` checks the additions; the comb and the bit ladders use the real formulas. The
additions of Cortex-M4 are assembly (`asm/cortex_m4_p256.S`), and modelled by what they compute: a second operand
at infinity gives `Broken`, which no later step repairs.

**Schemes.** `KeyAgreement`: two parties, each of which derives a key and takes whatever arrives, under ECDH on
a NIST curve (each call by the portable or by the Cortex-M4 build), secp256k1 or X25519; it is its own instance.
`Ecdsa`, on the functions of `ecdsa.rs` that end `Curve` (again by either build), and `Ed25519` on `EdScalar`: a signer, and a verifier who is given the
signer's output, anybody's key and any pair that fits the buffers. `Driver` is the signing loop and error mapping of
`embassy.rs` on top of the same functions. `MCSignatures` composes the three.

`PROJECT.json` ("map") gives, for every definition, the lines it stands for.

## 3. Runs

Each bound is small enough for an exhaustive search and chosen so that the special cases occur; most of
them occur at the real size too rarely for a test to meet.

| Run | Question | Instance, and why it is enough |
|---|---|---|
| `symmetric` | Does any way of cutting a message lose, repeat or reorder a byte, or leave a stale one in the padding of SHA-512? Does the padding loop, left on an equality, end? Do sponge, keystream, MACs and CBC give the standard's result for every cut? Do GCM and CCM accept only what was sent, and when does a call succeed after others failed on the same buffer? | SHA-512: blocks of 6 bytes, length field of 2, up to 26 bytes, four blocks and a bit. Every combination of a partial block, some bulk blocks and a tail occurs, both padding cases, and every fill count at the start of the loop. Proved for all sizes (section 5). The rest: rates 2, 3 and 4; blocks of 8 digits of radix 4, counters that start before every kind of wrap; MACs on blocks of 6 bytes; CMAC over three messages with resets and clones; HMAC keys shorter than, equal to and longer than a block; Poly1305 with three limbs of 4 bits, on keys that make the accumulator end at p and above; lengths at the limits of CCM's length field and of the two header forms; four calls of `decrypt` on one buffer, in which two CCM failures undo each other and the third call succeeds, and failures under two nonces mix. The keys of Poly1305 are not clamped, which only widens what is tried. |
| `modular` | Is every field operation right mod p, reduced, and without a lost carry? Is `modexp_public` right on both builds? How many sums of coefficients fit, and are they right mod q? | Montgomery: three words of two bits, moduli 3, 9, 35, 61 and 63 (small, and filling the top word), all operands. ModExp: two words of four bits, every exponent of at most three two-bit bytes, moduli even, 0 and 1 too, below and above half of R (accumulators at or above the modulus occur on the assembly path). Solinas: p = 64 - 7, where the last carry of the second fold does occur. Comba: all columns of three words. EdReduction: 263 with five words of two bits. Fe51: three limbs of seven bits modulo 2^21 - 2, with corner limbs and chains of sums, differences and products. The chains are at their real size. `mul_ring`: three coefficients modulo 17, with sums that may just fill the accumulator (3 * 16^2 = 768). ML-DSA: words of 11 bits, q = 241, at most five sums of coefficients, so that overflow does happen. ML-KEM: the real size and tables; three polynomials through the transforms; from five pairs of extreme and of ordinary coefficients, up to 16 products accumulated on two slots (more than the fourteen that always fit), and two operations that reduce, in a row. |
| `ladders` | Are point additions right for every pair in every representation? Do recodings keep their value and stay in their arrays? Are the results the multiples and the inverses; do the loops end? | y^2 = x^3 - 3x + 15 over 23 elements, 17 points, every Z. Comb: two tables, blocks of three bits, scalars over all 24 bits. `mul_scalar`: every 12-bit scalar below 4093; `lincomb`: every nine-bit k1 and five k2 below 509. secp256k1's ladder: every seven-bit scalar on 67 points; X25519's: every byte and every u modulo 109. Cortex-M4: two columns (the code has 32) modulo 65521, with scalars 0..300, 65400..65520 and every 61st between; every seven-bit scalar of three points, alone and with three partners, modulo 127; the inverse of every number below 251 by 28 division steps, where 27 are known to be enough (the code takes 744 where 742 are, so the margin is as thin). |
| `exchange` | Do parties agree, does each accept only valid keys, is every honest key accepted? | The 17-point curve, each call by either build; y^2 = x^3 + 7 over 79 (67 points); X25519 over 109 = 2^7 - 19, with A24 = 9, a curve of 8 * 13 points and a twist of 4 * 29. Secrets 0, inside, equal to and above the order. Encodings: all x that fit, wrong roots, unreduced coordinates, wrong tags and lengths. Scalars that clamp to 104 = 8 * 13 are left out, since no clamped scalar is a multiple of the order at the real size (an assumption that TLC checks). |
| `signatures` | Is `verify` the standard's predicate, and does what `sign` returns verify? Does the driver's loop return a low-s signature whenever a nonce works, give up only after eight failures, wipe the nonce, and return? | On the 17-point curve, x-coordinates 17, 19 and 21 are not below n, so that r + n < p happens. Every nonce, every (r, s) that fits, three Z, signer and verifier on either build. Ed25519: field 2029 = 2^11 - 19, d = 395, 8 * 263 points, scalars of five words of two bits: chosen because, as at the real size, R mod L and R^2 mod L are so large that a wide reduction may end at L or above. Driver: every sequence of eight draws, keys 0, in range and out of range; every order of failing checks in `verify`. |
| `ecdsa_doc`, `ed25519_doc`, `modexp_doc`, `driver_contract` | Four statements in comments that the code does not keep (section 6). | The instances of the runs above. |
| `mlkem_mul_ring` | Does ML-KEM's `mul_ring` return the product for all reduced factors? | The real size: 256 coefficients, q = 3329, accumulators up to 2^31 - 1, and the polynomial whose coefficients are all q - 1, times itself. |
| `mlkem_ntt` | Does the portable `ntt` reach the domain that `basemul` multiplies in? | The real size and tables; the polynomial X^2, for which the right transform is the list of roots. |

The properties, in words, stand above their definitions in the modules. Each property of a passing run has at least one mutant
in `PROJECT.json`: a plausible bug in the code which makes TLC find the property violated.

## 4. Fairness and deadlock

Most properties are safety properties and need no fairness. Three liveness properties are checked: `Returns`
(`mul_scalar` and `lincomb`, whose `slide` moves its index in both directions), `SignReturns` (the driver's loop of draws)
and `CallsReturn` (the loops of `absorb`, `squeeze`, `apply_keystream`, CMAC's `update`, and the padding loop of
`Sha512Core`, which is left on an equality). Fairness is weak and is asked only of the steps of a call that is
already running: in `MCLadders` a turn of these two routines, in `MCSignatures` a draw and the end of `sign` (`SignLoop`), in
`MCSymmetric` a turn of a loop (`Turn`). That is what the code justifies: a call is
sequential code which nothing suspends for ever. No call is ever required to be made: clients may stop, so a
behaviour may end, and the configurations say `CHECK_DEADLOCK FALSE` where this can happen. The driver's
random generator is fair only in that it returns something: it may return unusable nonces each time.

## 5. Proofs

Every proof is checked to the last leaf by TLAPS (Z3, Zenon, LS4). The assumptions are the named ones of the modules
(`AeadParameters`, `CounterParameters`, `MontgomeryParameters` and the like), which TLC evaluates on the instances and which the
code's sizes fulfil. Three of them (`FieldAssumption`, `GroupAssumption`, `ScalarAssumption` of `Curve`, and `KoblitzGroup` of `Koblitz`)
are textbook algebra: p and n are primes, so that the powers the code takes are inverses and roots, and the points of the
curve are a group under chord and tangent, which the base point generates. TLC evaluates them on the instances; that the curves
P-256, P-384 and secp256k1 fulfil them is not shown here.

* **`SymmetricProofs`, the hashers**. First about `BlockBuffer`: `AbsorbExtends` - for every block size, context and input, `update` leaves a
  well-formed context (fill count below the block size, everything compressed a whole number of blocks),
  and what the context was fed is what it was fed before, followed by the input. It goes by the three
  parts of `update`: `FillExtends`, `BulkAndTailExtends`, and their composition `ExtendsTwice`. Byte values are arbitrary, so that it
  applies to every user of `BlockBuffer`.
  Then about the hashers: type correctness, `FedIsMessage`, and that both hashers implement `HashSpec`
  (`Sha512Refines`, `Sha512CoreRefines`), for every block size, length
  field shorter than a block, and message bound. The invariant is `IsContext(ctx) /\ FedIsMessage`: that the fill count is
  in range is not inductive without knowing that the compressed part is whole blocks, and `PadBlocksLayout` needs to
  know what is in the buffer, not only how much. The loop of `Sha512Core` needs more (`CoreIInv`): between two of its turns what
  was fed is the message, the bit 1 and the zeros written so far, and these are never more than the standard
  asks for (`PaddedLenBounds`, `PaddingAbsorbs`), so that the equality that ends it is met exactly where the
  standard's padding ends (`LoopLeavesAtBoundary`) and `EndFinalize` fills the last block.
* **`SymmetricProofs`, the sponge**: `SpongeAbsorbsAndSqueezesInOrder` - for every set of rates, however data are absorbed and squeezed, the
  blocks permuted are the message cut into blocks of the rate with the two pad marks in their places (in one byte when the message ends one byte
  before a block does), and the bytes squeezed are one stream. `SpongeIInv` has a phase for each direction: `Absorbing`
  relates the bytes fed to the whole blocks and the open lane, `Squeezing` the bytes given to the blocks permuted since.
* **`SymmetricProofs`, the streams**: `StreamsAreIndependentOfCuts` - for every block size, radix, start and sequence of calls,
  AES-CTR and ChaCha20 use every byte of their keystream once and in order, and the CBC chain runs through every call. The
  invariant `StreamIInv` says that the counter is k increments from the start, and that k blocks are the bytes used and those
  left in the keystream block; a fresh context (position at the end of the block, k = 0) and the bulk path, which
  leaves no keystream behind, fit the same equation (`BulkStep`, `ReloadStep`, `TakeStep`). That the counters passed through are the
  numbers start, start + 1, ... modulo the width that counts is `IncValue`: the carry of `inc32` and `inc128`, byte by byte, is an addition.
  `CbcIInv` follows the chain.
* **`SymmetricProofs`, authenticated encryption**: three theorems about GCM and CCM, from `SealInvariant`. `SealedIsWhatIsOpened`: what arrives is accepted exactly when
  nonce, associated data, ciphertext and tag are what was sent, and then decrypts to what was sealed. The block cipher and GHASH's product are
  ideal, so the content is in the encodings: no two pairs of associated data and ciphertext give GHASH the same input, but for
  leading zero blocks, which it does not see and which the length block settles (`GhashTellsApart`, `FrontFacts`); no two triples give CCM's MAC the same
  blocks, with two header forms, padding and a first block that holds flags, nonce and length (`ShortHeader`,
  `LongHeader`, `CcmBlockInjective`). `RetriesMeetTheCiphertext`: a receiver that calls
  again on a buffer succeeds only if it is the ciphertext again. `AeadPast` says what the calls before have left: with GCM zeros; with CCM what arrived
  with the keystream of a set of nonces on it (`Spoilt`), into which a further call puts its nonce or from which it takes it (`SpoiltOnceMore`, since
  no two nonces share a keystream byte: `PadTellsNonce`). What arrives differs from what was sent in its length or in bytes without keystream (`SamePads`), so that
  no change on the way makes good for keystream that is left (`SpoiltIsOther`). `NoBlockTwice`: the
  counters of one nonce differ from each other, from the one that masks the tag, and from CCM's first block; it rests on
  `IncValue` and on the bound on a message's blocks.
* **`SymmetricProofs`, the authentication codes**: `TagsAreStandard` - for every block size, key, digest length and cut of the message, the tags of GHASH, HMAC and
  CMAC are those of their standards. For the first two the invariant is that the buffer *holds the message so far* (`Holds`, which `AbsorbExtends` keeps:
  `HoldsMore`), and GHASH's path around the buffer keeps it at a block boundary only; anywhere else the block overtakes the bytes that wait, and from there on the
  invariant is that what was compressed is a message that differs from the one that was fed. CMAC has a loop of its own: `HoldsBack` lets the buffer be
  full, and `CmacIInv` adds that it is not empty once something was fed - it is this that makes its content the block that the standard treats last
  (`LastBlockIsStandard`). A reset leaves old bytes in the buffer; `CmacFresh` shows that none of them counts. `SymmetricTypeCorrect` collects the
  ranges that the invariants of all these parts contain. Poly1305 is not in either theorem.
* **`ModularProofs`, Montgomery** (assuming `Pow[j+1] = W * Pow[j]` and moduli between 2 and R - 1): operands stay below p and the
  accumulator below 2p; `add`, `sub`, `div2` return the sum, difference and half; `mul_mont` returns
  `a * b * R^-1 mod p`. `Reduced` is not inductive by itself: the invariant adds that `n0inv * p = -1 (mod W)`, by which a turn
  divides exactly, and `WordsDone`: `t * W^i = a * (the words of b read so far) + q * p` for some q,
  from which the product follows at i = N. Odd moduli are needed for n0inv to exist, and that is all they are needed for.
* **`ModularProofs`, secp256k1's field** (assuming `Omega * (Omega + 1) <= R`, which holds with a wide margin for
  2^32 + 977 and 2^256, and is checked for the instance): `add`, `sub`, `neg` and `mul` return the result modulo p, however they are
  chained, and no fold loses a carry. The invariant has two parts. `Bounded` says for each stage how large the high part, the low part
  and the carry may be; the interesting one is that after the second fold *a carry leaves a low part too small to carry
  again*. `Congruent` says that what is pending equals `x * y + q * P` for some q.
  Either alone is not inductive: the first is what keeps the second from losing R.
* **`ModularProofs`, public exponentiation** (assuming words, numbers and exponent bytes of at least one bit, and
  `2^(NewtonSteps + 1) >= WordBits`, which four iterations and 32 bits just meet): `ModexpComputesPower` - at every turn of
  `modexp_public`'s loop the accumulator is the power for the bits read so far, and what it returns is `base^exponent mod modulus`, for every odd
  modulus, base and exponent, on both builds. It is the longest argument here, from the ground up: the error of `inv32` is squared by an
  iteration, so that after the last one none is left in a word (`NewtonInverse`); with that word a turn of `mont_mul` divides exactly, and one subtraction
  reduces what the turns leave (`MontMulIs`); the turns of `bignum_mont_redc` divide exactly too (`RedcTurnIs`, `RedcLoopIs`), and what its two endings leave is
  congruent and below `Limit`, if what went in was (`AsmRedcIs`, `LimitFits`); the doublings of `rsquared` end with R^2 (`RSquaredIs`), or with the modulus itself if it is 1, for which
  `mont_mul` must and does work too. The invariant `ExpInv` says which form the accumulator has at each stage: Montgomery form, or,
  after the last product of the assembly path, none, and in either case modulo the modulus and below `Limit` only. What the bits give is what the bytes stand for: `PowerAgrees` follows the number read so
  far across the bytes (`BitsStep`) and past the leading zeros, and the power with it. The two excepted cases are those of section 6. Of the
  assembly, `AsmToMont` is the remainder that a long division leaves, and products are exact.
* **`ModularProofs`, Ed25519's scalars** (assuming an odd order of which three fit N words, `3 * L <= Capacity` - of the real one fifteen fit 256 bits -
  and the word LFACTOR, whose product with L is -1 modulo a word, to exist): `ScalarsKeepResidue` - `reduce` and `Mul` return the remainder
  modulo the order, `from_bytes_mod_order_wide` a number below 2 L with the right remainder. `ScalInv` says of
  k turns of `montgomery_reduce` that the low k words are zero, that the accumulator is below `fac * L * Capacity + (Weight(k) - 1) * L`, hence never carries
  out of its 2N words, and that it is congruent to what was loaded; at k = N the division by `Capacity` is exact and one subtraction is enough.
  That two Montgomery products cancel is `SameCancel`, with an inverse of the weight that `PowersInvertible` builds from the one of a word.
* **`ModularProofs`, ML-KEM's residues** (at the real size, with the tables of the source, for *all* coefficients, pairs and products; `KemMaxOps` of at most 127 is
  the width of the counter that bounds the model): `KemResiduesKept` - while nothing overflowed, every coefficient is congruent to its exact value, through
  both transforms, `basemul`, sums and reductions, and reduced after a Barrett reduction. The lemma underneath is about one product:
  a word t of the tables stands for a residue z because `(t * q) mod 2^32 <= q - 1`, which is evaluated for each entry, and then
  Plantard's two shifts return x z modulo q for every 16-bit x. The invariant `KemKeptInv` adds to this the positions of the loops: block start, length and twiddle index
  are related as in `portable_ntt` and `portable_invntt`, so that no turn leaves the polynomial or its table.
* **`FieldProofs`, the limbs of Curve25519's field** (for every number K of limbs, limb size M and C > 1 that `Fe51Parameters` relates; M = 2^51, K = 5, C = 19 in the crate):
  `LimbsKeepResidue` - a product of limbs is the product modulo p, since each row is shifted and what leaves it at the top comes back times C, and its carries, which
  run once through all limbs and once more into limb 1, leave limbs below M but for that one; no difference is negative, whatever sums and products it is taken of, because the bias 2 p is
  larger than any limb that is subtracted; `to_bytes`' two passes leave every limb below M, so that packing loses nothing and one subtraction gives the residue below p. `LimbInv` relates each of the
  registers to the residue that it stands for. In `LimbCarries` and `PassValue` the sum of weighted limbs is followed limb by limb: what one limb loses is M times what the next one gains.
* **`FieldProofs`, the column products of secp256k1** (N words of W, N < W: eight of 2^32 in the crate): `ColumnsKeepResidue` - after each column, what went out and what is
  carried are the products of the columns so far, and at the end the product, for `comba_sqr_8` too. A column has at most N products below W^2, so that what it carries stays
  below N W, which two words hold because of N < W. That the square's columns are the product's is a symmetry of the
  sum (`Reversed`), with the diagonal apart.
* **`FieldProofs`, all parts**: `ResiduesKept` is `KeepsResidue` and `ModularTypeCorrect` is `ModularTypeOK` for everything but the chains of powers, for which there is nothing to generalise: they have no parameter, and the
  run `modular` goes through them at their real size.
* **`ModularProofs`, lattices**: five theorems about what keeps coefficients in their words. `RingFits`: if N (q - 1)^2 fits the accumulator,
  `mul_ring` never overflows and returns reduced coefficients (true of ML-DSA's 64-bit sums; ML-KEM's 32-bit
  sums fail the hypothesis, and section 6 shows the consequence); the invariant `RingIInv` bounds each accumulator by the
  turns so far. Under the same hypothesis `RingReturnsProduct`: what it returns is the product modulo X^N + 1 and q, since each accumulator
  is the sum of the turns so far. `SumsAreBounded` and `ComputesModQ`, for every word size, q and q^-1 that `DsaAssumption` relates:
  a coefficient is at most as large as the terms counted in it, and every ML-DSA operation that returns computed
  modulo q. `KemFits`: for *all* polynomials with coefficients of twelve bits, no butterfly of the forward transform
  wraps, and for every pair, slot and sequence of operations fourteen products may be accumulated before
  anything overflows. Its invariant `KemIInv` follows a transform block by block: which coefficients the
  present layer has already touched decides how large each may be.
* **`SlideProofs`**: `SlideTypeCorrect` - for scalars of every width of two bits or more, `slide` stays inside its array, loses
  no carry, and leaves zeros and odd digits between -15 and 15. The array has one slot more than the scalar has bits,
  which a carry may set; a second carry would run past it. The invariant says why none comes: a window leaves only zeros
  between its own slot and the next one it looks at (`ZerosBehind`), and once the extra slot is set, nothing but zeros is left
  below it (`Scanning`). `slide_257` of the Cortex-M4 build is the same recoding at 256 bits, and is covered.
  `SlidePreservesValue` - the digits and the carry on its way always sum to the scalar, weighted by powers of two. Every turn
  moves a digit's weight from one slot to another, and `Horner`'s sums say what that does to the whole.
* **`LadderProofs`**: four theorems about `mul_scalar`, `lincomb` and what Cortex-M4 does in their place, for scalars of every width,
  every order the parameters allow, and all scalars and points. `RecodingsKeepTheNumber`: no turn of a recoding changes
  the number; `LaddersComputeMultiples`: at every turn the accumulator is the multiple for the digits read so far, and at the end k P, k G or
  k1 P1 + k2 P2; `LaddersStayInTheirTables`: every digit has its entry, and the assembly's addition never gets a second operand at infinity. The invariant
  `LaddersInv` has a part for each routine: for `slide`, that of `SlideProofs` for each of its uses (as instances of that module); for
  `mul_scalar`, that what is left of the scalar is odd, and the digits written are odd and sum with it to the scalar; for the ladder
  after the recoding, that the number is the digits read times a power of the window plus the digits below. The table entries that the code
  selects are a lemma (`EntryIndex`): twice the index and one is the digit. For Cortex-M4's product with the base point, `FixedInv` says that the accumulator times
  2^(i+1) is the sum of the signed powers of two that were read; a turn adds the eight of one column (`FixedReadStep`), which are what the two
  selected entries say (`LowSelected`, `HighSelected`), a complemented mask with a negated entry included (`FixedSelects`); all of them together are the odd
  scalar (`FixedReadsNumber`), and no entry is at infinity because an odd order divides no power of two and the sums of four stay below it (`QuadRange`, `FixedEntries`).
* **`LadderProofs`, the inverse by division steps**: `InversesAreRight` - between any two rounds of `mod_n_inv` x is f over the input, up to the powers of
  two still to be divided out, and what it returns is the inverse. Assumed of the constants (`InverseParameters`, which TLC evaluates on the instance): the order is an odd prime, and
  as many *exact* division steps as all rounds take bring g to 0 for every input - the bound of Bernstein and Yang, 742 for 256 bits. The rounds do not take exact steps: they see the low words of f and
  g only. The invariant `InverseInv` says that it makes no difference: a round's matrix is that of as many exact steps (`RoundExact`), and dividing by the
  power of two loses nothing; f and g stay within the order (`RowBound`); every common divisor of f and g divides order and input (`RowsCombine`), so that with g = 0, f is 1 or -1 (`OnlyUnits`);
  x and y go through the same matrix modulo the order (`RowInverts`), and the flags give the sign (`SignedResult`).
* **`CurveProofs`**: lemmas about `Curve` that the schemes need. `Multiple` is a table that is filled by adding the base point; that it adds like the
  integers modulo n, and that logarithms are unique, comes out of associativity with the base point alone. Decoding is the inverse of
  encoding, in both forms, and takes no other bytes: the root `FSqrt` finds is one of two, and the parity byte chooses. `MatchesR` - that
  `r Z^2 = X`, or `(r + n) Z^2 = X` where r + n < p, in Jacobian coordinates - holds exactly when the affine x reduced by
  one subtraction is r: it is here that `Limit < 2 n` and p's being prime are used. `NonceRecovered`: from the equation of
  `sign`, what `verify` computes, `u1 G + u2 Q`, is the nonce's point.
* **`SchemeProofs`, signatures**: six theorems about ECDSA and the driver over it. `EcdsaAcceptsTheStandard`: `verify` accepts what FIPS 186-4
  accepts, whatever key encoding and pair it is given, on either build. `EcdsaSignaturesVerify`: what `sign` returns verifies. Its invariant
  remembers that *some nonce gives the pair* (`Computed`), which is all that is left of the nonce after `sign`. `LowSignatureIsReturned`,
  `SignGivesUpOnlyWhenUnlucky`, `NonceIsWiped`: the invariant of the driver's loop, `DriverInv`, says at each turn that the draws
  so far were all unusable but possibly the last one, and what the buffer holds; and the negative of s belongs to the negative of the nonce,
  whose point has the same x-coordinate. Where Ed25519 shares a property (`AcceptsTheStandard`, `WhatIsSignedVerifies`, `SignatureTypeOK`) the
  theorem is for the other two schemes.
* **`SchemeProofs`, key agreement**: four theorems, for every set of secrets and of malformed arrivals. `DerivedSecretsAgree`: two parties that took each
  other's keys hold the x-coordinate of the same point, since logarithms commute. `OnlyPointsAreTaken`, `DerivedKeysAreTaken`:
  what is accepted is exactly the encodings of points. The invariant `Books` says of each party what its buffers are: the key is
  an encoding of the multiple of the base point by its secret, what it heard is an encoding of a point, and its output is what the code
  computes from these two. The properties are comparisons between two parties' books, and follow without another step. X25519's agreement
  (that the ladder computes a multiple) is not proved; its part of `KeyAgreementTypeCorrect` is, through all turns of the ladder.
* **`ArithmeticLemmas`**: quotient and remainder, and the two devices that replace induction in these proofs. `UpTo`: a subset of
  0..n that has 0 and, with each number, the next, is all of it. `Unfolding`: a function that is defined by
  recursion on 0..n exists and satisfies its equations; `Halving`, the same for tables that refer to half their index. With these, recursive *functions* (powers, sums, chains, counters) can
  be reasoned about; `RECURSIVE` operators cannot.

Only model-checked: the curve formulas (`RepresentsMultiple`; they are polynomial identities over a field), and with them the ladders that use them (the comb of `mul_base`, the bit ladders of secp256k1
and X25519); Ed25519's scheme and the value of X25519's ladder; Poly1305 (its part of `MacsAreStandard` and `SymmetricTypeOK`); the ten power chains (`RaisesToExponent`, and their part
of `ModularTypeOK`), which the run covers completely; all liveness, which is out of the prover's reach; what the `RECURSIVE` operators compute.

## 6. Disagreements between the code and its comments

* `modexp_doc`: on the assembly build `modexp_public` with exponent 1 returns `base * R mod m`: the
  conversion out of Montgomery form is part of the loop's last product, and the loop has no turn
  (`rsa.rs:132`). The portable build returns the base. Every other odd exponent is right.
* `ed25519_doc`: `sign`'s scalar S "= (r + k * a) mod L" (`ed25519.rs:647`) need not be below L.
  `from_bytes_mod_order_wide` adds two products each below 2^256 * L before a Montgomery reduction that subtracts L once; with the code's constants
  the result is below about 1.22 L, about 0.8 % of random wide inputs give L or more, and about one signature in
  200,000 has such an S. `verify` refuses that signature. A signature with a nonce that is a multiple of L is refused
  as well, since its commitment is the identity.
* `ecdsa_doc`: the module text says that `verify` checks `r * Z == X`; the code multiplies by Z^2, as
  Jacobian coordinates need. The code is right, the text is not.
* `driver_contract`: an invalid `q` is to be reported as `InvalidKey`, says `embassy.rs:401`; with r or s out of range as well,
  `InvalidSignature` is returned, since `verify` looks at those first.

* `mlkem_mul_ring`: "Full ring multiplication" (`mlkem.rs:673`) is not what the portable build computes for factors with great
  reduced coefficients. It sums 256 products in an `i32` (`mlkem.rs:690`), which 194 products of 3328 * 3328 fill: a build
  with overflow checks panics, one without returns another polynomial. ML-DSA's accumulators have 64 bits.
* `mlkem_ntt`: the portable `ntt` is to take a polynomial "to bit-reversed NTT domain" (`mlkem.rs:532`). It reads one
  twiddle per block from a table that from its sixteenth entry on is laid out for the assembly, which merges
  layers (`mlkem.rs:746`); what it leaves is not what `basemul` takes it for. `invntt` reads a table made for
  Cooley-Tukey butterflies in Gentleman-Sande ones. The portable `mul_ring` uses neither, so that no test notices.

Noticed while reading, and not runs: `mul_base` is documented as `k * G` (`lib.rs:227`), but on Cortex-M4 an even
k of n or more is replaced by n - k modulo 2^256, where the portable comb takes any k (every caller in the crate
passes k < n); a wrong first byte of an encoded point is `BadLength` on Cortex-M4 and `BadPoint` elsewhere; the
portable `ntt` and `invntt_tomont` of ML-DSA do nothing, although `pointwise_mont` multiplies coefficient by
coefficient, and so does ML-KEM's `from_plant`; in ML-KEM's `barrett_reduce` the branch for a negative remainder is
dead, the other one is taken at negative multiples of q only, and `quot * 3329` does not fit 16 bits for
arguments of -29961 and below; the order of secp256k1 in the comment at `secp256k1.rs:40` differs
from `SECP256K1_N`; `mldsa.rs:12` calls 58728449 "-q^{-1}", and it is +q^{-1}, which is what
the code uses; `Error::ZeroExponent` of `rsa.rs` is never returned; the portable and the assembly path of
`modexp_public` return 1 for the modulus 1 and the exponent 0 (the properties except the modulus 1);
a failed CCM decryption leaves the buffer deciphered, unlike GCM's, so that the same call repeated on it fails the second time
and may succeed the third.

## 7. What is not modelled

* **P-256 on Cortex-M4**: `lincomb_jacobian`, `batch_jacobian_to_affine_7` and the conversions to and from homogeneous coordinates
  have no caller in the crate. Additions, doublings, table selections and products of matrices are assembly
  (`asm/cortex_m4_p256.S`) and are modelled by what they compute.
* **ML-KEM and ML-DSA with assembly**: the transforms there have another order of coefficients and other
  intermediate forms; the Rust code only calls them.
* **Cores**: AES rounds, tables and key schedule, the SHA-512 compression, Keccak-f, the ChaCha20 block and the GHASH product are
  fixed functions without control flow that depends on data; test vectors settle them. They are ideal in the models.
* **Assembly** and its dispatch: what it computes is assumed to be what the portable functions compute.
  Of the Cortex-M4 big-number routines the reduction is modelled (`AsmRedc`), the division, the products and the inverse word by their values.
* **Timing**: masked selections are modelled by what they select. `comb_scan_diag` and `mul_base_diag` measure time and are left out.
* Smaller things: ECB (no state); `gcm_j0` for nonces of other lengths than 12 bytes (no caller);
  the static length check of `rsa.rs`; a sponge of rate 0; CCM with q = 8; generic widths of `Fe` and `Scalar` that the
  crate does not instantiate; `wipe` of Ed25519's temporaries; `sign`'s truncation of hashes longer than the order.
* Generated tables, parameters, the crate root, tests and third-party code are no part of the system's
  behaviour; the models take from the tables the orders and what an entry of the comb stands for.

## 8. Plan

The plan is carried out, in this order: `BlockBuffer`, `HashSpec`, `Sha512` and their proofs; `Curve` and the ladders;
ECDSA, ECDH and the driver; `Montgomery` and its proofs; the symmetric primitives; secp256k1, X25519, Ed25519
and their fields, with the proof about secp256k1's; `RingProduct`, `MlDsa`, `MlKem` and their proofs; the refinement by `Sha512Core`; `CortexM4`
and the Cortex-M4 build in the schemes; `SlideProofs`; the proofs about sponge, streams and authenticated
encryption; those about ECDSA, the driver and key agreement; those about the recoded ladders; those about the authentication codes; that about `modexp_public`;
those about limbs, column products, Ed25519's scalars and ML-KEM's residues; those about Cortex-M4's fixed-base product and its inverse.

What could follow is proof, not model: Poly1305, its buffering from `AbsorbExtends`; the combs; Ed25519's scheme over its group.
