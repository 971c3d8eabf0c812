----------------------------- MODULE MCSymmetric ------------------------------
(***************************************************************************)
(* The symmetric primitives of the crate, each driven by a client of its   *)
(* own: the hashers, the Keccak sponge, the keystream ciphers, the message *)
(* authentication codes, the authenticated ciphers and CBC.  One of them   *)
(* runs; they share no state in the code.  Sha512 has its own variables;   *)
(* for the others st is the struct the client holds and log what the       *)
(* client asked for and got.  Block is the block of the one that runs.     *)
(*                                                                         *)
(* The instance: counters start at 0, before a carry of one byte, before   *)
(* the wrap of the low word, and before the wrap of the block.  Texts are  *)
(* chosen for the zeros at their ends and for their lengths: around one    *)
(* and two blocks, around the longest message of a CCM nonce, around the   *)
(* two forms of a CCM header.                                              *)
(***************************************************************************)
EXTENDS Sha512

CONSTANTS Rates, MaxFed, MaxOut,                                     \* Keccak
          B, Radix, LowBytes,                                        \* CounterBlock
          Starts, MaxStream, MaxBlocks,                              \* Keystream
          MaxGhash, OutLens, MaxKey, MaxHmac, MaxCmac, MaxRuns,      \* BlockMacs
          PolyBlock, ByteBase, LimbBase, Limbs,                      \* Poly1305
          MulKeys, AddKeys, PolyBytes, MaxPoly,
          Nonces, NonceLens, Aads, MaxAad, Messages,                 \* Aead
          TagLens, GoodTagLens, MaxCalls

VARIABLES routine, st, log

symmetricVars == <<vars, routine, st, log>>

Sponge == INSTANCE Keccak     WITH ctx <- st
Stream == INSTANCE Keystream  WITH ctx <- st
Macs   == INSTANCE BlockMacs  WITH ctx <- st
Poly   == INSTANCE Poly1305   WITH ctx <- st, Block <- PolyBlock
Seal   == INSTANCE Aead       WITH ctx <- st

ASSUME SymmetricAssumption ==
  /\ Sponge!KeccakParameters /\ Stream!KeystreamParameters
  /\ Macs!BlockMacsParameters /\ Poly!PolyParameters /\ Seal!AeadParameters

SymmetricInit ==
  /\ Init
  /\ \/ routine \in {"sha512", "core"} /\ st = <<>> /\ log = <<>>
     \/ routine = "sponge" /\ Sponge!Init
     \/ routine = "stream" /\ Stream!Init
     \/ routine = "cbc"    /\ Stream!CbcInit
     \/ routine = "macs"   /\ Macs!Init
     \/ routine = "poly"   /\ Poly!Init
     \/ routine = "aead"   /\ Seal!Init

SymmetricNext ==
  /\ UNCHANGED routine
  /\ \/ routine = "sha512" /\ Next /\ UNCHANGED <<st, log>>
     \/ routine = "core" /\ CoreNext /\ UNCHANGED <<st, log>>
     \/ /\ UNCHANGED vars
        /\ \/ routine = "sponge" /\ Sponge!Next
           \/ routine = "stream" /\ Stream!Next
           \/ routine = "cbc"    /\ Stream!CbcNext
           \/ routine = "macs"   /\ Macs!Next
           \/ routine = "poly"   /\ Poly!Next
           \/ routine = "aead"   /\ Seal!Next

(* A turn of the loop of a running call. *)
Turn ==
  /\ UNCHANGED routine
  /\ \/ routine = "core" /\ (PadZero \/ EndFinalize) /\ UNCHANGED <<st, log>>
     \/ /\ UNCHANGED vars
        /\ \/ routine = "sponge" /\ (Sponge!AbsorbChunk \/ Sponge!SqueezeChunk)
           \/ routine = "stream" /\ Stream!Turn
           \/ routine = "macs"   /\ Macs!CmacTurn

Running == \/ routine = "core" /\ phase = "padding"
           \/ routine \in {"sponge", "stream"} /\ log.todo > 0
           \/ routine = "macs" /\ log.mac = "cmac" /\ log.data # <<>>

(* A call that can go on does; a client may stop making calls. *)
SymmetricSpec == SymmetricInit /\ [][SymmetricNext]_symmetricVars /\ WF_symmetricVars(Turn)
-------------------------------------------------------------------------------
(* Positions stay within their blocks, and the limbs of Poly1305 in their
   words. *)
SymmetricTypeOK ==
  CASE routine \in {"sha512", "core"} -> st = <<>> /\ log = <<>>
    [] routine = "sponge" -> Sponge!TypeOK
    [] routine = "stream" -> Stream!TypeOK
    [] routine = "cbc"    -> Stream!CbcTypeOK
    [] routine = "macs"   -> Macs!TypeOK
    [] routine = "poly"   -> Poly!TypeOK
    [] routine = "aead"   -> Seal!TypeOK

(* What enters the sponge is the padded message of FIPS 202, and what comes out
   one stream of bytes, however input and output are cut (absorb,
   finalize_and_squeeze). *)
SpongeIsStandard ==
  routine = "sponge" => Sponge!AbsorbsPaddedMessage /\ Sponge!OutputIsOneStream

(* CTR and ChaCha20 use their keystream once and in order, across the bulk path
   and a wrap of the counter, and CBC chains every block to the one before it,
   however the calls cut the data (apply_keystream, encrypt_blocks,
   decrypt_blocks). *)
CutsDoNotMatter == CASE routine = "stream" -> Stream!OneKeystream
                     [] routine = "cbc"    -> Stream!ChainsAcrossCalls
                     [] OTHER              -> TRUE

(* CMAC, GHASH, HMAC and Poly1305 give the tag of their standard for every cut
   of the message: after a reset, for every length of key, and with the last
   subtraction of Poly1305's limb arithmetic (finalize, finish); GHASH if and only
   if every update_block came between whole blocks. *)
MacsAreStandard == CASE routine = "macs" -> Macs!TagIsStandard
                     [] routine = "poly" -> Poly!TagIsStandard
                     [] OTHER            -> TRUE

(* GCM and CCM accept what was sent and nothing else, and return the message
   (AesGcm, AesCcm). *)
AcceptsWhatWasSent == routine = "aead" => Seal!AcceptsWhatWasSent

(* A call on a buffer that failed before succeeds only if the failures have left
   the ciphertext there: never with GCM, which erases it, every second time with
   CCM, which deciphers before it checks (AesGcm::decrypt, AesCcm::decrypt). *)
RetriesNeedTheCiphertext == routine = "aead" => Seal!RetriesNeedTheCiphertext

(* No block is enciphered for two purposes under one nonce (AesGcm, AesCcm). *)
BlocksSeparate == routine = "aead" => Seal!BlocksSeparate

(* Every call returns: no turn of a loop takes nothing and changes nothing, as
   with the position at the end of a block it could, and Sha512Core::finalize,
   which pads until an equality holds, does not step over it. *)
CallsReturn == Running ~> ~ Running
-------------------------------------------------------------------------------
Digits(head, a, b) == [i \in 1..B |-> IF i < B - 1 THEN head ELSE IF i = B - 1 THEN a ELSE b]
MCStarts == {Digits(0, 0, 0), Digits(0, 1, 3), Digits(1, 3, 2), Digits(3, 3, 1)}

MCMulKeys == {0, 1, 5, 17, 251, 341, 682, 777, 1020, 1023}

Z(n) == [i \in 1..n |-> {}]
One  == <<{<<"num", 1>>}>>
MCNonces   == {[i \in 1..k |-> v] : k \in 3..6, v \in {0, 3}}
MCAads     == {<<>>, Z(1), One, Z(10), Z(12), Z(13), Z(14)}
MCMessages == {<<>>, Z(1), One, Z(8), Z(7) \o One, One \o Z(8), Z(15), Z(16)}
===============================================================================
