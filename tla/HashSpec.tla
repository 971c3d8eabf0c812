------------------------------- MODULE HashSpec -------------------------------
(***************************************************************************)
(* What the streaming hashes of src/sha512.rs promise: however a message   *)
(* is cut into update calls, finalize compresses the padded message of     *)
(* FIPS 180-4 5.1.2 - the message, 0x80, zeros up to the length field, and *)
(* the length of the message - and nothing else.  Neither a buffer nor a   *)
(* block boundary appears in it.                                           *)
(***************************************************************************)
EXTENDS Integers, Sequences

CONSTANTS Block,    \* bytes in a block
          LenField  \* bytes in the length field that ends the last block

VARIABLES length,   \* bytes given to update so far
          padded    \* the bytes finalize compressed; empty before

specVars == <<length, padded>>

MsgByte(i) == <<"msg", i>>        \* the i-th byte of the message
End        == <<"end", 0>>        \* 0x80
ZeroByte   == <<"zero", 0>>
LenByte(n, j) == <<"len", <<n, j>>>>  \* j-th byte of the length field for n bytes

(* The least multiple of Block with room for the message, 0x80 and the length. *)
PaddedLen(n) == ((n + LenField + Block) \div Block) * Block

PaddedMessage(n) ==
  [i \in 1..PaddedLen(n) |->
     IF i <= n THEN MsgByte(i)
     ELSE IF i = n + 1 THEN End
     ELSE IF i <= PaddedLen(n) - LenField THEN ZeroByte
     ELSE LenByte(n, i - (PaddedLen(n) - LenField))]

SpecInit == length = 0 /\ padded = <<>>

SpecUpdate == /\ padded = <<>>
              /\ length' \in Nat /\ length' >= length
              /\ UNCHANGED padded

SpecFinalize == /\ padded = <<>>
                /\ padded' = PaddedMessage(length)
                /\ UNCHANGED length

SpecNext == SpecUpdate \/ SpecFinalize

HashSpecification == SpecInit /\ [][SpecNext]_specVars
==============================================================================
