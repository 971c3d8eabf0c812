-------------------------------- MODULE Driver --------------------------------
(***************************************************************************)
(* The ECDSA driver of src/embassy.rs (P256Ecdsa; P384Ecdsa is the same    *)
(* code at another width): sign draws nonces from a random generator that  *)
(* is not part of the crate until one works, eight at most, wipes the      *)
(* nonce and normalises s; verify maps the errors of the layer below.      *)
(***************************************************************************)
EXTENDS Curve

CONSTANTS Keys, Hashes,  \* bounds: private keys, message digests
          MaxDraws,      \* 8 in the code
          OtherXs, OtherYs,  \* bounds: coordinates given to verify as a key
          Rs             \* bound: the r and s given to verify

DriverParameters == MaxDraws \in Nat \ {0} /\ Keys \subseteq Bytes /\ Hashes \subseteq Bytes

VARIABLES phase,   \* "idle", inside sign "drawing", "returned"
          key, hash,
          nonce,   \* the nonce buffer
          draws,   \* turns of the loop so far
          rs,      \* the r and s buffers
          result,  \* sign's local, the last answer of ecdsa::sign
          ret,     \* what the driver call returned
          usable   \* history: did some nonce drawn so far have a signature?

vars == <<phase, key, hash, nonce, draws, rs, result, ret, usable>>

Init == /\ phase = "idle" /\ key \in Keys /\ hash \in Hashes
        /\ nonce = 0 /\ draws = 0 /\ rs = <<0, 0>>
        /\ result = "BadScalar" /\ ret = [tag |-> "none"]
        /\ usable = FALSE

Returns(r) == phase' = "returned" /\ ret' = r

(* Mutant of LowS: the comparison is the wrong way round. *)
HighS(s) == IF s < Order \div 2 THEN SNeg(s) ELSE s

(* low_s, for s in [1, n-1] *)
LowS(s) == IF Order \div 2 < s THEN SNeg(s) ELSE s

BeginSign ==
  /\ phase = "idle"
  /\ IF InRange(key) THEN phase' = "drawing" /\ UNCHANGED ret
     ELSE Returns([tag |-> "InvalidKey"])
  /\ UNCHANGED <<key, hash, nonce, draws, rs, result, usable>>

(* Mutants of Draw: a nonce that fails is not counted; the loop is not left
   with a signature. *)
DrawUncounted(k) ==
  /\ phase = "drawing" /\ draws < MaxDraws /\ result # "Ok"
  /\ nonce' = k
  /\ LET outcome == SignOutcome(key, hash, k)
     IN  /\ draws' = IF outcome.ok THEN draws + 1 ELSE draws
         /\ usable' = (usable \/ outcome.ok)
         /\ IF outcome.ok THEN result' = "Ok" /\ rs' = <<outcome.r, outcome.s>>
            ELSE result' = "BadScalar" /\ UNCHANGED rs
  /\ UNCHANGED <<phase, key, hash, ret>>

DrawNoBreak(k) ==
  /\ phase = "drawing" /\ draws < MaxDraws
  /\ nonce' = k /\ draws' = draws + 1
  /\ LET outcome == SignOutcome(key, hash, k)
     IN  /\ usable' = (usable \/ outcome.ok)
         /\ IF outcome.ok THEN result' = "Ok" /\ rs' = <<outcome.r, outcome.s>>
            ELSE result' = "BadScalar" /\ UNCHANGED rs
  /\ UNCHANGED <<phase, key, hash, ret>>

(* One turn of `for _ in 0..8`: rng_fill_bytes, then ecdsa::sign, which writes
   its outputs only when it succeeds. *)
Draw(k) ==
  /\ phase = "drawing" /\ draws < MaxDraws /\ result # "Ok"
  /\ nonce' = k /\ draws' = draws + 1
  /\ LET outcome == SignOutcome(key, hash, k)
     IN  /\ usable' = (usable \/ outcome.ok)
         /\ IF outcome.ok THEN result' = "Ok" /\ rs' = <<outcome.r, outcome.s>>
            ELSE result' = "BadScalar" /\ UNCHANGED rs
  /\ UNCHANGED <<phase, key, hash, ret>>

(* Mutant of EndSign: the nonce is wiped on the way out with a signature only. *)
EndSignLateWipe ==
  /\ phase = "drawing" /\ (draws = MaxDraws \/ result = "Ok")
  /\ nonce' = IF result = "Ok" THEN 0 ELSE nonce
  /\ Returns(IF result # "Ok" \/ ~InRange(rs[2]) THEN [tag |-> "InvalidInput"]
             ELSE [tag |-> "Ok", r |-> rs[1], s |-> LowS(rs[2])])
  /\ UNCHANGED <<key, hash, draws, rs, result, usable>>

(* After the loop: wipe, map_err, low_s. *)
EndSign ==
  /\ phase = "drawing" /\ (draws = MaxDraws \/ result = "Ok")
  /\ nonce' = 0
  /\ Returns(IF result # "Ok" \/ ~InRange(rs[2]) THEN [tag |-> "InvalidInput"]
             ELSE [tag |-> "Ok", r |-> rs[1], s |-> LowS(rs[2])])
  /\ UNCHANGED <<key, hash, draws, rs, result, usable>>

(* verify(q, digest, sig): q is a pair of integers, encoded in full. *)
Points == CurvePoints \cup (OtherXs \X OtherYs)

MapError(res) ==
  CASE res = "Ok"       -> "Ok"
    [] res = "BadPoint" -> "InvalidKey"
    [] OTHER            -> "InvalidSignature"

DriverVerify(q, r, s) ==
  /\ phase = "idle"
  /\ Returns([tag |-> "verified", q |-> q, r |-> r, s |-> s,
              res |-> MapError(VerifyOutcome(EncodeFull(q), hash, r, s, 1).res)])
  /\ UNCHANGED <<key, hash, nonce, draws, rs, result, usable>>

Next ==
  \/ BeginSign
  \/ \E k \in Bytes : Draw(k)
  \/ EndSign
  \/ phase = "idle" /\ \E q \in Points, r, s \in Rs : DriverVerify(q, r, s)

(* The loop is straight-line code and the generator answers every call. *)
Fairness == WF_vars(\E k \in Bytes : Draw(k)) /\ WF_vars(EndSign)

Spec == Init /\ [][Next]_vars /\ Fairness
-------------------------------------------------------------------------------
TypeOK ==
  /\ phase \in {"idle", "drawing", "returned"}
  /\ key \in Keys /\ hash \in Hashes /\ nonce \in Bytes
  /\ draws \in 0..MaxDraws /\ usable \in BOOLEAN
  /\ rs = <<0, 0>> \/ rs \in (1..(Order - 1)) \X (1..(Order - 1))
  /\ result \in {"Ok", "BadScalar"}
  /\ ret.tag \in {"none", "Ok", "InvalidKey", "InvalidInput", "verified"}

(* What sign returns is a signature of this digest under this key, with s at
   most n/2, although s was negated after ecdsa::sign made the pair (sign,
   low_s). *)
ReturnsLowSignature ==
  ret.tag = "Ok" =>
    /\ 2 * ret.s < Order
    /\ Standard(EncodeFull(Multiple[key]), hash, ret.r, ret.s)

(* sign fails only on an invalid key, or when every nonce it was given was
   unusable and it had asked for all eight: it never gives up early and never
   drops a signature it made (sign). *)
GivesUpOnlyWhenUnlucky ==
  /\ ret.tag = "InvalidInput" => draws = MaxDraws /\ ~usable
  /\ ret.tag = "InvalidKey" => key \notin 1..(Order - 1) /\ draws = 0

(* No nonce is left in its buffer, by whichever path sign is left (sign). *)
NonceWiped == phase = "returned" => nonce = 0

(* "Contract: any verification failure is `InvalidSignature`, except an
   invalid `q`, which is `InvalidKey`." (src/embassy.rs, line 401) *)
VerifyContract ==
  ret.tag = "verified" =>
    /\ ret.q \notin CurvePoints => ret.res = "InvalidKey"
    /\ ret.q \in CurvePoints =>
         ret.res = IF Standard(EncodeFull(ret.q), hash, ret.r, ret.s)
                   THEN "Ok" ELSE "InvalidSignature"
==============================================================================
