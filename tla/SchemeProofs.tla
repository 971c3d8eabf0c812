------------------------------ MODULE SchemeProofs ------------------------------
(***************************************************************************)
(* Theorems about the schemes over the curves.                             *)
(*                                                                         *)
(* Signatures (MCSignatures): ECDSA (ecdsa.rs and the functions a          *)
(* Cortex-M4 has in their place), alone and below the driver of            *)
(* embassy.rs.  The invariant of both is Computed: some nonce gives the    *)
(* pair in sig.  NonceRecovered (CurveProofs) takes it from there: what    *)
(* verify computes from the pair is that nonce, or for n - s its negative, *)
(* whose point has the same x-coordinate.  Ed25519, the third scheme, is   *)
(* not in these theorems.                                                  *)
(*                                                                         *)
(* KeyAgreement: that ECDH on a NIST curve and on secp256k1 ends with one  *)
(* secret, takes nothing but points and refuses no derived key, and for    *)
(* X25519 what its buffers hold.  First secp256k1's group, roots and       *)
(* encodings, as CurveProofs has them for Curve, then the type of X25519's *)
(* ladder, then what each call answers, and last the invariant, Books,     *)
(* that each party holds such answers.                                     *)
(***************************************************************************)
EXTENDS MCSignatures, KeyAgreement, CurveProofs

(* What is known of the pair in sig: it was computed by sign with some nonce. *)
Computed(pair) == \E k \in Bytes : Signs(key, hash, k, pair[1], pair[2])

-------------------------------------------------------------------------------
(* ECDSA. *)
EcdsaInv ==
  scheme = "ecdsa" =>
    /\ key \in Bytes /\ hash \in Bytes
    /\ sig = <<>> \/ Computed(sig)
    /\ VerifyIsStandard

(* No signature and no verdict at first. *)
LEMMA EcdsaInitially == SchemeInit => EcdsaInv
<1>1. SUFFICES ASSUME SchemeInit, scheme = "ecdsa" PROVE EcdsaInv
  BY DEF EcdsaInv
<1>2. Init
  BY <1>1 DEF SchemeInit
<1>3. key \in Bytes /\ hash \in Bytes
  BY <1>2, EcdsaAssumption DEF Init
<1> QED
  BY <1>2, <1>3 DEF Init, EcdsaInv, VerifyIsStandard

(* sign leaves a pair that some nonce gives, or the one that was there. *)
LEMMA EcdsaSigns ==
  ASSUME EcdsaInv, scheme = "ecdsa", NEW k \in Bytes, Sign(k), UNCHANGED scheme
  PROVE  EcdsaInv'
<1>1. PICK outcome \in {SignOutcome(key, hash, k), M4SignOutcome(key, hash, k)} :
        IF outcome.ok THEN signed' = "Ok" /\ sig' = <<outcome.r, outcome.s>>
        ELSE signed' = outcome.err /\ UNCHANGED sig
  BY DEF Sign
<1>2. /\ key \in Bytes /\ hash \in Bytes /\ (sig = <<>> \/ Computed(sig)) /\ VerifyIsStandard
      /\ key' = key /\ hash' = hash /\ query' = query /\ verdict' = verdict
  BY DEF EcdsaInv, Sign
<1>3. sig' = <<>> \/ Computed(sig)'
  <2>1. CASE outcome.ok
    <3>1. key \in Nat /\ k \in Nat
      BY <1>2, Sizes DEF Bytes
    <3>2. Signs(key, hash, k, outcome.r, outcome.s)
      BY <1>1, <1>2, <2>1, <3>1, SignSigns
    <3>3. sig' = <<outcome.r, outcome.s>>
      BY <1>1, <2>1
    <3>4. sig'[1] = outcome.r /\ sig'[2] = outcome.s
      BY <3>3
    <3>5. Signs(key, hash, k, outcome.r, outcome.s)'
      BY <1>2, <3>2 DEF Signs, Same
    <3> QED
      BY <1>2, <3>2, <3>4 DEF Computed
  <2>2. CASE ~outcome.ok
    <3>1. sig' = sig
      BY <1>1, <2>2
    <3> QED
      BY <1>2, <3>1 DEF Computed
  <2> QED
    BY <2>1, <2>2
<1> QED
  BY <1>2, <1>3 DEF EcdsaInv, VerifyIsStandard

(* verify, in either build, answers as the standard does, and changes no signature. *)
LEMMA EcdsaVerifies ==
  ASSUME EcdsaInv, scheme = "ecdsa", UNCHANGED scheme,
         NEW e \in Encoding, NEW r \in Bytes, NEW s \in Bytes, NEW z \in 1..(P - 1),
         Verify(e, r, s, z)
  PROVE  EcdsaInv'
<1>1. PICK outcome \in {VerifyOutcome(e, hash, r, s, z), M4VerifyOutcome(e, hash, r, s, z)} :
        query' = <<e, r, s, outcome.pt>> /\ verdict' = outcome.res
  BY DEF Verify
<1>2. /\ key \in Bytes /\ hash \in Bytes /\ (sig = <<>> \/ Computed(sig))
      /\ key' = key /\ hash' = hash /\ sig' = sig
  BY DEF EcdsaInv, Verify
<1>3. outcome.res = "Ok" <=> Standard(e, hash, r, s)
  BY <1>1, <1>2, VerifyAccepts
<1>4. query'[1] = e /\ query'[2] = r /\ query'[3] = s
  BY <1>1
<1>5. VerifyIsStandard'
  BY <1>1, <1>2, <1>3, <1>4 DEF VerifyIsStandard
<1>6. sig' = <<>> \/ Computed(sig)'
  BY <1>2 DEF Computed
<1> QED
  BY <1>2, <1>5, <1>6 DEF EcdsaInv

(* What verify is called with are encodings. *)
LEMMA PublicKeysEncoded ==
  ASSUME key \in Bytes
  PROVE  PublicKeys \subseteq Encoding
<1>1. CASE InRange(key)
  <2>1. Multiple[key] \in CurvePoints
    BY <1>1, Sizes DEF InRange, Bytes, CurvePoints
  <2> QED
    BY <1>1, <2>1, EncodedDecodes DEF PublicKeys, KeyEncodings
<1>2. CASE ~InRange(key)
  BY <1>2 DEF PublicKeys
<1> QED
  BY <1>1, <1>2

(* Every step keeps the invariant of ECDSA. *)
LEMMA EcdsaStep == EcdsaInv /\ [SchemeNext]_allVars => EcdsaInv'
<1> SUFFICES ASSUME EcdsaInv, [SchemeNext]_allVars PROVE EcdsaInv'
  OBVIOUS
<1>1. CASE UNCHANGED allVars
  BY <1>1 DEF EcdsaInv, allVars, vars, VerifyIsStandard, Computed
<1>2. CASE SchemeNext /\ scheme # "ecdsa"
  BY <1>2 DEF SchemeNext, EcdsaInv
<1>3. CASE SchemeNext /\ scheme = "ecdsa"
  <2>1. Next /\ UNCHANGED scheme
    BY <1>3 DEF SchemeNext
  <2>2. ASSUME NEW k \in Bytes, Sign(k) PROVE EcdsaInv'
    BY <1>3, <2>1, <2>2, EcdsaSigns
  <2>3. /\ key \in Bytes /\ (sig = <<>> \/ Computed(sig))
        /\ Zs \subseteq 1..(P - 1)
    BY <1>3, EcdsaAssumption DEF EcdsaInv
  <2>4. PublicKeys \subseteq Encoding
    BY <2>3, PublicKeysEncoded
  <2>5. ASSUME sig # <<>>, NEW e \in PublicKeys, NEW z \in Zs, Verify(e, sig[1], sig[2], z)
        PROVE  EcdsaInv'
    <3> DEFINE r == sig[1]
               s == sig[2]
    <3> HIDE DEF r, s
    <3>1. PICK k \in Bytes : Signs(key, hash, k, r, s)
      BY <2>3, <2>5 DEF Computed, r, s
    <3>2. r \in 1..(Order - 1) /\ s \in 1..(Order - 1)
      BY <3>1 DEF Signs
    <3>3. r \in Bytes /\ s \in Bytes
      BY <3>2, Sizes DEF Bytes
    <3>4. sig[1] \in Bytes /\ sig[2] \in Bytes
      BY <3>3 DEF r, s
    <3> QED
      BY <1>3, <2>1, <2>3, <2>4, <2>5, <3>4, EcdsaVerifies
  <2>6. ASSUME NEW e \in PublicKeys \cup BadKeys, NEW r \in Bytes, NEW s \in Bytes, NEW z \in Zs,
               Verify(e, r, s, z)
        PROVE  EcdsaInv'
    <3>1. e \in Encoding
      BY <2>4, EcdsaAssumption
    <3> QED
      BY <1>3, <2>1, <2>3, <2>6, <3>1, EcdsaVerifies
  <2> QED
    BY <2>1, <2>2, <2>5, <2>6 DEF Next
<1> QED
  BY <1>1, <1>2, <1>3

LEMMA EcdsaAlways == SchemeSpec => []EcdsaInv
BY EcdsaInitially, EcdsaStep, PTL DEF SchemeSpec

(* AcceptsTheStandard, for ECDSA: verify accepts exactly the pairs that FIPS 186-4
   accepts, for every key encoding, digest and pair, although it never leaves
   Jacobian coordinates: it compares r Z^2, and (r + n) Z^2 where r + n < p, with X
   (ecdsa.rs, verify; backend/cortex_m4/p256.rs, ecdsa_verify). *)
THEOREM EcdsaAcceptsTheStandard ==
  SchemeSpec => [](scheme # "ed25519" => AcceptsTheStandard)
<1>1. EcdsaInv => (scheme # "ed25519" => AcceptsTheStandard)
  BY DEF EcdsaInv, AcceptsTheStandard
<1> QED
  BY <1>1, EcdsaAlways, PTL

(* WhatIsSignedVerifies, for ECDSA: a pair that sign made verifies under the
   signer's key in either encoding, whatever was signed and verified before, also
   when the x-coordinate of the nonce's point was n or more and lost that in r
   (ecdsa.rs, sign and verify). *)
THEOREM EcdsaSignaturesVerify ==
  SchemeSpec => [](scheme # "ed25519" => WhatIsSignedVerifies)
<1>1. ASSUME EcdsaInv, scheme = "ecdsa", sig # <<>>, query # <<>>, query[1] \in PublicKeys,
             <<query[2], query[3]>> = sig
      PROVE  verdict = "Ok"
  <2>1. PICK k \in Bytes : Signs(key, hash, k, sig[1], sig[2])
    BY <1>1 DEF EcdsaInv, Computed
  <2>2. hash \in Nat /\ query[1] \in KeyEncodings(key) /\ query[2] = sig[1] /\ query[3] = sig[2]
    BY <1>1, Sizes DEF EcdsaInv, Bytes, PublicKeys
  <2>3. Standard(query[1], hash, sig[1], sig[2])
    BY <2>1, <2>2, SignedIsStandard
  <2> QED
    BY <1>1, <2>2, <2>3 DEF EcdsaInv, VerifyIsStandard
<1>2. EcdsaInv => (scheme # "ed25519" => WhatIsSignedVerifies)
  BY <1>1 DEF WhatIsSignedVerifies, SignedVerifies
<1> QED
  BY <1>2, EcdsaAlways, PTL
-------------------------------------------------------------------------------
(* The driver. *)
DriverInv ==
  scheme = "driver" =>
    /\ key \in Bytes /\ hash \in Bytes
    /\ phase \in {"idle", "drawing", "returned"}
    /\ phase = "idle" => nonce = 0 /\ draws = 0
    /\ phase \in {"idle", "drawing"} => /\ verdict = [tag |-> "none"]
                                        /\ usable <=> signed = "Ok"
    /\ signed = "Ok" => Computed(sig)
    /\ draws \in 0..MaxDraws
    /\ Drv!NonceWiped /\ Drv!GivesUpOnlyWhenUnlucky /\ Drv!ReturnsLowSignature

(* Before its first call the driver holds no nonce. *)
LEMMA DriverInitially == SchemeInit => DriverInv
<1>1. SUFFICES ASSUME SchemeInit, scheme = "driver" PROVE DriverInv
  BY DEF DriverInv
<1>2. Drv!Init
  BY <1>1 DEF SchemeInit
<1>3. key \in Bytes /\ hash \in Bytes /\ MaxDraws \in Nat
  BY <1>2, SignaturesAssumption DEF Drv!Init, Drv!DriverParameters, Drv!Bytes, Bytes
<1>4. /\ phase = "idle" /\ nonce = 0 /\ draws = 0 /\ verdict = [tag |-> "none"]
      /\ usable = FALSE /\ signed = "BadScalar"
  BY <1>2 DEF Drv!Init
<1>5. verdict.tag = "none" /\ (usable <=> signed = "Ok") /\ 0 \in 0..MaxDraws
  BY <1>3, <1>4
<1>6. Drv!NonceWiped /\ Drv!GivesUpOnlyWhenUnlucky /\ Drv!ReturnsLowSignature
  BY <1>4, <1>5 DEF Drv!NonceWiped, Drv!GivesUpOnlyWhenUnlucky, Drv!ReturnsLowSignature
<1> QED
  BY <1>3, <1>4, <1>5, <1>6 DEF DriverInv

(* The driver is built on the same functions, with the same parameters. *)
LEMMA SameArithmetic ==
  /\ Drv!Bytes = Bytes
  /\ \A v : Drv!InRange(v) = InRange(v) /\ Drv!SNeg(v) = SNeg(v)
  /\ \A pt : Drv!EncodeFull(pt) = EncodeFull(pt)
BY DEF Drv!Bytes, Bytes, Drv!InRange, InRange, Drv!SNeg, SNeg, Drv!EncodeFull, EncodeFull

(* The driver's copies of the operators of Curve and Ecdsa are those operators. *)
LEMMA SamePower == Drv!Power = Power
BY DEF Drv!Power, Power, Drv!Field, Field, Drv!FMul, FMul

LEMMA SameGroup ==
  ASSUME NEW p, NEW q
  PROVE  Drv!GroupAdd(p, q) = GroupAdd(p, q)
BY SamePower DEF Drv!GroupAdd, GroupAdd, Drv!None, None, Drv!Slope, Slope, Drv!FInvert, FInvert,
   Drv!FNeg, FNeg, Drv!FSub, FSub, Drv!FSqr, FSqr, Drv!FMul, FMul

LEMMA SameTable == Drv!Multiple = Multiple
BY SameGroup DEF Drv!Multiple, Multiple, Drv!None, None

LEMMA SameScalars == Drv!ScalarPower = ScalarPower
BY DEF Drv!ScalarPower, ScalarPower, Drv!SMul, SMul

LEMMA SameSign ==
  ASSUME NEW d, NEW h, NEW k
  PROVE  Drv!SignOutcome(d, h, k) = SignOutcome(d, h, k)
BY SameTable, SameScalars DEF Drv!SignOutcome, SignOutcome, Drv!InRange, InRange,
   Drv!ReduceOnce, ReduceOnce, Drv!SMul, SMul, Drv!SAdd, SAdd, Drv!SInvert, SInvert

LEMMA SameStandard ==
  ASSUME NEW e, NEW h, NEW r, NEW s
  PROVE  Drv!Standard(e, h, r, s) = Standard(e, h, r, s)
BY SameTable DEF Drv!Standard, Standard, Drv!KeyEncodings, KeyEncodings,
   Drv!EncodeFull, EncodeFull, Drv!EncodeHalf, EncodeHalf, Drv!None, None

(* A call that refuses its key draws no nonce; one that does not begins with none drawn. *)
LEMMA DriverBegins ==
  ASSUME DriverInv, scheme = "driver", UNCHANGED scheme, Drv!BeginSign
  PROVE  DriverInv'
<1>1. /\ phase = "idle" /\ nonce = 0 /\ draws = 0 /\ verdict = [tag |-> "none"]
      /\ key' = key /\ hash' = hash /\ nonce' = nonce /\ draws' = draws /\ sig' = sig
      /\ signed' = signed /\ usable' = usable
      /\ key \in Bytes /\ hash \in Bytes /\ (usable <=> signed = "Ok") /\ draws \in 0..MaxDraws
      /\ signed = "Ok" => Computed(sig)
  BY DEF DriverInv, Drv!BeginSign
<1>2. signed' = "Ok" => Computed(sig)'
  BY <1>1 DEF Computed
<1>3. CASE phase' = "drawing" /\ verdict' = verdict
  <2>1. verdict'.tag = "none"
    BY <1>1, <1>3
  <2>2. (Drv!NonceWiped /\ Drv!GivesUpOnlyWhenUnlucky /\ Drv!ReturnsLowSignature)'
    BY <1>3, <2>1 DEF Drv!NonceWiped, Drv!GivesUpOnlyWhenUnlucky, Drv!ReturnsLowSignature
  <2> QED
    BY <1>1, <1>2, <1>3, <2>2 DEF DriverInv
<1>4. CASE ~InRange(key) /\ phase' = "returned" /\ verdict' = [tag |-> "InvalidKey"]
  <2>1. verdict'.tag = "InvalidKey" /\ key \notin 1..(Order - 1)
    BY <1>1, <1>4, Sizes DEF InRange
  <2>2. (Drv!NonceWiped /\ Drv!GivesUpOnlyWhenUnlucky /\ Drv!ReturnsLowSignature)'
    BY <1>1, <1>4, <2>1 DEF Drv!NonceWiped, Drv!GivesUpOnlyWhenUnlucky, Drv!ReturnsLowSignature
  <2> QED
    BY <1>1, <1>2, <1>4, <2>2 DEF DriverInv
<1> QED
  BY <1>3, <1>4, SameArithmetic DEF Drv!BeginSign, Drv!Returns

(* A nonce that is drawn is counted, and a signature ends the loop. *)
LEMMA DriverDraws ==
  ASSUME DriverInv, scheme = "driver", UNCHANGED scheme, NEW k \in Bytes, Drv!Draw(k)
  PROVE  DriverInv'
<1> DEFINE outcome == SignOutcome(key, hash, k)
<1>1. /\ phase = "drawing" /\ draws < MaxDraws /\ signed # "Ok" /\ draws' = draws + 1
      /\ usable' = (usable \/ outcome.ok)
      /\ IF outcome.ok THEN signed' = "Ok" /\ sig' = <<outcome.r, outcome.s>>
         ELSE signed' = "BadScalar" /\ sig' = sig
      /\ phase' = phase /\ key' = key /\ hash' = hash /\ verdict' = verdict
  BY SameSign DEF Drv!Draw
<1>2. /\ key \in Bytes /\ hash \in Bytes /\ draws \in 0..MaxDraws
      /\ verdict = [tag |-> "none"] /\ (usable <=> signed = "Ok")
  BY <1>1 DEF DriverInv
<1>3. signed' = "Ok" => Computed(sig)'
  <2>1. ASSUME outcome.ok PROVE Computed(sig)'
    <3>1. key \in Nat /\ k \in Nat
      BY <1>2, Sizes DEF Bytes
    <3>2. Signs(key, hash, k, outcome.r, outcome.s)
      BY <1>2, <2>1, <3>1, SignSigns
    <3>3. sig' = <<outcome.r, outcome.s>>
      BY <1>1, <2>1
    <3>4. sig'[1] = outcome.r /\ sig'[2] = outcome.s
      BY <3>3
    <3> QED
      BY <1>1, <3>2, <3>4 DEF Computed
  <2> QED
    BY <1>1, <2>1
<1>4. usable' <=> signed' = "Ok"
  <2> HIDE DEF outcome
  <2> QED
    BY <1>1, <1>2
<1>5. draws' \in 0..MaxDraws
  <2>1. MaxDraws \in Nat
    BY SignaturesAssumption DEF Drv!DriverParameters
  <2> QED
    BY <1>1, <1>2, <2>1
<1>6. verdict'.tag = "none"
  BY <1>1, <1>2
<1>7. (Drv!NonceWiped /\ Drv!GivesUpOnlyWhenUnlucky /\ Drv!ReturnsLowSignature)'
  BY <1>1, <1>6 DEF Drv!NonceWiped, Drv!GivesUpOnlyWhenUnlucky, Drv!ReturnsLowSignature
<1> HIDE DEF outcome
<1> QED
  BY <1>1, <1>2, <1>3, <1>4, <1>5, <1>7 DEF DriverInv

(* low_s takes the lower of s and n - s. *)
LEMMA LowerHalf ==
  ASSUME NEW s \in 1..(Order - 1)
  PROVE  Drv!LowS(s) \in {s, Order - s} /\ 2 * Drv!LowS(s) < Order
<1>1. Order \in Nat /\ Order % 2 = 1 /\ s \in Int /\ 0 < s /\ s < Order
  BY Sizes
<1>2. SNeg(s) = Order - s
  <2>1. Order - s \in 0..(Order - 1) /\ Order > 0
    BY <1>1
  <2> DEFINE c == Order - s
  <2> HIDE DEF c
  <2>2. c % Order = c
    BY <1>1, <2>1, Remainder DEF c
  <2> QED
    BY <2>2 DEF SNeg, c
<1>3. Drv!LowS(s) = IF Order \div 2 < s THEN Order - s ELSE s
  BY <1>2, SameArithmetic DEF Drv!LowS
<1> QED
  BY <1>1, <1>3

(* The call that leaves sign wipes the nonce, and returns the pair with s or with n - s. *)
LEMMA DriverEnds ==
  ASSUME DriverInv, scheme = "driver", UNCHANGED scheme, Drv!EndSign
  PROVE  DriverInv'
<1>1. /\ phase = "drawing" /\ (draws = MaxDraws \/ signed = "Ok") /\ nonce' = 0
      /\ phase' = "returned"
      /\ verdict' = IF signed # "Ok" \/ ~InRange(sig[2]) THEN [tag |-> "InvalidInput"]
                    ELSE [tag |-> "Ok", r |-> sig[1], s |-> Drv!LowS(sig[2])]
      /\ key' = key /\ hash' = hash /\ draws' = draws /\ sig' = sig /\ signed' = signed
      /\ usable' = usable
  BY SameArithmetic DEF Drv!EndSign, Drv!Returns
<1>2. /\ key \in Bytes /\ hash \in Bytes /\ draws \in 0..MaxDraws
      /\ (usable <=> signed = "Ok") /\ (signed = "Ok" => Computed(sig))
  BY <1>1 DEF DriverInv
<1>3. signed' = "Ok" => Computed(sig)'
  BY <1>1, <1>2 DEF Computed
<1>4. Drv!NonceWiped'
  BY <1>1 DEF Drv!NonceWiped
<1>5. (Drv!GivesUpOnlyWhenUnlucky /\ Drv!ReturnsLowSignature)'
  <2>1. CASE signed # "Ok"
    <3>1. verdict' = [tag |-> "InvalidInput"]
      BY <1>1, <2>1
    <3>2. verdict'.tag = "InvalidInput" /\ draws' = MaxDraws /\ ~usable'
      BY <1>1, <1>2, <2>1, <3>1
    <3> QED
      BY <3>2 DEF Drv!GivesUpOnlyWhenUnlucky, Drv!ReturnsLowSignature
  <2>2. CASE signed = "Ok"
    <3>1. PICK k \in Bytes : Signs(key, hash, k, sig[1], sig[2])
      BY <1>2, <2>2 DEF Computed
    <3>2. key \in 1..(Order - 1) /\ sig[2] \in 1..(Order - 1) /\ hash \in Nat
      BY <1>2, <3>1, Sizes DEF Signs, Bytes
    <3>3. InRange(sig[2])
      BY <3>2, Sizes DEF InRange
    <3> DEFINE low == Drv!LowS(sig[2])
    <3>4. verdict' = [tag |-> "Ok", r |-> sig[1], s |-> low]
      BY <1>1, <2>2, <3>3
    <3>5. low \in {sig[2], Order - sig[2]} /\ 2 * low < Order
      BY <3>2, LowerHalf
    <3>6. EncodeFull(Multiple[key]) \in KeyEncodings(key)
      BY DEF KeyEncodings
    <3>7. Standard(EncodeFull(Multiple[key]), hash, sig[1], low)
      BY <3>1, <3>2, <3>5, <3>6, SignedIsStandard
    <3> HIDE DEF low
    <3>8. verdict'.tag = "Ok" /\ verdict'.r = sig[1] /\ verdict'.s = low
      BY <3>4
    <3>9. Drv!Standard(Drv!EncodeFull(Drv!Multiple[key]), hash, sig[1], low)
      BY <3>7, SameStandard, SameTable, SameArithmetic
    <3>10. Drv!ReturnsLowSignature'
      BY <1>1, <3>5, <3>8, <3>9 DEF Drv!ReturnsLowSignature
    <3> QED
      BY <3>8, <3>10 DEF Drv!GivesUpOnlyWhenUnlucky
  <2> QED
    BY <2>1, <2>2
<1> QED
  BY <1>1, <1>2, <1>3, <1>4, <1>5 DEF DriverInv

(* The driver's verify leaves what its sign left. *)
LEMMA DriverVerifies ==
  ASSUME DriverInv, scheme = "driver", UNCHANGED scheme, NEW q, NEW r, NEW s,
         Drv!DriverVerify(q, r, s)
  PROVE  DriverInv'
<1>1. /\ phase = "idle" /\ phase' = "returned" /\ verdict'.tag = "verified"
      /\ key' = key /\ hash' = hash /\ nonce' = nonce /\ draws' = draws /\ sig' = sig
      /\ signed' = signed /\ usable' = usable
  BY DEF Drv!DriverVerify, Drv!Returns
<1>2. (Drv!NonceWiped /\ Drv!GivesUpOnlyWhenUnlucky /\ Drv!ReturnsLowSignature)'
  BY <1>1 DEF DriverInv, Drv!NonceWiped, Drv!GivesUpOnlyWhenUnlucky, Drv!ReturnsLowSignature
<1> QED
  BY <1>1, <1>2 DEF DriverInv, Computed

(* Every step keeps the invariant of the driver. *)
LEMMA DriverStep == DriverInv /\ [SchemeNext]_allVars => DriverInv'
<1> SUFFICES ASSUME DriverInv, [SchemeNext]_allVars PROVE DriverInv'
  OBVIOUS
<1>1. CASE UNCHANGED allVars
  <2>1. /\ scheme' = scheme /\ key' = key /\ hash' = hash /\ nonce' = nonce /\ draws' = draws
        /\ sig' = sig /\ signed' = signed /\ usable' = usable /\ phase' = phase
        /\ verdict' = verdict
    BY <1>1 DEF allVars, vars, driverVars
  <2>2. Computed(sig)' <=> Computed(sig)
    BY <2>1 DEF Computed
  <2>3. /\ Drv!NonceWiped' <=> Drv!NonceWiped
        /\ Drv!GivesUpOnlyWhenUnlucky' <=> Drv!GivesUpOnlyWhenUnlucky
        /\ Drv!ReturnsLowSignature' <=> Drv!ReturnsLowSignature
    BY <2>1 DEF Drv!NonceWiped, Drv!GivesUpOnlyWhenUnlucky, Drv!ReturnsLowSignature
  <2> QED
    BY <2>1, <2>2, <2>3 DEF DriverInv
<1>2. CASE SchemeNext /\ scheme # "driver"
  BY <1>2 DEF SchemeNext, DriverInv
<1>3. CASE SchemeNext /\ scheme = "driver"
  <2>1. Drv!Next /\ UNCHANGED scheme
    BY <1>3 DEF SchemeNext
  <2> QED
    BY <1>3, <2>1, DriverBegins, DriverDraws, DriverEnds, DriverVerifies, SameArithmetic
    DEF Drv!Next
<1> QED
  BY <1>1, <1>2, <1>3

LEMMA DriverAlways == SchemeSpec => []DriverInv
BY DriverInitially, DriverStep, PTL DEF SchemeSpec

(* NonceWiped: once the driver's sign has returned, by whichever path, its buffer
   holds no nonce (embassy.rs, sign). *)
THEOREM NonceIsWiped == SchemeSpec => []NonceWiped
<1>1. DriverInv => NonceWiped
  BY DEF DriverInv, NonceWiped
<1> QED
  BY <1>1, DriverAlways, PTL

(* GivesUpOnlyWhenUnlucky: the driver's sign fails only for an invalid key, or after
   MaxDraws nonces none of which was usable (embassy.rs, sign). *)
THEOREM SignGivesUpOnlyWhenUnlucky == SchemeSpec => []GivesUpOnlyWhenUnlucky
<1>1. DriverInv => GivesUpOnlyWhenUnlucky
  BY DEF DriverInv, GivesUpOnlyWhenUnlucky
<1> QED
  BY <1>1, DriverAlways, PTL

(* ReturnsLowSignature: what the driver's sign returns is a signature of its digest
   under its key with s at most n/2, negated or not (embassy.rs, sign and low_s). *)
THEOREM LowSignatureIsReturned == SchemeSpec => []ReturnsLowSignature
<1>1. DriverInv => ReturnsLowSignature
  BY DEF DriverInv, ReturnsLowSignature
<1> QED
  BY <1>1, DriverAlways, PTL
-------------------------------------------------------------------------------
(* What the variables hold, in the two schemes that use ecdsa.rs. *)
TypeInv == /\ scheme \in {"ecdsa", "ed25519", "driver"}
           /\ scheme = "ecdsa" => TypeOK
           /\ scheme = "driver" => Drv!TypeOK

(* Every variable begins with a value of its kind. *)
LEMMA TypedInitially == SchemeInit => TypeInv
<1>1. ASSUME SchemeInit, scheme = "ecdsa" PROVE TypeOK
  BY <1>1 DEF SchemeInit, Init, TypeOK
<1>2. ASSUME SchemeInit, scheme = "driver" PROVE Drv!TypeOK
  <2>1. Drv!Init
    BY <1>2 DEF SchemeInit
  <2>2. MaxDraws \in Nat /\ 0 \in Drv!Bytes
    BY SignaturesAssumption, Sizes DEF Drv!DriverParameters, Drv!Bytes
  <2>3. /\ phase = "idle" /\ key \in DriverKeys /\ hash \in DriverHashes /\ nonce = 0 /\ draws = 0
        /\ sig = <<0, 0>> /\ signed = "BadScalar" /\ verdict = [tag |-> "none"] /\ usable = FALSE
    BY <2>1 DEF Drv!Init
  <2>4. verdict.tag = "none"
    BY <2>3
  <2>5. usable \in BOOLEAN
    BY <2>3
  <2>6. draws \in 0..MaxDraws
    BY <2>2, <2>3
  <2> QED
    BY <2>2, <2>3, <2>4, <2>5, <2>6 DEF Drv!TypeOK
<1> QED
  BY <1>1, <1>2 DEF TypeInv, SchemeInit

(* Under ECDSA a step leaves every variable its kind. *)
LEMMA EcdsaTyped ==
  ASSUME EcdsaInv, scheme = "ecdsa", TypeOK, Next
  PROVE  TypeOK'
<1>1. ASSUME NEW k \in Bytes, Sign(k) PROVE TypeOK'
  <2>1. PICK outcome \in {SignOutcome(key, hash, k), M4SignOutcome(key, hash, k)} :
          IF outcome.ok THEN signed' = "Ok" /\ sig' = <<outcome.r, outcome.s>>
          ELSE signed' = outcome.err /\ UNCHANGED sig
    BY <1>1 DEF Sign
  <2>2. UNCHANGED <<key, hash, query, verdict>>
    BY <1>1 DEF Sign
  <2>3. key \in Nat /\ hash \in Bytes /\ k \in Nat
    BY Sizes DEF EcdsaInv, Bytes
  <2>4. CASE outcome.ok
    <3>1. Signs(key, hash, k, outcome.r, outcome.s)
      BY <2>1, <2>3, <2>4, SignSigns
    <3>2. outcome.r \in 1..(Order - 1) /\ outcome.s \in 1..(Order - 1)
      BY <3>1 DEF Signs
    <3>3. sig' \in (1..(Order - 1)) \X (1..(Order - 1)) /\ signed' = "Ok"
      BY <2>1, <2>4, <3>2
    <3> QED
      BY <2>2, <3>3 DEF TypeOK
  <2>5. CASE ~outcome.ok
    <3>1. outcome.err = "BadScalar"
      BY <2>5 DEF SignOutcome, M4SignOutcome
    <3>2. sig' = sig /\ signed' = "BadScalar"
      BY <2>1, <2>5, <3>1
    <3> QED
      BY <2>2, <3>2 DEF TypeOK
  <2> QED
    BY <2>4, <2>5
<1>2. ASSUME NEW e \in Encoding, NEW r \in Bytes, NEW s \in Bytes, NEW z \in 1..(P - 1),
             Verify(e, r, s, z)
      PROVE  TypeOK'
  <2>1. PICK outcome \in {VerifyOutcome(e, hash, r, s, z), M4VerifyOutcome(e, hash, r, s, z)} :
          query' = <<e, r, s, outcome.pt>> /\ verdict' = outcome.res
    BY <1>2 DEF Verify
  <2>2. hash \in Bytes
    BY DEF EcdsaInv
  <2>3. /\ outcome.pt \in [x : Field, y : Field, z : Field]
        /\ outcome.res \in {"Ok", "BadLength", "BadPoint", "BadSignature"}
    BY <2>1, <2>2, VerifyTyped DEF Coordinates
  <2>4. query' \in Encoding \X Bytes \X Bytes \X [x : Field, y : Field, z : Field]
    BY <2>1, <2>3
  <2> QED
    BY <1>2, <2>1, <2>3, <2>4 DEF Verify, TypeOK
<1>3. /\ PublicKeys \cup BadKeys \subseteq Encoding /\ Zs \subseteq 1..(P - 1)
      /\ sig # <<>> => sig[1] \in Bytes /\ sig[2] \in Bytes
  <2>1. sig # <<>> => sig[1] \in Bytes /\ sig[2] \in Bytes
    BY Sizes DEF TypeOK, Bytes
  <2>2. key \in Bytes
    BY DEF EcdsaInv
  <2> QED
    BY <2>1, <2>2, PublicKeysEncoded, EcdsaAssumption
<1> QED
  BY <1>1, <1>2, <1>3 DEF Next

(* So does a step of the driver. *)
LEMMA DriverTyped ==
  ASSUME DriverInv, DriverInv', scheme = "driver", UNCHANGED scheme, Drv!TypeOK, Drv!Next
  PROVE  Drv!TypeOK'
<1>1. UNCHANGED <<key, hash>>
  BY DEF Drv!Next, Drv!BeginSign, Drv!Draw, Drv!EndSign, Drv!DriverVerify
<1>2. draws' \in 0..MaxDraws /\ phase' \in {"idle", "drawing", "returned"}
  BY DEF DriverInv
<1>3. ASSUME NEW k \in Drv!Bytes, Drv!Draw(k) PROVE Drv!TypeOK'
  <2> DEFINE outcome == SignOutcome(key, hash, k)
  <2>1. /\ nonce' = k /\ usable' = (usable \/ outcome.ok) /\ verdict' = verdict
        /\ IF outcome.ok THEN signed' = "Ok" /\ sig' = <<outcome.r, outcome.s>>
           ELSE signed' = "BadScalar" /\ sig' = sig
    BY <1>3, SameSign DEF Drv!Draw
  <2>2. outcome.ok \in BOOLEAN
    BY DEF SignOutcome
  <2>3. key \in Nat /\ hash \in Bytes /\ k \in Nat
    BY Sizes, SameArithmetic DEF DriverInv, Bytes
  <2>4. CASE outcome.ok
    <3>1. Signs(key, hash, k, outcome.r, outcome.s)
      BY <2>3, <2>4, SignSigns
    <3>2. outcome.r \in 1..(Order - 1) /\ outcome.s \in 1..(Order - 1)
      BY <3>1 DEF Signs
    <3>3. sig' \in (1..(Order - 1)) \X (1..(Order - 1)) /\ signed' = "Ok"
      BY <2>1, <2>4, <3>2
    <3>4. usable' \in BOOLEAN
      BY <2>1, <2>2 DEF Drv!TypeOK
    <3> QED
      BY <1>1, <1>2, <1>3, <2>1, <3>3, <3>4 DEF Drv!TypeOK
  <2>5. CASE ~outcome.ok
    <3>1. usable' \in BOOLEAN
      BY <2>1, <2>2 DEF Drv!TypeOK
    <3> HIDE DEF outcome
    <3> QED
      BY <1>1, <1>2, <1>3, <2>1, <2>5, <3>1 DEF Drv!TypeOK
  <2> QED
    BY <2>4, <2>5
<1>4. ASSUME Drv!BeginSign PROVE Drv!TypeOK'
  <2>1. UNCHANGED <<nonce, sig, signed, usable>>
    BY <1>4 DEF Drv!BeginSign
  <2>2. verdict' = verdict \/ verdict' = [tag |-> "InvalidKey"]
    BY <1>4 DEF Drv!BeginSign, Drv!Returns
  <2>3. verdict'.tag \in {"none", "Ok", "InvalidKey", "InvalidInput", "verified"}
    BY <2>2 DEF Drv!TypeOK
  <2> QED
    BY <1>1, <1>2, <2>1, <2>3 DEF Drv!TypeOK
<1>5. ASSUME Drv!EndSign PROVE Drv!TypeOK'
  <2>1. nonce' = 0 /\ 0 \in Drv!Bytes /\ UNCHANGED <<sig, signed, usable>>
    BY <1>5, Sizes DEF Drv!EndSign, Drv!Bytes
  <2>2. verdict'.tag \in {"Ok", "InvalidInput"}
    BY <1>5 DEF Drv!EndSign, Drv!Returns
  <2> QED
    BY <1>1, <1>2, <2>1, <2>2 DEF Drv!TypeOK
<1>6. ASSUME NEW q, NEW r, NEW s, Drv!DriverVerify(q, r, s) PROVE Drv!TypeOK'
  <2>1. UNCHANGED <<nonce, sig, signed, usable>> /\ verdict'.tag = "verified"
    BY <1>6 DEF Drv!DriverVerify, Drv!Returns
  <2> QED
    BY <1>1, <1>2, <2>1 DEF Drv!TypeOK
<1> QED
  BY <1>3, <1>4, <1>5, <1>6 DEF Drv!Next

LEMMA TypedStep ==
  EcdsaInv /\ DriverInv /\ DriverInv' /\ TypeInv /\ [SchemeNext]_allVars => TypeInv'
<1> SUFFICES ASSUME EcdsaInv, DriverInv, DriverInv', TypeInv, [SchemeNext]_allVars
             PROVE  TypeInv'
  OBVIOUS
<1>1. CASE UNCHANGED allVars
  BY <1>1 DEF TypeInv, TypeOK, Drv!TypeOK, allVars, vars, driverVars
<1>2. CASE SchemeNext
  <2>1. UNCHANGED scheme /\ (scheme = "ecdsa" => Next) /\ (scheme = "driver" => Drv!Next)
    BY <1>2 DEF SchemeNext
  <2>2. CASE scheme = "ecdsa"
    BY <2>1, <2>2, EcdsaTyped DEF TypeInv
  <2>3. CASE scheme = "driver"
    BY <2>1, <2>3, DriverTyped DEF TypeInv
  <2> QED
    BY <2>1, <2>2, <2>3 DEF TypeInv
<1> QED
  BY <1>1, <1>2

(* Under ecdsa.rs, alone or below the driver, every variable keeps its kind: a
   signature that leaves sign has both halves in [1, n-1], whichever build made it,
   verify compares a point whose coordinates are reduced and answers with one of
   its documented errors, and the driver counts at most MaxDraws nonces (sign,
   verify). *)
THEOREM SignaturesTypeCorrect ==
  SchemeSpec => [](scheme # "ed25519" => SignatureTypeOK)
<1>1. TypeInv => (scheme # "ed25519" => SignatureTypeOK)
  BY DEF TypeInv, SignatureTypeOK
<1> QED
  BY <1>1, TypedInitially, TypedStep, EcdsaAlways, DriverAlways, PTL DEF SchemeSpec
-------------------------------------------------------------------------------
(* What the assumptions say of the sizes of the parameters of secp256k1. *)
LEMMA SecpSizes ==
  /\ SecpP \in Nat /\ SecpB \in Nat /\ SecpOrder \in Nat /\ SecpLimit \in Nat
  /\ 3 <= SecpOrder /\ SecpOrder < SecpP /\ SecpP < SecpLimit /\ SecpLimit < 2 * SecpOrder
  /\ SecpOrder % 2 = 1 /\ SecpP % 4 = 3
BY KeyAgreementAssumption DEF Secp!KoblitzParameters

(* And of its group. *)
LEMMA SecpAlgebra == Secp!KoblitzGroup
BY KeyAgreementAssumption

(* The table of multiples is what its recursion says. *)
LEMMA SecpMultipleUnfolded ==
  /\ SecpMultiple[0] = Secp!None
  /\ \A m \in 1..(SecpOrder - 1) :
       SecpMultiple[m] = Secp!GroupAdd(SecpMultiple[m - 1], <<SecpGx, SecpGy>>)
  /\ \A m \in 0..(SecpOrder - 1) : SecpMultiple[m] \in Secp!Group
<1> DEFINE n == SecpOrder - 1
           Step(v) == Secp!GroupAdd(v, <<SecpGx, SecpGy>>)
           F == [m \in 1..n |-> [v \in Secp!Group |-> Step(v)]]
           body(g) == [m \in 0..n |-> IF m = 0 THEN Secp!None ELSE Step(g[m - 1])]
           s == CHOOSE g : g = body(g)
           h == Unfolded(n, Secp!Group, Secp!None, F)
<1>1. SecpMultiple = s
  BY KeyAgreementAssumption DEF Secp!KoblitzParameters, Secp!MultiplesOfG
<1>2. Secp!None \in Secp!Group /\ n \in Nat
  BY SecpSizes DEF Secp!Group
<1>3. \A v \in Secp!Group : Step(v) \in Secp!Group
  BY SecpAlgebra DEF Secp!KoblitzGroup, Secp!Group
<1> HIDE DEF n, Step
<1>4. F \in [1..n -> [Secp!Group -> Secp!Group]]
  BY <1>3
<1>5. h \in [0..n -> Secp!Group] /\ h[0] = Secp!None /\ \A m \in 1..n : h[m] = F[m][h[m - 1]]
  <2> HIDE DEF F
  <2> QED
    BY <1>2, <1>4, Unfolding
<1> HIDE DEF h
<1>6. \A m \in 1..n : h[m] = Step(h[m - 1])
  <2> TAKE m \in 1..n
  <2>1. h[m - 1] \in Secp!Group /\ h[m] = F[m][h[m - 1]]
    BY <1>2, <1>5
  <2>2. F[m] = [v \in Secp!Group |-> Step(v)]
    OBVIOUS
  <2> QED
    BY <2>1, <2>2
<1>7. h = body(h)
  BY <1>5, <1>6
<1>8. s = body(s)
  <2> HIDE DEF body
  <2> QED
    BY <1>7
<1> HIDE DEF s
<1>9. s[0] = Secp!None /\ \A m \in 1..n : s[m] = Step(s[m - 1])
  <2>1. \A m \in 0..n : s[m] = IF m = 0 THEN Secp!None ELSE Step(s[m - 1])
    BY <1>8, Zenon
  <2> QED
    BY <1>2, <2>1
<1> DEFINE S == {m \in 0..n : s[m] \in Secp!Group}
<1>10. 0 \in S /\ \A m \in 1..n : m - 1 \in S => m \in S
  BY <1>2, <1>3, <1>9
<1>11. 0..n \subseteq S
  <2> HIDE DEF S
  <2> QED
    BY <1>2, <1>10, UpTo
<1> QED
  BY <1>1, <1>9, <1>11 DEF n, Step

(* The points of the curve are pairs of field elements, which Secp!None is not. *)
LEMMA SecpPointFacts ==
  /\ Secp!None \notin Secp!CurvePoints
  /\ \A pt \in Secp!CurvePoints : /\ pt[1] \in Secp!Field /\ pt[2] \in Secp!Field
                             /\ pt = <<pt[1], pt[2]>> /\ Secp!IsOnCurve(pt[1], pt[2])
  /\ \A x, y \in Secp!Field : Secp!IsOnCurve(x, y) => <<x, y>> \in Secp!CurvePoints
<1>1. Secp!CurvePoints = {pt \in Secp!Field \X Secp!Field : Secp!IsOnCurve(pt[1], pt[2])}
  BY SecpAlgebra DEF Secp!KoblitzGroup
<1>2. Secp!None \notin Secp!Field \X Secp!Field
  BY DEF Secp!None
<1> QED
  BY <1>1, <1>2

(* Multiples add like numbers modulo the order: by induction on the second. *)
LEMMA SecpMultiplesAdd ==
  ASSUME NEW a \in 0..(SecpOrder - 1), NEW b \in 0..(SecpOrder - 1)
  PROVE  Secp!GroupAdd(SecpMultiple[a], SecpMultiple[b]) = SecpMultiple[(a + b) % SecpOrder]
<1> DEFINE G == <<SecpGx, SecpGy>>
           S == {c \in 0..(SecpOrder - 1) :
                   Secp!GroupAdd(SecpMultiple[a], SecpMultiple[c]) = SecpMultiple[(a + c) % SecpOrder]}
<1>1. 0 \in S
  <2>1. Secp!GroupAdd(SecpMultiple[a], Secp!None) = SecpMultiple[a]
    BY DEF Secp!GroupAdd
  <2>2. (a + 0) % SecpOrder = a
    BY SecpSizes
  <2> QED
    BY <2>1, <2>2, SecpMultipleUnfolded, SecpSizes
<1>2. ASSUME NEW c \in 1..(SecpOrder - 1), c - 1 \in S PROVE c \in S
  <2> DEFINE d == (a + (c - 1)) % SecpOrder
  <2>1. /\ SecpMultiple[c] = Secp!GroupAdd(SecpMultiple[c - 1], G)
        /\ SecpMultiple[a] \in Secp!Group /\ SecpMultiple[c - 1] \in Secp!Group /\ G \in Secp!Group
    <3>1. c - 1 \in 0..(SecpOrder - 1)
      BY SecpSizes
    <3>2. G \in Secp!Group
      BY SecpAlgebra DEF Secp!KoblitzGroup, Secp!Group
    <3> QED
      BY <3>1, <3>2, SecpMultipleUnfolded
  <2>2. Secp!GroupAdd(SecpMultiple[a], SecpMultiple[c])
          = Secp!GroupAdd(Secp!GroupAdd(SecpMultiple[a], SecpMultiple[c - 1]), G)
    <3>1. \A p, q \in Secp!Group :
            Secp!GroupAdd(Secp!GroupAdd(p, q), G) = Secp!GroupAdd(p, Secp!GroupAdd(q, G))
      BY SecpAlgebra DEF Secp!KoblitzGroup
    <3> HIDE DEF G
    <3> QED
      BY <2>1, <3>1
  <2>3. Secp!GroupAdd(SecpMultiple[a], SecpMultiple[c]) = Secp!GroupAdd(SecpMultiple[d], G)
    BY <1>2, <2>2
  <2>4. d \in 0..(SecpOrder - 1) /\ (a + c) % SecpOrder = IF d = SecpOrder - 1 THEN 0 ELSE d + 1
    BY SecpSizes
  <2> HIDE DEF d
  <2>5. CASE d = SecpOrder - 1
    BY <2>3, <2>4, <2>5, SecpAlgebra, SecpMultipleUnfolded DEF Secp!KoblitzGroup
  <2>6. CASE d # SecpOrder - 1
    <3>1. d + 1 \in 1..(SecpOrder - 1) /\ (d + 1) - 1 = d
      BY <2>4, <2>6, SecpSizes
    <3>2. SecpMultiple[d + 1] = Secp!GroupAdd(SecpMultiple[d], G)
      BY <3>1, SecpMultipleUnfolded
    <3> QED
      BY <2>3, <2>4, <2>6, <3>2
  <2> QED
    BY <2>5, <2>6
<1>3. 0..(SecpOrder - 1) \subseteq S
  <2>1. SecpOrder - 1 \in Nat
    BY SecpSizes
  <2> HIDE DEF S
  <2> QED
    BY <1>1, <1>2, <2>1, UpTo
<1> QED
  BY <1>3

(* No two multiples below the order are the same point, so that a point has one
   logarithm. *)
LEMMA SecpMultiplesDiffer ==
  ASSUME NEW a \in 0..(SecpOrder - 1), NEW b \in 0..(SecpOrder - 1),
         SecpMultiple[a] = SecpMultiple[b]
  PROVE  a = b
<1>1. SUFFICES ASSUME NEW c \in 0..(SecpOrder - 1), NEW d \in 0..(SecpOrder - 1),
                      SecpMultiple[c] = SecpMultiple[d], c < d
               PROVE  FALSE
  BY SecpSizes
<1>2. CASE c = 0
  BY <1>1, <1>2, SecpMultipleUnfolded, SecpPointFacts, SecpSizes DEF Secp!CurvePoints
<1>3. CASE c # 0
  <2> DEFINE e == SecpOrder - c
  <2>1. e \in 0..(SecpOrder - 1) /\ (c + e) % SecpOrder = 0
        /\ (d + e) % SecpOrder = d - c /\ d - c \in 1..(SecpOrder - 1)
    BY <1>1, <1>3, SecpSizes
  <2> HIDE DEF e
  <2>2. SecpMultiple[0] = SecpMultiple[d - c]
    BY <1>1, <2>1, SecpMultiplesAdd
  <2> QED
    BY <2>1, <2>2, SecpMultipleUnfolded, SecpPointFacts DEF Secp!CurvePoints
<1> QED
  BY <1>2, <1>3

(* ScalarMul multiplies logarithms. *)
LEMMA SecpLogarithm ==
  ASSUME NEW m \in 1..(SecpOrder - 1), NEW k
  PROVE  /\ SecpMultiple[m] \in Secp!CurvePoints
         /\ Secp!ScalarMul(k, SecpMultiple[m]) = SecpMultiple[(k * m) % SecpOrder]
<1>1. SecpMultiple[m] \in Secp!CurvePoints
  BY DEF Secp!CurvePoints
<1>2. \A l \in 1..(SecpOrder - 1) : SecpMultiple[l] = SecpMultiple[m] => l = m
  BY SecpMultiplesDiffer, SecpSizes
<1>3. m = CHOOSE l \in 1..(SecpOrder - 1) : SecpMultiple[l] = SecpMultiple[m]
  BY <1>2
<1> QED
  BY <1>1, <1>3 DEF Secp!ScalarMul

(* The opposite of a multiple: the same x, and y negated. *)
LEMMA SecpOppositeMultiple ==
  ASSUME NEW m \in 1..(SecpOrder - 1)
  PROVE  /\ SecpOrder - m \in 1..(SecpOrder - 1)
         /\ SecpMultiple[SecpOrder - m][1] = SecpMultiple[m][1]
         /\ SecpMultiple[SecpOrder - m][2] = Secp!FNeg(SecpMultiple[m][2])
<1>1. /\ SecpOrder - m \in 1..(SecpOrder - 1) /\ ((SecpOrder - m) + m) % SecpOrder = 0
      /\ SecpOrder - m \in 0..(SecpOrder - 1) /\ m \in 0..(SecpOrder - 1)
  BY SecpSizes
<1>2. Secp!GroupAdd(SecpMultiple[SecpOrder - m], SecpMultiple[m]) = Secp!None
  BY <1>1, SecpMultiplesAdd, SecpMultipleUnfolded
<1>3. SecpMultiple[m] # Secp!None /\ SecpMultiple[SecpOrder - m] # Secp!None
  BY <1>1, SecpPointFacts DEF Secp!CurvePoints
<1>4. \A x, y : <<x, y>> # Secp!None
  BY DEF Secp!None
<1> QED
  BY <1>1, <1>2, <1>3, <1>4 DEF Secp!GroupAdd
-------------------------------------------------------------------------------
(* The operations of the field answer with field elements. *)
LEMMA SecpFieldClosed ==
  /\ \A a, b \in Secp!Field : /\ Secp!FAdd(a, b) \in Secp!Field /\ Secp!FSub(a, b) \in Secp!Field
                         /\ Secp!FMul(a, b) \in Secp!Field /\ Secp!FSqr(a) \in Secp!Field
  /\ \A a \in Secp!Field : Secp!FNeg(a) = IF a = 0 THEN 0 ELSE SecpP - a
<1>1. SecpP \in Nat /\ SecpP > 0
  BY SecpSizes
<1> QED
  BY <1>1, Residues DEF Secp!Field, Secp!FAdd, Secp!FSub, Secp!FMul, Secp!FSqr, Secp!FNeg

(* So does the right side of the curve equation. *)
LEMMA SecpRhsInField ==
  ASSUME NEW x \in Secp!Field
  PROVE  Secp!Rhs(x) \in Secp!Field
<1>1. SecpB % SecpP \in Secp!Field
  BY SecpSizes, Division DEF Secp!Field
<1> QED
  BY <1>1, SecpFieldClosed DEF Secp!Rhs

(* Powers, by squaring and multiplying, are field elements, in both fields. *)
PowerMod(p, a, e) ==
  LET pow[n \in 0..e] ==
        IF n = 0 THEN 1
        ELSE (((pow[n \div 2] * pow[n \div 2]) % p) * (IF n % 2 = 1 THEN a ELSE 1)) % p
  IN  pow[e]

(* A power modulo p is a residue. *)
LEMMA PowerClosed ==
  ASSUME NEW p \in Nat, p > 1, NEW a \in 0..(p - 1), NEW e \in Nat
  PROVE  PowerMod(p, a, e) \in 0..(p - 1)
<1> DEFINE V == 0..(p - 1)
           Step(n, v) == (((v * v) % p) * (IF n % 2 = 1 THEN a ELSE 1)) % p
           F == [n \in 1..e |-> [v \in V |-> Step(n, v)]]
           body(g) == [n \in 0..e |-> IF n = 0 THEN 1 ELSE Step(n, g[n \div 2])]
           s == CHOOSE g : g = body(g)
           h == HalvesOf(e, V, 1, F)
<1>1. PowerMod(p, a, e) = s[e]
  BY DEF PowerMod
<1>2. 1 \in V /\ \A v, w \in V : (v * w) % p \in V
  BY Residues
<1>3. \A n \in 1..e, v \in V : Step(n, v) \in V
  <2> SUFFICES ASSUME NEW n \in 1..e, NEW v \in V PROVE Step(n, v) \in V
    OBVIOUS
  <2>1. (v * v) % p \in V /\ (IF n % 2 = 1 THEN a ELSE 1) \in V
    BY <1>2
  <2> HIDE DEF V
  <2> QED
    BY <1>2, <2>1
<1> HIDE DEF V, Step
<1>4. F \in [1..e -> [V -> V]]
  BY <1>3
<1>5. h \in [0..e -> V] /\ h[0] = 1 /\ \A n \in 1..e : h[n] = F[n][h[n \div 2]]
  <2>1. 1 \in V
    BY <1>2
  <2> HIDE DEF F
  <2> QED
    BY <2>1, <1>4, Halving
<1> HIDE DEF h
<1>6. \A n \in 1..e : h[n] = Step(n, h[n \div 2])
  <2> SUFFICES ASSUME NEW n \in 1..e PROVE h[n] = Step(n, h[n \div 2])
    OBVIOUS
  <2>1. n \div 2 \in 0..e
    OBVIOUS
  <2>2. h[n \div 2] \in V /\ h[n] = F[n][h[n \div 2]]
    BY <1>5, <2>1
  <2>3. F[n] = [v \in V |-> Step(n, v)]
    OBVIOUS
  <2> QED
    BY <2>2, <2>3
<1>7. h = body(h)
  BY <1>5, <1>6
<1>8. s = body(s)
  <2> HIDE DEF body
  <2> QED
    BY <1>7
<1> HIDE DEF s
<1>9. s[0] = 1 /\ \A n \in 1..e : s[n] = Step(n, s[n \div 2])
  <2>1. \A n \in 0..e : s[n] = IF n = 0 THEN 1 ELSE Step(n, s[n \div 2])
    BY <1>8, Zenon
  <2> QED
    BY <2>1
<1> DEFINE S == {n \in 0..e : s[n] \in V}
<1>10. 0 \in S /\ \A n \in 1..e : n \div 2 \in S => n \in S
  BY <1>2, <1>3, <1>9
<1>11. 0..e \subseteq S
  <2> HIDE DEF S
  <2> QED
    BY <1>10, HalvingKeeps
<1> QED
  BY <1>1, <1>11 DEF V

LEMMA SecpPowerInField ==
  ASSUME NEW a \in Secp!Field, NEW e \in Nat
  PROVE  Secp!Power(a, e) \in Secp!Field
<1>1. Secp!Power(a, e) = PowerMod(SecpP, a, e)
  BY DEF Secp!Power, PowerMod, Secp!FMul, Secp!FSqr
<1>2. SecpP \in Nat /\ SecpP > 1 /\ a \in 0..(SecpP - 1)
  BY SecpSizes DEF Secp!Field
<1> QED
  BY <1>1, <1>2, PowerClosed DEF Secp!Field

(* A number and its negative have one square. *)
LEMMA SecpSquareOfNegative ==
  ASSUME NEW a \in Secp!Field
  PROVE  Secp!FNeg(a) \in Secp!Field /\ Secp!FSqr(Secp!FNeg(a)) = Secp!FSqr(a)
<1>1. /\ a \in 0..(SecpP - 1) /\ SecpP \in Nat /\ SecpP > 0
      /\ Secp!FNeg(a) = IF a = 0 THEN 0 ELSE SecpP - a
  BY SecpFieldClosed, SecpSizes DEF Secp!Field
<1>2. ((SecpP - a) * (SecpP - a)) % SecpP = (a * a) % SecpP
  BY <1>1, SquareOfOpposite
<1> QED
  BY <1>1, <1>2 DEF Secp!FSqr, Secp!FMul, Secp!Field

(* FSqrt answers with a root, or with P. *)
LEMMA SecpRootFacts ==
  ASSUME NEW a \in Secp!Field, Secp!FSqrt(a) # SecpP
  PROVE  Secp!FSqrt(a) \in Secp!Field /\ Secp!FSqr(Secp!FSqrt(a)) = a
<1>1. CASE a = 0
  <2>1. (0 * 0) % SecpP = 0
    BY SecpSizes
  <2> QED
    BY <1>1, <2>1, SecpSizes DEF Secp!FSqrt, Secp!FSqr, Secp!FMul, Secp!Field
<1>2. CASE a # 0
  <2>1. (SecpP + 1) \div 4 \in Nat
    BY SecpSizes
  <2> QED
    BY <1>2, <2>1, SecpPowerInField DEF Secp!FSqrt
<1> QED
  BY <1>1, <1>2

(* The order is odd: no point is its own opposite. *)
LEMMA SecpNoHalves ==
  ASSUME NEW pt \in Secp!CurvePoints
  PROVE  pt[2] # 0
<1>1. SUFFICES ASSUME pt[2] = 0 PROVE FALSE
  OBVIOUS
<1>2. PICK m \in 1..(SecpOrder - 1) : pt = SecpMultiple[m]
  BY DEF Secp!CurvePoints
<1>3. /\ SecpOrder - m \in 1..(SecpOrder - 1)
      /\ SecpMultiple[SecpOrder - m][1] = pt[1] /\ SecpMultiple[SecpOrder - m][2] = Secp!FNeg(pt[2])
  BY <1>2, SecpOppositeMultiple
<1>4. Secp!FNeg(pt[2]) = 0
  BY <1>1, SecpFieldClosed, SecpSizes DEF Secp!Field
<1>5. SecpMultiple[SecpOrder - m] = SecpMultiple[m]
  <2>1. SecpMultiple[SecpOrder - m] \in Secp!CurvePoints
    BY <1>3 DEF Secp!CurvePoints
  <2> QED
    BY <1>1, <1>2, <1>3, <1>4, <2>1, SecpPointFacts
<1>6. SecpOrder - m = m
  <2>1. SecpOrder - m \in 0..(SecpOrder - 1) /\ m \in 0..(SecpOrder - 1)
    BY <1>3
  <2> QED
    BY <1>5, <2>1, SecpMultiplesDiffer
<1> QED
  BY <1>6, SecpSizes
-------------------------------------------------------------------------------
(* SecpP is odd: of a number and its opposite one is odd. *)
LEMMA SecpOpposites ==
  ASSUME NEW y \in Int
  PROVE  (SecpP - y) % 2 = 1 <=> ~(y % 2 = 1)
<1>1. SecpP % 2 = 1 /\ SecpP \in Int
  BY SecpSizes
<1> QED
  BY <1>1

(* What a compressed encoding decodes to is a point whose y has the parity its tag
   says... *)
LEMMA SecpHalfFinds ==
  ASSUME NEW e \in Secp!Encoding, Secp!DecodeHalf(e).ok
  PROVE  /\ Secp!DecodeHalf(e).pt \in Secp!CurvePoints
         /\ Secp!DecodeHalf(e).pt[1] = e.x
         /\ (Secp!DecodeHalf(e).pt[2] % 2 = 1) <=> (e.tag = 3)
<1> DEFINE root == Secp!FSqrt(Secp!Rhs(e.x))
           y == IF (root % 2 = 1) # (e.tag = 3) THEN Secp!FNeg(root) ELSE root
<1>1. /\ e.x \in Secp!Field /\ root # SecpP /\ Secp!IsOnCurve(e.x, y)
      /\ Secp!DecodeHalf(e).pt = <<e.x, y>>
  <2>1. ~(e.x >= SecpP) /\ root # SecpP /\ Secp!IsOnCurve(e.x, y)
        /\ Secp!DecodeHalf(e) = Secp!Decoded(<<e.x, y>>)
    BY DEF Secp!DecodeHalf, Secp!Refused
  <2>2. e.x \in Nat
    BY SecpSizes DEF Secp!Encoding
  <2> HIDE DEF y
  <2> QED
    BY <2>1, <2>2, SecpSizes DEF Secp!Field, Secp!Decoded
<1>2. root \in Secp!Field
  BY <1>1, SecpRhsInField, SecpRootFacts
<1>3. Secp!FNeg(root) \in Secp!Field /\ Secp!FNeg(root) = IF root = 0 THEN 0 ELSE SecpP - root
  BY <1>2, SecpSquareOfNegative, SecpFieldClosed
<1> HIDE DEF root
<1>4. y \in Secp!Field
  BY <1>2, <1>3
<1>5. <<e.x, y>> \in Secp!CurvePoints
  <2> HIDE DEF y
  <2> QED
    BY <1>1, <1>4, SecpPointFacts
<1>6. root # 0
  <2>1. SUFFICES ASSUME root = 0 PROVE FALSE
    OBVIOUS
  <2>2. y = 0
    BY <1>3, <2>1
  <2>3. <<e.x, y>>[2] # 0
    BY <1>5, SecpNoHalves
  <2> QED
    BY <2>2, <2>3
<1>7. (y % 2 = 1) <=> (e.tag = 3)
  <2>1. root \in Int /\ Secp!FNeg(root) = SecpP - root
        /\ ((SecpP - root) % 2 = 1 <=> ~(root % 2 = 1))
    BY <1>2, <1>3, <1>6, SecpSizes, SecpOpposites DEF Secp!Field
  <2>2. CASE (root % 2 = 1) # (e.tag = 3)
    <3>1. y = SecpP - root
      BY <2>1, <2>2
    <3>2. (root % 2 = 1) <=> ~(e.tag = 3)
      BY <2>2
    <3> HIDE DEF y
    <3> QED
      BY <2>1, <3>1, <3>2
  <2>3. CASE (root % 2 = 1) = (e.tag = 3)
    BY <2>3
  <2> QED
    BY <2>2, <2>3
<1> HIDE DEF y
<1> QED
  BY <1>1, <1>5, <1>7

(* ... and every point is found. *)
LEMMA SecpHalfComplete ==
  ASSUME NEW pt \in Secp!CurvePoints, NEW e, e.x = pt[1], (e.tag = 3) <=> (pt[2] % 2 = 1)
  PROVE  Secp!DecodeHalf(e) = Secp!Decoded(pt)
<1> DEFINE root == Secp!FSqrt(Secp!Rhs(e.x))
           y == IF (root % 2 = 1) # (e.tag = 3) THEN Secp!FNeg(root) ELSE root
<1>1. /\ pt[1] \in Secp!Field /\ pt[2] \in Secp!Field /\ pt = <<pt[1], pt[2]>>
      /\ Secp!IsOnCurve(pt[1], pt[2]) /\ pt[2] # 0
  BY SecpPointFacts, SecpNoHalves
<1>2. root \in {pt[2], Secp!FNeg(pt[2])}
  BY <1>1, SecpAlgebra DEF Secp!KoblitzGroup, Secp!IsOnCurve
<1>3. pt[2] \in Int /\ 0 < pt[2] /\ pt[2] < SecpP /\ ~(pt[1] >= SecpP)
      /\ Secp!FNeg(pt[2]) = SecpP - pt[2] /\ SecpP - pt[2] # 0
  BY <1>1, SecpFieldClosed, SecpSizes DEF Secp!Field
<1>4. Secp!FNeg(SecpP - pt[2]) = pt[2]
  <2> DEFINE c == SecpP - pt[2]
  <2>1. c \in Secp!Field /\ c # 0 /\ SecpP - c = pt[2]
    BY <1>3, SecpSizes DEF Secp!Field
  <2> HIDE DEF c
  <2>2. Secp!FNeg(c) = pt[2]
    BY <2>1, SecpFieldClosed
  <2> QED
    BY <2>2 DEF c
<1>5. y = pt[2] /\ root # SecpP
  <2>1. (SecpP - pt[2]) % 2 = 1 <=> ~(pt[2] % 2 = 1)
    BY <1>3, SecpOpposites
  <2> HIDE DEF root
  <2>2. CASE root = pt[2]
    <3>1. (root % 2 = 1) <=> (e.tag = 3)
      BY <2>2
    <3> QED
      BY <1>3, <2>2, <3>1
  <2>3. CASE root = SecpP - pt[2]
    <3>1. (root % 2 = 1) <=> ~(e.tag = 3)
      BY <2>1, <2>3
    <3>2. Secp!FNeg(root) = pt[2]
      BY <1>4, <2>3
    <3> QED
      BY <1>3, <2>3, <3>1, <3>2, SecpSizes
  <2> QED
    BY <1>2, <1>3, <2>2, <2>3
<1>6. Secp!DecodeHalf(e) = IF e.x >= SecpP THEN Secp!Refused("InvalidEncoding")
                           ELSE IF root = SecpP \/ ~Secp!IsOnCurve(e.x, y)
                                THEN Secp!Refused("PointNotOnCurve")
                           ELSE Secp!Decoded(<<e.x, y>>)
  BY DEF Secp!DecodeHalf
<1> HIDE DEF root, y
<1> QED
  BY <1>1, <1>3, <1>5, <1>6

(* The encodings of a point, in either form, decode to it... *)
LEMMA SecpEncodedDecodes ==
  ASSUME NEW pt \in Secp!CurvePoints, NEW compress \in BOOLEAN
  PROVE  /\ Secp!Decode(Secp!Encode(pt, compress)) = Secp!Decoded(pt)
         /\ Secp!Encode(pt, compress) \in Secp!Encoding
<1> DEFINE e == Secp!Encode(pt, compress)
<1>1. /\ pt[1] \in Nat /\ pt[2] \in Nat /\ pt[1] < SecpP /\ pt[2] < SecpP
      /\ pt = <<pt[1], pt[2]>> /\ Secp!IsOnCurve(pt[1], pt[2])
  BY SecpPointFacts, SecpSizes DEF Secp!Field
<1>2. CASE compress
  <2>1. /\ e.len = 33 /\ e.tag = (IF pt[2] % 2 = 1 THEN 3 ELSE 2) /\ e.x = pt[1] /\ e.y = 0
        /\ e \in [len : {0, 1, 33, 65}, tag : 0..7, x : Nat, y : Nat]
    BY <1>1, <1>2 DEF Secp!Encode
  <2> HIDE DEF e
  <2>2. e \in Secp!Encoding
    BY <1>1, <2>1, SecpSizes DEF Secp!Encoding
  <2>3. (e.tag = 3 <=> pt[2] % 2 = 1) /\ e.tag \in {2, 3}
    BY <2>1
  <2>4. Secp!DecodeHalf(e) = Secp!Decoded(pt)
    BY <2>1, <2>3, SecpHalfComplete
  <2> QED
    BY <2>1, <2>2, <2>3, <2>4 DEF Secp!Decode, e
<1>3. CASE ~compress
  <2>1. /\ e.len = 65 /\ e.tag = 4 /\ e.x = pt[1] /\ e.y = pt[2]
        /\ e \in [len : {0, 1, 33, 65}, tag : 0..7, x : Nat, y : Nat]
    BY <1>1, <1>3 DEF Secp!Encode
  <2> HIDE DEF e
  <2>2. e \in Secp!Encoding
    BY <1>1, <2>1, SecpSizes DEF Secp!Encoding
  <2>3. Secp!Decode(e) = Secp!Decoded(pt)
    BY <1>1, <2>1, SecpSizes DEF Secp!Decode, Secp!DecodeFull
  <2> QED
    BY <2>2, <2>3 DEF e
<1> QED
  BY <1>2, <1>3

(* ... nothing else does, and what is refused is refused with one of two errors. *)
LEMMA SecpDecodedIsEncoded ==
  ASSUME NEW e \in Secp!Encoding
  PROVE  /\ Secp!Decode(e).ok =>
              /\ Secp!Decode(e).pt \in Secp!CurvePoints
              /\ \E compress \in BOOLEAN : e = Secp!Encode(Secp!Decode(e).pt, compress)
         /\ ~Secp!Decode(e).ok => Secp!Decode(e).err \in {"InvalidEncoding", "PointNotOnCurve"}
<1>1. /\ e.len \in {0, 1, 33, 65} /\ e.tag \in 0..7 /\ e.x \in Nat /\ e.y \in Nat
      /\ e.len = 33 => e.y = 0
      /\ e = [len |-> e.len, tag |-> e.tag, x |-> e.x, y |-> e.y]
  BY SecpSizes DEF Secp!Encoding
<1>2. ~Secp!Decode(e).ok => Secp!Decode(e).err \in {"InvalidEncoding", "PointNotOnCurve"}
  BY DEF Secp!Decode, Secp!DecodeHalf, Secp!DecodeFull, Secp!Decoded, Secp!Refused
<1>3. SUFFICES ASSUME Secp!Decode(e).ok
               PROVE  /\ Secp!Decode(e).pt \in Secp!CurvePoints
                      /\ \E compress \in BOOLEAN : e = Secp!Encode(Secp!Decode(e).pt, compress)
  BY <1>2
<1>4. CASE e.len = 33 /\ e.tag \in {2, 3}
  <2> DEFINE pt == Secp!DecodeHalf(e).pt
  <2>1. Secp!DecodeHalf(e).ok /\ Secp!Decode(e).pt = pt
    BY <1>3, <1>4 DEF Secp!Decode
  <2>2. pt \in Secp!CurvePoints /\ pt[1] = e.x /\ ((pt[2] % 2 = 1) <=> (e.tag = 3))
    BY <2>1, SecpHalfFinds
  <2> HIDE DEF pt
  <2>3. e.tag = IF pt[2] % 2 = 1 THEN 3 ELSE 2
    BY <1>4, <2>2
  <2>4. e = Secp!Encode(pt, TRUE)
    BY <1>1, <1>4, <2>2, <2>3 DEF Secp!Encode
  <2> QED
    BY <2>1, <2>2, <2>4
<1>5. CASE e.len = 65 /\ e.tag = 4
  <2>1. /\ e.x < SecpP /\ e.y < SecpP /\ Secp!IsOnCurve(e.x, e.y)
        /\ Secp!Decode(e).pt = <<e.x, e.y>>
    <3>1. Secp!Decode(e) = Secp!DecodeFull(e)
      BY <1>5 DEF Secp!Decode
    <3>2. SecpP \in Int
      BY SecpSizes
    <3> QED
      BY <1>1, <1>3, <3>1, <3>2 DEF Secp!DecodeFull, Secp!Decoded, Secp!Refused
  <2>2. e.x \in Secp!Field /\ e.y \in Secp!Field
    BY <1>1, <2>1, SecpSizes DEF Secp!Field
  <2>3. <<e.x, e.y>> \in Secp!CurvePoints
    BY <2>1, <2>2, SecpPointFacts
  <2>4. e = Secp!Encode(<<e.x, e.y>>, FALSE)
    BY <1>1, <1>5, <2>1 DEF Secp!Encode
  <2> QED
    BY <2>1, <2>3, <2>4
<1>6. CASE ~(e.len = 33 /\ e.tag \in {2, 3}) /\ ~(e.len = 65 /\ e.tag = 4)
  BY <1>3, <1>6 DEF Secp!Decode, Secp!Refused
<1> QED
  BY <1>4, <1>5, <1>6
-------------------------------------------------------------------------------
(* X25519 computes in its own field: a ladder of any number of turns ends with a
   field element, whatever u it starts from. *)
LEMMA MontSizes ==
  /\ XP \in Nat /\ XP > 1 /\ XA24 \in Nat /\ XBaseU \in Nat /\ XULimit \in Nat /\ XULimit > 0
  /\ XBits \in Nat /\ XBits > 0
BY KeyAgreementAssumption DEF Mont!X25519Parameters

(* The operations of X25519 answer with field elements. *)
LEMMA MontClosed ==
  /\ \A a, b \in Mont!Field : /\ Mont!FAdd(a, b) \in Mont!Field /\ Mont!FSub(a, b) \in Mont!Field
                              /\ Mont!FMul(a, b) \in Mont!Field /\ Mont!FSqr(a) \in Mont!Field
  /\ \A a \in Mont!Field : Mont!FMul(XA24, a) \in Mont!Field /\ Mont!FInvert(a) \in Mont!Field
<1>1. XP \in Nat /\ XP > 0 /\ XP > 1 /\ XA24 \in Int
  BY MontSizes
<1>2. ASSUME NEW a \in Mont!Field PROVE Mont!FMul(XA24, a) \in Mont!Field
  <2> DEFINE c == XA24 * a
  <2>1. c \in Int
    BY <1>1 DEF Mont!Field
  <2> HIDE DEF c
  <2>2. c % XP \in 0..(XP - 1)
    BY <1>1, <2>1, Division
  <2> QED
    BY <2>2 DEF Mont!FMul, Mont!Field, c
<1>3. ASSUME NEW a \in Mont!Field PROVE Mont!FInvert(a) \in Mont!Field
  <2>1. Mont!FInvert(a) = PowerMod(XP, a, XP - 2)
    BY DEF Mont!FInvert, Mont!Power, PowerMod, Mont!FMul, Mont!FSqr
  <2>2. XP - 2 \in Nat /\ a \in 0..(XP - 1)
    BY <1>1 DEF Mont!Field
  <2> QED
    BY <1>1, <2>1, <2>2, PowerClosed DEF Mont!Field
<1> QED
  BY <1>1, <1>2, <1>3, Residues DEF Mont!Field, Mont!FAdd, Mont!FSub, Mont!FMul, Mont!FSqr

(* States of the ladder, whose turns take the bits in the set given. *)
LadderStates(bits) ==
  [x2 : Mont!Field, z2 : Mont!Field, x3 : Mont!Field, z3 : Mont!Field, swap : bits]

(* A turn of the ladder leaves field elements in its registers. *)
LEMMA TurnTyped ==
  ASSUME NEW x1 \in Mont!Field, NEW bits, NEW s \in LadderStates(bits), NEW kt \in bits
  PROVE  Mont!Turn(x1, s, kt) \in LadderStates(bits)
<1> DEFINE t  == IF s.swap # kt THEN Mont!CSwap(s) ELSE s
           sum2 == Mont!FAdd(t.x2, t.z2)
           dif2 == Mont!FSub(t.x2, t.z2)
           aa == Mont!FSqr(sum2)
           bb == Mont!FSqr(dif2)
           da == Mont!FMul(Mont!FSub(t.x3, t.z3), sum2)
           cb == Mont!FMul(Mont!FAdd(t.x3, t.z3), dif2)
           e  == Mont!FSub(aa, bb)
           x2 == Mont!FMul(aa, bb)
           z2 == Mont!FMul(e, Mont!FAdd(aa, Mont!FMul(XA24, e)))
           x3 == Mont!FSqr(Mont!FAdd(da, cb))
           z3 == Mont!FMul(x1, Mont!FSqr(Mont!FSub(da, cb)))
<1>1. Mont!Turn(x1, s, kt) = [x2 |-> x2, z2 |-> z2, x3 |-> x3, z3 |-> z3, swap |-> kt]
  BY DEF Mont!Turn
<1>2. t.x2 \in Mont!Field /\ t.z2 \in Mont!Field /\ t.x3 \in Mont!Field /\ t.z3 \in Mont!Field
  BY DEF LadderStates, Mont!CSwap
<1> HIDE DEF t
<1>3. sum2 \in Mont!Field /\ dif2 \in Mont!Field
  BY <1>2, MontClosed
<1> HIDE DEF sum2, dif2
<1>4. aa \in Mont!Field /\ bb \in Mont!Field /\ da \in Mont!Field /\ cb \in Mont!Field
  BY <1>2, <1>3, MontClosed
<1> HIDE DEF aa, bb, da, cb
<1>5. e \in Mont!Field
  BY <1>4, MontClosed
<1> HIDE DEF e
<1>6. x2 \in Mont!Field /\ z2 \in Mont!Field /\ x3 \in Mont!Field /\ z3 \in Mont!Field
  BY <1>4, <1>5, MontClosed
<1> HIDE DEF x2, z2, x3, z3
<1> QED
  BY <1>1, <1>6 DEF LadderStates

(* So does the ladder, and scalarmult answers with one. *)
LEMMA ScalarmultTyped ==
  ASSUME NEW k \in Nat, NEW u \in Nat
  PROVE  Mont!Scalarmult(k, u) \in Mont!Field
<1> DEFINE n == XBits - 1
           x1 == Mont!Coordinate(u)
           bit(i) == (Mont!Clamp(k) \div 2 ^ (XBits - 1 - i)) % 2
           bits == {0} \cup {bit(i) : i \in 1..n}
           V == LadderStates(bits)
           F == [i \in 1..n |-> [s \in V |-> Mont!Turn(x1, s, bit(i))]]
           body(g) == [i \in 0..n |-> IF i = 0 THEN Mont!Start(x1)
                                   ELSE Mont!Turn(x1, g[i - 1], bit(i))]
           after == CHOOSE g : g = body(g)
           h == Unfolded(n, V, Mont!Start(x1), F)
<1>1. Mont!Scalarmult(k, u) = Mont!Result(after[n])
  BY DEF Mont!Scalarmult
<1>2. n \in Nat
  BY MontSizes
<1>3. x1 \in Mont!Field
  <2>1. u % XULimit \in Int
    BY MontSizes, Division
  <2> DEFINE v == u % XULimit
  <2> HIDE DEF v
  <2>2. v % XP \in 0..(XP - 1)
    BY <2>1, MontSizes, Division DEF v
  <2> QED
    BY <2>2 DEF Mont!Coordinate, Mont!Field, v
<1> HIDE DEF x1
<1>4. Mont!Start(x1) \in V
  <2>1. 0 \in Mont!Field /\ 1 \in Mont!Field /\ 0 \in bits
    BY MontSizes DEF Mont!Field
  <2> HIDE DEF bits
  <2> QED
    BY <1>3, <2>1 DEF Mont!Start, LadderStates
<1>5. \A i \in 1..n : bit(i) \in bits
  OBVIOUS
<1> HIDE DEF n, bit, bits
<1>6. \A i \in 1..n, s \in V : Mont!Turn(x1, s, bit(i)) \in V
  BY <1>3, <1>5, TurnTyped
<1> HIDE DEF V
<1>7. F \in [1..n -> [V -> V]]
  BY <1>6
<1>8. h \in [0..n -> V] /\ h[0] = Mont!Start(x1) /\ \A i \in 1..n : h[i] = F[i][h[i - 1]]
  <2> HIDE DEF F
  <2> QED
    BY <1>2, <1>4, <1>7, Unfolding
<1> HIDE DEF h
<1>9. \A i \in 1..n : h[i] = Mont!Turn(x1, h[i - 1], bit(i))
  <2> SUFFICES ASSUME NEW i \in 1..n PROVE h[i] = Mont!Turn(x1, h[i - 1], bit(i))
    OBVIOUS
  <2>1. h[i - 1] \in V /\ h[i] = F[i][h[i - 1]]
    BY <1>2, <1>8
  <2>2. F[i] = [s \in V |-> Mont!Turn(x1, s, bit(i))]
    OBVIOUS
  <2> QED
    BY <2>1, <2>2
<1>10. h = body(h)
  BY <1>8, <1>9
<1>11. after = body(after)
  <2> HIDE DEF body
  <2> QED
    BY <1>10
<1> HIDE DEF after
<1>12. after[0] = Mont!Start(x1) /\ \A i \in 1..n : after[i] = Mont!Turn(x1, after[i - 1], bit(i))
  <2>1. \A i \in 0..n : after[i] = IF i = 0 THEN Mont!Start(x1)
                                 ELSE Mont!Turn(x1, after[i - 1], bit(i))
    BY <1>11, Zenon
  <2> QED
    BY <1>2, <2>1
<1> DEFINE S == {i \in 0..n : after[i] \in V}
<1>13. 0 \in S /\ \A i \in 1..n : i - 1 \in S => i \in S
  BY <1>2, <1>4, <1>6, <1>12
<1>14. n \in S
  <2> HIDE DEF S
  <2>1. 0..n \subseteq S
    BY <1>2, <1>13, UpTo
  <2> QED
    BY <1>2, <2>1
<1> DEFINE last == Mont!Unswapped(after[n])
<1>15. last.x2 \in Mont!Field /\ last.z2 \in Mont!Field
  BY <1>14 DEF V, LadderStates, Mont!Unswapped, Mont!CSwap
<1> HIDE DEF last
<1>16. Mont!FMul(last.x2, Mont!FInvert(last.z2)) \in Mont!Field
  BY <1>15, MontClosed
<1> QED
  BY <1>1, <1>16 DEF Mont!Result, last
-------------------------------------------------------------------------------
(* What a call answers, whichever build makes it. *)
NistErrors == {"none", "Ok", "BadLength", "BadScalar", "BadPoint"}

(* The product of two scalars in range is one, reduced. *)
LEMMA ProductInRange ==
  ASSUME NEW k \in 1..(Order - 1), NEW m \in 1..(Order - 1)
  PROVE  (k * m) % Order \in 1..(Order - 1)
<1> DEFINE n == Order
           c == k * m
           i == SInvert(m)
           one == 1
<1>1. /\ n \in Nat /\ n > 0 /\ k \in Int /\ m \in Int /\ i \in Int
      /\ k \in 0..(n - 1) /\ 0 \in 0..(n - 1) /\ k # 0
  BY ScalarAssumption, Sizes
<1>2. Same(n, m * i, one)
  <2>1. (m * i) % n = 1 /\ 1 % n = 1
    BY ScalarAssumption, Sizes, Remainder DEF SMul
  <2> QED
    BY <2>1 DEF Same
<1>3. 0 * m = 0 /\ c \in Int
  BY <1>1
<1> HIDE DEF n, i, c
<1>4. ASSUME Same(n, k * m, 0 * m)
      PROVE  FALSE
  <2>1. Same(n, m * i, 1)
    BY <1>2 DEF one
  <2>2. k = 0
    BY <1>1, <1>4, <2>1, CancelFactor, Zenon
  <2> QED
    BY <1>1, <2>2
<1>5. c % n # 0
  <2>1. 0 % n = 0
    BY <1>1, Remainder
  <2> QED
    BY <1>3, <1>4, <2>1 DEF Same, c
<1>6. c % n \in 0..(n - 1)
  BY <1>1, <1>3, Division
<1> QED
  BY <1>1, <1>5, <1>6 DEF c, n

(* pk holds an encoding of the public key of the secret k. *)
IsKeyOf(k, pk) == \E c \in BOOLEAN : pk = <<Encode(c, Multiple[k])>>

(* derive_public_key writes the key of a scalar in range, in either encoding, or nothing. *)
LEMMA NistPublicAnswers ==
  ASSUME NEW k \in Nat, NEW compress \in BOOLEAN, NEW ok \in BOOLEAN,
         NEW r \in {NistPublic(k, compress, ok), M4Public(k, compress, ok)}
  PROVE  /\ r.bytes # Untouched =>
              /\ ScalarInRange(k)
              /\ IsKeyOf(k, r.bytes)
         /\ ScalarInRange(k) => r.result \in {"Ok", "BadLength"}
         /\ r.result \in NistErrors
<1>1. CASE ~ok
  BY <1>1 DEF NistPublic, M4Public, Failed, NistErrors
<1>2. CASE ok /\ ~ScalarInRange(k)
  BY <1>2 DEF NistPublic, M4Public, Failed, NistErrors
<1>3. CASE ok /\ ScalarInRange(k)
  <2>1. k \in 1..(Order - 1) /\ k % Order = k
    <3>1. k \in 1..(Order - 1) /\ k \in 0..(Order - 1) /\ Order \in Nat /\ Order > 0
      BY <1>3, Sizes DEF ScalarInRange
    <3> QED
      BY <3>1, Remainder
  <2>2. Multiple[k] # None
    BY <2>1, PointFacts DEF CurvePoints
  <2>3. r = Written(Encode(compress, Multiple[k]))
    BY <1>3, <2>1, <2>2 DEF NistPublic, M4Public
  <2> QED
    BY <1>3, <2>3 DEF Written, NistErrors, IsKeyOf
<1> QED
  BY <1>1, <1>2, <1>3

(* A scalar in range takes no point of the curve to infinity. *)
LEMMA NistSharedOnCurve ==
  ASSUME NEW k \in 1..(Order - 1), NEW e \in Encoding, Decode(e).ok
  PROVE  ScalarMul(k, Decode(e).pt) \in CurvePoints
<1>1. PICK m \in 1..(Order - 1) : Decode(e).pt = Multiple[m]
  BY DecodedIsEncoded DEF CurvePoints
<1>2. (k * m) % Order \in 1..(Order - 1)
  BY ProductInRange
<1>3. ScalarMul(k, Decode(e).pt) = Multiple[(k * m) % Order]
  BY <1>1, Logarithm DEF ScalarMul
<1> QED
  BY <1>2, <1>3 DEF CurvePoints

(* shared_secret, of either build, writes an x-coordinate exactly for a scalar in range, an
   encoding that decodes and buffers of the right length. *)
LEMMA NistSharedAnswers ==
  ASSUME NEW k \in Nat, NEW e \in Encoding, NEW ok \in BOOLEAN,
         NEW r \in {NistShared(k, e, ok), M4Shared(k, e, ok)}
  PROVE  /\ r.bytes # Untouched =>
              /\ ScalarInRange(k) /\ Decode(e).ok
              /\ r.bytes = <<ScalarMul(k, Decode(e).pt)[1]>>
         /\ ScalarInRange(k) /\ Decode(e).ok => r.result \in {"Ok", "BadLength"}
         /\ r.result \in NistErrors
<1>1. CASE ~ok
  BY <1>1 DEF NistShared, M4Shared, Failed, NistErrors
<1>2. CASE ok /\ ~ScalarInRange(k)
  BY <1>2 DEF NistShared, M4Shared, Failed, NistErrors
<1>3. CASE ok /\ ScalarInRange(k) /\ ~Decode(e).ok
  BY <1>3, BuildsDecodeAlike DEF NistShared, M4Shared, Failed, NistErrors
<1>4. CASE ok /\ ScalarInRange(k) /\ Decode(e).ok
  <2> DEFINE shared == ScalarMul(k, Decode(e).pt)
  <2>1. shared # None
    <3>1. k \in 1..(Order - 1)
      BY <1>4, Sizes DEF ScalarInRange
    <3> QED
      BY <1>4, <3>1, NistSharedOnCurve, PointFacts
  <2>2. r = Written(shared[1])
    BY <1>4, <2>1, BuildsDecodeAlike DEF NistShared, M4Shared
  <2> HIDE DEF shared
  <2>3. r.bytes = <<shared[1]>> /\ r.result = "Ok"
    BY <2>2 DEF Written
  <2> QED
    BY <1>4, <2>3 DEF NistErrors, shared
<1> QED
  BY <1>1, <1>2, <1>3, <1>4

SecpErrors == {"none", "Ok", "InvalidScalar", "InvalidEncoding", "PointNotOnCurve",
               "PointAtInfinity"}

(* A multiple of the base point is None exactly when its scalar is one of the order. *)
LEMMA SecpInfinity ==
  ASSUME NEW k \in Int
  PROVE  /\ k % SecpOrder \in 0..(SecpOrder - 1)
         /\ SecpMultiple[k % SecpOrder] = Secp!None <=> k % SecpOrder = 0
<1> DEFINE c == k % SecpOrder
<1>1. c \in 0..(SecpOrder - 1)
  BY SecpSizes, Division
<1> HIDE DEF c
<1>2. c = 0 => SecpMultiple[c] = Secp!None
  BY SecpMultipleUnfolded
<1>3. c # 0 => SecpMultiple[c] # Secp!None
  <2> SUFFICES ASSUME c # 0
               PROVE  SecpMultiple[c] # Secp!None
    OBVIOUS
  <2>1. c \in 1..(SecpOrder - 1)
    BY <1>1, SecpSizes
  <2> QED
    BY <2>1, SecpPointFacts DEF Secp!CurvePoints
<1> QED
  BY <1>1, <1>2, <1>3 DEF c

(* public_key_from_secret writes the key of a scalar that is no multiple of the order, or
   nothing. *)
LEMMA SecpPublicAnswers ==
  ASSUME NEW k \in Nat, NEW compress \in BOOLEAN
  PROVE  /\ SecpPublic(k, compress).bytes # Untouched =>
              /\ k % SecpOrder # 0
              /\ \E c \in BOOLEAN :
                   SecpPublic(k, compress).bytes = <<Secp!Encode(SecpMultiple[k % SecpOrder], c)>>
         /\ SecpPublic(k, compress).result \in SecpErrors
<1> DEFINE pt == SecpMultiple[k % SecpOrder]
<1>1. pt = Secp!None <=> k % SecpOrder = 0
  BY SecpInfinity
<1> HIDE DEF pt
<1>2. SecpPublic(k, compress) = IF k = 0 THEN Failed("InvalidScalar")
                                ELSE IF pt = Secp!None THEN Failed("PointAtInfinity")
                                ELSE Written(Secp!Encode(pt, compress))
  BY DEF SecpPublic, pt, Secp!None, None
<1>3. CASE k = 0 \/ pt = Secp!None
  BY <1>2, <1>3 DEF Failed, SecpErrors
<1>4. CASE ~(k = 0 \/ pt = Secp!None)
  BY <1>1, <1>2, <1>4 DEF Written, SecpErrors, pt
<1> QED
  BY <1>3, <1>4

(* ecdh writes an x-coordinate exactly for an encoding that decodes and a scalar that is no
   multiple of the order. *)
LEMMA SecpSharedAnswers ==
  ASSUME NEW k \in Nat, NEW e \in Secp!Encoding
  PROVE  /\ SecpShared(k, e).bytes # Untouched =>
              /\ k % SecpOrder # 0 /\ Secp!Decode(e).ok
              /\ SecpShared(k, e).bytes = <<Secp!ScalarMul(k, Secp!Decode(e).pt)[1]>>
              /\ Secp!ScalarMul(k, Secp!Decode(e).pt) \in Secp!CurvePoints
         /\ k % SecpOrder # 0 /\ Secp!Decode(e).ok => SecpShared(k, e).bytes # Untouched
         /\ SecpShared(k, e).result \in SecpErrors
<1> DEFINE shared == Secp!ScalarMul(k, Secp!Decode(e).pt)
<1>1. SecpShared(k, e) = IF ~Secp!Decode(e).ok THEN Failed(Secp!Decode(e).err)
                         ELSE IF shared = Secp!None THEN Failed("PointAtInfinity")
                         ELSE Written(shared[1])
  BY DEF SecpShared, Secp!None, None
<1>2. CASE ~Secp!Decode(e).ok
  BY <1>1, <1>2, SecpDecodedIsEncoded DEF Failed, SecpErrors
<1>3. CASE Secp!Decode(e).ok
  <2>1. PICK m \in 1..(SecpOrder - 1) : Secp!Decode(e).pt = SecpMultiple[m]
    BY <1>3, SecpDecodedIsEncoded DEF Secp!CurvePoints
  <2>2. shared = SecpMultiple[(k * m) % SecpOrder]
    BY <2>1, SecpLogarithm
  <2> DEFINE c == k * m
             l == k % SecpOrder
             n == SecpOrder
  <2>3. /\ c \in Int /\ k \in Int /\ m \in Int /\ n \in Nat /\ n > 0
        /\ l \in 0..(n - 1) /\ Same(n, l, k)
    BY SecpSizes, Remainder
  <2>4. Same(n, l * m, c)
    <3> HIDE DEF n, l, c
    <3>1. l \in Int /\ k \in Int /\ m \in Int
      BY <2>3
    <3>2. Same(n, l * m, k * m)
      BY <2>3, <3>1, SameTimes, Zenon
    <3> QED
      BY <3>2 DEF c
  <2>5. c % n = 0 <=> l = 0
    <3>1. l = 0 => l * m = 0 /\ 0 % n = 0
      BY <2>3, Remainder
    <3>2. l # 0 => (l * m) % n # 0
      <4>1. l # 0 => l \in 1..(SecpOrder - 1)
        BY <2>3
      <4> HIDE DEF l
      <4> QED
        BY <4>1, SecpAlgebra DEF Secp!KoblitzGroup
    <3> QED
      BY <2>4, <3>1, <3>2 DEF Same
  <2>6. c % n \in 0..(n - 1) /\ (SecpMultiple[c % n] = Secp!None <=> c % n = 0)
    BY <2>3, SecpInfinity
  <2> HIDE DEF c, l, n
  <2>7. shared = Secp!None <=> l = 0
    BY <2>2, <2>5, <2>6 DEF c, n
  <2>8. l # 0 => shared \in Secp!CurvePoints
    BY <2>2, <2>3, <2>5, <2>6 DEF Secp!CurvePoints, c, n
  <2> HIDE DEF shared
  <2>9. CASE l = 0
    <3>1. SecpShared(k, e) = Failed("PointAtInfinity")
      BY <1>1, <1>3, <2>7, <2>9
    <3> QED
      BY <2>9, <3>1 DEF Failed, SecpErrors, l
  <2>10. CASE l # 0
    <3>1. SecpShared(k, e) = Written(shared[1])
      BY <1>1, <1>3, <2>7, <2>10
    <3>2. SecpShared(k, e).bytes = <<shared[1]>> /\ SecpShared(k, e).result = "Ok"
      BY <3>1 DEF Written
    <3> QED
      BY <1>3, <2>8, <2>10, <3>2 DEF SecpErrors, Untouched, l, shared
  <2> QED
    BY <2>9, <2>10
<1> QED
  BY <1>2, <1>3
-------------------------------------------------------------------------------
(* The inductive invariant.  What a party holds: its secret k, the public key pk it
   derived, the encoding h it took for its peer's, the shared secret o and the
   result r of its last call; each, where there is one, is the answer of the call
   to the others. *)
NistTook(k, e, o, r) ==
  /\ o # Untouched => /\ ScalarInRange(k) /\ Decode(e).ok
                      /\ o = <<ScalarMul(k, Decode(e).pt)[1]>>
  /\ ScalarInRange(k) /\ Decode(e).ok => r \in {"Ok", "BadLength"}

NistHolds(k, pk, h, o, r) ==
  /\ k \in Nat /\ r \in NistErrors
  /\ pk # Untouched => /\ ScalarInRange(k)
                       /\ IsKeyOf(k, pk)
  /\ h = Untouched => o = Untouched
  /\ h # Untouched => \E e \in Encoding : h = <<e>> /\ NistTook(k, e, o, r)

SecpTook(k, e, o) ==
  /\ o # Untouched => /\ k % SecpOrder # 0 /\ Secp!Decode(e).ok
                      /\ Secp!ScalarMul(k, Secp!Decode(e).pt) \in Secp!CurvePoints
                      /\ o = <<Secp!ScalarMul(k, Secp!Decode(e).pt)[1]>>
  /\ k % SecpOrder # 0 /\ Secp!Decode(e).ok => o # Untouched

SecpHolds(k, pk, h, o, r) ==
  /\ k \in Nat /\ r \in SecpErrors
  /\ pk # Untouched => /\ k % SecpOrder # 0
                       /\ \E c \in BOOLEAN : pk = <<Secp!Encode(SecpMultiple[k % SecpOrder], c)>>
  /\ h = Untouched => o = Untouched
  /\ h # Untouched => \E e \in Secp!Encoding : h = <<e>> /\ SecpTook(k, e, o)

XHolds(k, pk, h, o, r) ==
  /\ k \in Nat /\ r \in {"none", "Ok"}
  /\ pk # Untouched => \E v \in Mont!Field : pk = <<v>>
  /\ o # Untouched => \E v \in Mont!Field : o = <<v>>

Holds(p) ==
  /\ family = "nist" => NistHolds(secret[p], pub[p], heard[p], out[p], result[p])
  /\ family = "secp256k1" => SecpHolds(secret[p], pub[p], heard[p], out[p], result[p])
  /\ family = "x25519" => XHolds(secret[p], pub[p], heard[p], out[p], result[p])

Books == /\ family \in {"nist", "secp256k1", "x25519"}
         /\ DOMAIN secret = Party /\ pub = [p \in Party |-> pub[p]]
         /\ heard = [p \in Party |-> heard[p]] /\ out = [p \in Party |-> out[p]]
         /\ result = [p \in Party |-> result[p]]
         /\ \A p \in Party : Holds(p)
-------------------------------------------------------------------------------
(* A derived key is an encoding, and decodes to the point it was made of. *)
LEMMA NistKeyDecodes ==
  ASSUME NEW k \in 1..(Order - 1), NEW c \in BOOLEAN
  PROVE  /\ Encode(c, Multiple[k]) \in Encoding
         /\ Decode(Encode(c, Multiple[k])) = Decoded(Multiple[k])
<1>1. Multiple[k] \in CurvePoints
  BY Logarithm
<1>2. Encode(c, Multiple[k]) \in {EncodeFull(Multiple[k]), EncodeHalf(Multiple[k])}
  BY DEF Encode
<1> QED
  BY <1>1, <1>2, EncodedDecodes

(* The same of a key of secp256k1, whose scalar may be more than the order. *)
LEMMA SecpKeyDecodes ==
  ASSUME NEW k \in Nat, k % SecpOrder # 0, NEW c \in BOOLEAN
  PROVE  /\ k % SecpOrder \in 1..(SecpOrder - 1)
         /\ SecpMultiple[k % SecpOrder] \in Secp!CurvePoints
         /\ Secp!Encode(SecpMultiple[k % SecpOrder], c) \in Secp!Encoding
         /\ Secp!Decode(Secp!Encode(SecpMultiple[k % SecpOrder], c))
              = Secp!Decoded(SecpMultiple[k % SecpOrder])
<1> DEFINE l == k % SecpOrder
<1>1. l \in 0..(SecpOrder - 1) /\ l # 0
  BY SecpInfinity
<1> HIDE DEF l
<1>2. l \in 1..(SecpOrder - 1)
  BY <1>1, SecpSizes
<1>3. SecpMultiple[l] \in Secp!CurvePoints
  BY <1>2, SecpLogarithm
<1>4. /\ Secp!Decode(Secp!Encode(SecpMultiple[l], c)) = Secp!Decoded(SecpMultiple[l])
      /\ Secp!Encode(SecpMultiple[l], c) \in Secp!Encoding
  BY <1>3, SecpEncodedDecodes
<1> QED
  BY <1>2, <1>3, <1>4 DEF l

(* What a call answers is held as the invariant says. *)
LEMMA NistDerives ==
  ASSUME NEW k, NEW h, NEW o, NEW old, NistHolds(k, Untouched, h, o, old),
         NEW compress \in BOOLEAN, NEW ok \in BOOLEAN,
         NEW r \in {NistPublic(k, compress, ok), M4Public(k, compress, ok)}
  PROVE  NistHolds(k, r.bytes, h, o, r.result)
<1>1. k \in Nat
  BY DEF NistHolds
<1>2. r.bytes # Untouched => /\ ScalarInRange(k)
                             /\ IsKeyOf(k, r.bytes)
  BY <1>1, NistPublicAnswers
<1>3. ScalarInRange(k) => r.result \in {"Ok", "BadLength"}
  BY <1>1, NistPublicAnswers
<1>4. r.result \in NistErrors
  BY <1>1, NistPublicAnswers
<1> QED
  BY <1>2, <1>3, <1>4 DEF NistHolds, NistTook

LEMMA NistShares ==
  ASSUME NEW k, NEW pk, NEW h, NEW o, NEW old, NistHolds(k, pk, h, o, old),
         NEW e \in Encoding, NEW ok \in BOOLEAN,
         NEW r \in {NistShared(k, e, ok), M4Shared(k, e, ok)}
  PROVE  NistHolds(k, pk, <<e>>, r.bytes, r.result)
<1>1. k \in Nat
  BY DEF NistHolds
<1>2. NistTook(k, e, r.bytes, r.result) /\ r.result \in NistErrors
  BY <1>1, NistSharedAnswers DEF NistTook
<1> QED
  BY <1>2 DEF NistHolds, Untouched

LEMMA SecpDerives ==
  ASSUME NEW k, NEW h, NEW o, NEW old, SecpHolds(k, Untouched, h, o, old),
         NEW compress \in BOOLEAN
  PROVE  SecpHolds(k, SecpPublic(k, compress).bytes, h, o, SecpPublic(k, compress).result)
<1>1. k \in Nat
  BY DEF SecpHolds
<1> QED
  BY <1>1, SecpPublicAnswers DEF SecpHolds

LEMMA SecpShares ==
  ASSUME NEW k, NEW pk, NEW h, NEW o, NEW old, SecpHolds(k, pk, h, o, old),
         NEW e \in Secp!Encoding
  PROVE  SecpHolds(k, pk, <<e>>, SecpShared(k, e).bytes, SecpShared(k, e).result)
<1>1. k \in Nat
  BY DEF SecpHolds
<1>2. SecpTook(k, e, SecpShared(k, e).bytes) /\ SecpShared(k, e).result \in SecpErrors
  BY <1>1, SecpSharedAnswers DEF SecpTook
<1> QED
  BY <1>2 DEF SecpHolds, Untouched

(* X25519 answers with field elements. *)
LEMMA XAnswers ==
  ASSUME NEW k, NEW pk, NEW h, NEW o, NEW old, XHolds(k, pk, h, o, old), NEW u \in Nat
  PROVE  /\ XHolds(k, XPublic(k).bytes, h, o, XPublic(k).result)
         /\ XHolds(k, pk, <<u>>, XShared(k, u).bytes, XShared(k, u).result)
<1>1. k \in Nat
  BY DEF XHolds
<1>2. Mont!PublicKey(k) \in Mont!Field /\ Mont!Scalarmult(k, u) \in Mont!Field
  BY <1>1, MontSizes, ScalarmultTyped DEF Mont!PublicKey
<1> QED
  BY <1>2 DEF XHolds, XPublic, XShared, Written
-------------------------------------------------------------------------------
(* At first nobody holds anything but a secret. *)
LEMMA BooksAtFirst == AgreementInit => Books
<1> SUFFICES ASSUME AgreementInit
             PROVE  Books
  OBVIOUS
<1>1. /\ Secrets \subseteq Nat /\ SecpSecrets \subseteq Nat /\ XSecrets \subseteq Nat
  BY KeyAgreementAssumption, Sizes, SecpSizes
<1>2. /\ family \in {"nist", "secp256k1", "x25519"}
      /\ secret \in [Party -> Secrets \cup SecpSecrets \cup XSecrets]
  BY DEF AgreementInit
<1>3. \A p \in Party : secret[p] \in Nat
  BY <1>1, <1>2
<1>4. ASSUME NEW p \in Party
      PROVE  Holds(p)
  <2>1. pub[p] = Untouched /\ heard[p] = Untouched /\ out[p] = Untouched /\ result[p] = "none"
    BY DEF AgreementInit
  <2> QED
    BY <1>3, <2>1 DEF Holds, NistHolds, SecpHolds, XHolds, NistErrors, SecpErrors
<1> QED
  BY <1>2, <1>4 DEF Books, AgreementInit

(* A party's call leaves what the other holds as it was. *)
LEMMA DeriveEffect ==
  ASSUME Books, NEW p \in Party, NEW r, Derive(p, r),
         /\ family = "nist" => NistHolds(secret[p], r.bytes, heard[p], out[p], r.result)
         /\ family = "secp256k1" => SecpHolds(secret[p], r.bytes, heard[p], out[p], r.result)
         /\ family = "x25519" => XHolds(secret[p], r.bytes, heard[p], out[p], r.result)
  PROVE  Books'
<1>1. family' = family /\ secret' = secret /\ heard' = heard /\ out' = out
  BY DEF Derive
<1>2. /\ pub' = [q \in Party |-> IF q = p THEN r.bytes ELSE pub[q]]
      /\ result' = [q \in Party |-> IF q = p THEN r.result ELSE result[q]]
  BY DEF Derive, Books
<1>3. ASSUME NEW q \in Party
      PROVE  Holds(q)'
  <2>1. CASE q = p
    BY <1>1, <1>2, <2>1 DEF Holds
  <2>2. CASE q # p
    <3>1. pub'[q] = pub[q] /\ result'[q] = result[q]
      BY <1>2, <2>2
    <3> QED
      BY <1>1, <3>1 DEF Holds, Books
  <2> QED
    BY <2>1, <2>2
<1> QED
  BY <1>1, <1>2, <1>3 DEF Books

LEMMA ShareEffect ==
  ASSUME Books, NEW p \in Party, NEW e, NEW r, Share(p, e, r),
         /\ family = "nist" => NistHolds(secret[p], pub[p], <<e>>, r.bytes, r.result)
         /\ family = "secp256k1" => SecpHolds(secret[p], pub[p], <<e>>, r.bytes, r.result)
         /\ family = "x25519" => XHolds(secret[p], pub[p], <<e>>, r.bytes, r.result)
  PROVE  Books'
<1>1. family' = family /\ secret' = secret /\ pub' = pub
  BY DEF Share
<1>2. /\ heard' = [q \in Party |-> IF q = p THEN <<e>> ELSE heard[q]]
      /\ out' = [q \in Party |-> IF q = p THEN r.bytes ELSE out[q]]
      /\ result' = [q \in Party |-> IF q = p THEN r.result ELSE result[q]]
  BY DEF Share, Books
<1>3. ASSUME NEW q \in Party
      PROVE  Holds(q)'
  <2>1. CASE q = p
    BY <1>1, <1>2, <2>1 DEF Holds
  <2>2. CASE q # p
    <3>1. heard'[q] = heard[q] /\ out'[q] = out[q] /\ result'[q] = result[q]
      BY <1>2, <2>2
    <3> QED
      BY <1>1, <3>1 DEF Holds, Books
  <2> QED
    BY <2>1, <2>2
<1> QED
  BY <1>1, <1>2, <1>3 DEF Books

(* One lemma for each action; HearPeer's takes the encoding from the peer's key. *)
LEMMA DeriveKeyKeepsBooks ==
  ASSUME Books, NEW p \in Party, DeriveKey(p)
  PROVE  Books'
<1>1. Holds(p) /\ pub[p] = Untouched
  BY DEF Books, DeriveKey
<1>2. CASE family = "nist"
  <2>1. PICK compress \in BOOLEAN, ok \in BOOLEAN :
               \/ Derive(p, NistPublic(secret[p], compress, ok))
               \/ Derive(p, M4Public(secret[p], compress, ok))
    BY <1>2 DEF DeriveKey
  <2>2. PICK r \in {NistPublic(secret[p], compress, ok), M4Public(secret[p], compress, ok)} :
               Derive(p, r)
    BY <2>1
  <2>3. NistHolds(secret[p], Untouched, heard[p], out[p], result[p])
    BY <1>1, <1>2 DEF Holds
  <2>4. NistHolds(secret[p], r.bytes, heard[p], out[p], r.result)
    BY <2>3, NistDerives
  <2> QED
    BY <1>2, <2>2, <2>4, DeriveEffect
<1>3. CASE family = "secp256k1"
  <2>1. PICK compress \in BOOLEAN : Derive(p, SecpPublic(secret[p], compress))
    BY <1>3 DEF DeriveKey
  <2>2. SecpHolds(secret[p], Untouched, heard[p], out[p], result[p])
    BY <1>1, <1>3 DEF Holds
  <2>3. SecpHolds(secret[p], SecpPublic(secret[p], compress).bytes, heard[p], out[p],
                  SecpPublic(secret[p], compress).result)
    BY <2>2, SecpDerives
  <2> QED
    BY <1>3, <2>1, <2>3, DeriveEffect
<1>4. CASE family = "x25519"
  <2>1. Derive(p, XPublic(secret[p]))
    BY <1>4 DEF DeriveKey
  <2>2. XHolds(secret[p], pub[p], heard[p], out[p], result[p])
    BY <1>1, <1>4 DEF Holds
  <2>3. XHolds(secret[p], XPublic(secret[p]).bytes, heard[p], out[p], XPublic(secret[p]).result)
    BY <2>2, XAnswers
  <2> QED
    BY <1>4, <2>1, <2>3, DeriveEffect
<1> QED
  BY <1>2, <1>3, <1>4 DEF Books

LEMMA NistShareKeepsBooks ==
  ASSUME Books, NEW p \in Party, family = "nist", NEW e \in Encoding, NEW ok \in BOOLEAN,
         \/ Share(p, e, NistShared(secret[p], e, ok))
         \/ Share(p, e, M4Shared(secret[p], e, ok))
  PROVE  Books'
<1>1. PICK r \in {NistShared(secret[p], e, ok), M4Shared(secret[p], e, ok)} : Share(p, e, r)
  OBVIOUS
<1>2. NistHolds(secret[p], pub[p], heard[p], out[p], result[p])
  BY DEF Books, Holds
<1>3. NistHolds(secret[p], pub[p], <<e>>, r.bytes, r.result)
  BY <1>2, NistShares
<1> QED
  BY <1>1, <1>3, ShareEffect

LEMMA SecpShareKeepsBooks ==
  ASSUME Books, NEW p \in Party, family = "secp256k1", NEW e \in Secp!Encoding,
         Share(p, e, SecpShared(secret[p], e))
  PROVE  Books'
<1>1. SecpHolds(secret[p], pub[p], heard[p], out[p], result[p])
  BY DEF Books, Holds
<1>2. SecpHolds(secret[p], pub[p], <<e>>, SecpShared(secret[p], e).bytes,
                SecpShared(secret[p], e).result)
  BY <1>1, SecpShares
<1> QED
  BY <1>2, ShareEffect

LEMMA XShareKeepsBooks ==
  ASSUME Books, NEW p \in Party, family = "x25519", NEW u \in Nat,
         Share(p, u, XShared(secret[p], u))
  PROVE  Books'
<1>1. XHolds(secret[p], pub[p], heard[p], out[p], result[p])
  BY DEF Books, Holds
<1>2. XHolds(secret[p], pub[p], <<u>>, XShared(secret[p], u).bytes,
             XShared(secret[p], u).result)
  BY <1>1, XAnswers
<1> QED
  BY <1>2, ShareEffect

LEMMA HearPeerKeepsBooks ==
  ASSUME Books, NEW p \in Party, HearPeer(p)
  PROVE  Books'
<1> DEFINE q == Peer(p)
           e == pub[q][1]
<1>1. q \in Party
  BY DEF Peer, Party
<1>2. Holds(q) /\ pub[q] # Untouched
  BY <1>1 DEF Books, HearPeer
<1>3. CASE family = "nist"
  <2>1. e \in Encoding
    <3>1. NistHolds(secret[q], pub[q], heard[q], out[q], result[q])
      BY <1>2, <1>3 DEF Holds
    <3>2. PICK c \in BOOLEAN : pub[q] = <<Encode(c, Multiple[secret[q]])>>
      BY <1>2, <3>1 DEF NistHolds, IsKeyOf
    <3>3. secret[q] \in 1..(Order - 1)
      BY <1>2, <3>1, Sizes DEF NistHolds, ScalarInRange
    <3> QED
      BY <3>2, <3>3, NistKeyDecodes
  <2>2. \E ok \in BOOLEAN : \/ Share(p, e, NistShared(secret[p], e, ok))
                            \/ Share(p, e, M4Shared(secret[p], e, ok))
    BY <1>3 DEF HearPeer
  <2> HIDE DEF e
  <2> QED
    BY <1>3, <2>1, <2>2, NistShareKeepsBooks
<1>4. CASE family = "secp256k1"
  <2>1. e \in Secp!Encoding
    <3>1. SecpHolds(secret[q], pub[q], heard[q], out[q], result[q])
      BY <1>2, <1>4 DEF Holds
    <3>2. PICK c \in BOOLEAN :
                 pub[q] = <<Secp!Encode(SecpMultiple[secret[q] % SecpOrder], c)>>
      BY <1>2, <3>1 DEF SecpHolds
    <3> QED
      BY <1>2, <3>1, <3>2, SecpKeyDecodes DEF SecpHolds
  <2>2. Share(p, e, SecpShared(secret[p], e))
    BY <1>4 DEF HearPeer
  <2> HIDE DEF e
  <2> QED
    BY <1>4, <2>1, <2>2, SecpShareKeepsBooks
<1>5. CASE family = "x25519"
  <2>1. e \in Nat
    BY <1>2, <1>5, MontSizes DEF Holds, XHolds, Mont!Field
  <2>2. Share(p, e, XShared(secret[p], e))
    BY <1>5 DEF HearPeer
  <2> HIDE DEF e
  <2> QED
    BY <1>5, <2>1, <2>2, XShareKeepsBooks
<1> QED
  BY <1>3, <1>4, <1>5 DEF Books

LEMMA HearOtherKeepsBooks ==
  ASSUME Books, NEW p \in Party, HearOther(p)
  PROVE  Books'
<1>1. CASE family = "nist"
  <2>1. PICK e \in Malformed : \/ Share(p, e, NistShared(secret[p], e, TRUE))
                               \/ Share(p, e, M4Shared(secret[p], e, TRUE))
    BY <1>1 DEF HearOther
  <2>2. e \in Encoding
    BY KeyAgreementAssumption
  <2> QED
    BY <1>1, <2>1, <2>2, NistShareKeepsBooks
<1>2. CASE family = "secp256k1"
  <2>1. PICK e \in SecpMalformed : Share(p, e, SecpShared(secret[p], e))
    BY <1>2 DEF HearOther
  <2>2. e \in Secp!Encoding
    BY KeyAgreementAssumption
  <2> QED
    BY <1>2, <2>1, <2>2, SecpShareKeepsBooks
<1>3. CASE family = "x25519"
  <2>1. PICK u \in XArrivals : Share(p, u, XShared(secret[p], u))
    BY <1>3 DEF HearOther
  <2>2. u \in Nat
    BY KeyAgreementAssumption
  <2> QED
    BY <1>3, <2>1, <2>2, XShareKeepsBooks
<1> QED
  BY <1>1, <1>2, <1>3 DEF Books

(* The invariant is inductive. *)
LEMMA BooksKept == AgreementSpec => []Books
<1>1. Books /\ [AgreementNext]_agreementVars => Books'
  <2> SUFFICES ASSUME Books, [AgreementNext]_agreementVars
               PROVE  Books'
    OBVIOUS
  <2>1. CASE \E p \in Party : DeriveKey(p)
    BY <2>1, DeriveKeyKeepsBooks
  <2>2. CASE \E p \in Party : HearPeer(p)
    BY <2>2, HearPeerKeepsBooks
  <2>3. CASE HearOther("a")
    BY <2>3, HearOtherKeepsBooks DEF Party
  <2>4. CASE UNCHANGED agreementVars
    BY <2>4 DEF agreementVars, Books, Holds
  <2> QED
    BY <2>1, <2>2, <2>3, <2>4 DEF AgreementNext
<1> QED
  BY <1>1, BooksAtFirst, PTL DEF AgreementSpec
-------------------------------------------------------------------------------
(* Buffers hold encodings, outputs the x-coordinates of points of the curve
   (ecdh.rs, secp256k1.rs), or elements of the field (x25519.rs), and every call
   returns one of its documented results. *)
LEMMA BooksType ==
  ASSUME Books
  PROVE  AgreementTypeOK
<1>1. CASE family = "nist"
  <2> SUFFICES ASSUME NEW p \in Party
               PROVE  /\ pub[p] = Untouched \/ pub[p][1] \in Encoding
                      /\ out[p] = Untouched \/ out[p] \in {<<pt[1]>> : pt \in CurvePoints}
                      /\ result[p] \in {"none", "Ok", "BadLength", "BadScalar", "BadPoint"}
    BY <1>1 DEF AgreementTypeOK
  <2>1. NistHolds(secret[p], pub[p], heard[p], out[p], result[p])
    BY <1>1 DEF Books, Holds
  <2>2. ASSUME pub[p] # Untouched
        PROVE  pub[p][1] \in Encoding
    <3>1. PICK c \in BOOLEAN : pub[p] = <<Encode(c, Multiple[secret[p]])>>
      BY <2>1, <2>2 DEF NistHolds, IsKeyOf
    <3>2. secret[p] \in 1..(Order - 1)
      BY <2>1, <2>2, Sizes DEF NistHolds, ScalarInRange
    <3> QED
      BY <3>1, <3>2, NistKeyDecodes
  <2>3. ASSUME out[p] # Untouched
        PROVE  out[p] \in {<<pt[1]>> : pt \in CurvePoints}
    <3>1. PICK e \in Encoding : NistTook(secret[p], e, out[p], result[p])
      BY <2>1, <2>3 DEF NistHolds
    <3>2. /\ secret[p] \in 1..(Order - 1) /\ Decode(e).ok
          /\ out[p] = <<ScalarMul(secret[p], Decode(e).pt)[1]>>
      BY <2>1, <2>3, <3>1, Sizes DEF NistTook, NistHolds, ScalarInRange
    <3>3. ScalarMul(secret[p], Decode(e).pt) \in CurvePoints
      BY <3>2, NistSharedOnCurve
    <3> QED
      BY <3>2, <3>3
  <2> QED
    BY <2>1, <2>2, <2>3 DEF NistHolds, NistErrors
<1>2. CASE family = "secp256k1"
  <2> SUFFICES ASSUME NEW p \in Party
               PROVE  /\ pub[p] = Untouched \/ pub[p][1].x \in Secp!Field
                      /\ out[p] = Untouched \/ out[p] \in {<<pt[1]>> : pt \in Secp!CurvePoints}
                      /\ result[p] \in {"none", "Ok", "InvalidScalar", "InvalidEncoding",
                                        "PointNotOnCurve", "PointAtInfinity"}
    BY <1>2 DEF AgreementTypeOK
  <2>1. SecpHolds(secret[p], pub[p], heard[p], out[p], result[p])
    BY <1>2 DEF Books, Holds
  <2>2. ASSUME pub[p] # Untouched
        PROVE  pub[p][1].x \in Secp!Field
    <3>1. PICK c \in BOOLEAN :
                 pub[p] = <<Secp!Encode(SecpMultiple[secret[p] % SecpOrder], c)>>
      BY <2>1, <2>2 DEF SecpHolds
    <3>2. SecpMultiple[secret[p] % SecpOrder] \in Secp!CurvePoints
      BY <2>1, <2>2, SecpKeyDecodes DEF SecpHolds
    <3>3. SecpMultiple[secret[p] % SecpOrder][1] \in Secp!Field
      BY <3>2, SecpPointFacts
    <3>4. \A pt : Secp!Encode(pt, c).x = pt[1]
      BY DEF Secp!Encode
    <3> QED
      BY <3>1, <3>3, <3>4
  <2>3. ASSUME out[p] # Untouched
        PROVE  out[p] \in {<<pt[1]>> : pt \in Secp!CurvePoints}
    <3>1. PICK e \in Secp!Encoding : SecpTook(secret[p], e, out[p])
      BY <2>1, <2>3 DEF SecpHolds
    <3> QED
      BY <2>3, <3>1 DEF SecpTook
  <2> QED
    BY <2>1, <2>2, <2>3 DEF SecpHolds, SecpErrors
<1>3. CASE family = "x25519"
  <2> SUFFICES ASSUME NEW p \in Party
               PROVE  /\ pub[p] = Untouched \/ pub[p][1] \in Mont!Field
                      /\ out[p] = Untouched \/ out[p][1] \in Mont!Field
                      /\ result[p] \in {"none", "Ok"}
    BY <1>3 DEF AgreementTypeOK
  <2>1. XHolds(secret[p], pub[p], heard[p], out[p], result[p])
    BY <1>3 DEF Books, Holds
  <2> QED
    BY <2>1 DEF XHolds
<1> QED
  BY <1>1, <1>2, <1>3 DEF Books

(* AgreementTypeOK: buffers hold encodings of points and outputs their x-coordinates, for
   the calls of ecdh.rs, secp256k1.rs and x25519.rs alike, whatever arrives. *)
THEOREM KeyAgreementTypeCorrect == AgreementSpec => []AgreementTypeOK
BY BooksType, BooksKept, PTL
-------------------------------------------------------------------------------
(* A party that heard its peer's key took an encoding of the point of the peer's secret. *)
LEMMA NistHeardPeer ==
  ASSUME Books, family = "nist", NEW p \in Party, HeardPeer(p)
  PROVE  /\ secret[p] \in Nat /\ secret[Peer(p)] \in 1..(Order - 1)
         /\ \E e \in Encoding :
              /\ heard[p] = <<e>> /\ Decode(e) = Decoded(Multiple[secret[Peer(p)]])
              /\ NistTook(secret[p], e, out[p], result[p])
<1> DEFINE q == Peer(p)
<1>1. q \in Party
  BY DEF Peer, Party
<1>2. /\ NistHolds(secret[p], pub[p], heard[p], out[p], result[p])
      /\ NistHolds(secret[q], pub[q], heard[q], out[q], result[q])
  BY <1>1 DEF Books, Holds
<1>3. heard[p] # Untouched /\ heard[p] = pub[q]
  BY DEF HeardPeer
<1>4. PICK c \in BOOLEAN : pub[q] = <<Encode(c, Multiple[secret[q]])>>
  BY <1>2, <1>3 DEF NistHolds, IsKeyOf
<1>5. secret[q] \in 1..(Order - 1)
  BY <1>2, <1>3, Sizes DEF NistHolds, ScalarInRange
<1>6. PICK e \in Encoding : heard[p] = <<e>> /\ NistTook(secret[p], e, out[p], result[p])
  BY <1>2, <1>3 DEF NistHolds
<1>7. e = Encode(c, Multiple[secret[q]])
  BY <1>3, <1>4, <1>6
<1>8. Decode(e) = Decoded(Multiple[secret[q]])
  BY <1>5, <1>7, NistKeyDecodes
<1>9. secret[p] \in Nat
  BY <1>2 DEF NistHolds
<1> HIDE DEF q
<1> QED
  BY <1>5, <1>6, <1>8, <1>9 DEF q

LEMMA SecpHeardPeer ==
  ASSUME Books, family = "secp256k1", NEW p \in Party, HeardPeer(p)
  PROVE  /\ secret[p] \in Nat /\ secret[Peer(p)] \in Nat
         /\ secret[Peer(p)] % SecpOrder \in 1..(SecpOrder - 1)
         /\ \E e \in Secp!Encoding :
              /\ heard[p] = <<e>> /\ SecpTook(secret[p], e, out[p])
              /\ Secp!Decode(e) = Secp!Decoded(SecpMultiple[secret[Peer(p)] % SecpOrder])
<1> DEFINE q == Peer(p)
<1>1. q \in Party
  BY DEF Peer, Party
<1>2. /\ SecpHolds(secret[p], pub[p], heard[p], out[p], result[p])
      /\ SecpHolds(secret[q], pub[q], heard[q], out[q], result[q])
  BY <1>1 DEF Books, Holds
<1>3. heard[p] # Untouched /\ heard[p] = pub[q]
  BY DEF HeardPeer
<1>4. PICK c \in BOOLEAN : pub[q] = <<Secp!Encode(SecpMultiple[secret[q] % SecpOrder], c)>>
  BY <1>2, <1>3 DEF SecpHolds
<1>5. PICK e \in Secp!Encoding : heard[p] = <<e>> /\ SecpTook(secret[p], e, out[p])
  BY <1>2, <1>3 DEF SecpHolds
<1>6. e = Secp!Encode(SecpMultiple[secret[q] % SecpOrder], c)
  BY <1>3, <1>4, <1>5
<1>7. secret[p] \in Nat /\ secret[q] \in Nat /\ secret[q] % SecpOrder # 0
  BY <1>2, <1>3 DEF SecpHolds
<1>8. /\ secret[q] % SecpOrder \in 1..(SecpOrder - 1)
      /\ Secp!Decode(e) = Secp!Decoded(SecpMultiple[secret[q] % SecpOrder])
  BY <1>6, <1>7, SecpKeyDecodes
<1> HIDE DEF q
<1> QED
  BY <1>5, <1>7, <1>8 DEF q

(* Both orders of the two secrets give one multiple of the base point. *)
LEMMA BooksAgree ==
  ASSUME Books, family # "x25519"
  PROVE  PartiesAgree
<1> SUFFICES ASSUME NEW p \in Party, HeardPeer(p), out[p] # Untouched
             PROVE  out[p] = CommonSecret
  BY DEF PartiesAgree
<1> DEFINE q == Peer(p)
<1>1. CASE family = "nist"
  <2>1. secret[p] \in Nat /\ secret[q] \in 1..(Order - 1)
    BY <1>1, NistHeardPeer
  <2>2. PICK e \in Encoding : /\ Decode(e) = Decoded(Multiple[secret[q]])
                              /\ NistTook(secret[p], e, out[p], result[p])
    BY <1>1, NistHeardPeer
  <2>3. Decode(e).pt = Multiple[secret[q]]
    BY <2>2 DEF Decoded
  <2>4. out[p] = <<ScalarMul(secret[p], Multiple[secret[q]])[1]>>
    BY <2>2, <2>3 DEF NistTook
  <2>5. ScalarMul(secret[p], Multiple[secret[q]]) = Multiple[(secret[p] * secret[q]) % Order]
    BY <2>1, Logarithm DEF ScalarMul
  <2>6. secret["a"] * secret["b"] = secret[p] * secret[q]
    BY <2>1, Sizes DEF Party, Peer
  <2>7. CommonSecret = <<Multiple[(secret["a"] * secret["b"]) % Order][1]>>
    BY <1>1 DEF CommonSecret
  <2> QED
    BY <2>4, <2>5, <2>6, <2>7
<1>2. CASE family = "secp256k1"
  <2> DEFINE l == secret[q] % SecpOrder
  <2>1. secret[p] \in Nat /\ secret[q] \in Nat /\ l \in 1..(SecpOrder - 1)
    BY <1>2, SecpHeardPeer
  <2>2. PICK e \in Secp!Encoding : /\ Secp!Decode(e) = Secp!Decoded(SecpMultiple[l])
                                   /\ SecpTook(secret[p], e, out[p])
    BY <1>2, SecpHeardPeer
  <2>3. Secp!Decode(e).pt = SecpMultiple[l]
    BY <2>2 DEF Secp!Decoded
  <2>4. out[p] = <<Secp!ScalarMul(secret[p], SecpMultiple[l])[1]>>
    BY <2>2, <2>3 DEF SecpTook
  <2>5. Secp!ScalarMul(secret[p], SecpMultiple[l])
          = SecpMultiple[(secret[p] * l) % SecpOrder]
    <3> HIDE DEF l
    <3> QED
      BY <2>1, SecpLogarithm
  <2>6. (secret[p] * l) % SecpOrder = (secret[p] * secret[q]) % SecpOrder
    <3> DEFINE x == secret[p]
               y == secret[q]
               n == SecpOrder
    <3>1. x \in Int /\ y \in Int /\ l \in Int /\ n \in Nat /\ n > 0
      BY <2>1, SecpSizes
    <3>2. Same(n, l, y)
      BY <3>1, Remainder
    <3> HIDE DEF x, y, l, n
    <3>3. Same(n, l * x, y * x)
      BY <3>1, <3>2, SameTimes, Zenon
    <3>4. l * x = x * l /\ y * x = x * y
      BY <3>1
    <3>5. (x * l) % n = (x * y) % n
      BY <3>3, <3>4 DEF Same
    <3> QED
      BY <3>5 DEF x, y, n
  <2>7. secret["a"] * secret["b"] = secret[p] * secret[q]
    BY <2>1 DEF Party, Peer
  <2>8. CommonSecret = <<SecpMultiple[(secret["a"] * secret["b"]) % SecpOrder][1]>>
    BY <1>2 DEF CommonSecret
  <2> HIDE DEF l
  <2> QED
    BY <2>4, <2>5, <2>6, <2>7, <2>8
<1> QED
  BY <1>1, <1>2 DEF Books

(* What decodes is an encoding of what it decodes to. *)
LEMMA BooksValid ==
  ASSUME Books, family # "x25519"
  PROVE  OnlyValidPeers
<1>1. CASE family = "nist"
  <2> SUFFICES ASSUME NEW p \in Party, out[p] # Untouched
               PROVE  /\ secret[p] \in 1..(Order - 1)
                      /\ \E pt \in CurvePoints : heard[p][1] \in {EncodeFull(pt), EncodeHalf(pt)}
    BY <1>1 DEF OnlyValidPeers
  <2>1. NistHolds(secret[p], pub[p], heard[p], out[p], result[p])
    BY <1>1 DEF Books, Holds
  <2>2. PICK e \in Encoding : heard[p] = <<e>> /\ NistTook(secret[p], e, out[p], result[p])
    BY <2>1 DEF NistHolds
  <2>3. secret[p] \in 1..(Order - 1) /\ Decode(e).ok
    BY <2>1, <2>2, Sizes DEF NistTook, NistHolds, ScalarInRange
  <2>4. /\ Decode(e).pt \in CurvePoints
        /\ e \in {EncodeFull(Decode(e).pt), EncodeHalf(Decode(e).pt)}
    BY <2>3, DecodedIsEncoded
  <2>5. heard[p][1] = e
    BY <2>2
  <2> QED
    BY <2>3, <2>4, <2>5
<1>2. CASE family = "secp256k1"
  <2> SUFFICES ASSUME NEW p \in Party, out[p] # Untouched
               PROVE  LET e == heard[p][1]
                      IN  /\ secret[p] % SecpOrder # 0
                          /\ Secp!Decode(e).pt \in Secp!CurvePoints
                          /\ \E compress \in BOOLEAN : e = Secp!Encode(Secp!Decode(e).pt, compress)
    BY <1>2 DEF OnlyValidPeers
  <2>1. SecpHolds(secret[p], pub[p], heard[p], out[p], result[p])
    BY <1>2 DEF Books, Holds
  <2>2. PICK e \in Secp!Encoding : heard[p] = <<e>> /\ SecpTook(secret[p], e, out[p])
    BY <2>1 DEF SecpHolds
  <2>3. secret[p] % SecpOrder # 0 /\ Secp!Decode(e).ok
    BY <2>2 DEF SecpTook
  <2>4. /\ Secp!Decode(e).pt \in Secp!CurvePoints
        /\ \E compress \in BOOLEAN : e = Secp!Encode(Secp!Decode(e).pt, compress)
    BY <2>3, SecpDecodedIsEncoded
  <2>5. heard[p][1] = e
    BY <2>2
  <2> QED
    BY <2>3, <2>4, <2>5
<1> QED
  BY <1>1, <1>2 DEF Books

(* What was derived decodes. *)
LEMMA BooksHonest ==
  ASSUME Books, family # "x25519"
  PROVE  HonestPeersHeard
<1>1. CASE family = "nist"
  <2> SUFFICES ASSUME NEW p \in Party, HeardPeer(p), secret[p] \in 1..(Order - 1)
               PROVE  result[p] \in {"Ok", "BadLength"}
    BY <1>1 DEF HonestPeersHeard
  <2>1. PICK e \in Encoding : /\ Decode(e) = Decoded(Multiple[secret[Peer(p)]])
                              /\ NistTook(secret[p], e, out[p], result[p])
    BY <1>1, NistHeardPeer
  <2>2. Decode(e).ok
    BY <2>1 DEF Decoded
  <2>3. ScalarInRange(secret[p])
    BY Sizes DEF ScalarInRange
  <2> QED
    BY <2>1, <2>2, <2>3 DEF NistTook
<1>2. CASE family = "secp256k1"
  <2> SUFFICES ASSUME NEW p \in Party, HeardPeer(p), secret[p] % SecpOrder # 0
               PROVE  out[p] # Untouched
    BY <1>2 DEF HonestPeersHeard
  <2>1. PICK e \in Secp!Encoding :
               /\ SecpTook(secret[p], e, out[p])
               /\ Secp!Decode(e) = Secp!Decoded(SecpMultiple[secret[Peer(p)] % SecpOrder])
    BY <1>2, SecpHeardPeer
  <2>2. Secp!Decode(e).ok
    BY <2>1 DEF Secp!Decoded
  <2> QED
    BY <2>1, <2>2 DEF SecpTook
<1> QED
  BY <1>1, <1>2 DEF Books

(* PartiesAgree, for ecdh.rs and for secp256k1.rs: a party that heard the key the
   other derived holds the x-coordinate of the base point times the product of the
   two secrets, by whichever build and in whichever encoding, and so does the other. *)
THEOREM DerivedSecretsAgree == AgreementSpec => [](family # "x25519" => PartiesAgree)
BY BooksAgree, BooksKept, PTL

(* OnlyValidPeers, for ecdh.rs and for secp256k1.rs: no call writes a secret unless
   what arrived is, byte for byte, an encoding of a point of the curve, and unless the
   caller's scalar is one that gives no point at infinity. *)
THEOREM OnlyPointsAreTaken == AgreementSpec => [](family # "x25519" => OnlyValidPeers)
BY BooksValid, BooksKept, PTL

(* HonestPeersHeard, for ecdh.rs and for secp256k1.rs: shared_secret and ecdh refuse
   no key that the other side derived with a scalar of its own. *)
THEOREM DerivedKeysAreTaken == AgreementSpec => [](family # "x25519" => HonestPeersHeard)
BY BooksHonest, BooksKept, PTL
===============================================================================
