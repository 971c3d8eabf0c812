--------------------------------- MODULE MlKem --------------------------------
(***************************************************************************)
(* The arithmetic of src/mlkem.rs on the portable build, at its real size: *)
(* coefficients are 16-bit words, twiddle factors the 32-bit words of the  *)
(* source's tables.  Two machines: the transforms ntt and invntt, whose    *)
(* steps are the blocks of their loops, and the operations that work on    *)
(* one pair of coefficients at a time (basemul, basemul_acc, add, sub,     *)
(* reduce, and the way through bytes), which a client keeps applying to    *)
(* the pair of a slot.  Beside the coefficients runs kemVal, the same      *)
(* computation in the integers modulo q.  Products that need more than 32  *)
(* bits are put together from halves and bytes.                            *)
(***************************************************************************)
EXTENDS Integers, Sequences

CONSTANTS KemInputs,    \* bound: the polynomials transformed, reduced or from bytes
          KemPairs,     \* bound: pairs of coefficients of the client's polynomials
          KemProducts,  \* bound: the pairs whose products it accumulates, as tuples
          KemSlots,     \* bound: which of the 128 pairs of a polynomial
          KemMaxOps,    \* bound: operations that reduce, in a row
          KemMaxTerms   \* bound: products accumulated in a row, after so many of those

KYBER_Q == 3329
Index   == 0..255

ZETAS_ASM == <<
  -2064267850, -966335387, -51606696, -886345008, 812805467, -1847519726, 1094061961, 1370157786,
  -1819136043, 249002310, 1028263423, -700560901, -89021551, 734105255, -2042335004, 381889553,
  372858381, 427045412, 21932846, -732815086, 752167598, -877313836, -1137927652, -98052722,
  -2029433330, 2112004045, 932791035, -1343064270, 1419184148, 1727534158, 1544330386, -1322421591,
  1817845876, -860541660, -61928035, 300609006, 1904287092, -1357256111, -1643673275, 975366560,
  -1513366367, -405112565, -359956706, -365117376, 838608815, -1744306333, -2097812202, 2130066389,
  -696690399, -1986857805, 72249375, -1052776603, 815385801, -1912028096, 1228239371, 1884934581,
  -828287474, -1404992305, -598637676, 42575525, 1211467195, -1317260921, -1150829326, -1214047529,
  1719793153, 1703020977, -1824296712, 945692709, -1279846067, 345764865, 826997308, 1839778722,
  -1303069080, 1851390229, 2043625172, -1330162596, -1666896289, -140628247, -1593356746, 1041165097,
  583155668, 483812778, -1006330577, -1598517416, 2122325384, 690239563, 1855260731, -594767174,
  1371447954, 411563403, -717333077, 976656727, -576704830, 1979116802, -1195985185, -1586905909,
  723783916, -1113414471, -948273043, -1207596692, -879894171, -918599193, -677337888, 1408862808,
  519937465, 1323711759, -580575332, 1910737929, 836028480, 1474661346, -1521107372, -714752743,
  1143088323, -1748176835, -1103093132, -282546662, -2073299022, 1563682897, -1877193576, 1327582262,
  1059227441, 1583035408, 1174052340, -1572714068, -508325958, 1141798155, -1515946702, 0 >>

ZETAS_INV_CT_ASM == <<
  1290168, 1290168, 2064267851, 1290168, 51606697, 2064267851, 966335388, 1290168,
  -1094061960, 51606697, -812805466, 2064267851, 1847519727, 966335388, 886345009, 1290168,
  2064267851, 1290168, 51606697, 2064267851, 966335388, -1859131232, 290287667, -1350805274,
  -1273395230, 1802363867, 603798347, -919889360, -1617869927, 2042335005, -1059227440, 1748176836,
  -1174052339, 282546663, -1583035407, 1103093133, 1659155285, 1785591691, 1941701947, -1590776412,
  358666539, 793452955, 1461759672, 1673347127, -1094061960, 2042335005, -734105254, -1059227440,
  580575333, 1748176836, 1207596693, -407692900, 2126195886, 872153167, -851510488, 526388302,
  299318839, -419304407, -912148356, -1028263422, -1719793152, 1404992306, 1824296713, -42575524,
  -1703020976, 598637677, 1997179146, -1390800464, -1717212817, 202556283, 30964018, -487683279,
  1238560711, 1967505295, 51606697, -1094061960, 1847519727, 2042335005, 89021552, -734105254,
  700560902, 1633351937, -2102972872, 909568022, 1780431021, 2022982494, -1797203197, -685078892,
  1126316146, 89021552, 576704831, -690239562, 1195985186, 594767175, -1979116801, -1855260730,
  -661855879, -1386929961, -704431403, 357376372, 1887514916, 1410152976, -1808814703, 571544162,
  -812805466, -1028263422, -249002309, -1719793152, -72249374, 1404992306, 365117377, -291577833,
  -1850100060, 1221788534, -989558400, 1626901100, -927630365, 651534541, 1549491056, 1819136044,
  -1904287091, -1727534157, 1643673276, 1322421592, 1357256112, -1544330385, 993428903 >>

ZETAS_BASEMUL == <<
  21932846, -732815086, 752167598, -877313836, 2112004045, 932791035, -1343064270, 1419184148,
  1817845876, -860541660, -61928035, 300609006, 975366560, -1513366367, -405112565, -359956706,
  -2097812202, 2130066389, -696690399, -1986857805, -1912028096, 1228239371, 1884934581, -828287474,
  1211467195, -1317260921, -1150829326, -1214047529, 945692709, -1279846067, 345764865, 826997308,
  2043625172, -1330162596, -1666896289, -140628247, 483812778, -1006330577, -1598517416, 2122325384,
  1371447954, 411563403, -717333077, 976656727, -1586905909, 723783916, -1113414471, -948273043,
  -677337888, 1408862808, 519937465, 1323711759, 1474661346, -1521107372, -714752743, 1143088323,
  -2073299022, 1563682897, -1877193576, 1327582262, -1572714068, -508325958, 1141798155, -1515946702 >>

Sides    == 0..1      \* the coefficients of a pair

(* What an operation may return: a reduced product, or twelve bits of a byte
   string. *)
HalfOfQ      == 1665
LastTwelve   == 4095
Coefficients == (-HalfOfQ)..LastTwelve

HalfWord == 32768
Int16 == (-HalfWord)..(HalfWord - 1)
Wrap(x) == ((x + 32768) % 65536) - 32768   \* as i16, wrapping_add, wrapping_sub

(* plant_mul: bits 16 to 31 of the product, as a signed number, times q. *)
PlantMul(a, t) ==
  LET middle == Wrap((t \div 65536) * a + ((t % 65536) * a) \div 65536)
  IN  (middle * KYBER_Q + 26632) \div 65536

(* The high half of val * 0x6ba8f301 modulo 2^32, as a signed number. *)
PlantHigh(val) ==
  LET high == val \div 65536
      low  == val % 65536
      carry == (low * 243 + (low \div 256)) \div 256      \* low * 0xf301
  IN  Wrap(((high * 62209) % 65536) + ((low * 27560) % 65536) + carry)

(* plant_red *)
PlantRed(val) == (PlantHigh(val) * KYBER_Q + 26632) \div 65536

Quotient(a) == (a * 20159) \div 67108864

(* Mutant of BarrettReduce: a remainder of q, as a negative multiple of q
   leaves, is returned. *)
BarrettReduceOnce(a) == LET rem == a - Quotient(a) * KYBER_Q
                        IN  IF rem < 0 THEN rem + KYBER_Q ELSE rem

(* barrett_reduce, but for its overflow: see Overflows. *)
BarrettReduce(a) == LET rem  == a - Quotient(a) * KYBER_Q
                        rem2 == IF rem < 0 THEN rem + KYBER_Q ELSE rem
                    IN  IF rem2 >= KYBER_Q THEN rem2 - KYBER_Q ELSE rem2

(* a is no word, or quot * KYBER_Q is none. *)
Overflows(a) == a \notin Int16 \/ Quotient(a) * KYBER_Q \notin Int16

(* The factor a twiddle stands for, and the factor of a reduction. *)
Meaning(t) == PlantMul(1, t) % KYBER_Q
PlantRinv  == PlantRed(1) % KYBER_Q

Power17 == [e \in 0..255 |->
  LET pow[n \in 0..255] == IF n = 0 THEN 1 ELSE (17 * pow[n - 1]) % KYBER_Q IN pow[e]]

BitReversed7(k) ==
  LET bit(b) == (k \div 2^b) % 2
  IN  bit(0) * 64 + bit(1) * 32 + bit(2) * 16 + bit(3) * 8 + bit(4) * 4 + bit(5) * 2 + bit(6)

(* basemul's table holds the roots in the order of FIPS 203; ntt's does for
   its first four layers. *)
ASSUME KemTables ==
  /\ \A i \in 0..63 : Meaning(ZETAS_BASEMUL[i + 1]) = Power17[2 * BitReversed7(2 * i) + 1]
  /\ \A k \in 0..14 : Meaning(ZETAS_ASM[k + 1]) = Power17[BitReversed7(k + 1)]
  /\ \A v \in -300..300 : (PlantRed(v) - v * PlantRinv) % KYBER_Q = 0

ASSUME KemAssumption ==
  /\ KemInputs \subseteq [Index -> 0..LastTwelve]
  /\ KemPairs \subseteq [Sides -> Coefficients]
  /\ KemProducts \subseteq KemPairs \X KemPairs
  /\ KemSlots \subseteq 0..127
  /\ KemMaxOps \in 0..127

VARIABLES kemJob,   \* "forward", "transformed", "inverse", "back"; "pair"
          kemInput, \* the polynomial ntt was given
          kemPoly,  \* the coefficients, of a polynomial or of a pair
          kemVal,   \* history: their residues, computed modulo q
          kemLen, kemStart, kemK,  \* the loops' variables; of a pair, kemStart is the slot
                                   \* and kemK counts the reductions
          kemTerms, \* of a pair: products accumulated since its last reduction
          kemReduced, \* history: was the pair's last operation a Barrett reduction?
          kemLost   \* history: did a result not fit its word?

kemVars == <<kemJob, kemInput, kemPoly, kemVal, kemLen, kemStart, kemK, kemTerms,
             kemReduced, kemLost>>

Residues(f) == [j \in DOMAIN f |-> f[j] % KYBER_Q]

KemInit ==
  /\ \/ /\ kemJob = "forward" /\ kemPoly \in KemInputs /\ kemInput = kemPoly
        /\ kemLen = 128 /\ kemStart = 0
     \/ /\ kemJob = "pair" /\ kemPoly \in KemPairs /\ kemInput = <<>>
        /\ kemLen = 0 /\ kemStart \in KemSlots
  /\ kemVal = Residues(kemPoly)
  /\ kemK = 0 /\ kemTerms = 0 /\ kemReduced = FALSE /\ kemLost = FALSE
-------------------------------------------------------------------------------
Lower == kemStart..(kemStart + kemLen - 1)
Upper == (kemStart + kemLen)..(kemStart + 2 * kemLen - 1)

(* The next block, in the next layer if this was the last of its layer. *)
NextBlock(len) ==
  /\ kemK' = kemK + 1
  /\ IF kemStart + 2 * kemLen < 256
     THEN kemStart' = kemStart + 2 * kemLen /\ UNCHANGED kemLen
     ELSE kemStart' = 0 /\ kemLen' = len

(* Results as they are before they are cut to a word. *)
Writes(f) == /\ kemPoly' = [j \in DOMAIN f |-> Wrap(f[j])]
             /\ kemLost' = (kemLost \/ \E j \in DOMAIN f : f[j] \notin Int16)

(* A block of portable_ntt: Cooley-Tukey butterflies under one twiddle. *)
ForwardBlock ==
  /\ kemJob = "forward" /\ kemLen >= 2
  /\ LET t == ZETAS_ASM[kemK + 1]
         z == Meaning(t)
     IN  /\ Writes([j \in Index |->
              IF j \in Lower THEN kemPoly[j] + PlantMul(kemPoly[j + kemLen], t)
              ELSE IF j \in Upper THEN kemPoly[j - kemLen] - PlantMul(kemPoly[j], t)
              ELSE kemPoly[j]])
         /\ kemVal' = [j \in Index |->
              IF j \in Lower THEN (kemVal[j] + kemVal[j + kemLen] * z) % KYBER_Q
              ELSE IF j \in Upper THEN (kemVal[j - kemLen] - kemVal[j] * z) % KYBER_Q
              ELSE kemVal[j]]
  /\ NextBlock(kemLen \div 2)
  /\ UNCHANGED <<kemJob, kemInput, kemTerms, kemReduced>>

ForwardReturn == /\ kemJob = "forward" /\ kemLen < 2
                 /\ kemJob' = "transformed"
                 /\ UNCHANGED <<kemInput, kemPoly, kemVal, kemLen, kemStart, kemK,
                                kemTerms, kemReduced, kemLost>>

InverseCall == /\ kemJob = "transformed"
               /\ kemJob' = "inverse"
               /\ kemLen' = 2 /\ kemStart' = 0 /\ kemK' = 0
               /\ UNCHANGED <<kemInput, kemPoly, kemVal, kemTerms, kemReduced, kemLost>>

(* A block of portable_invntt: Gentleman-Sande butterflies.  The sums are
   nowhere reduced. *)
InverseBlock ==
  /\ kemJob = "inverse" /\ kemLen <= 128
  /\ LET t == ZETAS_INV_CT_ASM[kemK + 1]
         z == Meaning(t)
     IN  /\ LET f == [j \in Index |->
                        IF j \in Lower THEN kemPoly[j] + kemPoly[j + kemLen]
                        ELSE IF j \in Upper THEN kemPoly[j - kemLen] - kemPoly[j]
                        ELSE kemPoly[j]]
            IN  /\ kemPoly' = [j \in Index |-> IF j \in Upper THEN PlantMul(Wrap(f[j]), t)
                                               ELSE Wrap(f[j])]
                /\ kemLost' = (kemLost \/ \E j \in Index : f[j] \notin Int16)
         /\ kemVal' = [j \in Index |->
              IF j \in Lower THEN (kemVal[j] + kemVal[j + kemLen]) % KYBER_Q
              ELSE IF j \in Upper THEN ((kemVal[j - kemLen] - kemVal[j]) * z) % KYBER_Q
              ELSE kemVal[j]]
  /\ NextBlock(2 * kemLen)
  /\ UNCHANGED <<kemJob, kemInput, kemTerms, kemReduced>>

InverseReturn == /\ kemJob = "inverse" /\ kemLen > 128
                 /\ kemJob' = "back"
                 /\ UNCHANGED <<kemInput, kemPoly, kemVal, kemLen, kemStart, kemK,
                                kemTerms, kemReduced, kemLost>>
-------------------------------------------------------------------------------
Pair(x, y) == [j \in Sides |-> IF j = 0 THEN x ELSE y]

(* Mutant of Zeta: the second pair of a twiddle takes it as it is. *)
ZetaUnsigned(slot) == ZETAS_BASEMUL[slot \div 2 + 1]

(* The twiddle of a slot: zeta, then -zeta. *)
Zeta(slot) == LET zeta == ZETAS_BASEMUL[slot \div 2 + 1]
              IN  IF slot % 2 = 0 THEN zeta ELSE -zeta

(* Mutant of Basemul: the products are not reduced. *)
BasemulUnreduced(a, b) ==
  Pair(a[0] * b[0] + a[1] * PlantMul(b[1], Zeta(kemStart)), a[0] * b[1] + a[1] * b[0])

(* A pair of portable_basemul, and the product modulo X^2 - zeta it is for. *)
Basemul(a, b) ==
  Pair(PlantRed(a[0] * b[0] + a[1] * PlantMul(b[1], Zeta(kemStart))),
       PlantRed(a[0] * b[1] + a[1] * b[0]))

Root(slot) == LET z == Meaning(ZETAS_BASEMUL[slot \div 2 + 1])
              IN  IF slot % 2 = 0 THEN z ELSE KYBER_Q - z

BasemulVal(v, w) ==
  Pair(((((v[0] * w[0] + (((v[1] * w[1]) % KYBER_Q) * Root(kemStart))) % KYBER_Q)) * PlantRinv)
         % KYBER_Q,
       (((v[0] * w[1] + v[1] * w[0]) % KYBER_Q) * PlantRinv) % KYBER_Q)

BasemulPair(b) ==
  /\ kemJob = "pair" /\ ~ kemLost /\ kemK < KemMaxOps
  /\ kemPoly' = Basemul(kemPoly, b)
  /\ kemVal' = BasemulVal(kemVal, Residues(b))
  /\ kemK' = kemK + 1 /\ kemTerms' = 0 /\ kemReduced' = FALSE
  /\ UNCHANGED <<kemJob, kemInput, kemLen, kemStart, kemLost>>

(* basemul_acc: wrapping_add, and no reduction. *)
AccumulatePair(a, b) ==
  /\ kemJob = "pair" /\ ~ kemLost /\ kemTerms < KemMaxTerms[kemK + 1]
  /\ LET product == Basemul(a, b)
         value   == BasemulVal(Residues(a), Residues(b))
     IN  /\ Writes([j \in Sides |-> kemPoly[j] + product[j]])
         /\ kemVal' = [j \in Sides |-> (kemVal[j] + value[j]) % KYBER_Q]
  /\ kemTerms' = kemTerms + 1 /\ kemReduced' = FALSE
  /\ UNCHANGED <<kemJob, kemInput, kemLen, kemStart, kemK>>

(* reduce, add and sub: Barrett reduction of f.  With overflow checks a call
   that overflows panics; here nothing follows it. *)
Reduces(f, val) ==
  /\ kemJob = "pair" /\ ~ kemLost /\ kemK < KemMaxOps
  /\ kemPoly' = [j \in Sides |-> BarrettReduce(Wrap(f[j]))]
  /\ kemLost' = \E j \in Sides : Overflows(f[j])
  /\ kemVal' = [j \in Sides |-> val[j] % KYBER_Q]
  /\ kemK' = kemK + 1 /\ kemReduced' = TRUE
  /\ kemTerms' = IF kemLost' THEN kemTerms ELSE 0
  /\ UNCHANGED <<kemJob, kemInput, kemLen, kemStart>>

ReducePair == Reduces(kemPoly, kemVal)

AddPair(b) == Reduces([j \in Sides |-> kemPoly[j] + b[j]], [j \in Sides |-> kemVal[j] + b[j]])

SubPair(b) == Reduces([j \in Sides |-> kemPoly[j] - b[j]], [j \in Sides |-> kemVal[j] - b[j]])

(* Mutant of Bytes: b1 >> 4 keeps the low bits of the second coefficient out. *)
BytesShort(x, y) == Pair(x % 4096, (y % 4096) - (y % 16))

(* to_bytes, then from_bytes: three bytes hold twelve bits of each, b0 the low
   byte of the first, b1 its high bits and the low ones of the second. *)
Bytes(x, y) ==
  LET c0 == x % 4096
      c1 == y % 4096
      b0 == c0 % 256
      b1 == c0 \div 256 + (c1 % 16) * 16
      b2 == c1 \div 16
  IN  Pair(b0 + (b1 % 16) * 256, b1 \div 16 + b2 * 16)

(* A client encodes what reduce, add, sub, mul_ring or from_bytes returned. *)
BytesPair ==
  /\ kemJob = "pair" /\ ~ kemLost /\ kemK < KemMaxOps
  /\ \A j \in Sides : kemPoly[j] \in 0..LastTwelve
  /\ kemPoly' = Bytes(kemPoly[0], kemPoly[1])
  /\ kemK' = kemK + 1 /\ kemTerms' = 0 /\ kemReduced' = FALSE
  /\ UNCHANGED <<kemJob, kemInput, kemVal, kemLen, kemStart, kemLost>>

PairNext == \/ \E b \in KemPairs : BasemulPair(b) \/ AddPair(b) \/ SubPair(b)
            \/ \E ab \in KemProducts : AccumulatePair(ab[1], ab[2])
            \/ ReducePair \/ BytesPair

KemNext == \/ ForwardBlock \/ ForwardReturn \/ InverseCall \/ InverseBlock \/ InverseReturn
           \/ kemJob = "pair" /\ PairNext

KemSpec == KemInit /\ [][KemNext]_kemVars
-------------------------------------------------------------------------------
KemTypeOK == /\ kemJob \in {"forward", "transformed", "inverse", "back", "pair"}
             /\ \A j \in DOMAIN kemPoly : kemPoly[j] \in Int16 /\ kemVal[j] \in 0..(KYBER_Q - 1)
             /\ kemLen \in {0, 1, 2, 4, 8, 16, 32, 64, 128, 256}
             /\ kemStart \in Index /\ kemK \in 0..127

(* No addition of the forward transform wraps, from any coefficients that
   from_bytes or another operation returns: each of the seven layers adds at
   most (q + 1) / 2 to a coefficient.  And fourteen products may be accumulated
   on a coefficient before a sum, a difference or its Barrett reduction
   overflows, in any order of calls (portable_ntt, basemul_acc, add, sub). *)
CoefficientsFit ==
  /\ kemJob \in {"forward", "transformed"} =>
       ~ kemLost /\ \A j \in Index : -15750 <= kemPoly[j] /\ kemPoly[j] <= 15750
  /\ kemJob = "pair" /\ kemLost => kemTerms > 14

(* As long as everything fits, coefficients are congruent to the exact
   computation, through every butterfly, base product, reduction and encoding,
   and in [0, q) after a Barrett reduction (plant_mul, plant_red,
   barrett_reduce and their callers). *)
KemKeepsResidue ==
  ~ kemLost => /\ \A j \in DOMAIN kemPoly : kemPoly[j] % KYBER_Q = kemVal[j]
               /\ kemReduced => kemPoly = kemVal

(* "Transforms polynomial from standard coefficient order to bit-reversed NTT
   domain" (src/mlkem.rs, line 532): pair p is the polynomial modulo X^2 - z,
   for the root z by which basemul multiplies that pair. *)
ReachesNttDomain ==
  kemJob = "transformed" =>
    \A slot \in 0..127, parity \in Sides :
      LET z == Root(slot)
          horner[n \in 0..128] ==
            IF n = 0 THEN 0
            ELSE (horner[n - 1] * z + kemInput[2 * (128 - n) + parity]) % KYBER_Q
      IN  kemPoly[2 * slot + parity] % KYBER_Q = horner[128]
-------------------------------------------------------------------------------
KemMonomial(k) == [j \in Index |-> IF j = k THEN 1 ELSE 0]

(* The input of the run on the order of the coefficients. *)
SecondPower == {KemMonomial(2)}
NoTerms == <<>>
===============================================================================
