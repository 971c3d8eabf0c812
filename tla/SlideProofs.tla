------------------------------ MODULE SlideProofs ------------------------------
(***************************************************************************)
(* For scalars of every width, slide of src/point.rs stays inside its array, *)
(* loses no carry and leaves digits the tables have entries for.            *)
(***************************************************************************)
EXTENDS Slide, ArithmeticLemmas

(* What TypeOK rests on, of the array r, the index i, the distance b and the loop
   that runs.  A window leaves zeros behind it; the extra slot holds the carry of
   one window at most, after which nothing but zeros is left below that slot, so
   that no second carry can come. *)
Odd == {d \in -15..15 : d % 2 = 1}

Typed(r, i, b) == r \in [Slots -> Int] /\ i \in Slots /\ b \in Nat \ {0}

DigitsBelow(r, i) == \A j \in Slots : j < i => r[j] \in Digits

BitsAbove(r, i) == \A j \in Slots : j > i => r[j] \in {0, 1}

ZerosBehind(r, i, b) == \A j \in Slots : i < j /\ j < i + b => r[j] = 0

Scanning(r, i, b) ==
  /\ Typed(r, i, b) /\ DigitsBelow(r, i) /\ BitsAbove(r, i)
  /\ r[i] \in {0, 1}
  /\ r[NumBits] # 0 => \A j \in Slots : i <= j /\ j < NumBits => r[j] = 0

InWindow(r, i, b) ==
  /\ Typed(r, i, b) /\ DigitsBelow(r, i) /\ BitsAbove(r, i)
  /\ r[i] \in Odd /\ i + b <= NumBits /\ ZerosBehind(r, i, b)
  /\ r[NumBits] # 0 => i + b = NumBits

Carrying(r, i, b) == InWindow(r, i, b) /\ i + b < NumBits /\ r[i + b] = 1

IInv == /\ k \in Scalars
        /\ st = [r |-> st.r, i |-> st.i, b |-> st.b, at |-> st.at]
        /\ \/ st.at = "scan" /\ Scanning(st.r, st.i, st.b)
           \/ st.at = "window" /\ InWindow(st.r, st.i, st.b)
           \/ st.at = "carry" /\ Carrying(st.r, st.i, st.b)
           \/ st.at = "done" /\ Scanning(st.r, st.i, st.b)

LEMMA WidthFacts == ASSUME SlideParameters
                    PROVE  NumBits \in Nat /\ NumBits > 1 /\ Slots = 0..NumBits
BY DEF SlideParameters, Slots

LEMMA FreshScans ==
  ASSUME SlideParameters, NEW n \in Scalars
  PROVE  Scanning(Fresh(n).r, 0, 1)
<1> DEFINE r == [j \in Slots |-> IF j = NumBits THEN 0 ELSE n[j]]
<1>1. Fresh(n).r = r
  BY DEF Fresh
<1>2. \A j \in Slots : r[j] \in {0, 1}
  BY WidthFacts DEF Scalars
<1>3. r \in [Slots -> Int] /\ r[NumBits] = 0
  BY WidthFacts, <1>2
<1> HIDE DEF r
<1>4. Scanning(r, 0, 1)
  BY WidthFacts, <1>2, <1>3 DEF Scanning, Typed, DigitsBelow, BitsAbove
<1>5. QED
  BY <1>1, <1>4

(* The outer loop moves on, or a one opens a window. *)
LEMMA ScanMoves ==
  ASSUME SlideParameters, NEW r, NEW i, NEW b, Scanning(r, i, b), i # NumBits
  PROVE  /\ r[i] = 0 => Scanning(r, i + 1, b)
         /\ r[i] # 0 => InWindow(r, i, 1)
<1>1. i \in 0..NumBits /\ i < NumBits /\ i + 1 \in Slots /\ Typed(r, i, b)
  BY WidthFacts DEF Scanning, Typed
<1>2. ASSUME r[i] = 0 PROVE Scanning(r, i + 1, b)
  <2>1. DigitsBelow(r, i + 1)
    <3>1. DigitsBelow(r, i) /\ r[i] \in Digits
      BY <1>2 DEF Scanning, Digits
    <3>2. ASSUME NEW j \in Slots, j < i + 1 PROVE j < i \/ j = i
      BY WidthFacts, <1>1, <3>2
    <3>3. QED
      BY <3>1, <3>2 DEF DigitsBelow
  <2>2. BitsAbove(r, i + 1) /\ r[i + 1] \in {0, 1}
    BY WidthFacts, <1>1 DEF Scanning, BitsAbove
  <2>3. r[NumBits] # 0 => \A j \in Slots : i + 1 <= j /\ j < NumBits => r[j] = 0
    BY WidthFacts, <1>1 DEF Scanning
  <2>4. QED
    BY <1>1, <2>1, <2>2, <2>3 DEF Scanning, Typed
<1>3. ASSUME r[i] # 0 PROVE InWindow(r, i, 1)
  <2>1. r[i] \in Odd
    BY <1>3 DEF Scanning, Odd
  <2>2. r[NumBits] = 0
    BY WidthFacts, <1>1, <1>3 DEF Scanning
  <2>3. ZerosBehind(r, i, 1)
    BY WidthFacts, <1>1 DEF ZerosBehind
  <2>4. QED
    BY WidthFacts, <1>1, <2>1, <2>2, <2>3 DEF Scanning, InWindow, Typed
<1>4. QED
  BY <1>2, <1>3

(* What a window leaves to the outer loop. *)
LEMMA WindowCloses ==
  ASSUME SlideParameters, NEW r, NEW i, NEW b, InWindow(r, i, b)
  PROVE  Scanning(r, i + 1, b)
<1>1. i \in 0..NumBits /\ b \in Nat \ {0} /\ i + b <= NumBits /\ i + 1 \in Slots
  BY WidthFacts DEF InWindow, Typed
<1>2. DigitsBelow(r, i + 1)
  <2>1. DigitsBelow(r, i) /\ r[i] \in Digits
    BY DEF InWindow, Odd, Digits
  <2>2. ASSUME NEW j \in Slots, j < i + 1 PROVE j < i \/ j = i
    BY WidthFacts, <1>1, <2>2
  <2>3. QED
    BY <2>1, <2>2 DEF DigitsBelow
<1>3. BitsAbove(r, i + 1) /\ r[i + 1] \in {0, 1}
  BY WidthFacts, <1>1 DEF InWindow, BitsAbove
<1>4. r[NumBits] # 0 => \A j \in Slots : i + 1 <= j /\ j < NumBits => r[j] = 0
  BY WidthFacts, <1>1 DEF InWindow, ZerosBehind
<1>5. QED
  BY <1>1, <1>2, <1>3, <1>4 DEF InWindow, Scanning, Typed

LEMMA WindowSkips ==
  ASSUME SlideParameters, NEW r, NEW i, NEW b, InWindow(r, i, b), i + b < NumBits,
         r[i + b] = 0
  PROVE  InWindow(r, i, b + 1)
<1>1. i \in 0..NumBits /\ b \in Nat \ {0}
  BY WidthFacts DEF InWindow, Typed
<1>2. ZerosBehind(r, i, b + 1)
  BY WidthFacts, <1>1 DEF InWindow, ZerosBehind
<1>3. QED
  BY WidthFacts, <1>1, <1>2 DEF InWindow, Typed

(* Sum and difference are odd, and one bound each is all there is to test. *)
LEMMA OddSums ==
  ASSUME NEW d \in Odd, NEW b \in 1..4
  PROVE  /\ d + 1 * Shift[b] <= 15 => d + 1 * Shift[b] \in Odd
         /\ d - 1 * Shift[b] >= -15 => d - 1 * Shift[b] \in Odd
<1>1. Shift[b] \in {2, 4, 8, 16}
  BY DEF Shift
<1>2. QED
  BY <1>1 DEF Odd

LEMMA WindowAdds ==
  ASSUME SlideParameters, NEW r, NEW i, NEW b, InWindow(r, i, b), i + b < NumBits,
         NEW d \in Odd
  PROVE  InWindow([r EXCEPT ![i] = d, ![i + b] = 0], i, b + 1)
<1> DEFINE new == [r EXCEPT ![i] = d, ![i + b] = 0]
<1>1. /\ i \in 0..NumBits /\ b \in Nat \ {0} /\ r \in [Slots -> Int]
      /\ i \in Slots /\ i + b \in Slots /\ i # i + b /\ d \in Int /\ r[NumBits] = 0
      /\ DigitsBelow(r, i) /\ BitsAbove(r, i) /\ ZerosBehind(r, i, b)
  BY WidthFacts DEF InWindow, Typed, Odd
<1>2. /\ new \in [Slots -> Int] /\ new[i] = d /\ new[i + b] = 0
      /\ \A j \in Slots : j # i /\ j # i + b => new[j] = r[j]
  BY <1>1
<1> HIDE DEF new
<1>3. DigitsBelow(new, i)
  BY WidthFacts, <1>1, <1>2 DEF DigitsBelow
<1>4. BitsAbove(new, i)
  <2>1. ASSUME NEW j \in Slots, j > i PROVE new[j] \in {0, 1}
    <3>1. j # i
      BY WidthFacts, <1>1, <2>1
    <3>2. QED
      BY <1>1, <1>2, <2>1, <3>1 DEF BitsAbove
  <2>2. QED
    BY <2>1 DEF BitsAbove
<1>5. ZerosBehind(new, i, b + 1)
  <2>1. ASSUME NEW j \in Slots, i < j, j < i + (b + 1) PROVE new[j] = 0
    <3>1. j = i + b \/ (j < i + b /\ j # i /\ j # i + b)
      BY WidthFacts, <1>1, <2>1
    <3>2. QED
      BY <1>1, <1>2, <2>1, <3>1 DEF ZerosBehind
  <2>2. QED
    BY <2>1 DEF ZerosBehind
<1>6. new[NumBits] = 0
  BY WidthFacts, <1>1, <1>2
<1>7. InWindow(new, i, b + 1)
  BY WidthFacts, <1>1, <1>2, <1>3, <1>4, <1>5, <1>6 DEF InWindow, Typed
<1>8. QED
  BY <1>7 DEF new

LEMMA WindowSubtracts ==
  ASSUME SlideParameters, NEW r, NEW i, NEW b, InWindow(r, i, b), i + b < NumBits,
         r[i + b] = 1, NEW d \in Odd
  PROVE  Carrying([r EXCEPT ![i] = d], i, b)
<1> DEFINE new == [r EXCEPT ![i] = d]
<1>1. i \in 0..NumBits /\ b \in Nat \ {0} /\ r[NumBits] = 0 /\ r \in [Slots -> Int]
      /\ i \in Slots /\ d \in Int
  BY WidthFacts DEF InWindow, Typed, Odd
<1>2. /\ new \in [Slots -> Int] /\ new[i] = d
      /\ \A j \in Slots : j # i => new[j] = r[j]
  BY <1>1
<1> HIDE DEF new
<1>3. DigitsBelow(new, i) /\ BitsAbove(new, i) /\ ZerosBehind(new, i, b)
  BY WidthFacts, <1>1, <1>2 DEF InWindow, DigitsBelow, BitsAbove, ZerosBehind
<1>4. new[NumBits] = 0 /\ new[i + b] = 1
  BY WidthFacts, <1>1, <1>2
<1>5. Carrying(new, i, b)
  BY <1>1, <1>2, <1>3, <1>4 DEF InWindow, Carrying, Typed
<1>6. QED
  BY <1>5 DEF new

(* The slot a carry looks at is in the array, and when it is the extra one it is
   free. *)
LEMMA CarryMoves ==
  ASSUME SlideParameters, NEW r, NEW i, NEW b, Carrying(r, i, b)
  PROVE  /\ r[i + b + 1] = 0 =>
              InWindow([r EXCEPT ![i + b] = 0, ![i + b + 1] = 1], i, b + 1)
         /\ r[i + b + 1] # 0 => Carrying([r EXCEPT ![i + b] = 0], i, b + 1)
<1>1. /\ i \in 0..NumBits /\ b \in Nat \ {0} /\ i + b < NumBits /\ r[NumBits] = 0
      /\ r \in [Slots -> Int] /\ i \in Slots /\ i + b \in Slots /\ i + b + 1 \in Slots
      /\ r[i] \in Odd /\ ZerosBehind(r, i, b)
  BY WidthFacts DEF Carrying, InWindow, Typed
<1>2. ASSUME r[i + b + 1] = 0
      PROVE  InWindow([r EXCEPT ![i + b] = 0, ![i + b + 1] = 1], i, b + 1)
  <2> DEFINE new == [r EXCEPT ![i + b] = 0, ![i + b + 1] = 1]
  <2>1. /\ new \in [Slots -> Int] /\ new[i + b] = 0 /\ new[i + b + 1] = 1
        /\ \A j \in Slots : j # i + b /\ j # i + b + 1 => new[j] = r[j]
    BY <1>1
  <2> HIDE DEF new
  <2>2. DigitsBelow(new, i) /\ new[i] = r[i]
    BY WidthFacts, <1>1, <2>1 DEF Carrying, InWindow, DigitsBelow
  <2>3. BitsAbove(new, i)
    BY WidthFacts, <1>1, <2>1 DEF Carrying, InWindow, BitsAbove
  <2>4. ZerosBehind(new, i, b + 1)
    <3>1. ASSUME NEW j \in Slots, i < j, j < i + (b + 1) PROVE new[j] = 0
      <4>1. j = i + b \/ (j < i + b /\ j # i + b /\ j # i + b + 1)
        BY WidthFacts, <1>1, <3>1
      <4>2. QED
        BY <1>1, <2>1, <3>1, <4>1 DEF ZerosBehind
    <3>2. QED
      BY <3>1 DEF ZerosBehind
  <2>5. new[NumBits] # 0 => i + b + 1 = NumBits
    <3>1. NumBits \in Slots /\ NumBits # i + b
      BY WidthFacts, <1>1
    <3>2. QED
      BY <1>1, <2>1, <3>1
  <2>6. InWindow(new, i, b + 1)
    BY WidthFacts, <1>1, <2>1, <2>2, <2>3, <2>4, <2>5 DEF InWindow, Typed
  <2>7. QED
    BY <2>6 DEF new
<1>3. ASSUME r[i + b + 1] # 0
      PROVE  Carrying([r EXCEPT ![i + b] = 0], i, b + 1)
  <2> DEFINE new == [r EXCEPT ![i + b] = 0]
  <2>1. /\ new \in [Slots -> Int] /\ new[i + b] = 0
        /\ \A j \in Slots : j # i + b => new[j] = r[j]
    BY <1>1
  <2> HIDE DEF new
  <2>2. i + b + 1 < NumBits /\ new[i + (b + 1)] = 1
    <3>1. i + b + 1 < NumBits /\ i + b + 1 > i /\ i + b + 1 # i + b /\ i + (b + 1) = i + b + 1
      BY WidthFacts, <1>1, <1>3
    <3>2. r[i + b + 1] = 1
      BY <1>1, <1>3, <3>1 DEF Carrying, InWindow, BitsAbove
    <3> QED
      BY <1>1, <2>1, <3>1, <3>2
  <2>3. DigitsBelow(new, i) /\ new[i] = r[i]
    BY WidthFacts, <1>1, <2>1 DEF Carrying, InWindow, DigitsBelow
  <2>4. BitsAbove(new, i)
    BY WidthFacts, <1>1, <2>1 DEF Carrying, InWindow, BitsAbove
  <2>5. ZerosBehind(new, i, b + 1)
    <3>1. ASSUME NEW j \in Slots, i < j, j < i + (b + 1) PROVE new[j] = 0
      <4>1. j = i + b \/ (j < i + b /\ j # i + b)
        BY WidthFacts, <1>1, <3>1
      <4>2. QED
        BY <1>1, <2>1, <3>1, <4>1 DEF ZerosBehind
    <3>2. QED
      BY <3>1 DEF ZerosBehind
  <2>6. new[NumBits] = 0
    BY WidthFacts, <1>1, <2>1
  <2>7. Carrying(new, i, b + 1)
    BY WidthFacts, <1>1, <2>1, <2>2, <2>3, <2>4, <2>5, <2>6 DEF Carrying, InWindow, Typed
  <2>8. QED
    BY <2>7 DEF new
<1>4. QED
  BY <1>2, <1>3

LEMMA ScanKeeps == ASSUME SlideParameters, IInv, Scan PROVE IInv'
<1> DEFINE r == st.r
           i == st.i
           b == st.b
<1>1. st = [r |-> r, i |-> i, b |-> b, at |-> "scan"] /\ Scanning(r, i, b)
      /\ k \in Scalars /\ k' = k
  BY DEF IInv, Scan
<1>2. CASE i = NumBits
  <2>1. st' = [r |-> r, i |-> i, b |-> b, at |-> "done"]
    BY <1>1, <1>2 DEF Scan
  <2>2. QED
    BY <1>1, <2>1 DEF IInv
<1>3. CASE i # NumBits /\ r[i] = 0
  <2>1. st' = [r |-> r, i |-> i + 1, b |-> b, at |-> "scan"]
    BY <1>1, <1>3 DEF Scan
  <2>2. Scanning(r, i + 1, b)
    BY <1>1, <1>3, ScanMoves
  <2>3. QED
    BY <1>1, <2>1, <2>2 DEF IInv
<1>4. CASE i # NumBits /\ r[i] # 0
  <2>1. st' = [r |-> r, i |-> i, b |-> 1, at |-> "window"]
    BY <1>1, <1>4 DEF Scan
  <2>2. InWindow(r, i, 1)
    BY <1>1, <1>4, ScanMoves
  <2>3. QED
    BY <1>1, <2>1, <2>2 DEF IInv
<1>5. QED
  BY <1>2, <1>3, <1>4

LEMMA WindowKeeps == ASSUME SlideParameters, IInv, Window PROVE IInv'
<1> DEFINE r    == st.r
           i    == st.i
           b    == st.b
           here == i + b
           term == r[here] * Shift[b]
<1>1. st = [r |-> r, i |-> i, b |-> b, at |-> "window"] /\ InWindow(r, i, b)
      /\ k \in Scalars /\ k' = k
  BY DEF IInv, Window
<1>2. /\ i \in 0..NumBits /\ b \in Nat \ {0} /\ here <= NumBits /\ here \in Slots
      /\ r[i] \in Odd
  BY <1>1, WidthFacts DEF InWindow, Typed
<1>3. CASE CloseWindow
  <2>1. st' = [r |-> r, i |-> i + 1, b |-> b, at |-> "scan"]
    BY <1>1, <1>3 DEF CloseWindow
  <2>2. Scanning(r, i + 1, b)
    BY <1>1, WindowCloses
  <2>3. QED
    BY <1>1, <2>1, <2>2 DEF IInv
<1>4. CASE b <= 4 /\ here < NumBits /\ r[here] = 0
  <2>1. st' = [r |-> r, i |-> i, b |-> b + 1, at |-> "window"]
    BY <1>1, <1>2, <1>4, WidthFacts DEF Window
  <2>2. InWindow(r, i, b + 1)
    BY <1>1, <1>4, WindowSkips
  <2>3. QED
    BY <1>1, <2>1, <2>2 DEF IInv
<1>5. CASE b <= 4 /\ here < NumBits /\ r[here] # 0 /\ ~CloseWindow
  <2>1. b \in 1..4 /\ ~(b > 4 \/ here >= NumBits)
    BY <1>2, <1>5, WidthFacts
  <2>2. r[here] = 1
    BY <1>1, <1>2, <1>5, WidthFacts DEF InWindow, BitsAbove
  <2>3. term = 1 * Shift[b]
    BY <2>2
  <2>4. CASE r[i] + term <= 15
    <3>1. st' = [r |-> [r EXCEPT ![i] = r[i] + term, ![here] = 0], i |-> i, b |-> b + 1,
                 at |-> "window"]
      BY <1>1, <1>5, <2>1, <2>4 DEF Window
    <3>2. r[i] + term \in Odd
      BY <1>2, <2>1, <2>3, <2>4, OddSums
    <3> HIDE DEF term
    <3>3. InWindow([r EXCEPT ![i] = r[i] + term, ![here] = 0], i, b + 1)
      BY <1>1, <1>5, <3>2, WindowAdds
    <3>4. QED
      BY <1>1, <3>1, <3>3 DEF IInv
  <2>5. CASE ~(r[i] + term <= 15) /\ r[i] - term >= -15
    <3>1. st' = [r |-> [r EXCEPT ![i] = r[i] - term], i |-> i, b |-> b, at |-> "carry"]
      BY <1>1, <1>5, <2>1, <2>5 DEF Window
    <3>2. r[i] - term \in Odd
      BY <1>2, <2>1, <2>3, <2>5, OddSums
    <3> HIDE DEF term
    <3>3. Carrying([r EXCEPT ![i] = r[i] - term], i, b)
      BY <1>1, <1>5, <2>2, <3>2, WindowSubtracts
    <3>4. QED
      BY <1>1, <3>1, <3>3 DEF IInv
  <2>6. QED
    BY <1>5, <2>1, <2>4, <2>5 DEF Window
<1>6. QED
  BY <1>2, <1>3, <1>4, <1>5, WidthFacts DEF Window

LEMMA CarryKeeps == ASSUME SlideParameters, IInv, Carry PROVE IInv'
<1> DEFINE r == st.r
           i == st.i
           b == st.b
<1>1. st = [r |-> r, i |-> i, b |-> b, at |-> "carry"] /\ Carrying(r, i, b)
      /\ k \in Scalars /\ k' = k
  BY DEF IInv, Carry
<1>2. i \in Int /\ b \in Int /\ (i + b + 1) - 1 = i + b
  BY <1>1, WidthFacts DEF Carrying, InWindow, Typed
<1>3. CASE r[i + b + 1] = 0
  <2>1. st' = [r |-> [r EXCEPT ![i + b] = 0, ![i + b + 1] = 1], i |-> i, b |-> b + 1,
               at |-> "window"]
    BY <1>1, <1>2, <1>3 DEF Carry
  <2>2. InWindow([r EXCEPT ![i + b] = 0, ![i + b + 1] = 1], i, b + 1)
    BY <1>1, <1>3, CarryMoves
  <2>3. QED
    BY <1>1, <2>1, <2>2 DEF IInv
<1>4. CASE r[i + b + 1] # 0
  <2>1. st' = [r |-> [r EXCEPT ![i + b] = 0], i |-> i, b |-> b + 1, at |-> "carry"]
    BY <1>1, <1>2, <1>4 DEF Carry
  <2>2. Carrying([r EXCEPT ![i + b] = 0], i, b + 1)
    BY <1>1, <1>4, CarryMoves
  <2>3. QED
    BY <1>1, <2>1, <2>2 DEF IInv
<1>5. QED
  BY <1>3, <1>4

-------------------------------------------------------------------------------
(* The number that the slots stand for. *)
LEMMA ValuesOfSlots == \A r : Values(r) = Horner(NumBits + 1, 2, r)
BY DEF Values, Horner

LEMMA Pow2Doubles ==
  ASSUME NEW n \in Nat
  PROVE  Pow2(n) \in Nat /\ Pow2(0) = 1 /\ Pow2(n + 1) = 2 * Pow2(n)
<1>1. \A m : Pow2(m) = PowerOf(2, m)
  BY DEF Pow2, PowerOf
<1> QED
  BY <1>1, PowerUnfolded

LEMMA ShiftsArePowers ==
  ASSUME NEW n \in Nat, NEW b \in 1..4
  PROVE  Pow2(n + b) = Shift[b] * Pow2(n) /\ Shift[b] \in Nat
<1>1. Pow2(n) \in Nat /\ Pow2(n + 1) = 2 * Pow2(n)
  BY Pow2Doubles
<1>2. Pow2(n + 2) = 2 * Pow2(n + 1)
  <2>1. Pow2((n + 1) + 1) = 2 * Pow2(n + 1) /\ (n + 1) + 1 = n + 2
    BY Pow2Doubles
  <2> QED
    BY <2>1
<1>3. Pow2(n + 3) = 2 * Pow2(n + 2)
  <2>1. Pow2((n + 2) + 1) = 2 * Pow2(n + 2) /\ (n + 2) + 1 = n + 3
    BY Pow2Doubles
  <2> QED
    BY <2>1
<1>4. Pow2(n + 4) = 2 * Pow2(n + 3)
  <2>1. Pow2((n + 3) + 1) = 2 * Pow2(n + 3) /\ (n + 3) + 1 = n + 4
    BY Pow2Doubles
  <2> QED
    BY <2>1
<1>5. b \in {1, 2, 3, 4}
  OBVIOUS
<1> QED
  BY <1>1, <1>2, <1>3, <1>4, <1>5 DEF Shift

(* The recursion that reads the slots, and its end. *)
LEMMA ValuesUnfolded ==
  ASSUME SlideParameters, NEW r \in [Slots -> Int]
  PROVE  /\ ValueFrom(r, NumBits + 1) = 0
         /\ \A j \in Slots : ValueFrom(r, j) = r[j] + 2 * ValueFrom(r, j + 1)
         /\ \A j \in 0..(NumBits + 1) : ValueFrom(r, j) \in Int
<1> DEFINE n == NumBits + 1
           W == 2
<1>1. n \in Nat /\ Slots = 0..(n - 1) /\ W \in Int
  BY WidthFacts
<1>2. \A m \in 0..(n - 1) : r[m] \in Int
  BY <1>1
<1>3. \A j : ValueFrom(r, j) = Horner(n, W, r)[j]
  BY ValuesOfSlots DEF ValueFrom
<1> HIDE DEF n, W
<1>4. /\ Horner(n, W, r)[n] = 0
      /\ \A m \in 0..(n - 1) : Horner(n, W, r)[m] = r[m] + W * Horner(n, W, r)[m + 1]
      /\ \A m \in 0..n : Horner(n, W, r)[m] \in Int
  BY <1>1, <1>2, HornerUnfolded
<1>5. /\ ValueFrom(r, n) = 0
      /\ \A m \in Slots : ValueFrom(r, m) = r[m] + W * ValueFrom(r, m + 1)
      /\ \A m \in 0..n : ValueFrom(r, m) \in Int
  BY <1>1, <1>3, <1>4
<1> QED
  BY <1>5 DEF n, W

LEMMA NumberOfSlots == ASSUME SlideParameters, NEW r \in [Slots -> Int]
                       PROVE  ValueFrom(r, 0) \in Int
<1>1. 0 \in 0..(NumBits + 1)
  BY WidthFacts
<1> QED
  BY <1>1, ValuesUnfolded

(* A slot that changes by c changes the number by c times its power of two. *)
LEMMA SlotChanges ==
  ASSUME SlideParameters, NEW r \in [Slots -> Int], NEW j \in Slots, NEW d \in Int
  PROVE  /\ [r EXCEPT ![j] = d] \in [Slots -> Int]
         /\ ValueFrom([r EXCEPT ![j] = d], 0) = ValueFrom(r, 0) + (d - r[j]) * Pow2(j)
<1> DEFINE n == NumBits + 1
           W == 2
           e == [r EXCEPT ![j] = d]
<1>1. n \in Nat /\ Slots = 0..(n - 1) /\ W \in Nat \ {0}
  BY WidthFacts
<1>2. e \in [Slots -> Int] /\ e[j] = d /\ \A m \in Slots : m # j => e[m] = r[m]
  OBVIOUS
<1>3. \A x : ValueFrom(x, 0) = Horner(n, W, x)[0]
  BY ValuesOfSlots DEF ValueFrom
<1>4. \A m : Pow2(m) = PowerOf(W, m)
  BY DEF Pow2, PowerOf
<1> HIDE DEF n, W, e
<1>5. \A m \in 0..(n - 1) : r[m] \in Int /\ e[m] \in Int
  BY <1>1, <1>2
<1>6. \A m \in 0..(n - 1) : m # j => e[m] = r[m]
  BY <1>1, <1>2
<1>7. j \in 0..(n - 1)
  BY <1>1
<1>8. Horner(n, W, e)[0] = Horner(n, W, r)[0] + (e[j] - r[j]) * PowerOf(W, j)
  <2>1. DifferAt(n, r, e, j)
    BY <1>5, <1>6 DEF DifferAt
  <2> QED
    BY <1>1, <1>7, <2>1, HornerChange
<1>9. e \in [Slots -> Int] /\ ValueFrom(e, 0) = ValueFrom(r, 0) + (d - r[j]) * Pow2(j)
  BY <1>2, <1>3, <1>4, <1>8
<1> QED
  BY <1>9 DEF e

LEMMA ZerosStandForZero ==
  ASSUME SlideParameters, NEW r \in [Slots -> Int], NEW j \in 0..(NumBits + 1),
         \A l \in Slots : l >= j => r[l] = 0
  PROVE  ValueFrom(r, j) = 0
<1> DEFINE n == NumBits + 1
           W == 2
<1>1. n \in Nat /\ Slots = 0..(n - 1) /\ W \in Int
  BY WidthFacts
<1>2. \A l \in 0..(n - 1) : r[l] \in Int
  BY <1>1
<1>3. \A l \in j..(n - 1) : r[l] = 0
  <2> SUFFICES ASSUME NEW l \in j..(n - 1) PROVE r[l] = 0
    OBVIOUS
  <2>1. l \in Slots /\ l >= j
    BY <1>1
  <2> QED
    BY <2>1
<1>4. ValueFrom(r, j) = Horner(n, W, r)[j] /\ j \in 0..n
  BY ValuesOfSlots DEF ValueFrom
<1> HIDE DEF n, W
<1>5. Horner(n, W, r)[j] = 0
  BY <1>1, <1>2, <1>3, <1>4, HornerOfZeros
<1> QED
  BY <1>4, <1>5

(* Slots that are bits stand for a number above zero unless they all are zero. *)
LEMMA BitsStandForMore ==
  ASSUME SlideParameters, NEW r \in [Slots -> {0, 1}], NEW j \in Slots, r[j] # 0
  PROVE  ValueFrom(r, 0) > 0
<1> DEFINE v(g) == ValueFrom(r, g)
           S == {g \in 0..(NumBits + 1) : v((NumBits + 1) - g) >= 0}
           U == {g \in 0..j : v(j - g) > 0}
<1>1. NumBits \in Nat /\ Slots = 0..NumBits /\ r \in [Slots -> Int]
  BY WidthFacts
<1>2. /\ v(NumBits + 1) = 0
      /\ \A g \in Slots : v(g) = r[g] + 2 * v(g + 1)
      /\ \A g \in 0..(NumBits + 1) : v(g) \in Int
  BY <1>1, ValuesUnfolded
<1>3. \A g \in Slots : r[g] \in {0, 1}
  OBVIOUS
<1> HIDE DEF v
<1>4. 0..(NumBits + 1) \subseteq S
  <2>1. 0 \in S
    BY <1>1, <1>2
  <2>2. ASSUME NEW g \in 1..(NumBits + 1), g - 1 \in S PROVE g \in S
    <3> DEFINE h == (NumBits + 1) - g
    <3>1. h \in Slots /\ h + 1 = (NumBits + 1) - (g - 1) /\ h + 1 \in 0..(NumBits + 1)
      BY <1>1
    <3>2. v(h) = r[h] + 2 * v(h + 1) /\ v(h + 1) \in Int /\ v(h + 1) >= 0 /\ r[h] \in {0, 1}
      BY <1>2, <1>3, <2>2, <3>1
    <3>3. v(h) >= 0
      BY <3>2
    <3> QED
      BY <3>3
  <2>3. NumBits + 1 \in Nat
    BY <1>1
  <2> HIDE DEF S
  <2> QED
    BY <2>1, <2>2, <2>3, UpTo
<1>5. 0..j \subseteq U
  <2>1. 0 \in U
    <3>1. j + 1 \in 0..(NumBits + 1) /\ (NumBits + 1) - (j + 1) \in 0..(NumBits + 1)
          /\ (NumBits + 1) - ((NumBits + 1) - (j + 1)) = j + 1 /\ j \in Nat
      BY <1>1
    <3>2. (NumBits + 1) - (j + 1) \in S
      BY <1>4, <3>1
    <3>3. v(j + 1) >= 0 /\ v(j + 1) \in Int
      BY <1>2, <3>1, <3>2
    <3>4. v(j) = r[j] + 2 * v(j + 1) /\ r[j] = 1
      BY <1>2, <1>3
    <3>5. v(j) > 0 /\ j - 0 = j /\ 0 \in 0..j
      BY <3>1, <3>3, <3>4
    <3> QED
      BY <3>5
  <2>2. ASSUME NEW g \in 1..j, g - 1 \in U PROVE g \in U
    <3> DEFINE h == j - g
    <3>1. h \in Slots /\ h + 1 = j - (g - 1) /\ h + 1 \in 0..(NumBits + 1) /\ g \in 0..j
      BY <1>1
    <3>2. v(h) = r[h] + 2 * v(h + 1) /\ v(h + 1) \in Int /\ v(h + 1) > 0 /\ r[h] \in {0, 1}
      BY <1>2, <1>3, <2>2, <3>1
    <3>3. v(h) > 0
      BY <3>2
    <3> QED
      BY <3>1, <3>3
  <2>3. j \in Nat
    BY <1>1
  <2> HIDE DEF U
  <2> QED
    BY <2>1, <2>2, <2>3, UpTo
<1>6. j \in U /\ j - j = 0
  BY <1>1, <1>5
<1> QED
  BY <1>6 DEF v

(* A fresh array stands for its scalar's number: zero, or more. *)
LEMMA FreshNumber ==
  ASSUME SlideParameters, NEW n \in Scalars
  PROVE  /\ Fresh(n).r \in [Slots -> {0, 1}]
         /\ (\A j \in 0..(NumBits - 1) : n[j] = 0) => \A j \in Slots : Fresh(n).r[j] = 0
         /\ (\E j \in 0..(NumBits - 1) : n[j] # 0) => ValueFrom(Fresh(n).r, 0) > 0
<1> DEFINE r == [j \in Slots |-> IF j = NumBits THEN 0 ELSE n[j]]
<1>1. Fresh(n).r = r
  BY DEF Fresh
<1>2. \A j \in Slots : j # NumBits => j \in 0..(NumBits - 1)
  BY WidthFacts
<1>3. \A j \in 0..(NumBits - 1) : n[j] \in {0, 1} /\ j \in Slots /\ j # NumBits
  BY WidthFacts DEF Scalars
<1>4. r \in [Slots -> {0, 1}]
  BY <1>2, <1>3
<1>5. ASSUME \A j \in 0..(NumBits - 1) : n[j] = 0 PROVE \A j \in Slots : r[j] = 0
  BY <1>2, <1>5
<1>6. ASSUME NEW j \in 0..(NumBits - 1), n[j] # 0 PROVE ValueFrom(r, 0) > 0
  <2>1. j \in Slots /\ r[j] # 0
    BY <1>3, <1>6
  <2> HIDE DEF r
  <2> QED
    BY <1>4, <2>1, BitsStandForMore
<1> HIDE DEF r
<1> QED
  BY <1>1, <1>4, <1>5, <1>6

(* The one at i + b goes into r[i]. *)
LEMMA AddingKeepsValue ==
  ASSUME SlideParameters, NEW r \in [Slots -> Int], NEW i \in Nat, NEW b \in 1..4,
         i \in Slots, i + b \in Slots, r[i + b] = 1
  PROVE  ValueFrom([r EXCEPT ![i] = r[i] + r[i + b] * Shift[b], ![i + b] = 0], 0) = ValueFrom(r, 0)
<1> DEFINE t == r[i + b] * Shift[b]
           x == [r EXCEPT ![i] = r[i] + t]
           y == [x EXCEPT ![i + b] = 0]
           v == ValueFrom(r, 0)
           q == Pow2(i)
           s == Shift[b]
<1>1. Pow2(i + b) = s * q /\ s \in Nat /\ q \in Nat /\ v \in Int /\ r[i] \in Int /\ t = s
  <2>1. Pow2(i + b) = s * q /\ s \in Nat /\ q \in Nat
    BY ShiftsArePowers, Pow2Doubles
  <2>3. v \in Int /\ r[i] \in Int
    BY NumberOfSlots
  <2> HIDE DEF s
  <2>4. r[i + b] * s = s
    BY <2>1
  <2> QED
    BY <2>1, <2>3, <2>4 DEF s
<1>2. [r EXCEPT ![i] = r[i] + r[i + b] * Shift[b], ![i + b] = 0] = y
  OBVIOUS
<1> HIDE DEF t, q, s, v
<1>3. r[i] + t \in Int
  BY <1>1
<1>4. x \in [Slots -> Int] /\ ValueFrom(x, 0) = v + ((r[i] + t) - r[i]) * q
  BY <1>3, SlotChanges DEF v, q
<1>5. x[i + b] = 1
  OBVIOUS
<1> HIDE DEF x
<1>6. ValueFrom(y, 0) = ValueFrom(x, 0) + (0 - 1) * Pow2(i + b)
  <2> DEFINE z == 0
  <2>1. z \in Int
    OBVIOUS
  <2> HIDE DEF z
  <2>2. ValueFrom([x EXCEPT ![i + b] = z], 0) = ValueFrom(x, 0) + (z - x[i + b]) * Pow2(i + b)
    BY <1>4, <2>1, SlotChanges
  <2> QED
    BY <1>5, <2>2 DEF z
<1> HIDE DEF y
<1>7. ((r[i] + t) - r[i]) * q = s * q /\ (0 - 1) * (s * q) = -(s * q) /\ s * q \in Int
  BY <1>1, SMTT(30)
<1>8. ValueFrom(y, 0) = v
  BY <1>1, <1>4, <1>6, <1>7
<1> QED
  BY <1>2, <1>8 DEF v

(* It is taken from r[i] in place of being added: it now counts twice, and the
   second time as a carry. *)
LEMMA SubtractingKeepsValue ==
  ASSUME SlideParameters, NEW r \in [Slots -> Int], NEW i \in Nat, NEW b \in 1..4,
         i \in Slots, i + b \in Slots, r[i + b] = 1
  PROVE  ValueFrom([r EXCEPT ![i] = r[i] - r[i + b] * Shift[b]], 0) + Pow2(i + b) = ValueFrom(r, 0)
<1> DEFINE t == r[i + b] * Shift[b]
           x == [r EXCEPT ![i] = r[i] - t]
           v == ValueFrom(r, 0)
           q == Pow2(i)
           s == Shift[b]
<1>1. Pow2(i + b) = s * q /\ s \in Nat /\ q \in Nat /\ v \in Int /\ r[i] \in Int /\ t = s
  <2>1. Pow2(i + b) = s * q /\ s \in Nat /\ q \in Nat
    BY ShiftsArePowers, Pow2Doubles
  <2>3. v \in Int /\ r[i] \in Int
    BY NumberOfSlots
  <2> HIDE DEF s
  <2>4. r[i + b] * s = s
    BY <2>1
  <2> QED
    BY <2>1, <2>3, <2>4 DEF s
<1> HIDE DEF t, q, s, v
<1>2. r[i] - t \in Int
  BY <1>1
<1>3. ValueFrom(x, 0) = v + ((r[i] - t) - r[i]) * q
  BY <1>2, SlotChanges DEF v, q
<1> HIDE DEF x
<1>4. ((r[i] - t) - r[i]) * q = -(s * q) /\ s * q \in Int
  BY <1>1, SMTT(30)
<1>5. ValueFrom(x, 0) + Pow2(i + b) = v
  BY <1>1, <1>3, <1>4
<1> QED
  BY <1>5 DEF v, x, t

(* A carry out of slot j is worth two of the ones it clears there. *)
LEMMA CarryingKeepsValue ==
  ASSUME SlideParameters, NEW r \in [Slots -> Int], NEW j \in Nat,
         j \in Slots, j + 1 \in Slots, r[j] = 1
  PROVE  /\ ValueFrom([r EXCEPT ![j] = 0], 0) + Pow2(j + 1) = ValueFrom(r, 0) + Pow2(j)
         /\ r[j + 1] = 0 =>
              ValueFrom([r EXCEPT ![j] = 0, ![j + 1] = 1], 0) = ValueFrom(r, 0) + Pow2(j)
<1> DEFINE x == [r EXCEPT ![j] = 0]
           y == [x EXCEPT ![j + 1] = 1]
           v == ValueFrom(r, 0)
<1>1. Pow2(j) \in Nat /\ Pow2(j + 1) = 2 * Pow2(j) /\ v \in Int
  BY Pow2Doubles, NumberOfSlots
<1>2. x \in [Slots -> Int] /\ ValueFrom(x, 0) = v + (0 - 1) * Pow2(j)
  <2> DEFINE z == 0
  <2>1. z \in Int
    OBVIOUS
  <2> HIDE DEF z
  <2>2. /\ [r EXCEPT ![j] = z] \in [Slots -> Int]
        /\ ValueFrom([r EXCEPT ![j] = z], 0) = ValueFrom(r, 0) + (z - r[j]) * Pow2(j)
    BY <2>1, SlotChanges
  <2> QED
    BY <2>2 DEF z
<1>3. x[j + 1] = r[j + 1] /\ y = [r EXCEPT ![j] = 0, ![j + 1] = 1]
  OBVIOUS
<1> HIDE DEF x
<1>4. ASSUME r[j + 1] = 0 PROVE ValueFrom(y, 0) = ValueFrom(x, 0) + (1 - 0) * Pow2(j + 1)
  <2> DEFINE z == 1
  <2>1. z \in Int
    OBVIOUS
  <2> HIDE DEF z
  <2>2. ValueFrom([x EXCEPT ![j + 1] = z], 0) = ValueFrom(x, 0) + (z - x[j + 1]) * Pow2(j + 1)
    BY <1>2, <2>1, SlotChanges
  <2> QED
    BY <1>3, <1>4, <2>2 DEF z
<1> HIDE DEF y, v
<1>5. /\ ValueFrom(x, 0) + Pow2(j + 1) = v + Pow2(j)
      /\ r[j + 1] = 0 => ValueFrom(y, 0) = v + Pow2(j)
  BY <1>1, <1>2, <1>4
<1> QED
  BY <1>3, <1>5 DEF x, v

(* No step changes the number. *)
LEMMA StepKeepsValue ==
  ASSUME SlideParameters, IInv, ValuePreserved, Next
  PROVE  ValuePreserved'
<1> DEFINE r    == st.r
           i    == st.i
           b    == st.b
           here == i + b
           v    == ValueFrom(Fresh(k).r, 0)
<1>1. CASE Scan
  <2>1. k' = k /\ st.at = "scan" /\ st'.r = r /\ st'.at # "carry"
    BY <1>1 DEF Scan, IInv
  <2>2. v = ValueFrom(r, 0) + 0
    BY <2>1 DEF ValuePreserved
  <2>3. ValueFrom(Fresh(k').r, 0) = ValueFrom(st'.r, 0) + 0
    BY <2>1, <2>2
  <2> QED
    BY <2>1, <2>3 DEF ValuePreserved
<1>2. CASE Window
  <2>1. st = [r |-> r, i |-> i, b |-> b, at |-> "window"] /\ InWindow(r, i, b) /\ k' = k
    BY <1>2 DEF IInv, Window
  <2>2. /\ i \in 0..NumBits /\ i \in Nat /\ b \in Nat \ {0} /\ i \in Slots /\ r[i] \in Odd
        /\ here \in Slots /\ r \in [Slots -> Int]
    BY <2>1, WidthFacts DEF InWindow, Typed
  <2>3. v = ValueFrom(r, 0)
    <3>1. v = ValueFrom(r, 0) + 0 /\ ValueFrom(r, 0) \in Int
      BY <2>1, <2>2, NumberOfSlots DEF ValuePreserved
    <3> QED
      BY <3>1
  <2>4. CASE CloseWindow \/ (b <= 4 /\ here < NumBits /\ r[here] = 0)
    <3>1. st'.r = r /\ st'.at # "carry"
      BY <2>1, <2>2, <2>4, <1>2, WidthFacts DEF CloseWindow, Window
    <3>2. ValueFrom(st'.r, 0) + 0 = ValueFrom(r, 0)
      BY <3>1, <2>2, NumberOfSlots
    <3> QED
      BY <2>1, <2>3, <3>1, <3>2 DEF ValuePreserved
  <2>5. CASE b <= 4 /\ here < NumBits /\ r[here] # 0 /\ ~CloseWindow
    <3>1. b \in 1..4 /\ ~(b > 4 \/ here >= NumBits)
      BY <2>2, <2>5, WidthFacts
    <3>2. r[here] = 1
      BY <2>1, <2>2, <2>5, WidthFacts DEF InWindow, BitsAbove
    <3>3. CASE r[i] + r[here] * Shift[b] <= 15
      <4> DEFINE y == [r EXCEPT ![i] = r[i] + r[here] * Shift[b], ![here] = 0]
      <4>1. st'.r = y /\ st'.at = "window"
        BY <2>1, <2>5, <3>1, <3>3, <1>2 DEF Window
      <4>2. ValueFrom(y, 0) = ValueFrom(r, 0)
        BY <2>2, <3>1, <3>2, AddingKeepsValue
      <4>3. ValueFrom(r, 0) \in Int
        BY <2>2, NumberOfSlots
      <4> HIDE DEF y
      <4>4. ValueFrom(Fresh(k').r, 0) = ValueFrom(st'.r, 0) + 0
        BY <2>1, <2>3, <4>1, <4>2, <4>3
      <4> QED
        BY <4>1, <4>4 DEF ValuePreserved
    <3>4. CASE ~(r[i] + r[here] * Shift[b] <= 15) /\ r[i] - r[here] * Shift[b] >= -15
      <4> DEFINE y == [r EXCEPT ![i] = r[i] - r[here] * Shift[b]]
      <4>1. st'.r = y /\ st'.at = "carry" /\ st'.i = i /\ st'.b = b
        BY <2>1, <2>5, <3>1, <3>4, <1>2 DEF Window
      <4>2. ValueFrom(y, 0) + Pow2(here) = ValueFrom(r, 0)
        BY <2>2, <3>1, <3>2, SubtractingKeepsValue
      <4> HIDE DEF y
      <4>3. ValueFrom(Fresh(k').r, 0) = ValueFrom(st'.r, 0) + Pow2(st'.i + st'.b)
        BY <2>1, <2>3, <4>1, <4>2
      <4> QED
        BY <4>1, <4>3 DEF ValuePreserved
    <3> QED
      BY <1>2, <2>5, <3>1, <3>3, <3>4 DEF Window
  <2> QED
    BY <1>2, <2>2, <2>4, <2>5, WidthFacts DEF Window
<1>3. CASE Carry
  <2>1. st = [r |-> r, i |-> i, b |-> b, at |-> "carry"] /\ Carrying(r, i, b) /\ k' = k
    BY <1>3 DEF IInv, Carry
  <2>2. /\ i \in Nat /\ b \in Nat /\ here \in Nat /\ here \in Slots /\ here + 1 \in Slots
        /\ r[here] = 1 /\ r \in [Slots -> Int] /\ (here + 1) - 1 = here /\ i + (b + 1) = here + 1
    BY <2>1, WidthFacts DEF Carrying, InWindow, Typed
  <2>3. v = ValueFrom(r, 0) + Pow2(here)
    BY <2>1 DEF ValuePreserved
  <2>4. CASE r[here + 1] = 0
    <3> DEFINE y == [r EXCEPT ![here] = 0, ![here + 1] = 1]
    <3>1. st'.r = y /\ st'.at = "window"
      BY <2>1, <2>2, <2>4, <1>3 DEF Carry
    <3>2. ValueFrom(y, 0) = ValueFrom(r, 0) + Pow2(here)
      BY <2>2, <2>4, CarryingKeepsValue
    <3>3. ValueFrom(r, 0) + Pow2(here) \in Int
      BY <2>2, Pow2Doubles, NumberOfSlots
    <3> HIDE DEF y
    <3>4. ValueFrom(Fresh(k').r, 0) = ValueFrom(st'.r, 0) + 0
      BY <2>1, <2>3, <3>1, <3>2, <3>3
    <3> QED
      BY <3>1, <3>4 DEF ValuePreserved
  <2>5. CASE r[here + 1] # 0
    <3> DEFINE y == [r EXCEPT ![here] = 0]
    <3>1. st'.r = y /\ st'.at = "carry" /\ st'.i = i /\ st'.b = b + 1
      BY <2>1, <2>2, <2>5, <1>3 DEF Carry
    <3>2. ValueFrom(y, 0) + Pow2(here + 1) = ValueFrom(r, 0) + Pow2(here)
      BY <2>2, CarryingKeepsValue
    <3> HIDE DEF y
    <3>3. ValueFrom(Fresh(k').r, 0) = ValueFrom(st'.r, 0) + Pow2(st'.i + st'.b)
      BY <2>1, <2>2, <2>3, <3>1, <3>2
    <3> QED
      BY <3>1, <3>3 DEF ValuePreserved
  <2> QED
    BY <2>4, <2>5
<1> QED
  BY <1>1, <1>2, <1>3 DEF Next

LEMMA FreshValue ==
  ASSUME SlideParameters, Init
  PROVE  ValuePreserved
<1>1. k \in Scalars /\ st.r = Fresh(k).r /\ st.at = "scan"
  BY DEF Init, Fresh
<1>2. st.r \in [Slots -> Int]
  BY <1>1, FreshScans DEF Scanning, Typed
<1>3. ValueFrom(st.r, 0) \in Int
  BY <1>2, NumberOfSlots
<1> QED
  BY <1>1, <1>3 DEF ValuePreserved
-------------------------------------------------------------------------------
LEMMA InitialInv ==
  ASSUME SlideParameters, Init
  PROVE  IInv
<1>1. k \in Scalars /\ st = Fresh(k)
  BY DEF Init
<1>2. st = [r |-> st.r, i |-> 0, b |-> 1, at |-> "scan"] /\ st.r = Fresh(k).r
  BY <1>1 DEF Fresh
<1>3. Scanning(st.r, 0, 1)
  BY <1>1, <1>2, FreshScans
<1> QED
  BY <1>1, <1>2, <1>3 DEF IInv

LEMMA StepKeepsInv ==
  ASSUME SlideParameters, IInv, Next
  PROVE  IInv'
BY ScanKeeps, WindowKeeps, CarryKeeps DEF Next

(* Whatever slide has done, each slot is a digit that the tables have. *)
LEMMA SlotsAreDigits ==
  ASSUME SlideParameters, IInv
  PROVE  st.r \in [Slots -> Int] /\ \A j \in Slots : st.r[j] \in Digits
<1>1. /\ st.i \in Slots /\ DigitsBelow(st.r, st.i) /\ BitsAbove(st.r, st.i)
      /\ st.r[st.i] \in Digits /\ st.r \in [Slots -> Int]
  BY WidthFacts DEF IInv, Carrying, InWindow, Scanning, Typed, Odd, Digits
<1>2. ASSUME NEW j \in Slots PROVE st.r[j] \in Digits
  <2>1. j < st.i \/ j = st.i \/ j > st.i
    BY <1>1, WidthFacts
  <2>2. CASE j > st.i
    <3>1. st.r[j] \in {0, 1}
      BY <1>1, <2>2 DEF BitsAbove
    <3> QED
      BY <3>1 DEF Digits
  <2> QED
    BY <1>1, <2>1, <2>2 DEF DigitsBelow
<1> QED
  BY <1>1, <1>2

LEMMA InvTyped ==
  ASSUME SlideParameters, IInv
  PROVE  TypeOK
<1>1. k \in Scalars /\ st.at \in {"scan", "window", "carry", "done"}
      /\ (st.at = "carry" => st.i + st.b < NumBits)
  BY DEF IInv, Carrying
<1>2. /\ st.i \in 0..NumBits /\ DigitsBelow(st.r, st.i) /\ BitsAbove(st.r, st.i)
      /\ st.r[st.i] \in Digits
  BY WidthFacts DEF IInv, Carrying, InWindow, Scanning, Typed, Odd, Digits
<1>3. \A j \in Slots : st.r[j] \in IF j > st.i THEN {0, 1} ELSE Digits
  <2> SUFFICES ASSUME NEW j \in Slots
               PROVE  st.r[j] \in IF j > st.i THEN {0, 1} ELSE Digits
    OBVIOUS
  <2>1. CASE j > st.i
    BY <1>2, <2>1 DEF BitsAbove
  <2>2. CASE j < st.i
    <3>1. ~(j > st.i)
      BY <1>2, <2>2, WidthFacts
    <3>2. QED
      BY <1>2, <2>2, <3>1 DEF DigitsBelow
  <2>3. CASE j = st.i
    <3>1. ~(j > st.i)
      BY <1>2, <2>3
    <3>2. QED
      BY <1>2, <2>3, <3>1
  <2>4. QED
    BY <1>2, <2>1, <2>2, <2>3, WidthFacts
<1>4. QED
  BY <1>1, <1>2, <1>3 DEF TypeOK

(* For scalars of every width: slide never reads or writes past its array, no carry
   is lost, and it leaves zeros and odd digits between -15 and 15, for which the
   tables of odd multiples have an entry. *)
THEOREM SlideTypeCorrect ==
  ASSUME SlideParameters
  PROVE  Spec => []TypeOK
<1>1. Init => IInv
  BY InitialInv
<1>2. IInv /\ [Next]_vars => IInv'
  <2>1. CASE UNCHANGED vars
    BY <2>1 DEF vars, IInv
  <2>2. QED
    BY <2>1, StepKeepsInv
<1>3. IInv => TypeOK
  BY InvTyped
<1>4. QED
  BY <1>1, <1>2, <1>3, PTL DEF Spec

(* For scalars of every width: no turn of slide's loops changes the number that
   the digits stand for, a carry on its way counted where it is. *)
THEOREM SlidePreservesValue ==
  ASSUME SlideParameters
  PROVE  Spec => []ValuePreserved
<1> DEFINE J == IInv /\ ValuePreserved
<1>1. Init => J
  BY InitialInv, FreshValue
<1>2. J /\ [Next]_vars => J'
  <2>1. CASE UNCHANGED vars
    BY <2>1 DEF vars, IInv, ValuePreserved
  <2>2. QED
    BY <2>1, StepKeepsInv, StepKeepsValue
<1>3. QED
  BY <1>1, <1>2, PTL DEF Spec
==============================================================================
