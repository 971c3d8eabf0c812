--------------------------------- MODULE Slide ---------------------------------
(***************************************************************************)
(* slide of src/point.rs: recoding a scalar, in place, into odd digits     *)
(* between -15 and 15 or zeros, one array slot per bit and one more for    *)
(* the carry out of the top.  One step per turn of each of its loops.      *)
(***************************************************************************)
EXTENDS Integers

CONSTANT NumBits   \* bits of a scalar (32 k.len(); the array has one slot more)

SlideParameters == NumBits \in Nat /\ NumBits > 1

VARIABLES k,   \* the scalar, as its bits
          st   \* r, i, b and the loop that runs: "scan", "window", "carry", "done"

vars == <<k, st>>

Slots == 0..NumBits

Scalars == [0..(NumBits - 1) -> {0, 1}]

Fresh(n) == [r  |-> [j \in Slots |-> IF j = NumBits THEN 0 ELSE n[j]],
             i  |-> 0, b |-> 1, at |-> "scan"]

(* The factor of a left shift by 1..4. *)
Shift == <<2, 4, 8, 16>>

Init == k \in Scalars /\ st = Fresh(k)

(* while i < num_bits: a nonzero r[i] opens a window. *)
Scan ==
  /\ st.at = "scan"
  /\ st' = IF st.i = NumBits THEN [st EXCEPT !.at = "done"]
           ELSE IF st.r[st.i] = 0 THEN [st EXCEPT !.i = @ + 1]
           ELSE [st EXCEPT !.at = "window", !.b = 1]
  /\ UNCHANGED k

CloseWindow == st' = [st EXCEPT !.at = "scan", !.i = @ + 1]

(* Mutant of Window: the limit of the sum is 17. *)
WindowWideSum ==
  /\ st.at = "window"
  /\ LET here == st.i + st.b
         term == st.r[here] * Shift[st.b]
         sum  == st.r[st.i] + term
     IN  IF st.b > 4 \/ here >= NumBits THEN CloseWindow
         ELSE IF st.r[here] = 0 THEN st' = [st EXCEPT !.b = @ + 1]
         ELSE IF sum <= 17
         THEN st' = [st EXCEPT !.r[st.i] = sum, !.r[here] = 0, !.b = @ + 1]
         ELSE IF st.r[st.i] - term >= -15
         THEN st' = [st EXCEPT !.r[st.i] = @ - term, !.at = "carry"]
         ELSE CloseWindow
  /\ UNCHANGED k

(* while b <= 4 && i + b < num_bits: a one at i + b is added to r[i], or
   subtracted from it with a carry, or ends the window. *)
Window ==
  /\ st.at = "window"
  /\ LET here == st.i + st.b
         term == st.r[here] * Shift[st.b]
         sum  == st.r[st.i] + term
     IN  IF st.b > 4 \/ here >= NumBits THEN CloseWindow
         ELSE IF st.r[here] = 0 THEN st' = [st EXCEPT !.b = @ + 1]
         ELSE IF sum <= 15
         THEN st' = [st EXCEPT !.r[st.i] = sum, !.r[here] = 0, !.b = @ + 1]
         ELSE IF st.r[st.i] - term >= -15
         THEN st' = [st EXCEPT !.r[st.i] = @ - term, !.at = "carry"]
         ELSE CloseWindow
  /\ UNCHANGED k

(* Mutant of Carry: the carry is dropped when it reaches the last bit. *)
CarryDropped ==
  /\ st.at = "carry"
  /\ LET next == st.i + st.b + 1
     IN  st' = IF st.r[next] = 0
               THEN [st EXCEPT !.r[next - 1] = 0,
                               !.r[next] = IF next < NumBits THEN 1 ELSE 0,
                               !.b = @ + 1, !.at = "window"]
               ELSE [st EXCEPT !.r[next - 1] = 0, !.b = @ + 1]
  /\ UNCHANGED k

(* Mutant of Carry: the index does not move on. *)
CarryStuck ==
  /\ st.at = "carry"
  /\ LET next == st.i + st.b + 1
     IN  st' = IF st.r[next] = 0
               THEN [st EXCEPT !.r[next - 1] = 0, !.r[next] = 1,
                               !.b = @ + 1, !.at = "window"]
               ELSE [st EXCEPT !.r[next - 1] = 0]
  /\ UNCHANGED k

(* The inner loop: clear the one at i + b and look one slot up; a zero there
   takes the carry.  b -= 1 and the b += 1 after it cancel. *)
Carry ==
  /\ st.at = "carry"
  /\ LET next == st.i + st.b + 1
     IN  st' = IF st.r[next] = 0
               THEN [st EXCEPT !.r[next - 1] = 0, !.r[next] = 1,
                               !.b = @ + 1, !.at = "window"]
               ELSE [st EXCEPT !.r[next - 1] = 0, !.b = @ + 1]
  /\ UNCHANGED k

Next == Scan \/ Window \/ Carry

(* slide is straight-line code. *)
Fairness == WF_vars(Next)

Spec == Init /\ [][Next]_vars /\ Fairness
-------------------------------------------------------------------------------
Pow2(n) == LET p[m \in 0..n] == IF m = 0 THEN 1 ELSE 2 * p[m - 1] IN p[n]

(* The integer that the slots from j up stand for. *)
Values(r) ==
  LET v[m \in 0..(NumBits + 1)] ==
        IF m = NumBits + 1 THEN 0 ELSE r[m] + 2 * v[m + 1]
  IN  v

ValueFrom(r, j) == Values(r)[j]

Digits == {d \in -15..15 : d % 2 = 1} \cup {0}

(* Every slot is a digit, those not reached yet are bits, and no loop reads or
   writes past the array: a carry always finds a free slot, the extra one at
   the latest. *)
TypeOK ==
  /\ k \in Scalars
  /\ st.at \in {"scan", "window", "carry", "done"}
  /\ st.i \in 0..NumBits
  /\ \A j \in Slots : st.r[j] \in IF j > st.i THEN {0, 1} ELSE Digits
  /\ st.at = "carry" => st.i + st.b < NumBits

(* No step changes the number that the slots stand for, a carry that is still
   travelling counted where it is. *)
ValuePreserved ==
  ValueFrom(Fresh(k).r, 0) =
    ValueFrom(st.r, 0) + IF st.at = "carry" THEN Pow2(st.i + st.b) ELSE 0

(* All three loops end, although the inner ones move b up and down. *)
Terminates == <>(st.at = "done")
==============================================================================
