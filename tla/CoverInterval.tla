---------------------------- MODULE CoverInterval ----------------------------
(***************************************************************************)
(* Subtree intervals: mtc/merkle/subtree.py and mtc/merkle/interval.py.    *)
(*                                                                         *)
(* A subtree of a log is an interval [start, end) of entry indices whose   *)
(* start is a multiple of 2^BitCeil(end - start).  An arbitrary interval   *)
(* is covered by one or two subtrees; the CA signs exactly those.          *)
(* The bit operations of the source are written arithmetically: with P =   *)
(* Pow2[k], x >> k is x \div P and x & ((1 << k) - 1) is x % P, and the    *)
(* highest bit in which two numbers differ is found from the shifts that   *)
(* make them equal.                                                        *)
(*                                                                         *)
(* "Slip:" marks a plausible mistake in the definition after it, used only *)
(* to show that a property notices.                                        *)
(***************************************************************************)
EXTENDS Integers, Sequences

\* 1 << k.
Pow2[k \in Nat] == IF k = 0 THEN 1 ELSE 2 * Pow2[k - 1]

\* int.bit_length(): the least k with n < Pow2[k].
BitWidth(n) == CHOOSE k \in 0 .. n : n < Pow2[k] /\ \A j \in 0 .. k - 1 : Pow2[j] <= n

\* Slip: bit_ceil without the "- 1", a level too high for full subtrees.
BitCeilOfFull(size) == BitWidth(size)

\* bit_ceil: the level at which the root of a subtree of that size sits.
BitCeil(size) == BitWidth(size - 1)

IsValidSubtree(start, end) ==
  /\ start \in Nat
  /\ end \in Nat
  /\ start < end
  /\ start % Pow2[BitCeil(end - start)] = 0

\* The number of low bits to drop before x and y agree: (x ^ y).bit_length().
DifferingBits(x, y) ==
  CHOOSE k \in 0 .. x + y :
    /\ x \div Pow2[k] = y \div Pow2[k]
    /\ \A j \in 0 .. k - 1 : x \div Pow2[j] # y \div Pow2[j]

Interval(start, end) == [start |-> start, end |-> end]

\* Slip: the interval is cut in the middle.
CoverHalves(start, end) ==
  IF end - start = 1
  THEN << Interval(start, end) >>
  ELSE LET mid == (start + end) \div 2
       IN  << Interval(start, mid), Interval(mid, end) >>

\* Slip: the left subtree always reaches back to a multiple of 2^split.
CoverWide(start, end) ==
  IF end - start = 1
  THEN << Interval(start, end) >>
  ELSE LET last  == end - 1
           split == DifferingBits(start, last) - 1
           mid   == last - (last % Pow2[split])
       IN  << Interval(start - (start % Pow2[split]), mid), Interval(mid, end) >>

\* cover_interval: the subtrees, left to right, that cover [start, end).
Cover(start, end) ==
  IF end - start = 1
  THEN << Interval(start, end) >>
  ELSE LET last      == end - 1
           split     == DifferingBits(start, last) - 1
           mid       == last - (last % Pow2[split])
           leftSplit == BitWidth(Pow2[split] - 1 - (start % Pow2[split]))
           leftStart == start - (start % Pow2[leftSplit])
       IN  << Interval(leftStart, mid), Interval(mid, end) >>

\* CAOrchestrator._validate_subtrees: what the CA demands of the cover.
CoverAccepted(cover, start, end) ==
  /\ Len(cover) \in {1, 2}
  /\ \A i \in DOMAIN cover :
        /\ 0 <= cover[i].start
        /\ cover[i].start < cover[i].end
        /\ cover[i].end <= end
  /\ cover[1].start <= start
  /\ cover[Len(cover)].end = end
  /\ Len(cover) = 2 => cover[1].end = cover[2].start
=============================================================================
