----------------------------- MODULE MerkleHash -----------------------------
(***************************************************************************)
(* The hashes of a Merkle tree (mtc/merkle/hash.py) and the definition of  *)
(* the tree they form (mth in mtc/merkle/tree.py).                         *)
(*                                                                         *)
(* Hashes are symbolic and collision free: the hash of an entry is <<e>>,  *)
(* the hash of two nodes is <<left, right>>.  Unavailable stands for a     *)
(* leaf hash that was pruned; an operation that needs it raises, which is  *)
(* the value Unavailable of every hash computed from it.                   *)
(***************************************************************************)
EXTENDS CoverInterval

Unavailable == <<>>

HashLeaf(entry) == <<entry>>

HashInternal(left, right) ==
  IF left = Unavailable \/ right = Unavailable THEN Unavailable ELSE <<left, right>>

\* largest_power_of_two_less_than: where MTH splits n > 1 leaves.
Split(n) == Pow2[BitWidth(n - 1) - 1]

\* _mth: the hash of the entries in [start, end).
MTHOf(entries, start, end) ==
  LET mth[i \in (0 .. Len(entries)) \X (0 .. Len(entries))] ==
        LET mid == i[1] + Split(i[2] - i[1])
        IN  IF i[2] - i[1] <= 1
            THEN HashLeaf(entries[i[2]])
            ELSE HashInternal(mth[<<i[1], mid>>], mth[<<mid, i[2]>>])
  IN  mth[<<start, end>>]

\* MTH(D): the reference definition, over the entries themselves.
MTH(entries) == MTHOf(entries, 0, Len(entries))
=============================================================================
