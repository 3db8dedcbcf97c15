---------------------------- MODULE MCFilterWindow ----------------------------
(* Hashes that collide: keys 1, 2 and 3 share two buckets under the first   *)
(* seed and so do 1, 2 and 4 under both, so some builds need a retry and    *)
(* some never succeed.                                                      *)
EXTENDS FilterWindow

Hash(fingerprint, low) == [fingerprint |-> fingerprint, low |-> low]

MCKeyHash ==
  [seed \in 0 .. 1 |->
     <<Hash(1, 0), Hash(1, 0), Hash(1, IF seed = 0 THEN 1 ELSE 2), Hash(2, 1)>>]

MCAlternateHash == [seed \in 0 .. 1 |-> <<1, 1>>]

MCItemSets == {{1}, {4}, {1, 2}, {2, 3}}
=============================================================================
