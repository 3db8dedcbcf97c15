--------------------------- MODULE MCIssuanceLog ---------------------------
(* The issuance log with two certificate entries, which nothing tells apart. *)
EXTENDS IssuanceLog, TLC

EntrySymmetry == Permutations(Entry)
=============================================================================
