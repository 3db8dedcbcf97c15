---------------------------- MODULE SignedHistory ----------------------------
(***************************************************************************)
(* What a cosigner promises to everyone who trusts its key: there is one   *)
(* history, it only ever grows, and every signature that leaves the        *)
(* cosigner is a signature over a point of that history which has already  *)
(* been made durable.                                                      *)
(***************************************************************************)
EXTENDS SequencesExt

CONSTANT Entry

VARIABLES head,    \* the durable history, the longest checkpoint accepted
          issued   \* the checkpoints for which a signature has left

Init == head = <<>> /\ issued = {}

\* The history is extended; no signature leaves yet.
Extend ==
  /\ head' \in Seq(Entry)
  /\ IsStrictPrefix(head, head')
  /\ UNCHANGED issued

\* A signature over a non-empty part of the durable history leaves.
Issue ==
  \E n \in 1 .. Len(head) :
    /\ issued' = issued \cup {SubSeq(head, 1, n)}
    /\ UNCHANGED head

Next == Extend \/ Issue

Spec == Init /\ [][Next]_<<head, issued>>
=============================================================================
