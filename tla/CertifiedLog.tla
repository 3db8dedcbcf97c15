---------------------------- MODULE CertifiedLog ----------------------------
(***************************************************************************)
(* What the CA and its cosigners promise together to whoever reads the     *)
(* published checkpoint batches: every cosigner has one history that only  *)
(* grows, and the published log is a chain of strictly growing checkpoints *)
(* each of which names its predecessor and is part of the history of the   *)
(* CA and of enough external cosigners.                                    *)
(***************************************************************************)
EXTENDS Naturals, FiniteSets, SequencesExt

CONSTANTS Entry,     \* log entries
          External,  \* the external cosigners
          Required   \* external signature sets a publication needs

VARIABLES published,  \* [prev, view, signers] of the latest publication
          caHistory,  \* the CA cosigner's history
          history     \* each external cosigner's history

vars == <<published, caHistory, history>>

Init ==
  /\ published = [prev |-> 0, view |-> <<>>, signers |-> {}]
  /\ caHistory = <<>>
  /\ history = [c \in External |-> <<>>]

CAExtends ==
  /\ caHistory' \in Seq(Entry)
  /\ IsStrictPrefix(caHistory, caHistory')
  /\ UNCHANGED <<published, history>>

ExternalExtends(c) ==
  /\ history'[c] \in Seq(Entry)
  /\ IsStrictPrefix(history[c], history'[c])
  /\ history' = [history EXCEPT ![c] = history'[c]]
  /\ UNCHANGED <<published, caHistory>>

Publish ==
  /\ IsStrictPrefix(published.view, published'.view)
  /\ published'.prev = Len(published.view)
  /\ IsPrefix(published'.view, caHistory)
  /\ published'.signers \subseteq { c \in External : IsPrefix(published'.view, history[c]) }
  /\ Cardinality(published'.signers) >= Required
  /\ UNCHANGED <<caHistory, history>>

Next ==
  \/ CAExtends
  \/ \E c \in External : ExternalExtends(c)
  \/ Publish

Spec == Init /\ [][Next]_vars
=============================================================================
