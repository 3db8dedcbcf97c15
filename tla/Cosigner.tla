------------------------------ MODULE Cosigner ------------------------------
(***************************************************************************)
(* One stateful cosigner (mtc/cosigner/service.py) used by several callers *)
(* at once, over a state store whose compare_and_swap is atomic            *)
(* (InMemoryCosignerStateStore, FileCosignerStateStore).                   *)
(*                                                                         *)
(* sign_checkpoint loads the stored checkpoint, checks the candidate and   *)
(* the proof against it, signs, and only then compare-and-swaps the store: *)
(* other callers may run between any two of these steps and the process    *)
(* may die between any two.  A call that raises changes nothing and is a   *)
(* stuttering step.                                                        *)
(*                                                                         *)
(* "Slip:" marks a plausible mistake in the definition after it, used only *)
(* to show that a property notices.                                        *)
(***************************************************************************)
EXTENDS CosignerPolicy

CONSTANTS
  Entry,        \* log entries
  Caller,       \* threads that call the cosigner
  Candidates,   \* the checkpoints callers may present
  Proofs,       \* the consistency proofs callers may present
  Subtrees,     \* the subtrees callers may present
  SubtreeProofs \* the subtree consistency proofs callers may present

ASSUME CandidatesAreCheckpoints == Candidates \subseteq Seq(Entry) \ {<<>>}

\* Soundness of consistency proofs: a proof links a tree head only to an
\* extension of it (mtc/merkle/consistency.py).
ASSUME ProofsAreSound ==
  \A p \in Proofs :
    /\ p.old \in Seq(Entry)
    /\ p.new \in Seq(Entry)
    /\ IsPrefix(p.old, p.new)

ASSUME SubtreesAreIntervals ==
  \A s \in Subtrees : s.start \in Nat /\ s.end \in Nat /\ s.start < s.end

\* A subtree proof links a subtree only to a tree that contains it.
ASSUME SubtreeProofsAreSound ==
  \A p \in SubtreeProofs :
    p.subtree.hash = SubSeq(p.root, p.subtree.start + 1, p.subtree.end)

VARIABLES
  mirror,         \* the log behind this cosigner's LogViewVerifier
  state,          \* the stored checkpoint, or NoCheckpoint
  call,           \* each caller's sign_checkpoint call in progress
  issued,         \* checkpoints whose signature was returned to a caller
  issuedSubtrees  \* subtrees whose signature was returned to a caller

vars == <<mirror, state, call, issued, issuedSubtrees>>

Idle == [pc |-> "idle", seen |-> NoCheckpoint, candidate |-> NoCheckpoint]

TypeOK ==
  /\ mirror \in Seq(Entry)
  /\ state \in Candidates \cup {NoCheckpoint}
  /\ call \in [Caller -> [pc : {"idle", "signed", "stored"},
                          seen : Candidates \cup {NoCheckpoint},
                          candidate : Candidates \cup {NoCheckpoint}]]
  /\ issued \subseteq Candidates
  /\ issuedSubtrees \subseteq Subtrees

Init ==
  /\ mirror = <<>>
  /\ state = NoCheckpoint
  /\ call = [p \in Caller |-> Idle]
  /\ issued = {}
  /\ issuedSubtrees = {}

-----------------------------------------------------------------------------
\* The log this cosigner watches grows on its own (bounded by Candidates,
\* which contains every checkpoint of every log considered).
MirrorAppends(e) ==
  /\ Append(mirror, e) \in Candidates
  /\ mirror' = Append(mirror, e)
  /\ UNCHANGED <<state, call, issued, issuedSubtrees>>

\* sign_checkpoint on the checkpoint already stored returns the stored
\* signature; nothing is signed and nothing is written.
ReturnStored(p, candidate) ==
  /\ call[p].pc = "idle"
  /\ ReturnsStored(state, candidate)
  /\ issued' = issued \cup {candidate}
  /\ UNCHANGED <<mirror, state, call, issuedSubtrees>>

\* Slip: the signature is usable as soon as it is computed.
SignAndRelease(p, candidate, proof) ==
  /\ call[p].pc = "idle"
  /\ SignsNew(state, candidate, proof, mirror)
  /\ call' = [call EXCEPT ![p] =
                [pc |-> "signed", seen |-> state, candidate |-> candidate]]
  /\ issued' = issued \cup {candidate}
  /\ UNCHANGED <<mirror, state, issuedSubtrees>>

\* sign_checkpoint up to and including the signature: `current` is loaded
\* once, every check is made against it.
VerifyAndSign(p, candidate, proof) ==
  /\ call[p].pc = "idle"
  /\ SignsNew(state, candidate, proof, mirror)
  /\ call' = [call EXCEPT ![p] =
                [pc |-> "signed", seen |-> state, candidate |-> candidate]]
  /\ UNCHANGED <<mirror, state, issued, issuedSubtrees>>

\* Slip: the store is overwritten whatever it holds.
WriteBlindly(p) ==
  /\ call[p].pc = "signed"
  /\ state' = call[p].candidate
  /\ call' = [call EXCEPT ![p].pc = "stored"]
  /\ UNCHANGED <<mirror, issued, issuedSubtrees>>

\* The store is written only if it still holds what the checks were made
\* against; otherwise ConcurrentStateUpdate is raised.
CompareAndSwap(p) ==
  /\ call[p].pc = "signed"
  /\ IF state = call[p].seen
     THEN /\ state' = call[p].candidate
          /\ call' = [call EXCEPT ![p].pc = "stored"]
     ELSE /\ call' = [call EXCEPT ![p] = Idle]
          /\ UNCHANGED state
  /\ UNCHANGED <<mirror, issued, issuedSubtrees>>

\* Slip: a call returns its checkpoint without having stored one.
ReturnUnsigned(p) ==
  /\ issued' = issued \cup {call[p].candidate}
  /\ call' = [call EXCEPT ![p] = Idle]
  /\ UNCHANGED <<mirror, state, issuedSubtrees>>

\* The new signature is returned.
ReturnSigned(p) ==
  /\ call[p].pc = "stored"
  /\ issued' = issued \cup {call[p].candidate}
  /\ call' = [call EXCEPT ![p] = Idle]
  /\ UNCHANGED <<mirror, state, issuedSubtrees>>

\* sign_subtree: one load, the checks, the signature; nothing is written.
SignSubtree(subtree, proof) ==
  /\ SignsSubtree(state, subtree, proof)
  /\ issuedSubtrees' = issuedSubtrees \cup {subtree}
  /\ UNCHANGED <<mirror, state, call, issued>>

\* The process dies and is restarted over the same store: calls in progress
\* are lost, whatever compare_and_swap wrote is kept (os.replace is atomic).
Crash ==
  /\ \E p \in Caller : call[p] # Idle
  /\ call' = [p \in Caller |-> Idle]
  /\ UNCHANGED <<mirror, state, issued, issuedSubtrees>>

Next ==
  \/ \E e \in Entry : MirrorAppends(e)
  \/ \E p \in Caller, c \in Candidates : ReturnStored(p, c)
  \/ \E p \in Caller, c \in Candidates, q \in Proofs : VerifyAndSign(p, c, q)
  \/ \E p \in Caller : CompareAndSwap(p)
  \/ \E p \in Caller : ReturnSigned(p)
  \/ \E s \in Subtrees, q \in SubtreeProofs : SignSubtree(s, q)
  \/ Crash

Spec == Init /\ [][Next]_vars

-----------------------------------------------------------------------------
\* No split view: whatever the callers present, in whatever order their
\* steps interleave, two checkpoints that carry this cosigner's signature
\* never disagree on an entry (the reason sign_checkpoint checks at all).
NoSplitView ==
  \A c, d \in issued : IsPrefix(c, d) \/ IsPrefix(d, c)

\* A signed subtree is part of the stored history for ever, although
\* sign_subtree checked it against a checkpoint that may since have been
\* replaced.
SignedSubtreesInHistory ==
  \A s \in issuedSubtrees :
    /\ s.end <= Len(state)
    /\ s.hash = SubSeq(state, s.start + 1, s.end)

\* No signature leaves before the checkpoint it covers is durable, and the
\* durable history never rolls back: the promise of SignedHistory.
Promise == INSTANCE SignedHistory WITH head <- state

KeepsPromise == Promise!Spec
=============================================================================
