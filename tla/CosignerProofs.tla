--------------------------- MODULE CosignerProofs ---------------------------
(***************************************************************************)
(* The cosigner's promises, for any number of callers, any log entries and *)
(* any sound proofs the callers may present.                               *)
(*                                                                         *)
(* The inductive invariant says what a caller may rely on between its      *)
(* steps: a signature in the making extends what its caller loaded, and a  *)
(* checkpoint once stored stays part of the stored history.  Nothing else  *)
(* is known of the stored checkpoint while a call is in progress, which is *)
(* why the store must compare before it swaps.                             *)
(***************************************************************************)
EXTENDS Cosigner, DataLemmas

\* Signatures that have left are part of the stored history.
IssuedInHistory == \A c \in issued : IsPrefix(c, state)

\* A signed but not yet stored candidate properly extends what was loaded.
SignedExtendsSeen ==
  \A p \in Caller : call[p].pc = "signed" =>
    /\ call[p].candidate \in Candidates
    /\ IsStrictPrefix(call[p].seen, call[p].candidate)

\* A stored but not yet returned candidate is part of the stored history.
StoredInHistory ==
  \A p \in Caller : call[p].pc = "stored" =>
    /\ call[p].candidate \in Candidates
    /\ IsPrefix(call[p].candidate, state)

Inv ==
  /\ TypeOK
  /\ IssuedInHistory
  /\ SignedExtendsSeen
  /\ StoredInHistory
  /\ SignedSubtreesInHistory

-----------------------------------------------------------------------------
\* What SignsNew accepts properly extends the checkpoint it was checked against.
LEMMA SignsNewExtends ==
  ASSUME NEW current \in Candidates \cup {NoCheckpoint}, NEW c \in Candidates,
         NEW q \in Proofs, NEW m \in Seq(Entry), SignsNew(current, c, q, m)
  PROVE  IsStrictPrefix(current, c)
<1>1. /\ current \in Seq(Entry)
      /\ c \in Seq(Entry)
      /\ c # <<>>
  BY CandidatesAreCheckpoints, EmptySeq DEF NoCheckpoint
<1>2. CASE current = NoCheckpoint
  BY <1>1, <1>2, EmptyIsPrefix DEF NoCheckpoint, IsStrictPrefix
<1>3. CASE current # NoCheckpoint
  <2>1. Len(c) > Len(current) /\ q.old = current /\ q.new = c
    BY <1>3 DEF SignsNew, VerifyCheckpointConsistency
  <2>2. IsPrefix(current, c)
    BY <2>1, ProofsAreSound
  <2>3. current # c
    BY <2>1, <1>1, LenProperties
  <2> QED BY <2>2, <2>3 DEF IsStrictPrefix
<1> QED BY <1>2, <1>3

\* What sign_subtree accepts is a segment of the stored checkpoint.
LEMMA SignsSubtreeInside ==
  ASSUME NEW current \in Seq(Entry), NEW s \in Subtrees, NEW q \in SubtreeProofs,
         SignsSubtree(current, s, q)
  PROVE  s.end <= Len(current) /\ s.hash = SubSeq(current, s.start + 1, s.end)
<1>1. s.end <= Len(current)
  BY DEF SignsSubtree
<1>2. CASE s.start = 0 /\ s.end = Len(current)
  <2>1. s.hash = current
    BY <1>2 DEF SignsSubtree
  <2>2. SubSeq(current, 1, Len(current)) = current
    BY SubSeqFull
  <2> QED BY <1>1, <1>2, <2>1, <2>2
<1>3. CASE ~(s.start = 0 /\ s.end = Len(current))
  BY <1>1, <1>3, SubtreeProofsAreSound DEF SignsSubtree
<1> QED BY <1>2, <1>3

\* Everything that is part of the history stays part of it when it grows.
LEMMA HistoryGrows ==
  ASSUME Inv, state' \in Seq(Entry), IsPrefix(state, state')
  PROVE  /\ \A c \in issued : IsPrefix(c, state')
         /\ \A p \in Caller : call[p].pc = "stored" => IsPrefix(call[p].candidate, state')
         /\ \A s \in issuedSubtrees :
              s.end <= Len(state') /\ s.hash = SubSeq(state', s.start + 1, s.end)
<1>1. state \in Seq(Entry) /\ issued \subseteq Seq(Entry)
  BY CandidatesAreCheckpoints, EmptySeq DEF Inv, TypeOK, NoCheckpoint
<1>2. \A c \in issued : IsPrefix(c, state')
  BY <1>1, PrefixTransitive DEF Inv, IssuedInHistory
<1>3. ASSUME NEW p \in Caller, call[p].pc = "stored"
      PROVE  IsPrefix(call[p].candidate, state')
  <2>1. call[p].candidate \in Seq(Entry) /\ IsPrefix(call[p].candidate, state)
    BY <1>3, CandidatesAreCheckpoints DEF Inv, StoredInHistory
  <2> QED BY <1>1, <2>1, PrefixTransitive
<1>4. ASSUME NEW s \in issuedSubtrees
      PROVE  s.end <= Len(state') /\ s.hash = SubSeq(state', s.start + 1, s.end)
  <2>1. s.start \in Nat /\ s.end \in Nat
    BY SubtreesAreIntervals DEF Inv, TypeOK
  <2>2. s.end <= Len(state) /\ s.hash = SubSeq(state, s.start + 1, s.end)
    BY DEF Inv, SignedSubtreesInHistory
  <2>3. SubSeq(state, s.start + 1, s.end) = SubSeq(state', s.start + 1, s.end)
    <3> DEFINE m == s.start + 1
    <3>1. m \in Nat \ {0}
      BY <2>1
    <3> HIDE DEF m
    <3>2. SubSeq(state, m, s.end) = SubSeq(state', m, s.end)
      BY <1>1, <2>1, <2>2, <3>1, SegmentOfExtension, Zenon
    <3> QED BY <3>2 DEF m
  <2>4. Len(state) <= Len(state')
    BY <1>1, PrefixChar
  <2>5. Len(state) \in Nat /\ Len(state') \in Nat
    BY <1>1, LenProperties
  <2> QED BY <2>1, <2>2, <2>3, <2>4, <2>5, SMTT(30)
<1> QED BY <1>2, <1>3, <1>4

-----------------------------------------------------------------------------
LEMMA InitInv == Init => Inv
<1> SUFFICES ASSUME Init PROVE Inv
  OBVIOUS
<1>1. TypeOK
  BY EmptySeq DEF Init, TypeOK, Idle
<1>2. SignedExtendsSeen /\ StoredInHistory
  BY DEF Init, Idle, SignedExtendsSeen, StoredInHistory
<1>3. IssuedInHistory /\ SignedSubtreesInHistory
  BY DEF Init, IssuedInHistory, SignedSubtreesInHistory
<1> QED BY <1>1, <1>2, <1>3 DEF Inv

LEMMA NextInv == Inv /\ [Next]_vars => Inv'
<1> SUFFICES ASSUME Inv, [Next]_vars PROVE Inv'
  OBVIOUS
<1> USE DEF Inv
<1>1. ASSUME NEW e \in Entry, MirrorAppends(e)
      PROVE  Inv'
  <2>1. mirror' \in Seq(Entry)
    BY <1>1, AppendProperties DEF MirrorAppends, TypeOK
  <2> QED BY <1>1, <2>1 DEF MirrorAppends, TypeOK, IssuedInHistory,
             SignedExtendsSeen, StoredInHistory, SignedSubtreesInHistory
<1>2. ASSUME NEW p \in Caller, NEW c \in Candidates, ReturnStored(p, c)
      PROVE  Inv'
  <2>1. IsPrefix(c, state)
    BY <1>2, CandidatesAreCheckpoints, PrefixReflexive DEF ReturnStored, ReturnsStored
  <2> QED BY <1>2, <2>1 DEF ReturnStored, TypeOK, IssuedInHistory,
             SignedExtendsSeen, StoredInHistory, SignedSubtreesInHistory
<1>3. ASSUME NEW p \in Caller, NEW c \in Candidates, NEW q \in Proofs,
             VerifyAndSign(p, c, q)
      PROVE  Inv'
  <2>1. IsStrictPrefix(state, c)
    BY <1>3, SignsNewExtends DEF VerifyAndSign, TypeOK
  <2>2. TypeOK'
    BY <1>3 DEF VerifyAndSign, TypeOK
  <2>3. SignedExtendsSeen' /\ StoredInHistory'
    BY <1>3, <2>1 DEF VerifyAndSign, TypeOK, SignedExtendsSeen, StoredInHistory
  <2>4. IssuedInHistory' /\ SignedSubtreesInHistory'
    BY <1>3 DEF VerifyAndSign, IssuedInHistory, SignedSubtreesInHistory
  <2> QED BY <2>2, <2>3, <2>4
<1>4. ASSUME NEW p \in Caller, CompareAndSwap(p)
      PROVE  Inv'
  <2>1. CASE state = call[p].seen
    <3>1. /\ state' = call[p].candidate
          /\ call' = [call EXCEPT ![p].pc = "stored"]
          /\ UNCHANGED <<mirror, issued, issuedSubtrees>>
      BY <1>4, <2>1 DEF CompareAndSwap
    <3>2. state' \in Candidates /\ state' \in Seq(Entry) /\ IsPrefix(state, state')
      BY <1>4, <2>1, <3>1, CandidatesAreCheckpoints
      DEF CompareAndSwap, SignedExtendsSeen, IsStrictPrefix
    <3>3. TypeOK'
      BY <3>1, <3>2 DEF TypeOK
    <3>4. SignedExtendsSeen'
      BY <3>1 DEF TypeOK, SignedExtendsSeen
    <3>5. StoredInHistory'
      <4>1. IsPrefix(state', state')
        BY <3>2, PrefixReflexive
      <4>2. \A r \in Caller : call[r].pc = "stored" => IsPrefix(call[r].candidate, state')
        BY <3>2, HistoryGrows
      <4> QED BY <3>1, <3>2, <4>1, <4>2 DEF TypeOK, StoredInHistory
    <3>6. IssuedInHistory' /\ SignedSubtreesInHistory'
      BY <3>1, <3>2, HistoryGrows DEF IssuedInHistory, SignedSubtreesInHistory
    <3> QED BY <3>3, <3>4, <3>5, <3>6
  <2>2. CASE state # call[p].seen
    <3>1. call' = [call EXCEPT ![p] = Idle] /\ UNCHANGED <<mirror, state, issued, issuedSubtrees>>
      BY <1>4, <2>2 DEF CompareAndSwap
    <3> QED BY <3>1 DEF Idle, TypeOK, IssuedInHistory, SignedExtendsSeen,
               StoredInHistory, SignedSubtreesInHistory
  <2> QED BY <2>1, <2>2
<1>5. ASSUME NEW p \in Caller, ReturnSigned(p)
      PROVE  Inv'
  <2>1. call[p].candidate \in Candidates /\ IsPrefix(call[p].candidate, state)
    BY <1>5 DEF ReturnSigned, StoredInHistory
  <2>2. TypeOK'
    BY <1>5, <2>1 DEF ReturnSigned, Idle, TypeOK
  <2>3. SignedExtendsSeen' /\ StoredInHistory'
    BY <1>5 DEF ReturnSigned, Idle, TypeOK, SignedExtendsSeen, StoredInHistory
  <2>4. IssuedInHistory' /\ SignedSubtreesInHistory'
    BY <1>5, <2>1 DEF ReturnSigned, IssuedInHistory, SignedSubtreesInHistory
  <2> QED BY <2>2, <2>3, <2>4
<1>6. ASSUME NEW s \in Subtrees, NEW q \in SubtreeProofs, SignSubtree(s, q)
      PROVE  Inv'
  <2>1. state \in Seq(Entry)
    BY CandidatesAreCheckpoints, EmptySeq DEF TypeOK, NoCheckpoint
  <2>2. s.end <= Len(state) /\ s.hash = SubSeq(state, s.start + 1, s.end)
    BY <1>6, <2>1, SignsSubtreeInside DEF SignSubtree
  <2> QED BY <1>6, <2>2 DEF SignSubtree, TypeOK, IssuedInHistory, SignedExtendsSeen,
             StoredInHistory, SignedSubtreesInHistory
<1>7. CASE Crash
  BY <1>7 DEF Crash, Idle, TypeOK, IssuedInHistory, SignedExtendsSeen,
              StoredInHistory, SignedSubtreesInHistory
<1>8. CASE UNCHANGED vars
  BY <1>8 DEF vars, TypeOK, IssuedInHistory, SignedExtendsSeen, StoredInHistory,
              SignedSubtreesInHistory
<1> QED BY <1>1, <1>2, <1>3, <1>4, <1>5, <1>6, <1>7, <1>8 DEF Next

THEOREM InvHolds == Spec => []Inv
BY InitInv, NextInv, PTL DEF Spec

\* The variables of the cosigner keep their types.
THEOREM TypeCorrect == Spec => []TypeOK
<1>1. Inv => TypeOK
  BY DEF Inv
<1> QED BY <1>1, InvHolds, PTL

\* No split view: two checkpoints that carry the cosigner's signature never
\* disagree, whatever callers present and however their steps interleave.
THEOREM NoSplitViewHolds == Spec => []NoSplitView
<1>1. Inv => NoSplitView
  <2> SUFFICES ASSUME Inv, NEW c \in issued, NEW d \in issued
               PROVE  IsPrefix(c, d) \/ IsPrefix(d, c)
    BY DEF NoSplitView
  <2>1. state \in Seq(Entry) /\ c \in Seq(Entry) /\ d \in Seq(Entry)
    BY CandidatesAreCheckpoints, EmptySeq DEF Inv, TypeOK, NoCheckpoint
  <2>2. IsPrefix(c, state) /\ IsPrefix(d, state)
    BY DEF Inv, IssuedInHistory
  <2> QED BY <2>1, <2>2, PrefixesComparable
<1> QED BY <1>1, InvHolds, PTL

\* Signed subtrees stay parts of the cosigner's history.
THEOREM SubtreesInHistory == Spec => []SignedSubtreesInHistory
<1>1. Inv => SignedSubtreesInHistory
  BY DEF Inv
<1> QED BY <1>1, InvHolds, PTL

-----------------------------------------------------------------------------
\* Every step of the cosigner is a step of SignedHistory or changes nothing
\* there.
LEMMA StepKeepsPromise ==
  Inv /\ [Next]_vars => [Promise!Next]_<<state, issued>>
<1> SUFFICES ASSUME Inv, Next, ~UNCHANGED <<state, issued>>
             PROVE  Promise!Next
  BY DEF vars
<1>1. state \in Seq(Entry)
  BY CandidatesAreCheckpoints, EmptySeq DEF Inv, TypeOK, NoCheckpoint
<1>2. ASSUME NEW c \in Candidates, IsPrefix(c, state),
             issued' = issued \cup {c}, UNCHANGED state
      PROVE  Promise!Next
  <2>1. c \in Seq(Entry) /\ Len(c) # 0
    BY CandidatesAreCheckpoints, EmptySeq
  <2>2. c = SubSeq(state, 1, Len(c)) /\ Len(c) \in 1 .. Len(state)
    BY <1>1, <1>2, <2>1, PrefixIsSegment
  <2>3. \E n \in 1 .. Len(state) : issued' = issued \cup {SubSeq(state, 1, n)}
    <3>1. issued' = issued \cup {SubSeq(state, 1, Len(c))}
      BY <1>2, <2>2
    <3> QED BY <2>2, <3>1
  <2> QED BY <1>2, <2>3 DEF Promise!Next, Promise!Issue
<1>3. ASSUME NEW p \in Caller, NEW c \in Candidates, ReturnStored(p, c)
      PROVE  Promise!Next
  <2>1. IsPrefix(c, state)
    BY <1>3, CandidatesAreCheckpoints, PrefixReflexive DEF ReturnStored, ReturnsStored
  <2> QED BY <1>2, <1>3, <2>1 DEF ReturnStored
<1>4. ASSUME NEW p \in Caller, CompareAndSwap(p)
      PROVE  Promise!Next
  <2>1. state = call[p].seen /\ state' = call[p].candidate /\ UNCHANGED issued
    BY <1>4 DEF CompareAndSwap
  <2>2. state' \in Seq(Entry) /\ IsStrictPrefix(state, state')
    BY <1>4, <2>1, CandidatesAreCheckpoints DEF CompareAndSwap, Inv, SignedExtendsSeen
  <2>3. Promise!IsStrictPrefix(state, state')
    BY <2>2 DEF Promise!IsStrictPrefix, Promise!IsPrefix, IsStrictPrefix, IsPrefix
  <2> QED BY <2>1, <2>2, <2>3 DEF Promise!Next, Promise!Extend
<1>5. ASSUME NEW p \in Caller, ReturnSigned(p)
      PROVE  Promise!Next
  BY <1>2, <1>5 DEF ReturnSigned, Inv, StoredInHistory
<1> QED BY <1>3, <1>4, <1>5 DEF Next, MirrorAppends, VerifyAndSign, SignSubtree, Crash

\* The cosigner implements SignedHistory: one durable history that only
\* grows, and no signature over anything not yet in it.
THEOREM PromiseKept == Spec => KeepsPromise
<1>1. Init => Promise!Init
  BY DEF Init, Promise!Init, NoCheckpoint
<1> QED BY <1>1, InvHolds, StepKeepsPromise, PTL DEF Spec, KeepsPromise, Promise!Spec
=============================================================================
