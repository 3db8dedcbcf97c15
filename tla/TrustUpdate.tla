----------------------------- MODULE TrustUpdate -----------------------------
(***************************************************************************)
(* A relying party's trust in one log over time: update_trusted_subtrees   *)
(* of mtc/verifier/trust_update.py, with the anchor and the last result    *)
(* that RealCertificateVerifier keeps and passes back                      *)
(* (mtc/service/real_certificate.py), key and policy changes, revocations  *)
(* and restarts that keep the anchor but lose the last result.             *)
(*                                                                         *)
(* Nothing is assumed of the signers: all of them may sign heads of        *)
(* different histories.  An update that is refused changes nothing and is  *)
(* not an action.                                                          *)
(*                                                                         *)
(* "Slip:" marks a plausible mistake in the definition after it, used only *)
(* to show that a property notices.                                        *)
(***************************************************************************)
EXTENDS TrustAnchor, Landmarks

CONSTANTS
  Entry,           \* log entries
  Heads,           \* the log heads a caller may present (sequences of entries)
  SequencesGiven,  \* the landmark sequences a caller may present (tree sizes)
  SignerSets,      \* the sets of signers of one presented head
  Configurations,  \* the keys and policies a deployment may configure
  RevocableRanges, \* the ranges of indices that may be revoked
  MaxLandmarks     \* LandmarkSequence.max_landmarks, fixed for a sequence

ASSUME HeadsAreHistories == Heads \subseteq Seq(Entry)
ASSUME SequencesAreSizes == SequencesGiven \subseteq Seq(Nat)

\* RevokedRange.__post_init__
ASSUME RangesAreIntervals ==
  \A r \in RevocableRanges :
    r = Interval(r.start, r.end) /\ r.start \in Nat /\ r.end \in Nat /\ r.start < r.end

VARIABLES
  config,          \* TrustAnchor.cosigners and policy
  trusted,         \* TrustAnchor.trusted_subtrees
  revocations,     \* TrustAnchor.revocations
  last,            \* _trust_updates: the set of the one last result, or empty
  everRevoked      \* every index revoked so far

vars == <<config, trusted, revocations, last, everRevoked>>

Init ==
  /\ config \in Configurations
  /\ trusted = {}
  /\ revocations = << >>
  /\ last = {}
  /\ everRevoked = {}

\* Slip: the new reference need not extend the previous one.
ContinuesSequenceOnly(reference, sizes) ==
  \A l \in last :
    /\ l.config = config
    /\ l.trusted = trusted
    /\ IsPrefix(l.sizes, sizes)

\* The checks against the previous result; a first update has none.  Only an
\* extension of the previous reference has a consistency proof.
ContinuesLast(reference, sizes) ==
  \A l \in last :
    /\ l.config = config
    /\ l.trusted = trusted
    /\ IsPrefix(l.sizes, sizes)
    /\ IsPrefix(l.reference, reference)

\* The evidence that enough signers stand behind the reference: each head they
\* signed must be consistent with it, unknown signers are skipped.  One head for
\* all of them is no loss: a head only has to pass this test.  Two pieces of
\* evidence of one signer, which the code refuses, are one here.
SignersAccept(reference, head, signers) ==
  LET known == VerifiedIds(config, signers)
  IN  /\ known # {} => IsPrefix(reference, head)
      /\ PolicyAccepts(config, known)

\* The evidence for the subtrees: exactly the active ones, each part of the
\* reference.
SubtreesProved(subtrees, expected, reference) ==
  /\ \A s \in subtrees :
       /\ Interval(s.start, s.end) \in expected
       /\ s = SubtreeOf(reference, s)
  /\ NoConflict(subtrees)
  /\ {Interval(s.start, s.end) : s \in subtrees} = expected

\* Subtree evidence as it may come: for all, too few or too many intervals,
\* taken from some head.
SubtreeEvidence(expected, head) ==
  {{SubtreeOf(head, i) : i \in intervals} :
     intervals \in {expected}
                   \cup {expected \ {i} : i \in expected}
                   \cup {expected \cup {Interval(0, 1)}}}

\* update_trusted_subtrees, and RealCertificateVerifier storing its result.
UpdateTrustedSubtrees(reference, sizes, head, signers, subtrees) ==
  LET expected == ActiveIntervals(sizes, MaxLandmarks)
      merged == trusted \cup subtrees
      kept == Retain(merged, expected)
  IN  /\ reference # << >>
      /\ Len(reference) >= LatestSize(sizes)
      /\ ContinuesLast(reference, sizes)
      /\ SignersAccept(reference, head, signers)
      /\ SubtreesProved(subtrees, expected, reference)
      /\ NoConflict(merged)
      /\ trusted' = kept
      /\ last' = {[reference |-> reference, sizes |-> sizes, config |-> config, trusted |-> kept]}
      /\ UNCHANGED <<config, revocations, everRevoked>>

Update ==
  \E reference \in Heads, sizes \in SequencesGiven :
    /\ Len(reference) >= LatestSize(sizes)
    /\ ContinuesLast(reference, sizes)
    /\ \E signers \in SignerSets, head \in Heads :
         /\ SignersAccept(reference, head, signers)
         /\ \E source \in {reference, head} :
              \E subtrees \in SubtreeEvidence(ActiveIntervals(sizes, MaxLandmarks), source) :
                UpdateTrustedSubtrees(reference, sizes, head, signers, subtrees)

\* TrustAnchor.with_signers: new keys or policy, and nothing trusted yet.  The
\* previous result no longer matches, so the deployment starts a new bootstrap.
WithSigners(c) ==
  /\ c # config
  /\ config' = c
  /\ trusted' = {}
  /\ last' = {}
  /\ UNCHANGED <<revocations, everRevoked>>

\* A new RealCertificateVerifier over the saved anchor: no previous result.
Restart ==
  /\ last' = {}
  /\ UNCHANGED <<config, trusted, revocations, everRevoked>>

RevokeRange(r) ==
  /\ revocations' = Revoke(revocations, r.start, r.end)
  /\ everRevoked' = everRevoked \cup (r.start .. r.end - 1)
  /\ UNCHANGED <<config, trusted, last>>

Next ==
  \/ Update
  \/ \E c \in Configurations : WithSigners(c)
  \/ Restart
  \/ \E r \in RevocableRanges : RevokeRange(r)

Spec == Init /\ [][Next]_vars

-----------------------------------------------------------------------------
(* Properties *)

\* A relying party trusts exactly the active subtrees of the landmark sequence
\* it last accepted, with the hashes of the history it accepted with them
\* (update_trusted_subtrees merges, then retains; evidence comes in any order
\* and for any interval).
TrustedRootsOfOneHistory ==
  \A l \in last :
    trusted = {SubtreeOf(l.reference, i) : i \in ActiveIntervals(l.sizes, MaxLandmarks)}

\* As long as the keys and the policy stay, nothing takes back what was
\* trusted: a later update extends the reference and the landmark sequence,
\* and no interval ever changes its hash while it is trusted, not even when
\* the previous result was lost and every signer has signed a fork.
TrustNeverForks ==
  [][config' = config =>
       /\ \A l \in last, m \in last' :
            IsPrefix(l.reference, m.reference) /\ IsPrefix(l.sizes, m.sizes)
       /\ \A s \in trusted, t \in trusted' : SameInterval(s, t) => s = t]_vars

\* Every certificate a caller may present over the given heads.
SubtreesOver(head) ==
  {SubtreeOf(head, i) : i \in {j \in [start : 0 .. Len(head) - 1, end : 1 .. Len(head)] :
                                IsValidSubtree(j.start, j.end)}}

Certificates ==
  UNION {UNION {[index : s.start .. s.end - 1, subtree : {s}, signers : SignerSets] :
                s \in SubtreesOver(h)} : h \in Heads}

\* What the relying party accepts stands: no index that was ever revoked, and
\* for the subtrees it trusts only entries of the history it accepted, even
\* when a full quorum has signed others.
AcceptedCertificatesStand ==
  \A cert \in Certificates :
    Verify(cert, config, trusted, revocations) =>
      /\ cert.index \notin everRevoked
      /\ \A s \in trusted : SameInterval(s, cert.subtree) =>
           s.hash[cert.index - s.start + 1] = cert.subtree.hash[cert.index - s.start + 1]
=============================================================================
