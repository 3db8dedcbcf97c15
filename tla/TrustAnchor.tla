----------------------------- MODULE TrustAnchor -----------------------------
(***************************************************************************)
(* What a relying party is configured with and decides by: the cosigner    *)
(* policy, the trusted subtrees, the revoked ranges and the verification   *)
(* of one certificate (mtc/verifier/cosigner_policy.py, trust_anchor.py,   *)
(* trusted_subtrees.py, revocation.py, signatures.py, inclusion.py and     *)
(* verify.py), without the state that holds them (TrustUpdate).            *)
(*                                                                         *)
(* Heads, subtrees and their hashes are those of CosignerPolicy: a hash is *)
(* the sequence of entries below it.  A signature is valid or it is not    *)
(* there.  Structure, issuer, validity period and extensions of the        *)
(* certificate are left out: they only ever refuse.                        *)
(*                                                                         *)
(* "Slip:" marks a plausible mistake in the definition after it, used only *)
(* to show that a property notices.                                        *)
(***************************************************************************)
EXTENDS CosignerPolicy, FiniteSets

-----------------------------------------------------------------------------
(* Policy and signers *)

\* A configuration: whose keys are known, and what CosignerPolicy demands.
RequiredIds(c) == c.ca \cup c.witnesses

\* CosignerPolicy.__post_init__ and TrustAnchor.__post_init__
IsConfiguration(c) ==
  /\ c.ca # {}
  /\ c.ca \cap c.witnesses = {}
  /\ c.threshold \in 1 .. Cardinality(c.witnesses)
  /\ RequiredIds(c) \subseteq c.cosigners

\* Slip: any signature of a policy member counts toward the threshold.
PolicyCountsAnyone(c, verified) == Cardinality(verified \cap RequiredIds(c)) >= c.threshold

\* CosignerPolicy.accepts
PolicyAccepts(c, verified) ==
  /\ verified \cap c.ca # {}
  /\ Cardinality(verified \cap c.witnesses) >= c.threshold

\* verified_cosigner_ids: unknown signers never count.
VerifiedIds(c, signers) == signers \cap c.cosigners

-----------------------------------------------------------------------------
(* Trusted subtrees *)

SameInterval(s, t) == s.start = t.start /\ s.end = t.end

\* TrustedSubtreeStore.lookup
Lookup(store, start, end) == {s \in store : s.start = start /\ s.end = end}

\* TrustedSubtreeStore.__post_init__, which with_trusted_subtrees runs on both.
NoConflict(store) == \A s, t \in store : SameInterval(s, t) => s.hash = t.hash

\* Slip: roots no longer active stay trusted.
RetainEverything(store, intervals) == store

\* TrustedSubtreeStore.retain
Retain(store, intervals) == {s \in store : Interval(s.start, s.end) \in intervals}

-----------------------------------------------------------------------------
(* Revocation: a list of disjoint ranges in order *)

RangeBefore(r, s) == r.start < s.start \/ (r.start = s.start /\ r.end < s.end)

\* Slip: the merged range ends where the later one ends.
MergeRangeToItsEnd(merged, item) ==
  IF merged # << >> /\ item.start <= Last(merged).end
  THEN Append(Front(merged), Interval(Last(merged).start, item.end))
  ELSE Append(merged, item)

\* One turn of the merging loop.
MergeRange(merged, item) ==
  IF merged # << >> /\ item.start <= Last(merged).end
  THEN Append(Front(merged),
              Interval(Last(merged).start,
                       IF item.end > Last(merged).end THEN item.end ELSE Last(merged).end))
  ELSE Append(merged, item)

\* sorted(values)
InOrder(ranges) ==
  CHOOSE values \in [1 .. Cardinality(ranges) -> ranges] :
    /\ \A r \in ranges : \E i \in DOMAIN values : values[i] = r
    /\ \A i, j \in DOMAIN values : i < j => RangeBefore(values[i], values[j])

\* RevocationList.__post_init__: merged[k] is the list after k turns.
RevocationList(ranges) ==
  LET values == InOrder(ranges)
      merged[k \in 0 .. Cardinality(ranges)] ==
        IF k = 0 THEN << >> ELSE MergeRange(merged[k - 1], values[k])
  IN  merged[Cardinality(ranges)]

\* RevocationList.revoke
Revoke(list, start, end) ==
  RevocationList({list[k] : k \in DOMAIN list} \cup {Interval(start, end)})

\* RevocationList.contains
Revoked(list, index) == \E k \in DOMAIN list : list[k].start <= index /\ index < list[k].end

-----------------------------------------------------------------------------
(* One certificate: [index, subtree, signers], where subtree is what its     *)
(* inclusion proof computes from its own entry and signers are those whose   *)
(* signatures over that subtree it carries.                                  *)

\* evaluate_certificate_inclusion gives a subtree around the index.
IsIncluded(cert) ==
  /\ IsValidSubtree(cert.subtree.start, cert.subtree.end)
  /\ cert.subtree.start <= cert.index
  /\ cert.index < cert.subtree.end

\* Slip: signatures are tried when the trusted hash does not match.
VerifyWithFallback(cert, config, store, revocations) ==
  /\ ~Revoked(revocations, cert.index)
  /\ IsIncluded(cert)
  /\ \/ cert.subtree \in store
     \/ PolicyAccepts(config, VerifiedIds(config, cert.signers))

\* verify_certificate
Verify(cert, config, store, revocations) ==
  /\ ~Revoked(revocations, cert.index)
  /\ IsIncluded(cert)
  /\ LET trusted == Lookup(store, cert.subtree.start, cert.subtree.end)
     IN  IF trusted # {}
         THEN cert.subtree \in trusted
         ELSE PolicyAccepts(config, VerifiedIds(config, cert.signers))
=============================================================================
