------------------------------- MODULE Handshake -------------------------------
(***************************************************************************)
(* Certificate selection between a server and a client: mtc/protocol/      *)
(* certificate_selector.py, authenticating_party.py, relying_party.py,     *)
(* tls.py and the certificate service they share                           *)
(* (mtc/service/real_certificate.py), over the landmarks of                *)
(* LandmarkAllocation.                                                     *)
(*                                                                         *)
(* The server keeps every certificate it was ever provisioned with.  The   *)
(* client's trust update and the capabilities it advertises have different *)
(* lifetimes: the update is refreshed in place, the capabilities are fixed *)
(* when the RelyingParty object is built.  Log and signers are honest here *)
(* (TrustUpdate and Cosigner model the others), so a hash in an interval   *)
(* is the log's hash, and signatures on a full certificate are valid.      *)
(* There is one log; its ID is LogID.  A landmark's routing ID is its      *)
(* number, which is positive.                                              *)
(*                                                                         *)
(* "Slip:" marks a plausible mistake in the definition after it, used only *)
(* to show that a property notices.                                        *)
(***************************************************************************)
EXTENDS LandmarkAllocation, FiniteSets

CONSTANTS
  MaxCertificates      \* bound: the certificates a server is provisioned with

LogID == 0

VARIABLES
  artifacts,           \* AuthenticatingParty._certificates
  verifiedSizes,       \* TrustUpdateResult.sequence of the client's last update
  advertised           \* RelyingParty: the landmark numbers it announces

handshakeVars == <<artifacts, verifiedSizes, advertised>>
vars == <<allocationVars, handshakeVars>>

HandshakeInit ==
  /\ AllocationInit
  /\ artifacts = {}
  /\ verifiedSizes = treeSizes
  /\ advertised = {}

-----------------------------------------------------------------------------
(* The server's certificates *)

\* RealCertificateArtifact: what selection and verification read of it.
Artifact(kind, index, number, subtree) ==
  [kind |-> kind, index |-> index, landmark |-> number, subtree |-> subtree]

RoutingID(c) == IF c.kind = "full" THEN LogID ELSE c.landmark

\* CheckpointBatch.previous_tree_size of the k-th checkpoint.
PreviousTreeSize(k) == IF k = 1 THEN 0 ELSE checkpoints[k - 1]

\* build_full_certificate: the k-th checkpoint's batch newly issued the index.
FullArtifacts(k, index) ==
  LET cover == Cover(PreviousTreeSize(k), checkpoints[k])
  IN  {Artifact("full", index, NoLandmark, s) :
         s \in {cover[j] : j \in DOMAIN cover} \cap
               [start : 0 .. index, end : index + 1 .. checkpoints[k]]}

Keep(artifact) ==
  /\ Cardinality(artifacts) < MaxCertificates
  /\ artifacts' = artifacts \cup {artifact}
  /\ UNCHANGED <<allocationVars, verifiedSizes, advertised>>

ProvisionFull(index) ==
  \E k \in DOMAIN checkpoints :
    /\ PreviousTreeSize(k) <= index /\ index < checkpoints[k]
    /\ \E c \in FullArtifacts(k, index) : Keep(c)

\* provision_signatureless_certificate, with an explicit landmark or the first
\* one that covers the index, active or historical.
ProvisionSignatureless(index) ==
  \E requireActive \in BOOLEAN, n \in 1 .. LatestNumber(treeSizes) :
    \E s \in SelectedSubtrees(treeSizes, maxLandmarks, index, n, requireActive) :
      Keep(Artifact("signatureless", index, n, s))

-----------------------------------------------------------------------------
(* The client's trust *)

\* RealCertificateVerifier.update_trusted_subtrees with the current sequence.
RefreshTrust ==
  /\ verifiedSizes' = treeSizes
  /\ UNCHANGED <<allocationVars, artifacts, advertised>>

\* LandmarkTrustAnchor.from_trust_update accepts active landmarks only; the
\* client is then built with that capability.
Advertise(number) ==
  /\ number \in Active(verifiedSizes, maxLandmarks)
  /\ advertised' = {number}
  /\ UNCHANGED <<allocationVars, artifacts, verifiedSizes>>

TrustedSubtrees == ActiveIntervals(verifiedSizes, maxLandmarks)

Expired(c) == now > issuedAt[c.index] + Lifetime

\* verify_certificate: the trusted subtree of exactly this interval, or else
\* the signatures (a signatureless certificate has none).
Trusted(c) == c.subtree \in TrustedSubtrees \/ c.kind = "full"

\* RealCertificateVerifier.verify
Verifies(c) == ~Expired(c) /\ Trusted(c)

-----------------------------------------------------------------------------
(* Selection and negotiation *)

\* Slip: the range reaches one landmark too far.
RangeOneTooLong(c) == c.landmark .. c.landmark + maxLandmarks

\* CertificateSelector._landmark_range: the landmarks of clients that still
\* hold the certificate's subtree.
LandmarkRange(c) == c.landmark .. c.landmark + maxLandmarks - 1

\* CertificateSelector.is_compatible
Compatible(c, anchorIds, landmarks) ==
  \/ RoutingID(c) \in anchorIds
  \/ c.kind = "signatureless" /\ LandmarkRange(c) \cap landmarks # {}

\* CertificateSelector._rank up to the byte strings that break ties.
RanksBefore(c, d, preferSignatureless) ==
  \/ c.kind # d.kind /\ (c.kind = "signatureless") = preferSignatureless
  \/ c.kind = d.kind /\ c.landmark > d.landmark

\* CertificateSelector.select: the best of the compatible certificates (any of
\* those that tie; their DER decides).
Selectable(anchorIds, landmarks, preferSignatureless) ==
  LET compatible == {c \in artifacts : Compatible(c, anchorIds, landmarks)}
  IN  {c \in compatible : \A d \in compatible : ~RanksBefore(d, c, preferSignatureless)}

\* TLSSemanticNegotiator.negotiate: the statuses it may return.
NegotiationResults(anchorIds, landmarks, preferSignatureless) ==
  LET selectable == Selectable(anchorIds, landmarks, preferSignatureless)
  IN  IF ~(landmarks \subseteq advertised) THEN {"invalid_input"}
      ELSE IF selectable = {} THEN {"no_certificate"}
      ELSE {IF Compatible(c, {LogID}, advertised) /\ Verifies(c)
            THEN "selected" ELSE "verification_failed" : c \in selectable}

HandshakeNext ==
  \/ AllocationStep /\ UNCHANGED handshakeVars
  \/ \E index \in Certificates : ProvisionFull(index)
  \/ \E index \in Certificates : ProvisionSignatureless(index)
  \/ RefreshTrust
  \/ \E number \in 1 .. LatestNumber(verifiedSizes) : Advertise(number)

HandshakeSpec == HandshakeInit /\ [][HandshakeNext]_vars

-----------------------------------------------------------------------------
(* Properties *)

\* A client that announces the latest landmark of its current trust update is
\* never handed a certificate it cannot trace to its trust: what negotiation
\* selects for it verifies, or has expired.  The server computes the range from
\* landmark numbers, the client decides by exact intervals, and the two may be
\* any number of landmarks apart.
FreshCapabilityIsTrusted ==
  LET latest == LatestNumber(verifiedSizes)
  IN  latest # 0 /\ advertised = {latest} =>
        \A anchorIds \in SUBSET {LogID}, prefer \in BOOLEAN :
          LET selectable == Selectable(anchorIds, advertised, prefer)
          IN  /\ \A c \in selectable : Trusted(c)
              /\ "verification_failed" \in NegotiationResults(anchorIds, advertised, prefer) =>
                    \E c \in selectable : Expired(c)
=============================================================================
