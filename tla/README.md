# Merkle Tree Certificates: a TLA+ model

This directory verifies the Python implementation of Merkle Tree Certificates
under `src/mtc` and its update and filter layer under `src/mtc_opt`. It contains
TLA+ modules translated from the code, TLC configurations that model-check them
on small instances, and proofs that TLAPS checks. Paths below are relative to the
repository root.

    tlasany M.tla                        # parse a module
    tlc -workers 2 -config X.cfg M       # check a run listed below
    tlapm M.tla                          # check the proofs of a module

`PROJECT.json` lists the runs, the mutant that each property detects, the source
lines of every definition, the hazards and the theorems.

## 1. The system

| Part | State it keeps | Operations | What makes it correct |
|---|---|---|---|
| Subtree intervals (`merkle/subtree.py`, `merkle/interval.py`) | none | validity, cover of an interval | a cover is one or two real subtrees, adjacent, tight, ending at the interval's end |
| Merkle tree (`merkle/tree.py`) | leaf hashes, completed nodes by level, right edge | append, node, roots, subtree hash, proofs, prune leaves, to/from state | every root and subtree hash is MTH of the entries; generated proofs verify |
| Proof verification (`merkle/proof.py`, `merkle/consistency.py`) | none | inclusion, subtree consistency, tree consistency | accepts honest proofs, accepts nothing false |
| Issuance log (`log/issuance_log.py`, `storage.py`, `pruning.py`, `parameters.py`) | entry bodies, tree, minimum index, a state file | append, prune, save, load | the history never changes; what is available is served |
| Publisher (`log/publish.py`) | the log it loaded | open, refresh, eight kinds of answer | never rolls back; serves everything available |
| Cosigner (`cosigner/service.py`) | one signed checkpoint per log, in a store with compare-and-swap | sign_checkpoint, sign_subtree | one growing history per key (no split view) |
| Collector (`cosigner/collection.py`) | the last failures | collect, validate | enough valid signature sets, or an error |
| Stores (`checkpoint/storage.py`) | cosigner file, batch file, each replaced atomically | load, compare_and_swap, publish | monotone, never half written |
| CA orchestrator (`ca/orchestrator.py`) | latest batch, job lock | submit, run_checkpoint_job, restart | a batch covers its entries, is backed by its signers, and can be retried |
| Landmarks (`landmark/*`) | append-only sizes, last allocation time | append, allocate, active window | at most one per interval, bounded active set |
| Relying party (`verifier/*`, `protocol/*`) | trust anchor with trusted subtrees, last sequence and checkpoint | update_trusted_subtrees, verify, select | trusts exactly the active landmarks' subtrees of one history |
| Monitor (`monitor/service.py`) | last good checkpoint of each cosigner | run | detects split views and rollback; remembers only healthy views |
| Certificates and selection (`protocol/*`, `service/*`) | the server's artifacts, the client's last update and what it announces | provision, refresh, announce, negotiate, select | what is selected for a current client is backed by what it trusts |
| Filters and sync (`mtc_opt/*`) | filters of the active windows, cuckoo buckets | apply, query, add, discard, save, load | no false negatives; a failed insertion changes nothing; saved state loads |
| Proof reuse (`mtc_opt/sync/proof_reuse.py`) | none | measure, convert a full proof to a landmark's | exactly the convertible certificates are converted |
| Codecs (`encoding/*`, `log/entry.py`, `certificate/*`) | none | encode, decode, map certificates to entries and back | one encoding for one certificate; both hashes of an entry agree |
| Signatures, experiments | none | sign, verify; measure | not modelled |

How they interact: `submit` appends to the log. `run_checkpoint_job`, under a
lock, reads the log size once, asks the log for a root, consistency proofs and
the covering subtrees, and calls the CA's own cosigner, which persists its state.
It then calls the external cosigner clients one after the other. Each of them
keeps a checkpoint of its own and verifies against a source of the log that it
trusts. Finally the job replaces the batch file. The publisher reads the log's
state file, which the writer truncates and rewrites. Landmarks are allocated
from published checkpoints, relying parties update their trust from landmarks
and cosignatures, servers choose among their certificates by what a client
announces, and monitors compare the cosigners' views. Membership filters follow
the active landmarks in windows.

What is hard: callers of one cosigner interleave between its load, signature and
compare-and-swap; the log grows while a job runs; clients fail, or sign and lose
their answer; any file write may fail and the process may die between any two
writes, so that the files disagree when it restarts; the log may come back from
an older save than the signatures that were issued over it; the state file can
be torn; pruning removes hashes that later operations may need; and the tree's
arithmetic is all shifts and masks. Landmarks expire by number while
certificates expire by time; relying parties are shown sequences, heads and
evidence in any combination and may forget their last result; a client announces
less, or more, than it trusts; publishers answer a monitor differently from one
read to the next; a filter is reused on the strength of a digest, and its kick
chains must undo themselves. `PROJECT.json` lists each hazard at the line
where it bites, with the properties that watch it.

## 2. The modules

Log and pipeline:

    CoverInterval --- MerkleHash --- MerkleTree --- IssuanceLog --- MCIssuanceLog
        |                                |               |
        |                  +-------------+-------------+ |
        |                  |             |             | |
        |             ProofReuse    DataLemmas  MCProofSoundness
        |                  |             |        |      |
        |            MCMerkleTree ------ LogProofs ------+
        |
    CosignerPolicy --- Cosigner ------------ SignedHistory   (abstract)
        |                  |
        |              CosignerProofs
        |
        +------------- CheckpointIssuance -- CertifiedLog    (abstract)
                           |
                       CheckpointIssuanceProofs

Relying parties and monitors:

    CoverInterval ---- Landmarks --- LandmarkAllocation --- Handshake --- ClientProofs
                           |                                               |
    CosignerPolicy --- TrustAnchor --- TrustUpdate --- TrustUpdateProofs   |
        |                                                                  |
        +------------- Monitor --------------------------------------------+

Data structures and codecs:

    CoverInterval --- CuckooFilter --- FilterWindow --- MCFilterWindow, FilterProofs
    CoverInterval --- Der --- MtcProof --- LogEntry --- Certificate --- MCCertificate
                                                                              |
                                                                     CertificateProofs

**DataLemmas** holds the lemmas that every proof module uses: on prefixes and
segments of sequences, induction and recursion, powers of two and division, the
hash of a list, the complete nodes of a tree, what a stored tree holds and what
it computes, the verifiers' loops, and covers.

**CoverInterval** has the bit helpers, subtree validity and `cover_interval`.
`x >> k` is `x \div Pow2[k]`, and a mask is a remainder.

**MerkleHash** has the hashes, symbolic and collision free: `<<e>>` for a leaf,
`<<left, right>>` for an interior node. A pruned leaf is `Unavailable`, and
whatever needs it is `Unavailable`, which is where the code raises. `MTH` is the
reference definition, over the entries.

**MerkleTree** is `MerkleTree` with its three fields (`_leaves`, `_levels`,
`_pending`) and the verifiers, whose loops are recursive functions over
`InclusionStep` and `ConsistencyStep`. A run of shift loops
(`while not fn & 1: ...`) becomes one division by the power of two that the loop
reaches.

**ProofReuse** is `proof_reuse.py` over this tree: which nodes of a client's proof
stay when it moves to a later checkpoint, and the conversion of a full
certificate into a landmark certificate.

**IssuanceLog** adds the entry bodies, the minimum index, the state file and a
`FilesystemPublisher`. `save` is two steps, because `open(path, "w")` truncates
first; a crash between them leaves `Torn`. `Restart` and `Refresh` rebuild the
right edge as `from_state` does. The field `history` is a ghost: the entries
behind the bodies and hashes, for the properties only. What the publisher
answers (the checkpoints it lists, entries, nodes, subtrees, proofs) and the
log's checks of its own proofs are sets of answers, empty where the code raises.

**CosignerPolicy** states what `sign_checkpoint` and `sign_subtree` accept, as
predicates over the stored checkpoint and the request. Here a checkpoint is the
sequence of entries it commits to and a consistency proof is the pair of tree
heads it links. The step from Merkle trees to this abstraction is what
MCMerkleTree (honest proofs are accepted) and MCProofSoundness (nothing false is)
check and LogProofs proves.

**Cosigner** runs one cosigner with several concurrent callers.
`VerifyAndSign` is everything up to and including the signature, made against a
checkpoint loaded once; `CompareAndSwap` is the store; `ReturnSigned` is the
return of the call; `ReturnStored` is the early return for the checkpoint already
stored. `Crash` loses the calls in progress and keeps the file. Signatures are
randomised and compared with the stored record by the swap, but a stored record
is only replaced by a strictly longer checkpoint, so comparing checkpoints is
enough.

**CheckpointIssuance** is the pipeline. The variable `job` is the local state of
`run_checkpoint_job`; its `pc` says which statement comes next:

| pc | next statements | actions |
|---|---|---|
| idle | read sizes, fix the checkpoint (145-162) | StartJob |
| sized | proof, sign_checkpoint, store (163-175) | SignCheckpoint, CheckpointRefused, StateFileFails |
| signed | covering subtrees, checks, sign_subtree (177-201) | SignSubtrees, StateFileFails |
| collecting | one client per step, then the threshold | ClientSigns, ClientFails, ClientAnswerLost, FinishCollecting, CollectionFailed |
| collected | batch_store.publish (209) | Publish, StateFileFails |
| published | remember the batch, release the lock (210-211) | FinishJob |
| down | constructor over the reloaded files | Restart |

`Submit`, `SaveLog` and `Crash` may happen between any two of these. The CA's own
sign_checkpoint is one step here: inside the job nobody else calls that cosigner,
and module Cosigner shows that its separate steps keep the same promise. With
`DurableLog = FALSE` a restart finds the log as it was last saved, possibly
without entries already signed; with TRUE it finds all entries. An orchestrator
without a collector is the instance `Required = 0`.

**SignedHistory** and **CertifiedLog** are the abstract specifications. The first
says that a cosigner has one durable history that only grows, and that every
signature that leaves covers a point of it already durable. The second says that
publications form a chain of strictly growing checkpoints, each naming its
predecessor's size and each part of the histories of the CA and of at least
`Required` external cosigners, none of which rolls back.

**Landmarks** has the landmark sequence as a list of tree sizes: its validity, the
active landmarks, the first landmark that covers an index, the intervals of the
active subtrees, the published list and what a client accepts of it.

**LandmarkAllocation** puts `allocate_landmark` in time. The caller keeps the
sequence and the time of the last allocation, and may pass an older checkpoint or
have lost the time; the log is reduced to its checkpoint sizes and the time at
which each certificate was issued.

**Handshake** composes this with a server and a client. The server keeps all
artifacts it was provisioned with. The client's trust update (`RefreshTrust`) and
the capabilities it announces (`Advertise`) are two steps, because the code
gives them two lifetimes: the update is replaced in place, the capabilities are
fixed when the `RelyingParty` is built. Selection filters by compatibility, ranks,
and negotiation takes the first.

**TrustAnchor** has what a relying party decides by: cosigner policy, trusted
subtrees, revoked ranges, `verify_certificate`. **TrustUpdate** is the state:
`Update` presents any landmark sequence, reference head and evidence to
`update_trusted_subtrees`; `WithSigners` changes keys and policy, which drops the
trusted subtrees; `Restart` keeps the anchor and loses the last result;
`RevokeRange` adds a revocation. Nothing is assumed of the signers. A refused
update changes nothing and is not an action.

**Monitor** is one `run` at a time in five phases (collect the views, check each
alone and against the memory, compare with the largest, read its content,
remember), with a step per cosigner. A publisher answers anything at each read, and
two views may turn out to name different logs.
The ghost `cleanHeads` collects the checkpoints of runs without events.

**CuckooFilter** has building, insertion with its kick chain and rollback,
removal and loading, as sets of outcomes over the random choices; the hash
functions and the configured capacity are constants, and `x ^ y` is computed bit by bit (`Xor`). A rollback is
stated by its result: a slot ends with what it held before the first change to
it. **FilterWindow** is `FilterWindowManager`: `ApplyPlan`
allocates any number of landmarks, retires others and rebuilds or reuses a filter for each window;
`AddExtra` and `DiscardExtra` are what callers do to a live filter that
`backend_for` handed out.

**Der**, **MtcProof**, **LogEntry** and **Certificate** are the strict decoder and
the encoder, octet by octet; an object is a record of its fields, a failure is an
empty set of results. Integers of the TLS structures have `UintOctets` octets and
hashes `HashSize`, so that certificates stay short. MCCertificate assembles a
certificate out of parts in their usual or in an unusual encoding and then changes
one octet. Whether `strftime` pads a year below 1000 depends on the platform; it is
the constant `PadsYears`, FALSE in the run. The loops of the code are recursive functions: over positions
(`Iterated`: what is read at a position says where the next one is) and, for the
strict check, over pairs of octets and depth (`CanonicalAt`).

A definition whose comment begins with "Slip:" is a plausible mistake in the
definition after it. No specification uses it; substituted for that definition,
it makes a property fail.

## 3. The runs

| Run | Instance | Distinct states | Shows |
|---|---|---|---|
| merkle | every interval of a 22-entry log | 253 | cover, validity, roots, proofs and the reuse of proofs agree with MTH |
| proof_soundness | two logs, up to 7 entries each | 1,778 | no proof either log can generate proves a falsehood |
| issuance_log | 2 entry values (symmetric), 5 entries | 224,014 | history, roots and service survive pruning, saves, crashes |
| physical_pruning | 2 entry values, 4 entries | (counterexample) | see section 5 |
| cosigner | 2 callers, all logs of up to 3 entries | 224,091 | no split view; implements SignedHistory |
| issuance_safety | 3 clients, 2 required, 4 entries, 3 faults | 1,169,253 | implements CertifiedLog; restart is always accepted |
| issuance_liveness | the same with a durable log, one entry value | 18,086 | jobs end; entries get published |
| handshake | lifetime 1, interval 2, 1 or 2 landmarks retained, time up to 4, 2 certificates | 252,341 | landmarks outlive certificates; selection follows trust |
| trust_update | every log of up to 4 entries of 2 kinds, every landmark sequence, 2 policies, 4 signer sets | 2,300 | trusted subtrees are of one history, for good |
| monitor | 2 cosigners, every log of up to 3 entries of 2 kinds | 267,728 | clean runs agree; memory only grows |
| filter_window | 4 keys with colliding hashes, 5 landmarks, window 2, stride 1 | 883 | no false negatives; saved state loads; failures roll back |
| certificate | up to 3 parts of a certificate in an unusual encoding, then one octet changed | 41,852 | accepted encodings are canonical; both hashes agree |

Why these bounds are enough to be interesting:

- 22 entries contain every shape of right edge up to four levels with a fifth
  begun: full trees, one past and one short of a power of two, and covers whose
  left part is cut, aligned or the whole prefix.
- 7 entries are three levels with every kind of partial right subtree. The
  entries of one of the two logs are all alike, so that wrong proofs share as
  many hashes with the claim as possible.
- 5 entries in the log are the smallest that have a level-2 node followed by an
  append, with pruning at odd and even indices on both sides of it.
- Two callers are enough to overlap once; two different entries after the null
  entry are enough to fork; three entries allow a checkpoint, a replaced
  checkpoint and a subtree that does not start at zero.
- Three clients with a threshold of two allow a failure before, between and
  after the successes, and a failed collection that left one client ahead.
- Three faults allow a lost answer, a crash and a failing state file in one behaviour.
- With a lifetime of 1 and an interval of 2, two retained landmarks are exactly
  the number `allocate_landmark` demands, one is a number it refuses, and time 4
  holds three intervals: the first landmark retires while certificates are alive.
  Checkpoints of 2, 3 and 5 entries, any of them the first and published at any
  time, give batches that start at 0 and later and landmark subtrees on both sides
  of a power of two.
- Four entries of two kinds give forks at every position after the first, covers of
  one and of two subtrees, and up to four landmarks over a window of two, so that
  updates retire subtrees while others stay. The signer sets are one below, one at
  and one above the thresholds, and one that lacks the CA.
- Two cosigners and three entries give lagging, equal, forked and rolled back
  views, and two runs with different answers between them.
- Buckets of one slot with colliding keys make some insertions kick, some fail and
  some builds need the second seed; five landmarks, two of them active,
  rotate the windows by one or by both, also more than once; two extras can be the
  same key twice. No capacity is configured (`Capacity = 0`, the code's default);
  the theorems hold for any.
- Each part of a certificate has the encodings that a lax decoder would accept
  (long lengths, padded integers, absent or explicit defaults, other times); three
  of them at once cover the interactions of neighbouring parts. The changed octet
  takes the values 0, 1, 128 and 255 in certificates with at most one varied part.

Bounds are the constants `LogSize`, `MaxSize`, `MaxLength` and `MaxFaults` (guards of Submit, AppendEntry
and the fault actions), the sets `Candidates`, `Proofs`, `Subtrees` and
`SubtreeProofs` of the cosigner instance, `MaxTime`, `Checkpoints` and
`MaxCertificates` of the handshake, `Heads`, `SequencesGiven`, `SignerSets` and
`RevocableRanges` of the trust update, `Heads` of the monitor, `MaxLandmark` and
`MaxExtras` of the filters, and `MaxVaried`, `MaxCorrupted` and `Octets` of the
certificates. `CHECK_DEADLOCK FALSE` is used where
the model stops by design: at the bound on entries in merkle and proof_soundness,
at both bounds in the issuance runs, at the bounds on time and certificates in
handshake, after the last change in certificate, and in the log runs, where a
crash over a torn file really leaves a writer that cannot start.

**Fairness** is only assumed in issuance_liveness: weak fairness of `StartJob`
(the operator runs the job again while there is something to publish), of the
job's own steps (a running thread proceeds, and one weak fairness condition on
their disjunction is all a sequential loop needs), and of `Restart` (a dead CA is
started again). Submissions, saves, client failures, lost answers, failing state files
and crashes are not fair; they are bounded by `MaxFaults`, which says that faults
eventually stop. EntriesGetPublished is claimed only for a durable log: a CA
whose log comes back shorter and then grows differently is refused by its own
cosigner for ever, which is what a cosigner is for.

What the properties say, beyond the type invariants:

- *CoverIsSound, CoverIsTight*: the arithmetic of covers against the recursion
  that defines the tree, and the bound that the docstring of `cover_interval`
  promises.
- *RootsMatchMTH, InclusionProofsVerify, ConsistencyProofsVerify*: completeness,
  for every subtree, entry and later checkpoint.
- *ProofsAreReused*: a full certificate's proof begins the landmark's exactly when
  its subtree is complete or both end together.
- *InclusionIsSound, ConsistencyIsSound*: soundness against every proof that
  either log can generate for any purpose.
- *AvailableEntriesServed, CheckpointsServed*: items 2, 3, 5 and 6 of the contract
  in `log/publish.py`, through any sequence of prunings, saves and reloads.
- *AppendNeverFails, WrittenFileLoads*: a rebuilt right edge is complete, so that
  neither an append nor a load fails on a completely written file.
- *NoRootChanges*: a historical root is what it always was, or, only after
  physical pruning, can no longer be computed.
- *PublisherNeverRollsBack*: whoever follows the published log sees it grow.
- *NoSplitView, SignedSubtreesInHistory, KeepsPromise* for the cosigner.
- *ExternalsFollowCA, PublishedIsBacked, BatchCoversItsEntries,
  RestartIsAccepted, KeepsPromise, JobEnds, EntriesGetPublished* for the pipeline.
- *LandmarkOutlivesCertificates*: until a certificate expires, the first landmark
  that covers it stays active. The bound `ceil(lifetime / interval) + 1` on the
  retained landmarks is tight: one less breaks it.
- *PublicationServesClients*: exactly the clients whose log has reached the list
  accept it, and it gives them exactly the active intervals.
- *FreshCapabilityIsTrusted*: what is selected for a client that announces the
  latest landmark of its update verifies there, or has expired. A client that
  announces an older landmark than it trusts has no such claim: its server may
  choose a certificate of a landmark that has retired since.
- *TrustedRootsOfOneHistory, AcceptedCertificatesStand, TrustNeverForks*: the
  relying party trusts exactly the active subtrees of one history, accepts for
  them only its entries and no revoked index, and never changes a trusted hash,
  even if every signer signs a fork after the last result was lost.
- *CleanRunsSeeOneHistory, MemoryOnlyGrows*: a split view or a rollback cannot
  hide behind runs that failed in between.
- *NoFalseNegatives, PersistedStateLoads, FailedInsertionChangesNothing*: through
  kicks, retries, reuse by digest, rotation, and items added and taken back.
- *AcceptedIsCanonical, SinglePassAgrees*: nobody can present a second encoding of
  a certificate, nor a second certificate for an entry with the same index, key and
  proof; the fast hash equals the checked one wherever the parsed entry
  can express the certificate.

## 4. What is proved

The proofs hold for every value of the constants: any number of callers and
clients, any threshold, any entries, unbounded logs and time.

**DataLemmas** has the lemmas about data that all other proofs cite. The prover
cannot use induction theorems that take an operator, so induction is stated over
sets (`Induction`, `StrongInduction`: a set of numbers that is closed under the
step holds every number), and a recursive function is first shown to satisfy its
own equation, by building solutions on longer and longer initial segments
(`RecursionExists`, `MTHOfDef`, `NodesAre`). After that, `MTH`, the verifiers' loops
and the loops of the tree are reasoned about like any function.

**LogProofs** has two parts. The first is about the tree and its proofs, over logs of
any size:

- *Soundness* (InclusionSound, ConsistencySound, and the stronger
  InclusionEvaluationSound and ConsistencyEvaluationSound, where the proof is any
  list of hashes whatever, not only one that some log generated). A verifier
  climbs by levels; its position and the last position of the level determine in
  which order it hashes, and that is the order in which MTH combines the nodes.
  Read from the root down, a hash that is injective leaves no choice: what the
  verifier held on each level is the node at its position. The consistency
  verifier climbs with two hashes at once, and the first of them follows the part
  of the subtree that ends at its last entry.
- *Completeness* (RootsAreMTH, InclusionProofsAccepted,
  ConsistencyProofsAccepted). The invariant of a stored tree, `IsTreeOf`, says
  that every stored node is MTH of the entries below it and that the levels hold
  exactly the complete nodes. A generated proof is the list of the siblings on the
  way up, so each hash in it is there as long as the leaf hashes at the end of the
  siblings are, and running the verifier over it rebuilds the root. The lemmas
  name exactly which leaf hashes a proof needs, which the second part uses after
  pruning: a consistency proof from `m` to `n` needs only those from `m` on.
- *Covers* (CoversAreSound, CoversAreTight). `cover_interval` returns two adjacent
  subtrees unless the interval has one entry; the left one is complete and less
  than twice as long as the interval, and the nodes that MTH's recursion creates
  are exactly those that `is_valid_subtree` accepts.

- *Reuse* (ProofsReused), a relation between two generated proofs. A path is a
  list of distinct hashes, each of an interval beside the entry, and together they
  tile the rest of the subtree (PathsFit). Entries are distinct, so a hash tells
  its interval (SameInterval) and a path tells the subtree it is for
  (PathTellsPart): two subtrees around an entry have equal paths only if they are
  the same. The beginnings of a path are the paths in the nodes on the way up,
  which are complete or end where the subtree ends (PrefixesAreParts), and the
  path in every such part is a beginning (PartIsPrefix). That gives both
  directions for conversion. For a later checkpoint, the completed node of level
  `l` around the entry is part of both trees and has `l` distinct hashes, which
  `compare_proof_nodes` counts (ReusesAll).

The walk of MCMerkleTree is over one log of `LogSize` entries, which is any
positive number; entries are distinct, and the lemmas in DataLemmas are for
entries of any kind.

**CosignerProofs** proves TypeOK, NoSplitView, SignedSubtreesInHistory and the
refinement of SignedHistory. It uses the four assumptions that module Cosigner
states and TLC evaluates on the instance: candidates are non-empty sequences,
subtrees are intervals, and the two kinds of proofs are sound (what
ConsistencySound proves of the verifiers). The inductive invariant says of a call
in progress that its candidate strictly extends the checkpoint it has *seen*, and
of a call whose swap succeeded that its candidate is a prefix of the *stored*
checkpoint. NoSplitView is not inductive alone: it does not say that what was
issued is a prefix of what is stored. The invariant does, and two prefixes of one
sequence are comparable. The swap is the only step that moves the stored
checkpoint; since it succeeds only when `state = seen`, it only extends it, and
everything issued stays below it.

**CheckpointIssuanceProofs** proves TypeOK, ExternalsFollowCA, PublishedIsBacked,
BatchCoversItsEntries, RestartIsAccepted and the refinement of CertifiedLog. The
invariant keeps the target of a running job below the CA's stored checkpoint once
it is signed, the external checkpoints and the batch below that, the collected
signers at or above the target, and the job's subtrees a cover of
`[prev, Len(target))` cut out of the target. It also links the job's `prev` to
the batch file, which needs `latest = batch` whenever the job is between steps
that read it; the step from `published` back to `idle` is the one where the two
differ. The lemma AcceptedCoverCovers is about the checks in `_validate_subtrees`:
any list of intervals that passes them covers the interval, so the theorem does
not depend on the arithmetic of `cover_interval` being right.

The second part of **LogProofs** proves every property of the run issuance_log.
PublisherNeverRollsBack rests on an invariant that says that nobody is ahead: the
publisher's history is a prefix of a readable file's, which is a prefix of the
running log's, and without a readable file the publisher has loaded nothing; with
it goes the shape of each log (bodies, leaf hashes and history have one length,
the minimum lies within). It is not inductive without the middle term: a restart
replaces the log by the file, and the next refresh by what was appended to it.

The other properties need what the trees hold (`TreesFit`): stored nodes are MTH
of their entries (`IsTreeOf`, with the last leaf present whenever the size is odd);
the right edge of a running log has a node for every one bit of the size
(`HoldsEdge`); a body is its entry's or, below the minimum, pruned; and a leaf
hash goes only together with its body (`BodiesFit`). Each is needed: pruning keeps
the last leaf because `nodes_for_tree_size` names it, so loading finds the whole
right edge among the stored nodes (WrittenFileLoads), so the next append finds
the node it merges with (AppendNeverFails). A subtree hash or proof then depends
on leaf hashes above the minimum only, or on none, because every other node it
uses is stored (NoRootChanges, CheckpointsServed); and as long as no body is
pruned all leaf hashes are there and everything can be served
(AvailableEntriesServed). The file has the tree without its edge, which is why
the edge is a part of the invariant of its own.

The first part of **ClientProofs** proves LandmarkOutlivesCertificates, PublicationServesClients
and FreshCapabilityIsTrusted for the composed Handshake system. The first two
need `DurationsArePositive`, `MaxLandmarksArePositive`, `CheckpointsArePositive`
and `MaxTimeIsNatural` alone: HandshakeAllocates shows that serving, trusting and announcing implement
AllocationSpec, so its invariant carries over. That invariant says that the sizes
fit the checkpoints, that every covered certificate was issued before the landmark
that covers it, that the landmarks were allocated in different intervals, and that
enough are retained if there is one at all. The argument: a span of the length of
a lifetime meets at most `ceil(lifetime / interval)` intervals after its first
(lemma DivSpan), so at most that many landmarks follow the covering one before the
certificate expires.

For FreshCapabilityIsTrusted the invariant adds that the client's sequence is a
prefix of the CA's and that each landmark artifact's subtree is one of its
landmark's. The server compares landmark numbers and the client exact intervals;
they agree because a prefix has the same intervals (lemma IntervalsContinue) and
because a fresh announcement leaves only active numbers compatible (lemma
CompatibleIsTrusted).

**TrustUpdateProofs** proves TrustedRootsOfOneHistory, TrustNeverForks and
AcceptedCertificatesStand from `HeadsAreHistories`, `SequencesAreSizes` and
`RangesAreIntervals`, with no assumption on signers. Merging
and retaining yields exactly the reference's subtrees over the active intervals
(lemma UpdateTrusts): every kept subtree passed a consistency check against the
reference, and the merge refuses two hashes for one interval. The invariant adds
that one interval has one hash, which is all that is known when the last result
was lost. AcceptedCertificatesStand also needs that revoking never loses a
revoked index although the ranges are sorted and merged each time (lemma
RevokeAdds, by induction over the list of ranges).

The second part of **ClientProofs**, what a monitor may conclude, proves
CleanRunsSeeOneHistory and MemoryOnlyGrows from `RequiredAreNumbers` and
`HeadsAreCheckpoints`. The invariant: some one cosigner's memory extends all clean
heads. A run without events compares every view with the largest and each view
with that cosigner's memory, so the new heads lie on the same history; MonitorInv
follows the phases, since what is checked in one phase is used in a later one.

**FilterProofs** proves NoFalseNegatives, PersistedStateLoads and
FailedInsertionChangesNothing for any keys, hashes, bucket sizes, numbers of kicks
and attempts, and any window policy that `WindowPolicy` accepts. That an item is
found is not inductive: a discard clears any slot with the right fingerprint, which
may be another item's. The invariant gives every item of a window, and every item
added since, as often as it was added, a slot *of its own* in one of its two
buckets (`Stores`). A kick exchanges the owner of a slot with the owner of the
fingerprint in hand, which stays in one of its buckets because
`x ^ y ^ y = x` (XorTwice, by induction over the bits), and a discard exchanges the
discarded item's slot with the one it clears: items with one fingerprint and one
bucket in common have both in common (BucketsAre). A rollback restores the filter
exactly (RollbackIs): the invariant of a chain says of each slot it changed that
the first change recorded what the filter held before. The item count is the
number of used slots because a kick only ever writes to a full bucket. That the
planned windows cover every active landmark uses `stride <= landmarks_per_filter`
(PlanFits), as the docstring of `WindowPolicy.windows` says it does.

**CertificateProofs** proves AcceptedIsCanonical and SinglePassAgrees for *every*
octet string, where the run tries those near one certificate. What is assumed is
in the theorems:

- the octets leave room for a length in four octets once the entry's digest is
  added (`Len(presented) + HashSize + 6 < Pow2[32]`), so that what was decoded and
  is encoded again has a length that `encode_length` and `read_tlv` agree on;
- the digest of a key is a string of `HashSize` octets, as SHA-256's is of 32; for
  SinglePassAgrees also `HashSize < 128`, because `entry_hash_single_pass` frames
  it with a length in one octet;
- of the constants `WidthsArePositive`, and of the log's name nothing.

The digest need not be free of collisions: `from_log_entry` is given the key.

The argument climbs from octets to certificates. A number is determined by its
octets and by how many there are (no leading zeros: ShortestUnique). `read_tlv`
finds a value exactly where its encoding stands (ReadTlvIs, ReadTlvOf), so joined
encodings are read back as the values they were made of, and values that were read
cover their octets one after the other (ItemsIterated, IterSequenceIs). The strict
check is a recursive function over (octets, depth); it depends on the value alone,
and the members of a canonical value are canonical one level up. The optional
fields, the signatures and the nodes of a proof are read back octet for octet,
which gives the round trip of a whole certificate (CertificateRoundTrip). An
accepted certificate's fields are then a list of items: `to_log_entry` leaves out
two of them and replaces the key by its digest, `from_log_entry` puts them back,
and since every item is canonical the result is accepted and equal to what was
logged (DecodedIsAccepted, CertificatesAreCanonical). For the single pass, the
items the parsed entry encodes are compared with those that were logged, part by
part: both join to the same octets exactly when the validity and the unique IDs
that are encoded anew are the ones that were read (EntryAgrees).

Only model-checked:

- JobEnds and EntriesGetPublished: liveness under fairness is out of the prover's
  reach.
- The violation of run physical_pruning, a single counterexample.

## 5. Findings

**Physical pruning at an odd minimum index** (run physical_pruning).
`log/publish.py:9` promises "an inclusion proof for any available entry to any
containing checkpoint", and the docstring of `prune_leaves_below`
(`merkle/tree.py:390`) quotes the rule that only the children of a node whose
*end* is at most the minimum index may be discarded. The loop checks only that
the parent node is stored (`merkle/tree.py:412`). In a log of two entries,
`prune(1, physical=True)` drops leaf 0; entry 1 is available and so is the
checkpoint of size 2, but the inclusion proof of entry 1 raises
`UnavailableEntry`. Hashes of available checkpoints and subtrees and consistency
proofs between available checkpoints are not affected (CheckpointsServed holds).
Logical pruning, the default, has no such effect.

Noticed while reading, without a run: `_peek_type` (`log/issuance_log.py:714`)
imports a module `.entries` that does not exist, so `from_entries` with a
`TBSCertificateLogEntry` as its first entry raises `ImportError`.
`entry_hash_single_pass` (`log/entry.py:440`) hashes another entry than
`entry_hash` for a certificate whose unique ID has unused bits or whose times are
not as `encode_time` writes them, since the parsed entry drops both (`log/entry.py:186`); the
verifier uses `entry_hash`, and SinglePassAgrees states where they agree. A full
certificate of a partial subtree cannot be converted to a landmark certificate,
and `convert_full_to_landmark` refuses it, as ProofsAreReused states.

## 6. What is not modelled

- Cryptography: a signature is the fact that its owner issued it, a hash is
  injective (a small checksum in the certificate run, where only equality of the
  hashed octets matters).
- The formats of state files, of the landmark list and of update plans (JSON,
  lines), and corrupt files other than a torn log file; the code rejects them.
- ACME orders: a sequential state record over submit and run_checkpoint_job.
- Bloom, xor and fuse filters: built once from a set, with nothing to undo.
- The text of log IDs and OIDs: its arcs are constants.
- Ranking among expired certificates, and what is selected for stale
  announcements.
- Callers that take items out of a filter which apply put in.
- A restart of the monitor: its memory lives in the process, and a new one starts
  as in Init.
- Several processes over one state directory. The locks are per object, and
  `docs/D_INTEGRATION_PROTOCOL_TEST.md:58` requires a single writer.
- A configuration that changes across a restart (keys, identifiers, threshold),
  which section 10 of `docs/B_CA_CHECKPOINT_COSIGNER.md` forbids.
- Pruning in the issuance pipeline; deployments prune logically only
  (`docs/D_INTEGRATION_PROTOCOL_TEST.md:63`), which changes no proof.
- Measurement code (`experiment/*` and the byte accounting of `mtc_opt`).

## 7. Plan

Modelled and checked so far, in this order: tree and proofs, log, cosigner,
pipeline, landmarks and handshake, trust update, monitor, filters, certificates.
Left, in order of importance:

1. An abstract specification for TrustUpdate ("trusts one growing log") and for
   LandmarkAllocation ("a rate-limited append-only list"), and their refinements.
2. **Composition** of IssuanceLog with CheckpointIssuance (physical pruning before a
   publication), and of the publisher with the monitor, whose views are arbitrary
   now.
3. **ACME orders** over CheckpointIssuance.
4. Construction of the bloom, xor and fuse filters.
