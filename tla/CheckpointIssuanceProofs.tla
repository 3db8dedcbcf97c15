---------------------- MODULE CheckpointIssuanceProofs ----------------------
(***************************************************************************)
(* The safety of the issuance pipeline for any set of entries, any list of *)
(* external cosigners and threshold, logs of any length, any number of     *)
(* crashes and failures, and whether or not restarts find the whole log.   *)
(*                                                                         *)
(* The argument: only the CA cosigner's file decides what may be signed,   *)
(* and it only grows.  Whatever a job holds after sign_checkpoint is that  *)
(* file's content, so everything derived from it (external states, the     *)
(* published batch) is a prefix of the file for ever; and the job counts   *)
(* from the published batch, so the publications form a chain even when a  *)
(* crash or a failed collection leaves the CA's file ahead of them.        *)
(***************************************************************************)
EXTENDS CheckpointIssuance, DataLemmas

\* The steps between reading the sizes and the end of the job.
Sized     == {"sized", "signed", "collecting", "collected", "published"}
Signed    == {"signed", "collecting", "collected", "published"}
Attested  == {"collecting", "collected", "published"}
Collected == {"collected", "published"}

\* The pinned checkpoint is a checkpoint of the log in memory, which submit()
\* may have extended meanwhile.
TargetInLog ==
  job.pc \in Sized => job.target # <<>> /\ IsPrefix(job.target, log)

\* From sign_checkpoint on, the CA's file holds the job's checkpoint.
TargetIsStored == job.pc \in Signed => caState = job.target

\* The orchestrator's memory agrees with the published file, and a job that
\* has not published starts where the published file ends.
JobFollowsBatch ==
  /\ job.pc \in {"idle"} \cup (Sized \ {"published"}) => latest = batch
  /\ job.pc \in Sized \ {"published"} =>
       job.prev = SizeOf(batch) /\ job.prev < Len(job.target)
  /\ job.pc = "published" => batch = NewBatch

\* The subtrees signed by the job cover the new entries and belong to its
\* checkpoint.
JobCoversItsEntries ==
  job.pc \in Attested =>
    /\ \A i \in job.prev .. Len(job.target) - 1 :
         \E s \in job.subtrees : s.start <= i /\ i < s.end
    /\ \A s \in job.subtrees :
         /\ s.end <= Len(job.target)
         /\ s.hash = SubSeq(job.target, s.start + 1, s.end)

\* A collected signature set is backed by its signer's stored checkpoint.
CollectedIsBacked ==
  /\ job.pc \in Signed => \A c \in job.collected : IsPrefix(job.target, extState[c])
  /\ job.pc \notin Signed => job.collected = {}
  /\ job.pc \in Collected => Cardinality(job.collected) = Required

\* A published batch is a real one.
BatchIsComplete ==
  batch # NoBatch => batch.view # <<>> /\ Cardinality(batch.signers) = Required

Inv ==
  /\ TypeOK
  /\ TargetInLog
  /\ TargetIsStored
  /\ JobFollowsBatch
  /\ JobCoversItsEntries
  /\ CollectedIsBacked
  /\ BatchIsComplete
  /\ BatchCoversItsEntries
  /\ PublishedIsBacked
  /\ ExternalsFollowCA

-----------------------------------------------------------------------------
(* Two facts about the cosigner's checks.                                  *)

\* What a cosigner accepts extends what it had stored.
LEMMA AcceptedExtends ==
  ASSUME NEW E, NEW current \in Seq(E), NEW target \in Seq(E), NEW l \in Seq(E),
         IsPrefix(target, l),
         AcceptsCheckpoint(current, target,
                           CheckpointProof(l, Len(current), Len(target)), l)
  PROVE  IsPrefix(current, target)
<1>1. CASE ReturnsStored(current, target)
  BY <1>1, PrefixReflexive DEF ReturnsStored
<1>2. CASE current = NoCheckpoint
  BY <1>2, EmptyIsPrefix DEF NoCheckpoint
<1>3. CASE ~ReturnsStored(current, target) /\ current # NoCheckpoint
  <2>1. Len(target) > Len(current) /\ current = SubSeq(l, 1, Len(current))
    BY <1>3 DEF AcceptsCheckpoint, SignsNew, VerifyCheckpointConsistency,
                CheckpointProof, CheckpointAt
  <2>2. Len(target) <= Len(l)
    BY DEF IsPrefix
  <2>3. Len(current) \in 0 .. Len(l)
    BY <2>1, <2>2, LenProperties
  <2>4. IsPrefix(current, l)
    BY <2>1, <2>3, InitialSegment
  <2> QED BY <2>1, <2>4, ShorterIsPrefix
<1> QED BY <1>1, <1>2, <1>3

\* A cover that passes _validate_subtrees leaves no entry out.
LEMMA AcceptedCoverCovers ==
  ASSUME NEW cover, NEW from \in Nat, NEW to \in Nat, CoverAccepted(cover, from, to),
         DOMAIN cover = 1 .. Len(cover),
         \A i \in DOMAIN cover : cover[i].start \in Nat /\ cover[i].end \in Nat
  PROVE  \A i \in from .. to - 1 :
           \E j \in DOMAIN cover : cover[j].start <= i /\ i < cover[j].end
<1> SUFFICES ASSUME NEW i \in from .. to - 1
             PROVE  \E j \in DOMAIN cover : cover[j].start <= i /\ i < cover[j].end
  OBVIOUS
<1>1. CASE Len(cover) = 1
  BY <1>1 DEF CoverAccepted
<1>2. CASE Len(cover) = 2
  <2>1. /\ 1 \in DOMAIN cover /\ 2 \in DOMAIN cover
        /\ cover[1].start <= from /\ cover[2].end = to /\ cover[1].end = cover[2].start
    BY <1>2 DEF CoverAccepted
  <2>2. CASE i < cover[1].end
    BY <2>1, <2>2
  <2>3. CASE ~(i < cover[1].end)
    BY <2>1, <2>3
  <2> QED BY <2>2, <2>3
<1> QED BY <1>1, <1>2 DEF CoverAccepted

-----------------------------------------------------------------------------
LEMMA InitInv == Init => Inv
<1> SUFFICES ASSUME Init PROVE Inv
  OBVIOUS
<1> USE DEF Init, NoBatch, NoJob, NoCheckpoint, SizeOf
<1>1. <<>> \in Seq(LogEntry) /\ <<Null>> \in Seq(LogEntry) /\ Len(<<>>) = 0
  BY EmptySeq DEF LogEntry
<1>2. IsPrefix(<<>>, <<>>)
  BY <1>1, EmptyIsPrefix
<1>3. TypeOK
  BY <1>1, BoundsAreNaturals, RequiredIsPossible DEF TypeOK, Batch, Steps, LogEntry
<1>4. /\ TargetInLog /\ TargetIsStored /\ JobFollowsBatch /\ JobCoversItsEntries
      /\ CollectedIsBacked /\ BatchIsComplete
  BY DEF TargetInLog, TargetIsStored, JobFollowsBatch, JobCoversItsEntries,
         CollectedIsBacked, BatchIsComplete, Sized, Signed, Attested, Collected
<1>5. BatchCoversItsEntries
  BY <1>1 DEF BatchCoversItsEntries
<1>6. PublishedIsBacked /\ ExternalsFollowCA
  BY <1>2 DEF PublishedIsBacked, ExternalsFollowCA
<1> QED BY <1>3, <1>4, <1>5, <1>6 DEF Inv

\* A step that touches neither the state files nor the external cosigners
\* keeps what is said of them.
LEMMA FilesUnchanged ==
  ASSUME Inv, UNCHANGED <<batch, caState, extState>>
  PROVE  BatchIsComplete' /\ BatchCoversItsEntries' /\ PublishedIsBacked' /\ ExternalsFollowCA'
BY DEF Inv, BatchIsComplete, BatchCoversItsEntries, PublishedIsBacked, ExternalsFollowCA

\* Between jobs the invariant says nothing of the job.
LEMMA NoJobHolds ==
  ASSUME job' = NoJob \/ job' = Down, latest' = batch' \/ job' = Down
  PROVE  /\ TargetInLog' /\ TargetIsStored' /\ JobFollowsBatch'
         /\ JobCoversItsEntries' /\ CollectedIsBacked'
BY DEF NoJob, Down, TargetInLog, TargetIsStored, JobFollowsBatch, JobCoversItsEntries,
       CollectedIsBacked, Sized, Signed, Attested, Collected

LEMMA SubmitInv ==
  ASSUME Inv, NEW e \in Entry, Submit(e)
  PROVE  Inv'
<1>1. log' \in Seq(LogEntry) /\ IsPrefix(log, log')
  BY PrefixOfAppend DEF Submit, Inv, TypeOK, LogEntry
<1>2. TypeOK'
  BY <1>1 DEF Submit, Inv, TypeOK
<1>3. TargetInLog'
  BY <1>1, PrefixTransitive DEF Submit, Inv, TypeOK, TargetInLog
<1>4. TargetIsStored' /\ JobFollowsBatch' /\ JobCoversItsEntries' /\ CollectedIsBacked'
  BY DEF Submit, Inv, TargetIsStored, JobFollowsBatch, JobCoversItsEntries,
         CollectedIsBacked, NewBatch, SizeOf
<1> QED BY <1>2, <1>3, <1>4, FilesUnchanged DEF Submit, Inv

LEMMA SaveLogInv ==
  ASSUME Inv, SaveLog
  PROVE  Inv'
<1>1. TypeOK'
  BY DEF SaveLog, Inv, TypeOK
<1>2. TargetInLog' /\ TargetIsStored' /\ JobFollowsBatch' /\ JobCoversItsEntries' /\ CollectedIsBacked'
  BY DEF SaveLog, Inv, TargetInLog, TargetIsStored, JobFollowsBatch, JobCoversItsEntries,
         CollectedIsBacked, NewBatch, SizeOf
<1> QED BY <1>1, <1>2, FilesUnchanged DEF SaveLog, Inv

LEMMA StartJobInv ==
  ASSUME Inv, StartJob
  PROVE  Inv'
<1>1. log \in Seq(LogEntry) /\ Len(log) > SizeOf(latest) /\ SizeOf(latest) \in Nat
  BY LenProperties DEF StartJob, Inv, TypeOK, Batch, SizeOf
<1>2. job'.target = log
  BY <1>1, SubSeqFull DEF StartJob, CheckpointAt, NoJob
<1>3. /\ job'.pc = "sized" /\ job'.prev = SizeOf(latest) /\ job'.collected = {}
      /\ job'.subtrees = {} /\ job'.next = 1
      /\ DOMAIN job' = {"pc", "prev", "target", "subtrees", "next", "collected"}
      /\ job' = [pc |-> "sized", prev |-> SizeOf(latest), target |-> log,
                 subtrees |-> {}, next |-> 1, collected |-> {}]
  BY <1>2 DEF StartJob, NoJob
<1>4. TypeOK'
  <2>1. Len(Clients) \in Nat
    BY RequiredIsPossible, ClientsAreASequence, LenProperties
  <2> QED BY <1>1, <1>3, <2>1 DEF StartJob, Inv, TypeOK, Steps
<1>5. TargetInLog'
  <2>1. log # <<>>
    BY <1>1, EmptySeq
  <2> QED BY <1>1, <1>2, <2>1, PrefixReflexive DEF StartJob, TargetInLog
<1>6. JobFollowsBatch'
  BY <1>1, <1>2, <1>3 DEF StartJob, Inv, JobFollowsBatch, Sized, SizeOf
<1>7. TargetIsStored' /\ JobCoversItsEntries' /\ CollectedIsBacked'
  BY <1>3 DEF TargetIsStored, JobCoversItsEntries, CollectedIsBacked, Signed, Attested, Collected
<1> QED BY <1>4, <1>5, <1>6, <1>7, FilesUnchanged DEF StartJob, Inv

\* The CA's file only grows.
LEMMA SignCheckpointExtends ==
  ASSUME Inv, SignCheckpoint
  PROVE  caState' \in Seq(LogEntry) /\ caState' # <<>> /\ IsPrefix(caState, caState')
<1>1. job.target # <<>> /\ IsPrefix(job.target, log)
  BY DEF SignCheckpoint, Inv, TargetInLog, Sized
<1>2. job.target \in Seq(LogEntry) /\ log \in Seq(LogEntry) /\ caState \in Seq(LogEntry)
  BY DEF Inv, TypeOK
<1>3. IsPrefix(caState, job.target)
  BY <1>1, <1>2, AcceptedExtends DEF SignCheckpoint
<1> QED BY <1>1, <1>2, <1>3 DEF SignCheckpoint

LEMMA SignCheckpointInv ==
  ASSUME Inv, SignCheckpoint
  PROVE  Inv'
<1>1. caState' \in Seq(LogEntry) /\ IsPrefix(caState, caState')
  BY SignCheckpointExtends
<1>2. TypeOK'
  BY <1>1 DEF SignCheckpoint, Inv, TypeOK, Steps
<1>3. TargetInLog' /\ TargetIsStored'
  BY DEF SignCheckpoint, Inv, TypeOK, TargetInLog, TargetIsStored, Sized, Signed
<1>4. JobFollowsBatch' /\ JobCoversItsEntries'
  BY DEF SignCheckpoint, Inv, TypeOK, JobFollowsBatch, JobCoversItsEntries, Sized, Attested, SizeOf
<1>5. CollectedIsBacked'
  BY DEF SignCheckpoint, Inv, TypeOK, CollectedIsBacked, Signed, Collected
<1>6. PublishedIsBacked' /\ ExternalsFollowCA'
  <2>1. batch.view \in Seq(LogEntry) /\ caState \in Seq(LogEntry)
        /\ \A c \in External : extState[c] \in Seq(LogEntry)
    BY DEF Inv, TypeOK, Batch
  <2>2. IsPrefix(batch.view, caState')
    BY <1>1, <2>1, PrefixTransitive DEF Inv, PublishedIsBacked
  <2>3. \A c \in External : IsPrefix(extState[c], caState')
    BY <1>1, <2>1, PrefixTransitive DEF Inv, ExternalsFollowCA
  <2> QED BY <2>2, <2>3 DEF SignCheckpoint, Inv, PublishedIsBacked, ExternalsFollowCA
<1>7. BatchIsComplete' /\ BatchCoversItsEntries'
  BY DEF SignCheckpoint, Inv, BatchIsComplete, BatchCoversItsEntries
<1> QED BY <1>2, <1>3, <1>4, <1>5, <1>6, <1>7 DEF Inv

\* A job that gives up leaves everything but itself as it was.
LEMMA GivesUpInv ==
  ASSUME Inv, job.pc \in {"sized", "signed", "collecting", "collected"},
         job' = NoJob, faults' \in 0 .. MaxFaults,
         UNCHANGED <<log, saved, caState, extState, batch, latest>>
  PROVE  Inv'
<1>1. TypeOK'
  <2>1. Len(Clients) \in Nat
    BY RequiredIsPossible, ClientsAreASequence, LenProperties
  <2> QED BY <2>1, EmptySeq DEF Inv, TypeOK, NoJob, NoCheckpoint, Steps
<1>2. latest' = batch'
  BY DEF Inv, JobFollowsBatch, Sized
<1> QED BY <1>1, <1>2, NoJobHolds, FilesUnchanged DEF Inv

\* The subtrees sign_subtree accepted are parts of the job's checkpoint and
\* cover the entries since the last publication.
LEMMA SignedSubtreesCover ==
  ASSUME Inv, SignSubtrees
  PROVE  /\ job'.subtrees \subseteq Subtree
         /\ \A i \in job.prev .. Len(job.target) - 1 :
              \E s \in job'.subtrees : s.start <= i /\ i < s.end
         /\ \A s \in job'.subtrees :
              /\ s.end <= Len(job.target)
              /\ s.hash = SubSeq(job.target, s.start + 1, s.end)
<1> DEFINE cover == Cover(job.prev, Len(job.target))
<1>1. /\ job.target \in Seq(LogEntry) /\ log \in Seq(LogEntry)
      /\ IsPrefix(job.target, log) /\ caState = job.target
      /\ job.prev \in Nat /\ Len(job.target) \in Nat /\ Len(job.target) <= Len(log)
  BY LenProperties, PrefixChar
  DEF SignSubtrees, Inv, TypeOK, TargetInLog, TargetIsStored, Sized, Signed
<1>2. /\ CoverAccepted(cover, job.prev, Len(job.target))
      /\ \A i \in DOMAIN cover :
           SignsSubtree(caState, SubtreeOf(log, cover[i]),
                        SubtreeProof(log, cover[i], Len(job.target)))
      /\ job'.subtrees = { SubtreeOf(log, cover[i]) : i \in DOMAIN cover }
  BY DEF SignSubtrees, CoveringSubtrees, Inv, TypeOK
<1>3. DOMAIN cover = 1 .. Len(cover)
  <2>1. \E x, y : cover = <<x>> \/ cover = <<x, y>>
    BY Zenon DEF Cover
  <2> HIDE DEF cover
  <2>2. PICK x, y : cover = <<x>> \/ cover = <<x, y>>
    BY <2>1
  <2> QED BY <2>2
<1> HIDE DEF cover
<1>4. ASSUME NEW i \in DOMAIN cover
      PROVE  /\ cover[i].start \in Nat /\ cover[i].end \in Nat
             /\ cover[i].end <= Len(job.target)
             /\ SubtreeOf(log, cover[i]) \in Subtree
             /\ SubtreeOf(log, cover[i]).hash =
                  SubSeq(job.target, cover[i].start + 1, cover[i].end)
  <2> DEFINE a == cover[i].start
             b == cover[i].end
  <2>1. SubtreeOf(log, cover[i]) = [start |-> a, end |-> b, hash |-> SubSeq(log, a + 1, b)]
    BY DEF SubtreeOf
  <2>2. SignsSubtree(caState, SubtreeOf(log, cover[i]),
                     SubtreeProof(log, cover[i], Len(job.target)))
    BY <1>2
  <2>3. a \in Nat /\ b \in Nat /\ b <= Len(job.target)
    BY <1>1, <2>1, <2>2 DEF SignsSubtree, IsValidSubtree
  <2> HIDE DEF a, b
  <2>4. SubSeq(log, a + 1, b) = SubSeq(job.target, a + 1, b)
    <3> DEFINE m == a + 1
    <3>1. m \in Nat \ {0}
      BY <2>3
    <3> HIDE DEF m
    <3>2. SubSeq(job.target, m, b) = SubSeq(log, m, b)
      BY <1>1, <2>3, <3>1, SegmentOfExtension
    <3> QED BY <3>2 DEF m
  <2>5. SubSeq(log, a + 1, b) \in Seq(LogEntry)
    <3> DEFINE m == a + 1
    <3>1. m \in Int /\ b \in Int /\ \A k \in m .. b : log[k] \in LogEntry
      BY <1>1, <2>3
    <3> HIDE DEF m
    <3>2. SubSeq(log, m, b) \in Seq(LogEntry)
      BY <3>1, SubSeqProperties
    <3> QED BY <3>2 DEF m
  <2>6. SubtreeOf(log, cover[i]) \in Subtree
    BY <2>1, <2>3, <2>5 DEF Subtree
  <2>7. SubtreeOf(log, cover[i]).hash = SubSeq(job.target, a + 1, b)
    <3> DEFINE segment == SubSeq(log, a + 1, b)
    <3>1. SubtreeOf(log, cover[i]) = [start |-> a, end |-> b, hash |-> segment]
      BY <2>1
    <3> HIDE DEF segment
    <3>2. SubtreeOf(log, cover[i]).hash = segment
      BY <3>1
    <3> QED BY <2>4, <3>2, Zenon DEF segment
  <2>8. a = cover[i].start /\ b = cover[i].end
    BY DEF a, b
  <2> QED
    <3>1. cover[i].start \in Nat /\ cover[i].end \in Nat /\ cover[i].end <= Len(job.target)
      BY <2>3, <2>8
    <3>2. SubtreeOf(log, cover[i]).hash = SubSeq(job.target, cover[i].start + 1, cover[i].end)
      BY <2>7, <2>8
    <3> QED BY <2>6, <3>1, <3>2
<1>5. \A i \in job.prev .. Len(job.target) - 1 :
        \E j \in DOMAIN cover : cover[j].start <= i /\ i < cover[j].end
  BY <1>1, <1>2, <1>3, <1>4, AcceptedCoverCovers
<1>6. \A i \in DOMAIN cover :
        /\ SubtreeOf(log, cover[i]).start = cover[i].start
        /\ SubtreeOf(log, cover[i]).end = cover[i].end
  BY DEF SubtreeOf
<1>7. job'.subtrees \subseteq Subtree
  BY <1>2, <1>4
<1>8. \A i \in job.prev .. Len(job.target) - 1 :
        \E s \in job'.subtrees : s.start <= i /\ i < s.end
  BY <1>2, <1>5, <1>6
<1>9. ASSUME NEW s \in job'.subtrees
      PROVE  s.end <= Len(job.target) /\ s.hash = SubSeq(job.target, s.start + 1, s.end)
  <2>1. PICK i \in DOMAIN cover : s = SubtreeOf(log, cover[i])
    BY <1>2
  <2> QED BY <1>4, <1>6, <2>1
<1> QED BY <1>7, <1>8, <1>9

LEMMA SignSubtreesInv ==
  ASSUME Inv, SignSubtrees
  PROVE  Inv'
<1>1. /\ job.pc = "signed"
      /\ job' = [job EXCEPT !.pc = "collecting", !.subtrees = job'.subtrees]
      /\ UNCHANGED <<log, saved, caState, extState, batch, latest, faults>>
  BY DEF SignSubtrees, Inv, TypeOK
<1>2. TypeOK'
  BY <1>1, SignedSubtreesCover DEF Inv, TypeOK, Steps
<1>3. /\ job'.pc = "collecting" /\ job'.prev = job.prev /\ job'.target = job.target
      /\ job'.collected = job.collected
  BY <1>1 DEF Inv, TypeOK
<1>4. TargetInLog' /\ TargetIsStored' /\ JobFollowsBatch'
  BY <1>1, <1>3 DEF Inv, TargetInLog, TargetIsStored, JobFollowsBatch, Sized, Signed, SizeOf
<1>5. JobCoversItsEntries'
  BY <1>3, SignedSubtreesCover DEF JobCoversItsEntries
<1>6. CollectedIsBacked'
  BY <1>1, <1>3 DEF Inv, CollectedIsBacked, Signed, Collected
<1> QED BY <1>1, <1>2, <1>4, <1>5, <1>6, FilesUnchanged DEF Inv

-----------------------------------------------------------------------------
\* While a client is asked, the CA's file holds the job's checkpoint, and
\* what the client accepts extends what it had stored.
LEMMA AskingFacts ==
  ASSUME Inv, Asking
  PROVE  /\ Client \in External
         /\ job.next \in 1 .. Len(Clients) /\ job.next + 1 \in 1 .. Len(Clients) + 1
         /\ job.target \in Seq(LogEntry) /\ caState = job.target
         /\ ClientAccepts => IsPrefix(extState[Client], job.target)
<1>1. job.next \in 1 .. Len(Clients) /\ job.next + 1 \in 1 .. Len(Clients) + 1
  <2>1. Len(Clients) \in Nat
    BY ClientsAreASequence, LenProperties
  <2> QED BY <2>1 DEF Asking, Inv, TypeOK
<1>2. Client \in External
  BY <1>1, ClientsAreASequence DEF Client, External
<1>3. /\ job.target \in Seq(LogEntry) /\ log \in Seq(LogEntry)
      /\ extState[Client] \in Seq(LogEntry)
      /\ IsPrefix(job.target, log) /\ caState = job.target
  BY <1>2 DEF Asking, Inv, TypeOK, TargetInLog, TargetIsStored, Sized, Signed
<1>4. ClientAccepts => IsPrefix(extState[Client], job.target)
  BY <1>3, AcceptedExtends DEF ClientAccepts
<1> QED BY <1>1, <1>2, <1>3, <1>4

\* A client that stores the job's checkpoint disturbs nobody's signatures.
LEMMA ClientAdvances ==
  ASSUME Inv, Asking, ClientAccepts,
         extState' = [extState EXCEPT ![Client] = job.target],
         UNCHANGED <<batch, caState>>
  PROVE  /\ extState' \in [External -> Seq(LogEntry)]
         /\ \A c \in job.collected \cup {Client} : IsPrefix(job.target, extState'[c])
         /\ PublishedIsBacked' /\ ExternalsFollowCA'
<1>1. /\ Client \in External /\ job.target \in Seq(LogEntry) /\ caState = job.target
      /\ IsPrefix(extState[Client], job.target)
  BY AskingFacts
<1>2. /\ extState \in [External -> Seq(LogEntry)] /\ job.collected \subseteq External
      /\ batch.view \in Seq(LogEntry) /\ batch.signers \subseteq External
  BY DEF Inv, TypeOK, Batch
<1>3. extState' \in [External -> Seq(LogEntry)]
  BY <1>1, <1>2
<1>4. \A c \in job.collected \cup {Client} : IsPrefix(job.target, extState'[c])
  <2>1. \A c \in job.collected : IsPrefix(job.target, extState[c])
    BY DEF Asking, Inv, CollectedIsBacked, Signed
  <2>2. IsPrefix(job.target, job.target)
    BY <1>1, PrefixReflexive
  <2> QED BY <1>1, <1>2, <2>1, <2>2
<1>5. ASSUME NEW c \in batch.signers
      PROVE  IsPrefix(batch.view, extState'[c])
  <2>1. IsPrefix(batch.view, extState[c])
    BY DEF Inv, PublishedIsBacked
  <2>2. CASE c = Client
    BY <1>1, <1>2, <2>1, <2>2, PrefixTransitive
  <2>3. CASE c # Client
    BY <1>2, <2>1, <2>3
  <2> QED BY <2>2, <2>3
<1>6. PublishedIsBacked'
  BY <1>5 DEF Inv, PublishedIsBacked
<1>7. ExternalsFollowCA'
  BY <1>1, <1>2, PrefixReflexive DEF Inv, ExternalsFollowCA
<1> QED BY <1>3, <1>4, <1>6, <1>7

\* Asking one more client, whether or not it is counted as a signer.
LEMMA AskedInv ==
  ASSUME Inv, Asking, NEW signers \in SUBSET External,
         job' = [job EXCEPT !.next = @ + 1, !.collected = signers],
         extState' \in [External -> Seq(LogEntry)],
         \A c \in signers : IsPrefix(job.target, extState'[c]),
         PublishedIsBacked', ExternalsFollowCA', faults' \in 0 .. MaxFaults,
         UNCHANGED <<log, saved, caState, batch, latest>>
  PROVE  Inv'
<1>1. /\ job'.pc = "collecting" /\ job'.prev = job.prev /\ job'.target = job.target
      /\ job'.subtrees = job.subtrees /\ job'.collected = signers /\ job.pc = "collecting"
  BY DEF Asking, Inv, TypeOK
<1>2. TypeOK'
  BY AskingFacts DEF Inv, TypeOK
<1>3. TargetInLog' /\ TargetIsStored' /\ JobFollowsBatch' /\ JobCoversItsEntries'
  BY <1>1 DEF Inv, TargetInLog, TargetIsStored, JobFollowsBatch, JobCoversItsEntries,
              Sized, Signed, Attested, SizeOf
<1>4. CollectedIsBacked'
  BY <1>1 DEF CollectedIsBacked, Signed, Collected
<1>5. BatchIsComplete' /\ BatchCoversItsEntries'
  BY DEF Inv, BatchIsComplete, BatchCoversItsEntries
<1> QED BY <1>2, <1>3, <1>4, <1>5 DEF Inv

LEMMA ClientStepsInv ==
  ASSUME Inv, ClientSigns \/ ClientFails \/ ClientAnswerLost
  PROVE  Inv'
<1>0. /\ job.collected \subseteq External
      /\ \A c \in job.collected : IsPrefix(job.target, extState[c])
      /\ extState \in [External -> Seq(LogEntry)]
      /\ faults \in 0 .. MaxFaults /\ MaxFaults \in Nat
  BY BoundsAreNaturals DEF ClientSigns, ClientFails, ClientAnswerLost, Asking, Inv, TypeOK,
                           CollectedIsBacked, Signed
<1>1. CASE ClientSigns
  <2> DEFINE signers == job.collected \cup {Client}
  <2>1. /\ Asking /\ ClientAccepts
        /\ extState' = [extState EXCEPT ![Client] = job.target]
        /\ job' = [job EXCEPT !.next = @ + 1, !.collected = signers]
        /\ UNCHANGED <<log, saved, caState, batch, latest, faults>>
    BY <1>1 DEF ClientSigns, Inv, TypeOK
  <2>2. signers \in SUBSET External
    BY <1>0, <2>1, AskingFacts
  <2>3. /\ extState' \in [External -> Seq(LogEntry)]
        /\ \A c \in signers : IsPrefix(job.target, extState'[c])
        /\ PublishedIsBacked' /\ ExternalsFollowCA'
    BY <2>1, ClientAdvances
  <2> HIDE DEF signers
  <2> QED BY <1>0, <2>1, <2>2, <2>3, AskedInv
<1>2. CASE ClientFails
  <2> DEFINE signers == job.collected
  <2>1. /\ Asking
        /\ job' = [job EXCEPT !.next = @ + 1, !.collected = signers]
        /\ UNCHANGED <<log, saved, caState, extState, batch, latest>>
    BY <1>2 DEF ClientFails, Inv, TypeOK
  <2>2. faults' \in 0 .. MaxFaults
    BY <1>0, <1>2 DEF ClientFails
  <2>3. PublishedIsBacked' /\ ExternalsFollowCA'
    BY <2>1, FilesUnchanged
  <2>4. signers \in SUBSET External /\ \A c \in signers : IsPrefix(job.target, extState'[c])
    BY <1>0, <2>1
  <2> HIDE DEF signers
  <2> QED BY <1>0, <2>1, <2>2, <2>3, <2>4, AskedInv
<1>3. CASE ClientAnswerLost
  <2> DEFINE signers == job.collected
  <2>1. /\ Asking /\ ClientAccepts
        /\ extState' = [extState EXCEPT ![Client] = job.target]
        /\ job' = [job EXCEPT !.next = @ + 1, !.collected = signers]
        /\ UNCHANGED <<log, saved, caState, batch, latest>>
    BY <1>3 DEF ClientAnswerLost, Inv, TypeOK
  <2>2. faults' \in 0 .. MaxFaults
    BY <1>0, <1>3 DEF ClientAnswerLost
  <2>3. /\ extState' \in [External -> Seq(LogEntry)]
        /\ \A c \in signers : IsPrefix(job.target, extState'[c])
        /\ PublishedIsBacked' /\ ExternalsFollowCA'
    BY <2>1, ClientAdvances
  <2>4. signers \in SUBSET External
    BY <1>0
  <2> HIDE DEF signers
  <2> QED BY <2>1, <2>2, <2>3, <2>4, AskedInv
<1> QED BY <1>1, <1>2, <1>3

LEMMA FinishCollectingInv ==
  ASSUME Inv, FinishCollecting
  PROVE  Inv'
<1>1. /\ job'.pc = "collected" /\ job'.prev = job.prev /\ job'.target = job.target
      /\ job'.subtrees = job.subtrees /\ job'.collected = job.collected
      /\ job.pc = "collecting" /\ Enough
      /\ UNCHANGED <<log, saved, caState, extState, batch, latest, faults>>
  BY DEF FinishCollecting, Inv, TypeOK
<1>2. TypeOK'
  BY DEF FinishCollecting, Inv, TypeOK, Steps
<1>3. TargetInLog' /\ TargetIsStored' /\ JobFollowsBatch' /\ JobCoversItsEntries'
  BY <1>1 DEF Inv, TargetInLog, TargetIsStored, JobFollowsBatch, JobCoversItsEntries,
              Sized, Signed, Attested, SizeOf
<1>4. CollectedIsBacked'
  BY <1>1 DEF Inv, CollectedIsBacked, Signed, Collected, Enough
<1> QED BY <1>1, <1>2, <1>3, <1>4, FilesUnchanged DEF Inv

-----------------------------------------------------------------------------
LEMMA PublishInv ==
  ASSUME Inv, Publish
  PROVE  Inv'
<1>1. /\ job.pc = "collected" /\ batch' = NewBatch
      /\ job' = [job EXCEPT !.pc = "published"]
      /\ UNCHANGED <<log, saved, caState, extState, latest, faults>>
  BY DEF Publish
<1>2. /\ job'.pc = "published" /\ job'.prev = job.prev /\ job'.target = job.target
      /\ job'.subtrees = job.subtrees /\ job'.collected = job.collected
  BY <1>1 DEF Inv, TypeOK
<1>3. /\ batch'.prev = job.prev /\ batch'.view = job.target
      /\ batch'.subtrees = job.subtrees /\ batch'.signers = job.collected
  BY <1>1 DEF NewBatch
<1>4. TypeOK'
  BY <1>1 DEF NewBatch, Inv, TypeOK, Batch, Steps
<1>5. TargetInLog' /\ TargetIsStored' /\ JobFollowsBatch' /\ JobCoversItsEntries'
  BY <1>1, <1>2 DEF Inv, TargetInLog, TargetIsStored, JobFollowsBatch, JobCoversItsEntries,
                    Sized, Signed, Attested, NewBatch
<1>6. CollectedIsBacked'
  BY <1>1, <1>2 DEF Inv, CollectedIsBacked, Signed, Collected
<1>7. BatchIsComplete'
  BY <1>1, <1>3 DEF Inv, BatchIsComplete, TargetInLog, CollectedIsBacked, Sized, Collected
<1>8. BatchCoversItsEntries'
  BY <1>1, <1>3 DEF Inv, BatchCoversItsEntries, JobCoversItsEntries, Attested, SizeOf
<1>9. PublishedIsBacked'
  <2>1. IsPrefix(batch'.view, caState')
    BY <1>1, <1>3, PrefixReflexive DEF Inv, TypeOK, TargetIsStored, Signed
  <2>2. \A c \in batch'.signers : IsPrefix(batch'.view, extState'[c])
    BY <1>1, <1>3 DEF Inv, CollectedIsBacked, Signed
  <2> QED BY <2>1, <2>2 DEF PublishedIsBacked
<1>10. ExternalsFollowCA'
  BY <1>1 DEF Inv, ExternalsFollowCA
<1> QED BY <1>4, <1>5, <1>6, <1>7, <1>8, <1>9, <1>10 DEF Inv

LEMMA FinishJobInv ==
  ASSUME Inv, FinishJob
  PROVE  Inv'
<1>1. /\ job.pc = "published" /\ latest' = batch /\ job' = NoJob
      /\ UNCHANGED <<log, saved, caState, extState, batch, faults>>
  BY DEF FinishJob, Inv, JobFollowsBatch
<1>2. TypeOK'
  <2>1. Len(Clients) \in Nat
    BY RequiredIsPossible, ClientsAreASequence, LenProperties
  <2> QED BY <1>1, <2>1, EmptySeq DEF Inv, TypeOK, NoJob, NoCheckpoint, Steps
<1> QED BY <1>1, <1>2, NoJobHolds, FilesUnchanged DEF Inv

LEMMA CrashInv ==
  ASSUME Inv, Crash
  PROVE  Inv'
<1>1. job' = Down /\ UNCHANGED <<saved, caState, extState, batch>>
  BY DEF Crash
<1>2. TypeOK'
  <2>1. Len(Clients) \in Nat
    BY RequiredIsPossible, ClientsAreASequence, LenProperties
  <2>2. faults' \in 0 .. MaxFaults /\ log' \in Seq(LogEntry) /\ latest' \in Batch
    BY EmptySeq, BoundsAreNaturals DEF Crash, Inv, TypeOK, NoBatch, NoCheckpoint, Batch
  <2>3. job' \in [pc : Steps, prev : Nat, target : Seq(LogEntry), subtrees : SUBSET Subtree,
                  next : 1 .. Len(Clients) + 1, collected : SUBSET External]
    <3>1. job' = [pc |-> "down", prev |-> 0, target |-> <<>>, subtrees |-> {},
                  next |-> 1, collected |-> {}]
      BY <1>1 DEF Down, NoJob, NoCheckpoint
    <3> QED BY <2>1, <3>1, EmptySeq DEF Steps
  <2> QED BY <1>1, <2>2, <2>3 DEF Inv, TypeOK
<1> QED BY <1>1, <1>2, NoJobHolds, FilesUnchanged DEF Inv

LEMMA RestartInv ==
  ASSUME Inv, Restart
  PROVE  Inv'
<1>1. /\ latest' = batch /\ job' = NoJob
      /\ UNCHANGED <<log, saved, caState, extState, batch, faults>>
  BY DEF Restart
<1>2. TypeOK'
  <2>1. Len(Clients) \in Nat
    BY RequiredIsPossible, ClientsAreASequence, LenProperties
  <2> QED BY <1>1, <2>1, EmptySeq DEF Inv, TypeOK, NoJob, NoCheckpoint, Steps
<1> QED BY <1>1, <1>2, NoJobHolds, FilesUnchanged DEF Inv

LEMMA NextInv == Inv /\ [Next]_vars => Inv'
<1> SUFFICES ASSUME Inv, [Next]_vars PROVE Inv'
  OBVIOUS
<1>1. ASSUME NEW e \in Entry, Submit(e) PROVE Inv'
  BY <1>1, SubmitInv
<1>2. CASE SaveLog
  BY <1>2, SaveLogInv
<1>3. CASE StartJob
  BY <1>3, StartJobInv
<1>4. CASE SignCheckpoint
  BY <1>4, SignCheckpointInv
<1>5. CASE CheckpointRefused \/ CollectionFailed
  <2>1. /\ job.pc \in {"sized", "signed", "collecting", "collected"} /\ job' = NoJob
        /\ UNCHANGED <<log, saved, caState, extState, batch, latest>>
        /\ faults' \in 0 .. MaxFaults
    BY <1>5 DEF CheckpointRefused, CollectionFailed, Inv, TypeOK
  <2> QED BY <2>1, GivesUpInv
<1>6. CASE SignSubtrees
  BY <1>6, SignSubtreesInv
<1>7. CASE ClientSigns \/ ClientFails \/ ClientAnswerLost
  BY <1>7, ClientStepsInv
<1>8. CASE FinishCollecting
  BY <1>8, FinishCollectingInv
<1>9. CASE Publish
  BY <1>9, PublishInv
<1>10. CASE FinishJob
  BY <1>10, FinishJobInv
<1>11. CASE StateFileFails
  <2>1. /\ job.pc \in {"sized", "signed", "collecting", "collected"} /\ job' = NoJob
        /\ UNCHANGED <<log, saved, caState, extState, batch, latest>>
        /\ faults' \in 0 .. MaxFaults
    BY <1>11, BoundsAreNaturals DEF StateFileFails, Inv, TypeOK
  <2> QED BY <2>1, GivesUpInv
<1>12. CASE Crash
  BY <1>12, CrashInv
<1>13. CASE Restart
  BY <1>13, RestartInv
<1>14. CASE UNCHANGED vars
  <2>1. TypeOK'
    BY <1>14 DEF vars, Inv, TypeOK
  <2>2. TargetInLog' /\ TargetIsStored' /\ JobFollowsBatch' /\ JobCoversItsEntries' /\ CollectedIsBacked'
    BY <1>14 DEF vars, Inv, TargetInLog, TargetIsStored, JobFollowsBatch, JobCoversItsEntries,
                 CollectedIsBacked, NewBatch, SizeOf
  <2> QED BY <1>14, <2>1, <2>2, FilesUnchanged DEF vars, Inv
<1> QED BY <1>1, <1>2, <1>3, <1>4, <1>5, <1>6, <1>7, <1>8, <1>9, <1>10, <1>11, <1>12,
           <1>13, <1>14 DEF Next, JobStep

THEOREM InvHolds == Spec => []Inv
BY InitInv, NextInv, PTL DEF Spec

-----------------------------------------------------------------------------
\* The variables of the pipeline keep their types.
THEOREM TypeCorrect == Spec => []TypeOK
<1>1. Inv => TypeOK
  BY DEF Inv
<1> QED BY <1>1, InvHolds, PTL

\* No external cosigner ever holds a checkpoint outside what the CA signed.
THEOREM ExternalsFollow == Spec => []ExternalsFollowCA
<1>1. Inv => ExternalsFollowCA
  BY DEF Inv
<1> QED BY <1>1, InvHolds, PTL

\* Every signer of the published batch still stands by its checkpoint.
THEOREM PublishedBacked == Spec => []PublishedIsBacked
<1>1. Inv => PublishedIsBacked
  BY DEF Inv
<1> QED BY <1>1, InvHolds, PTL

\* The subtrees of the published batch cover its entries and belong to its
\* checkpoint.
THEOREM BatchCovers == Spec => []BatchCoversItsEntries
<1>1. Inv => BatchCoversItsEntries
  BY DEF Inv
<1> QED BY <1>1, InvHolds, PTL

\* The constructor accepts whatever state files a crash leaves behind.
THEOREM RestartAccepted == Spec => []RestartIsAccepted
<1>1. Inv => RestartIsAccepted
  <2> SUFFICES ASSUME Inv, batch # NoBatch PROVE LoadedBatchAccepted
    BY DEF RestartIsAccepted, LoadedBatchAccepted
  <2>1. /\ batch.view \in Seq(LogEntry) /\ batch.view # <<>> /\ caState \in Seq(LogEntry)
        /\ IsPrefix(batch.view, caState)
    BY DEF Inv, TypeOK, Batch, BatchIsComplete, PublishedIsBacked
  <2>2. Len(batch.view) > 0 /\ Len(caState) >= Len(batch.view)
    BY <2>1, EmptySeq, PrefixChar
  <2>3. caState # NoCheckpoint
    BY <2>1, <2>2, EmptySeq DEF NoCheckpoint
  <2>4. Len(caState) = Len(batch.view) => caState = batch.view
    BY <2>1, PrefixOfSameLength
  <2>5. Cardinality(batch.signers) >= Required
    BY RequiredIsPossible, ClientsAreASequence, LenProperties DEF Inv, BatchIsComplete
  <2> QED BY <2>2, <2>3, <2>4, <2>5 DEF LoadedBatchAccepted, SizeOf
<1> QED BY <1>1, InvHolds, PTL

-----------------------------------------------------------------------------
\* The published batch as CertifiedLog sees it.
Published == [prev |-> batch.prev, view |-> batch.view, signers |-> batch.signers]

\* Every step of the pipeline extends one cosigner's history, publishes the
\* next link of the chain, or changes nothing that readers can see.
LEMMA StepKeepsPromise ==
  Inv /\ [Next]_vars => [Promise!Next]_<<Published, caState, extState>>
<1> SUFFICES ASSUME Inv, Next, ~UNCHANGED <<Published, caState, extState>>
             PROVE  Promise!Next
  BY DEF vars, Published
<1>1. CASE SignCheckpoint
  <2>1. /\ caState' \in Seq(LogEntry) /\ IsPrefix(caState, caState') /\ caState # caState'
        /\ UNCHANGED <<Published, extState>>
    BY <1>1, SignCheckpointExtends DEF SignCheckpoint, Published
  <2>2. Promise!IsStrictPrefix(caState, caState')
    BY <2>1 DEF Promise!IsStrictPrefix, Promise!IsPrefix, IsPrefix
  <2> QED BY <2>1, <2>2 DEF Promise!Next, Promise!CAExtends, Published
<1>2. CASE ClientSigns \/ ClientAnswerLost
  <2>1. /\ Asking /\ ClientAccepts
        /\ extState' = [extState EXCEPT ![Client] = job.target]
        /\ UNCHANGED <<Published, caState>>
    BY <1>2 DEF ClientSigns, ClientAnswerLost, Published
  <2>2. /\ Client \in External /\ job.target \in Seq(LogEntry)
        /\ IsPrefix(extState[Client], job.target)
        /\ extState'[Client] = job.target
        /\ extState' = [extState EXCEPT ![Client] = extState'[Client]]
    BY <2>1, AskingFacts DEF Inv, TypeOK
  <2>3. extState[Client] # job.target
    BY <2>1, <2>2 DEF Inv, TypeOK
  <2>4. Promise!IsStrictPrefix(extState[Client], extState'[Client])
    BY <2>2, <2>3 DEF Promise!IsStrictPrefix, Promise!IsPrefix, IsPrefix
  <2>5. Promise!ExternalExtends(Client)
    BY <2>1, <2>2, <2>4 DEF Promise!ExternalExtends, Published
  <2> QED BY <2>2, <2>5 DEF Promise!Next
<1>3. CASE Publish
  <2>1. /\ job.pc = "collected" /\ batch' = NewBatch /\ UNCHANGED <<caState, extState>>
    BY <1>3 DEF Publish
  <2>2. /\ batch.view \in Seq(LogEntry) /\ job.target \in Seq(LogEntry)
        /\ caState = job.target /\ IsPrefix(batch.view, caState)
        /\ job.prev = Len(batch.view) /\ job.prev < Len(job.target)
        /\ job.collected \subseteq External /\ Cardinality(job.collected) = Required
        /\ \A c \in job.collected : IsPrefix(job.target, extState[c])
    BY <2>1 DEF Inv, TypeOK, Batch, TargetIsStored, PublishedIsBacked, JobFollowsBatch,
                CollectedIsBacked, Sized, Signed, Collected, SizeOf
  <2>3. /\ Published'.view = job.target /\ Published'.prev = job.prev
        /\ Published'.signers = job.collected /\ Published.view = batch.view
    BY <2>1 DEF Published, NewBatch
  <2>4. Promise!IsStrictPrefix(batch.view, job.target)
    <3>1. batch.view # job.target
      BY <2>2, LenProperties
    <3> QED BY <2>2, <3>1 DEF Promise!IsStrictPrefix, Promise!IsPrefix, IsPrefix
  <2>5. Promise!IsPrefix(job.target, caState)
    BY <2>2, PrefixReflexive DEF Promise!IsPrefix, IsPrefix
  <2>6. \A c \in job.collected : Promise!IsPrefix(job.target, extState[c])
    BY <2>2 DEF Promise!IsPrefix, IsPrefix
  <2>7. Cardinality(job.collected) >= Required
    BY <2>2, RequiredIsPossible, ClientsAreASequence, LenProperties
  <2>8. job.collected \subseteq { c \in External : Promise!IsPrefix(job.target, extState[c]) }
    BY <2>2, <2>6
  <2>9. /\ [prev |-> batch.prev, view |-> batch.view, signers |-> batch.signers].view = batch.view
        /\ [prev |-> batch'.prev, view |-> batch'.view, signers |-> batch'.signers].view
             = job.target
        /\ [prev |-> batch'.prev, view |-> batch'.view, signers |-> batch'.signers].prev
             = Len(batch.view)
        /\ [prev |-> batch'.prev, view |-> batch'.view, signers |-> batch'.signers].signers
             = job.collected
    BY <2>1, <2>2 DEF NewBatch
  <2>10. Promise!Cardinality(job.collected) = Cardinality(job.collected)
    BY DEF Promise!Cardinality, Cardinality
  <2>11. Promise!Publish
    BY <2>1, <2>4, <2>5, <2>7, <2>8, <2>9, <2>10 DEF Promise!Publish
  <2> QED BY <2>11 DEF Promise!Next
<1> QED BY <1>1, <1>2, <1>3
    DEF Next, JobStep, Submit, SaveLog, StartJob, CheckpointRefused, SignSubtrees,
        ClientFails, FinishCollecting, CollectionFailed, FinishJob, StateFileFails, Crash,
        Restart, Published

\* The pipeline implements CertifiedLog: the publications are one growing
\* chain that the CA and enough external cosigners stand by.
THEOREM PromiseKept == Spec => KeepsPromise
<1>1. Init => Promise!Init
  BY DEF Init, Promise!Init, NoBatch, NoCheckpoint
<1>2. <<Published, caState, extState>>
        = <<[prev |-> batch.prev, view |-> batch.view, signers |-> batch.signers],
            caState, extState>>
  BY DEF Published
<1> QED BY <1>1, InvHolds, StepKeepsPromise, PTL
    DEF Spec, KeepsPromise, Promise!Spec, Promise!vars, Published
=============================================================================
