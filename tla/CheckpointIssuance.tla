------------------------- MODULE CheckpointIssuance -------------------------
(***************************************************************************)
(* The CA's issuance and checkpoint pipeline: CAOrchestrator               *)
(* (mtc/ca/orchestrator.py) over an IssuanceLog, the CA's own Cosigner and *)
(* its state store, a CosignerCollector that asks external cosigners       *)
(* (mtc/cosigner/collection.py) and a CheckpointBatchStore.                *)
(*                                                                         *)
(* submit() appends to the log.  run_checkpoint_job() pins the log size,   *)
(* lets the CA cosigner sign that checkpoint and the subtrees covering the *)
(* entries since the last publication, collects external signatures one    *)
(* client at a time, publishes the batch and remembers it.  The job holds  *)
(* a lock, so there is one; submissions, saves of the log, failures of     *)
(* clients and a crash of the process fall between its steps.  A restart   *)
(* reloads the two state files and the log, which may have been saved      *)
(* before entries that were already signed.                                *)
(*                                                                         *)
(* The job's cosigner operations are single steps here: Cosigner.tla shows *)
(* that loads, checks, signatures and the compare-and-swap of concurrent   *)
(* callers keep the same promise.                                          *)
(*                                                                         *)
(* A definition whose comment begins with "Slip:" is a plausible mistake in *)
(* the definition after it.  No specification uses it; substituting it     *)
(* shows that a property notices.                                          *)
(***************************************************************************)
EXTENDS CosignerPolicy, FiniteSets

CONSTANTS
  Entry,      \* certificate entries
  Null,       \* the null_entry at index zero
  Clients,    \* the external cosigners, in the collector's order
  Required,   \* CosignerCollector.required_signatures
  DurableLog, \* TRUE: a restart finds every entry ever appended
  MaxSize,    \* bound: entries in the log
  MaxFaults   \* bound: crashes and failed external calls

External == { Clients[i] : i \in DOMAIN Clients }

ASSUME ClientsAreASequence == Clients \in Seq(External)
ASSUME RequiredIsPossible == Required \in 0 .. Len(Clients)
ASSUME ClientIdsAreUnique ==
  \A i, j \in 1 .. Len(Clients) : Clients[i] = Clients[j] => i = j
ASSUME NullIsNoCertificate == Null \notin Entry
ASSUME BoundsAreNaturals ==
  MaxSize \in Nat /\ MaxFaults \in Nat /\ DurableLog \in BOOLEAN

VARIABLES
  log,      \* the IssuanceLog in memory (log[i + 1] is entry i)
  saved,    \* the log file last written by IssuanceLog.save
  caState,  \* the CA cosigner's state file
  extState, \* each external cosigner's stored checkpoint
  batch,    \* the published batch file
  latest,   \* CAOrchestrator._latest_batch
  job,      \* run_checkpoint_job's progress and locals
  faults    \* crashes and failed external calls so far

vars == <<log, saved, caState, extState, batch, latest, job, faults>>

LogEntry == Entry \cup {Null}

\* load_latest() returned None.
NoBatch == [prev |-> 0, view |-> NoCheckpoint, subtrees |-> {}, signers |-> {}]

\* The size of a batch's checkpoint; 0 when there is no batch.
SizeOf(b) == Len(b.view)

NoJob == [pc |-> "idle", prev |-> 0, target |-> NoCheckpoint,
          subtrees |-> {}, next |-> 1, collected |-> {}]

Down == [NoJob EXCEPT !.pc = "down"]

Steps == {"idle", "sized", "signed", "collecting", "collected", "published", "down"}

Subtree == [start : Nat, end : Nat, hash : Seq(LogEntry)]
Batch == [prev : Nat, view : Seq(LogEntry), subtrees : SUBSET Subtree,
          signers : SUBSET External]

TypeOK ==
  /\ log \in Seq(LogEntry)
  /\ saved \in Seq(LogEntry)
  /\ caState \in Seq(LogEntry)
  /\ extState \in [External -> Seq(LogEntry)]
  /\ batch \in Batch
  /\ latest \in Batch
  /\ job \in [pc : Steps, prev : Nat, target : Seq(LogEntry),
              subtrees : SUBSET Subtree, next : 1 .. Len(Clients) + 1,
              collected : SUBSET External]
  /\ faults \in 0 .. MaxFaults

Init ==
  /\ log = <<Null>>
  /\ saved = <<Null>>
  /\ caState = NoCheckpoint
  /\ extState = [c \in External |-> NoCheckpoint]
  /\ batch = NoBatch
  /\ latest = NoBatch
  /\ job = NoJob
  /\ faults = 0

Running == job.pc # "down"
-----------------------------------------------------------------------------
\* submit(): the request passed the validator; its entry is appended.  A
\* request that fails leaves no trace.
Submit(e) ==
  /\ Running
  /\ Len(log) < MaxSize
  /\ log' = Append(log, e)
  /\ UNCHANGED <<saved, caState, extState, batch, latest, job, faults>>

\* IssuanceLog.save, whenever the operator chooses.
SaveLog ==
  /\ Running
  /\ ~DurableLog
  /\ saved' = log
  /\ UNCHANGED <<log, caState, extState, batch, latest, job, faults>>

-----------------------------------------------------------------------------
\* Slip: the entries to cover are counted from the CA cosigner's checkpoint.
StartJobAfterSigned ==
  /\ job.pc = "idle"
  /\ Len(log) > SizeOf(latest)
  /\ job' = [NoJob EXCEPT !.pc = "sized",
                          !.prev = IF Len(caState) < Len(log) THEN Len(caState)
                                   ELSE SizeOf(latest),
                          !.target = CheckpointAt(log, Len(log))]
  /\ UNCHANGED <<log, saved, caState, extState, batch, latest, faults>>

\* run_checkpoint_job, first step: read the last published size and the log
\* size and fix the checkpoint.  (Equal sizes return None, a shorter log
\* raises; neither changes anything.)
StartJob ==
  /\ job.pc = "idle"
  /\ Len(log) > SizeOf(latest)
  /\ job' = [NoJob EXCEPT !.pc = "sized",
                          !.prev = SizeOf(latest),
                          !.target = CheckpointAt(log, Len(log))]
  /\ UNCHANGED <<log, saved, caState, extState, batch, latest, faults>>

\* Slip: the CA's own checkpoint is signed and stored without any check.
SignCheckpointUnchecked ==
  /\ job.pc = "sized"
  /\ caState' = job.target
  /\ job' = [job EXCEPT !.pc = "signed"]
  /\ UNCHANGED <<log, saved, extState, batch, latest, faults>>

\* sign_checkpoint succeeded: the CA's state file holds the target.
SignCheckpoint ==
  /\ job.pc = "sized"
  /\ AcceptsCheckpoint(caState, job.target,
                       CheckpointProof(log, Len(caState), Len(job.target)), log)
  /\ caState' = job.target
  /\ job' = [job EXCEPT !.pc = "signed"]
  /\ UNCHANGED <<log, saved, extState, batch, latest, faults>>

\* consistency_proof or sign_checkpoint raised: the job ends.
CheckpointRefused ==
  /\ job.pc = "sized"
  /\ ~AcceptsCheckpoint(caState, job.target,
                        CheckpointProof(log, Len(caState), Len(job.target)), log)
  /\ job' = NoJob
  /\ UNCHANGED <<log, saved, caState, extState, batch, latest, faults>>

\* Slip: the log size is read again instead of using the pinned one.
CoveringSubtreesOfLiveLog(from, to) ==
  LET cover == Cover(from, Len(log))
  IN  { SubtreeOf(log, cover[i]) : i \in DOMAIN cover }

\* The subtrees of the log that cover the entries since the last publication.
CoveringSubtrees(from, to) ==
  LET cover == Cover(from, to)
  IN  { SubtreeOf(log, cover[i]) : i \in DOMAIN cover }

\* covering_subtrees, _validate_subtrees and sign_subtree for each of them.
SignSubtrees ==
  LET cover    == Cover(job.prev, Len(job.target))
      subtrees == CoveringSubtrees(job.prev, Len(job.target))
  IN  /\ job.pc = "signed"
      /\ CoverAccepted(cover, job.prev, Len(job.target))
      /\ \A i \in DOMAIN cover :
           SignsSubtree(caState, SubtreeOf(log, cover[i]),
                        SubtreeProof(log, cover[i], Len(job.target)))
      /\ job' = [job EXCEPT !.pc = "collecting", !.subtrees = subtrees]
      /\ UNCHANGED <<log, saved, caState, extState, batch, latest, faults>>

-----------------------------------------------------------------------------
\* Slip: one signature set short of the threshold.
EnoughButOne == Cardinality(job.collected) + 1 >= Required

\* CosignerCollector.collect: the loop is over, with enough signature sets.
Enough == Cardinality(job.collected) = Required

Asking == job.pc = "collecting" /\ ~Enough /\ job.next <= Len(Clients)

Client == Clients[job.next]

\* cosign_checkpoint of the client being asked, whose proofs come from a
\* trusted source of the CA's log.
ClientAccepts ==
  AcceptsCheckpoint(extState[Client], job.target,
                    CheckpointProof(log, Len(extState[Client]), Len(job.target)), log)

\* Slip: the loop advances twice over a client that signed.
ClientSignsAndSkips ==
  /\ Asking
  /\ ClientAccepts
  /\ extState' = [extState EXCEPT ![Client] = job.target]
  /\ job' = [job EXCEPT !.next = @ + 2, !.collected = @ \cup {Client}]
  /\ UNCHANGED <<log, saved, caState, batch, latest, faults>>

\* The client signs the checkpoint and every subtree.
ClientSigns ==
  /\ Asking
  /\ ClientAccepts
  /\ extState' = [extState EXCEPT ![Client] = job.target]
  /\ job' = [job EXCEPT !.next = @ + 1, !.collected = @ \cup {Client}]
  /\ UNCHANGED <<log, saved, caState, batch, latest, faults>>

\* Slip: a client that failed is counted as a signer.
ClientFailsButCounts ==
  /\ Asking
  /\ ClientAccepts => faults < MaxFaults
  /\ faults' = IF ClientAccepts THEN faults + 1 ELSE faults
  /\ job' = [job EXCEPT !.next = @ + 1, !.collected = @ \cup {Client}]
  /\ UNCHANGED <<log, saved, caState, extState, batch, latest>>

\* The client raises before storing anything: it refuses the checkpoint, or
\* it cannot be reached (a fault).  The next client is asked.
ClientFails ==
  /\ Asking
  /\ ClientAccepts => faults < MaxFaults
  /\ faults' = IF ClientAccepts THEN faults + 1 ELSE faults
  /\ job' = [job EXCEPT !.next = @ + 1]
  /\ UNCHANGED <<log, saved, caState, extState, batch, latest>>

\* The client stored and signed the checkpoint, but its answer was lost, did
\* not verify, or one of the subtree signatures failed.
ClientAnswerLost ==
  /\ Asking
  /\ ClientAccepts
  /\ faults < MaxFaults
  /\ faults' = faults + 1
  /\ extState' = [extState EXCEPT ![Client] = job.target]
  /\ job' = [job EXCEPT !.next = @ + 1]
  /\ UNCHANGED <<log, saved, caState, batch, latest>>

\* collect returns.
FinishCollecting ==
  /\ job.pc = "collecting"
  /\ Enough
  /\ job' = [job EXCEPT !.pc = "collected"]
  /\ UNCHANGED <<log, saved, caState, extState, batch, latest, faults>>

\* Slip: only a collection without any signature is an error.
CollectionFailedIfEmpty ==
  /\ job.pc = "collecting"
  /\ job.collected = {}
  /\ job.next > Len(Clients)
  /\ job' = NoJob
  /\ UNCHANGED <<log, saved, caState, extState, batch, latest, faults>>

\* Every client was asked and too few signed: CosignerCollectionError.
CollectionFailed ==
  /\ job.pc = "collecting"
  /\ ~Enough
  /\ job.next > Len(Clients)
  /\ job' = NoJob
  /\ UNCHANGED <<log, saved, caState, extState, batch, latest, faults>>

-----------------------------------------------------------------------------
\* The batch the job is about to publish.
NewBatch == [prev |-> job.prev, view |-> job.target,
             subtrees |-> job.subtrees, signers |-> job.collected]

\* FileCheckpointBatchStore.publish refuses a smaller checkpoint and a
\* different batch of the same size.
StoreAccepts(new) ==
  /\ SizeOf(new) >= SizeOf(batch)
  /\ SizeOf(new) = SizeOf(batch) => new = batch

Publish ==
  /\ job.pc = "collected"
  /\ StoreAccepts(NewBatch)
  /\ batch' = NewBatch
  /\ job' = [job EXCEPT !.pc = "published"]
  /\ UNCHANGED <<log, saved, caState, extState, latest, faults>>

\* self._latest_batch = batch, and the lock is released.
FinishJob ==
  /\ job.pc = "published"
  /\ latest' = NewBatch
  /\ job' = NoJob
  /\ UNCHANGED <<log, saved, caState, extState, batch, faults>>

\* Reading or writing a state file raises (every cosigner call and publish
\* load their file first); the old file stays and the job ends.  An error after
\* os.replace has taken effect leaves the files of a Crash right after the write.
StateFileFails ==
  /\ job.pc \in {"sized", "signed", "collected"}
  /\ faults < MaxFaults
  /\ faults' = faults + 1
  /\ job' = NoJob
  /\ UNCHANGED <<log, saved, caState, extState, batch, latest>>

-----------------------------------------------------------------------------
\* The process dies.  The three files and the external cosigners survive; of
\* the log, what was saved.
Crash ==
  /\ Running
  /\ faults < MaxFaults
  /\ faults' = faults + 1
  /\ job' = Down
  /\ latest' = NoBatch
  /\ log' = IF DurableLog THEN log ELSE saved
  /\ UNCHANGED <<saved, caState, extState, batch>>

\* _validate_loaded_batch: what the constructor demands of the state files.
LoadedBatchAccepted ==
  batch # NoBatch =>
    /\ caState # NoCheckpoint
    /\ Len(caState) >= SizeOf(batch)
    /\ Len(caState) = SizeOf(batch) => caState = batch.view
    /\ batch.signers # {} => Cardinality(batch.signers) >= Required

\* CAOrchestrator.__init__ over the reloaded log and stores.
Restart ==
  /\ job.pc = "down"
  /\ LoadedBatchAccepted
  /\ latest' = batch
  /\ job' = NoJob
  /\ UNCHANGED <<log, saved, caState, extState, batch, faults>>

JobStep ==
  \/ SignCheckpoint \/ CheckpointRefused \/ SignSubtrees
  \/ ClientSigns \/ FinishCollecting \/ CollectionFailed
  \/ Publish \/ FinishJob

Next ==
  \/ \E e \in Entry : Submit(e)
  \/ SaveLog
  \/ StartJob
  \/ JobStep
  \/ ClientFails
  \/ ClientAnswerLost
  \/ StateFileFails
  \/ Crash
  \/ Restart

Spec == Init /\ [][Next]_vars

\* The operator restarts a stopped CA and runs the job again and again; a
\* running job takes its steps.  Submissions, saves and faults are free.
Fairness ==
  /\ WF_vars(StartJob)
  /\ WF_vars(JobStep)
  /\ WF_vars(Restart)

FairSpec == Spec /\ Fairness

-----------------------------------------------------------------------------
\* The external cosigners stay behind the CA: what one of them has stored is
\* always part of what the CA signed, after any loss of the log, any failed
\* job and any lost answer.
ExternalsFollowCA ==
  \A c \in External : IsPrefix(extState[c], caState)

\* Whoever holds the published batch can rely on its signatures: the CA and
\* every external signer still stand by its checkpoint.
PublishedIsBacked ==
  /\ IsPrefix(batch.view, caState)
  /\ \A c \in batch.signers : IsPrefix(batch.view, extState[c])

\* Every entry added since the previous publication lies in a signed subtree
\* of the batch, and those subtrees are parts of the signed checkpoint, even
\* if the log grew while the job ran.
BatchCoversItsEntries ==
  /\ \A i \in batch.prev .. SizeOf(batch) - 1 :
       \E s \in batch.subtrees : s.start <= i /\ i < s.end
  /\ \A s \in batch.subtrees :
       /\ s.end <= SizeOf(batch)
       /\ s.hash = SubSeq(batch.view, s.start + 1, s.end)

\* At whatever step the process dies, the constructor accepts the state files
\* it left behind.
RestartIsAccepted == LoadedBatchAccepted

\* The published batches form one chain: each names the size of the one
\* before it and strictly extends it, backed by the CA and by Required
\* external cosigners, none of whom ever rolls back.
Promise ==
  INSTANCE CertifiedLog WITH
    Entry     <- LogEntry,
    published <- [prev |-> batch.prev, view |-> batch.view, signers |-> batch.signers],
    caHistory <- caState,
    history   <- extState

KeepsPromise == Promise!Spec

\* A job always ends and releases its lock, whatever fails around it.
JobEnds == (job.pc \notin {"idle", "down"}) ~> (job.pc \in {"idle", "down"})

\* "After a failure in the middle the job can be retried": as long as the log
\* itself survives restarts, every entry submitted is eventually published,
\* whatever the failed attempts left in the cosigners' state.
EntriesGetPublished ==
  \A n \in 1 .. MaxSize : (Len(log) >= n) ~> (SizeOf(batch) >= n)
=============================================================================
