------------------------------- MODULE Monitor -------------------------------
(***************************************************************************)
(* The issuance log monitor: IssuanceLogMonitor.run of                     *)
(* mtc/monitor/service.py and its policy (mtc/monitor/models.py).          *)
(*                                                                         *)
(* A run takes one view per cosigner (a signed checkpoint and the log      *)
(* service that publishes it), checks each view alone and against what the *)
(* monitor remembers of that cosigner, compares the healthy views with the *)
(* largest one, reads the content of the largest, and remembers the views  *)
(* no event names.  Publishers are read several times during a run and     *)
(* may fail, lag, or answer differently each time.                         *)
(*                                                                         *)
(* A head is the sequence of entries it commits to.  Cosigners are numbers *)
(* in the order of their IDs.  Every event names at least one cosigner, so *)
(* a run without events is a run that blames nobody.                       *)
(*                                                                         *)
(* "Slip:" marks a plausible mistake in the definition after it, used only *)
(* to show that a property notices.                                        *)
(***************************************************************************)
EXTENDS CosignerPolicy

CONSTANTS
  Required,   \* required_cosigner_ids: the IDs any relying party's policy names
  Entry,      \* log entries
  Heads       \* the log heads that may be signed or published

ASSUME RequiredAreNumbers == Required \subseteq Nat
ASSUME HeadsAreCheckpoints == Heads \subseteq Seq(Entry) \ {NoCheckpoint}

VARIABLES
  memory,     \* _previous: the last accepted checkpoint, or NoCheckpoint
  phase,      \* where the current run stands
  views,      \* the checkpoint of each cosigner supplied to this run
  pending,    \* supplied cosigners whose view is not checked yet
  healthy,    \* cosigners whose view passed _check_view
  blamed,     \* cosigners named by the events of this run
  cleanHeads  \* every checkpoint seen in a run without events

monitorVars == <<memory, phase, views, pending, healthy, blamed, cleanHeads>>

NoViews == [c \in {} |-> NoCheckpoint]

Init ==
  /\ memory = [c \in Required |-> NoCheckpoint]
  /\ phase = "idle"
  /\ views = NoViews
  /\ pending = {}
  /\ healthy = {}
  /\ blamed = {}
  /\ cleanHeads = {}

\* run: collect one view per required cosigner.  A second view of the same
\* cosigner is reported and dropped, a missing one is reported.
Collect ==
  /\ phase = "idle"
  /\ \E supplied \in SUBSET Required : \E duplicated \in SUBSET supplied :
       /\ views' \in [supplied -> Heads]
       /\ pending' = supplied
       /\ blamed' = duplicated \cup (Required \ supplied)
  /\ healthy' = {}
  /\ phase' = "checking"
  /\ UNCHANGED <<memory, cleanHeads>>

\* A consistency proof a publisher returns, or it fails; no proof links two
\* heads of which one does not extend the other.
ProofAnswers == {"sound", "unsound", "error"}

ProofVerifies(answer, first, second) == answer = "sound" /\ IsPrefix(first, second)

\* Slip: a shorter checkpoint is reported but stays healthy.
ToleratesRollback(previous, checkpoint, answer) ==
  \/ previous = NoCheckpoint
  \/ Len(checkpoint) < Len(previous)
  \/ Len(checkpoint) = Len(previous) /\ checkpoint = previous
  \/ Len(checkpoint) > Len(previous) /\ ProofVerifies(answer, previous, checkpoint)

\* _check_view: rollback, same size, growth against the remembered checkpoint.
FollowsMemory(previous, checkpoint, answer) ==
  \/ previous = NoCheckpoint
  \/ Len(checkpoint) = Len(previous) /\ checkpoint = previous
  \/ Len(checkpoint) > Len(previous) /\ ProofVerifies(answer, previous, checkpoint)

\* What a view's signature and publisher turn out to be: the log it names, the
\* published head, the calls that fail, whether too much was pruned.
ViewAnswers ==
  [sameLog : BOOLEAN, signed : BOOLEAN, pruned : BOOLEAN, published : Heads,
   fails : {"none", "metadata", "root"}, proof : ProofAnswers]

\* The published root of the checkpoint's size is the checkpoint's root.
PublisherAgrees(checkpoint, answer) ==
  /\ Len(answer.published) >= Len(checkpoint)
  /\ CheckpointAt(answer.published, Len(checkpoint)) = checkpoint

\* _check_view returned True.  Unauthorised pruning is an event, yet the view
\* stays healthy.
ViewIsHealthy(previous, checkpoint, answer) ==
  /\ answer.fails = "none"
  /\ answer.sameLog
  /\ answer.signed
  /\ PublisherAgrees(checkpoint, answer)
  /\ FollowsMemory(previous, checkpoint, answer.proof)

\* The outcomes of _check_view over all answers: healthy or not, with events
\* or without.
ViewOutcomes(previous, checkpoint) ==
  {[healthy |-> ViewIsHealthy(previous, checkpoint, answer),
    clean   |-> ViewIsHealthy(previous, checkpoint, answer) /\ ~answer.pruned] :
     answer \in ViewAnswers}

NextPending(c) == c \in pending /\ \A d \in pending : c <= d

CheckView(c) ==
  /\ phase = "checking"
  /\ NextPending(c)
  /\ \E outcome \in ViewOutcomes(memory[c], views[c]) :
       /\ healthy' = IF outcome.healthy THEN healthy \cup {c} ELSE healthy
       /\ blamed' = IF outcome.clean THEN blamed ELSE blamed \cup {c}
  /\ pending' = pending \ {c}
  /\ phase' = IF pending = {c} THEN "comparing" ELSE "checking"
  /\ UNCHANGED <<memory, views, cleanHeads>>

\* No view was supplied: nothing to check.
NothingToCheck ==
  /\ phase = "checking"
  /\ pending = {}
  /\ phase' = "comparing"
  /\ UNCHANGED <<memory, views, pending, healthy, blamed, cleanHeads>>

\* The last of the healthy views in the order of size and ID.
IsLargest(c) ==
  /\ c \in healthy
  /\ \A d \in healthy :
       \/ Len(views[d]) < Len(views[c])
       \/ Len(views[d]) = Len(views[c]) /\ d <= c

\* Slip: views of the same size are taken to agree.
BlamedByProofOnly(c, largest, answer) ==
  IF Len(views[c]) < Len(views[largest]) /\ ~ProofVerifies(answer, views[c], views[largest])
  THEN {largest} ELSE {}

\* What comparing two views comes to: they name different logs (heads do not
\* tell), or it is the sizes and roots that decide, and the answer of the
\* largest view's publisher where it is asked for a proof.
ComparisonAnswers == {"otherLog"} \cup ProofAnswers

\* _compare_views for one pair.  A proof that fails is the largest view's
\* publisher's fault: only that cosigner is named.
BlamedByComparison(c, largest, answer) ==
  IF answer = "otherLog" THEN {c, largest}
  ELSE IF Len(views[c]) = Len(views[largest])
  THEN IF views[c] = views[largest] THEN {} ELSE {c, largest}
  ELSE IF ProofVerifies(answer, views[c], views[largest]) THEN {} ELSE {largest}

CompareViews ==
  /\ phase = "comparing"
  /\ \/ /\ \A c, d \in healthy : c = d
        /\ UNCHANGED blamed
     \/ \E largest \in Required :
          /\ IsLargest(largest)
          /\ \E answers \in [healthy \ {largest} -> ComparisonAnswers] :
               blamed' = blamed \cup
                 UNION {BlamedByComparison(c, largest, answers[c]) : c \in healthy \ {largest}}
  /\ phase' = "content"
  /\ UNCHANGED <<memory, views, pending, healthy, cleanHeads>>

\* _check_content: the largest view's entries may be missing or malformed, or
\* the service may fail.
CheckContent ==
  /\ phase = "content"
  /\ \/ UNCHANGED blamed
     \/ \E largest \in Required :
          /\ IsLargest(largest)
          /\ blamed' = blamed \cup {largest}
  /\ phase' = "remembering"
  /\ UNCHANGED <<memory, views, pending, healthy, cleanHeads>>

\* Slip: every checked view is remembered.
RemembersAllViews == DOMAIN views

\* run: the views to remember.
Remembered == healthy \ blamed

Remember ==
  /\ phase = "remembering"
  /\ memory' = [c \in Required |-> IF c \in Remembered THEN views[c] ELSE memory[c]]
  /\ cleanHeads' = IF blamed = {} THEN cleanHeads \cup {views[c] : c \in healthy} ELSE cleanHeads
  /\ phase' = "idle"
  /\ views' = NoViews
  /\ healthy' = {}
  /\ blamed' = {}
  /\ UNCHANGED pending

Next ==
  \/ Collect
  \/ \E c \in Required : CheckView(c)
  \/ NothingToCheck
  \/ CompareViews
  \/ CheckContent
  \/ Remember

Spec == Init /\ [][Next]_monitorVars

-----------------------------------------------------------------------------
(* Properties *)

\* All checkpoints that runs without events ever saw, of all cosigners, lie on
\* one append-only history, whatever happened in the runs between them: the
\* views of one run are only compared with its largest, and each cosigner only
\* with its own memory.
CleanRunsSeeOneHistory ==
  \A g, h \in cleanHeads : IsPrefix(g, h) \/ IsPrefix(h, g)

\* What the monitor remembers of a cosigner only ever grows: no sequence of
\* failed or partly failed runs lets a cosigner start over.
MemoryOnlyGrows ==
  [][\A c \in Required : IsPrefix(memory[c], memory'[c])]_monitorVars
=============================================================================
