---------------------------- MODULE IssuanceLog ----------------------------
(***************************************************************************)
(* The issuance log (mtc/log/issuance_log.py): entry bodies, Merkle tree   *)
(* and minimum index; pruning (log/pruning.py, log/storage.py); the state  *)
(* file; and a publisher that serves the log from that file                *)
(* (log/publish.py).                                                       *)
(*                                                                         *)
(* Appends, prunings and saves are calls of one writer.  Saving truncates  *)
(* the file and then writes it, so that a crash between the two leaves a   *)
(* torn file, and the publisher, another process, may look at any moment.  *)
(* A call that raises changes nothing and is a stuttering step.            *)
(*                                                                         *)
(* "Slip:" marks a plausible mistake in the definition after it, used only *)
(* to show that a property notices.                                        *)
(***************************************************************************)
EXTENDS MerkleTree

CONSTANTS
  Entry,    \* certificate entries the log accepts
  Null,     \* the null_entry at index zero
  NoBody,   \* marks a pruned entry body
  MaxSize   \* bound: entries in the log

ASSUME NullIsNoCertificate == Null \notin Entry /\ NoBody \notin Entry \cup {Null}

VARIABLES
  log,   \* the log in memory, or Nothing after a crash
  file,  \* the state file: a log, Torn, or Nothing
  step,  \* the writer: "idle", "saving" or "down"
  view   \* the log the publisher has loaded, or Nothing

vars == <<log, file, step, view>>

\* No log, and a file cut short.  `history` is no part of the program: it
\* remembers the entries behind the bodies and hashes for the properties.
Nothing == [bodies |-> <<>>, tree |-> EmptyTree, minimum |-> 0, history |-> <<>>]
Torn    == [Nothing EXCEPT !.minimum = -1]

Readable(l) == l # Nothing /\ l # Torn

-----------------------------------------------------------------------------
\* append of an accepted entry: the body is stored, its hash joins the tree.
Appended(l, e) ==
  [l EXCEPT !.bodies  = Append(@, e),
            !.tree    = AppendLeaf(@, HashLeaf(e)),
            !.history = Append(@, e)]

\* IssuanceLog.new: index zero holds the null entry.
NewLog == Appended(Nothing, Null)

Init == log = NewLog /\ file = Nothing /\ step = "idle" /\ view = Nothing

\* append: only index zero may be a null entry, and an entry of a type the CA
\* does not recognise or for another log is refused.  (A missing right edge
\* would raise half way; AppendNeverFails says that it is never missing.)
AppendEntry(e) ==
  /\ step = "idle"
  /\ Len(log.bodies) < MaxSize
  /\ CanAppend(log.tree)
  /\ log' = Appended(log, e)
  /\ UNCHANGED <<file, step, view>>

-----------------------------------------------------------------------------
\* Slip: the entry at the new minimum is dropped with those below it.
PruneBelowInclusive(bodies, k) ==
  [i \in DOMAIN bodies |-> IF i - 1 <= k THEN NoBody ELSE bodies[i]]

\* EntryStorage.prune_below.
PruneBelow(bodies, k) == [i \in DOMAIN bodies |-> IF i - 1 < k THEN NoBody ELSE bodies[i]]

\* Slip: every leaf below the minimum goes, also the right edge.
PruneLeavesUnprotected(tree, k) ==
  [tree EXCEPT !.leaves = [i \in DOMAIN tree.leaves |->
     IF i - 1 < k THEN Unavailable ELSE tree.leaves[i]]]

\* prune_leaves_below: a leaf hash goes when its parent node is stored and it
\* is not itself one of the nodes the current tree consists of.
PruneLeavesBelow(tree, k) ==
  LET refs      == NodesForTreeSize(Size(tree))
      protected == { refs[r].index : r \in { q \in DOMAIN refs : refs[q].level = 0 } }
  IN  [tree EXCEPT !.leaves = [i \in DOMAIN tree.leaves |->
         IF i - 1 < k /\ i - 1 \notin protected /\ HasNode(tree, 1, (i - 1) \div 2)
         THEN Unavailable ELSE tree.leaves[i]]]

\* apply_pruning: only physical pruning drops anything.
Pruned(l, k, physical) ==
  IF physical
  THEN [l EXCEPT !.bodies = PruneBelow(@, k), !.tree = PruneLeavesBelow(@, k)]
  ELSE l

\* Slip: the minimum index may pass the end of the log.
PrunePastTheEnd(k, physical) ==
  /\ step = "idle"
  /\ log.minimum <= k
  /\ k <= Size(log.tree) + 1
  /\ log' = [Pruned(log, k, physical) EXCEPT !.minimum = k]
  /\ UNCHANGED <<file, step, view>>

\* prune(k): the minimum index moves forward; physical pruning also drops
\* the bodies and leaf hashes below it.
Prune(k, physical) ==
  /\ step = "idle"
  /\ log.minimum <= k
  /\ k <= Size(log.tree)
  /\ log' = [Pruned(log, k, physical) EXCEPT !.minimum = k]
  /\ UNCHANGED <<file, step, view>>

-----------------------------------------------------------------------------
\* Slip: only the highest node of the right edge is found again.
RebuildHighest(tree) ==
  LET refs == NodesForTreeSize(Size(tree))
  IN  [tree EXCEPT !.pending = [l \in 1 .. Len(tree.levels) + 2 |->
         IF l - 1 = refs[1].level THEN Node(tree, refs[1].level, refs[1].index)
         ELSE Unavailable]]

\* MerkleTree.from_state / _rebuild_pending: the right edge is not stored but
\* read off the nodes the tree consists of.
RebuildPending(tree) ==
  LET refs == NodesForTreeSize(Size(tree))
  IN  [tree EXCEPT !.pending = [l \in 1 .. Len(tree.levels) + 2 |->
         IF \E r \in DOMAIN refs : refs[r].level = l - 1
         THEN LET r == CHOOSE r \in DOMAIN refs : refs[r].level = l - 1
              IN  Node(tree, refs[r].level, refs[r].index)
         ELSE Unavailable]]

\* IssuanceLog.load raises on a torn file, on a tree and storage of different
\* sizes, and when a right edge node is gone.
CanLoad(l) ==
  /\ Readable(l)
  /\ Size(l.tree) = Len(l.bodies)
  /\ LET refs == NodesForTreeSize(Size(l.tree))
     IN  \A r \in DOMAIN refs : HasNode(l.tree, refs[r].level, refs[r].index)

Loaded(l) == [l EXCEPT !.tree = RebuildPending(@)]

\* to_state leaves the right edge out.
Stored(l) == [l EXCEPT !.tree.pending = <<>>]

\* save, first half: open(path, "w") truncates the file.
BeginSave ==
  /\ step = "idle"
  /\ step' = "saving"
  /\ file' = Torn
  /\ UNCHANGED <<log, view>>

\* save, second half: the state is written.
EndSave ==
  /\ step = "saving"
  /\ step' = "idle"
  /\ file' = Stored(log)
  /\ UNCHANGED <<log, view>>

\* The writer's process dies.
Crash ==
  /\ step # "down"
  /\ step' = "down"
  /\ log' = Nothing
  /\ UNCHANGED <<file, view>>

\* Slip: a file that cannot be read is treated like a missing one.
RestartAnyway ==
  /\ step = "down"
  /\ step' = "idle"
  /\ log' = IF CanLoad(file) THEN Loaded(file) ELSE NewLog
  /\ UNCHANGED <<file, view>>

\* The writer is started again: it loads the file, or starts a new log if
\* there never was one.  With a torn file it cannot start.
Restart ==
  /\ step = "down"
  /\ step' = "idle"
  /\ \/ file = Nothing /\ log' = NewLog
     \/ CanLoad(file) /\ log' = Loaded(file)
  /\ UNCHANGED <<file, view>>

\* FilesystemPublisher: opened or refreshed; load raises on a torn file and
\* the publisher goes on serving what it had.
Refresh ==
  /\ CanLoad(file)
  /\ view' = Loaded(file)
  /\ UNCHANGED <<log, file, step>>

Next ==
  \/ \E e \in Entry : AppendEntry(e)
  \/ \E k \in 0 .. MaxSize, physical \in BOOLEAN : Prune(k, physical)
  \/ BeginSave
  \/ EndSave
  \/ Crash
  \/ Restart
  \/ Refresh

Spec == Init /\ [][Next]_vars
-----------------------------------------------------------------------------
\* The availability rules of log/parameters.py.
EntryAvailable(l, i) == l.minimum <= i /\ i < Size(l.tree)
CheckpointAvailable(l, n) == 0 < n /\ n <= Size(l.tree) /\ l.minimum < n
SubtreeAvailable(l, s, e) == IsValidSubtree(s, e) /\ e <= Size(l.tree) /\ l.minimum < e

(* LogPublisher: the answer to a request, or no answer where it raises.    *)

Answer(permitted, value) == IF permitted THEN {value} ELSE {}

HashAnswer(permitted, hash) == Answer(permitted, hash) \ {Unavailable}

ProofAnswer(permitted, proof) == { p \in Answer(permitted, proof) : Served(p) }

GetEntry(l, i) == Answer(EntryAvailable(l, i), l.bodies[i + 1]) \ {NoBody}

\* The tree sizes of list_checkpoints, and a node of the tree.
ListCheckpoints(l) == { n \in 1 .. Size(l.tree) : CheckpointAvailable(l, n) }

GetNode(l, level, index) ==
  HashAnswer((level = 0 => EntryAvailable(l, index)) /\ HasNode(l.tree, level, index),
             Node(l.tree, level, index))

\* iter_available_entries, as pairs of index and body.
AvailableEntries(l) ==
  { <<i, l.bodies[i + 1]>> : i \in { j \in l.minimum .. Size(l.tree) - 1 : l.bodies[j + 1] # NoBody } }

GetCheckpointHash(l, n) == HashAnswer(CheckpointAvailable(l, n), RootAt(l.tree, n))

GetInclusionProof(l, i, n) ==
  ProofAnswer(CheckpointAvailable(l, n) /\ EntryAvailable(l, i) /\ i < n,
              InclusionProof(l.tree, i, 0, n))

GetConsistencyProof(l, m, n) ==
  ProofAnswer(CheckpointAvailable(l, m) /\ CheckpointAvailable(l, n) /\ m <= n,
              ConsistencyProof(l.tree, 0, m, n))

GetSubtreeHash(l, s, e) == HashAnswer(SubtreeAvailable(l, s, e), SubtreeHash(l.tree, s, e))

GetSubtreeInclusionProof(l, i, s, e) ==
  ProofAnswer(SubtreeAvailable(l, s, e) /\ EntryAvailable(l, i) /\ s <= i /\ i < e,
              InclusionProof(l.tree, i, s, e))

GetSubtreeConsistencyProof(l, s, e, n) ==
  ProofAnswer(SubtreeAvailable(l, s, e) /\ CheckpointAvailable(l, n) /\ e <= n,
              ConsistencyProof(l.tree, s, e, n))

\* covering_subtrees: the cover of an interval with its hashes.
CoveringSubtrees(l, s, e) ==
  LET cover  == Cover(s, e)
      hashes == [k \in DOMAIN cover |-> SubtreeHash(l.tree, cover[k].start, cover[k].end)]
  IN  { h \in Answer(e <= Size(l.tree) /\ s < e, hashes) : Unavailable \notin Range(h) }

(* The log checks its own proofs against the hashes it computes itself.    *)

LeafHash(l, i) == l.tree.leaves[i + 1]

VerifyInclusionProof(l, i, n) ==
  VerifyInclusion(i, 0, n, LeafHash(l, i), InclusionProof(l.tree, i, 0, n), RootAt(l.tree, n))

VerifyConsistencyProof(l, m, n) ==
  VerifyTreeConsistency(m, n, RootAt(l.tree, m), RootAt(l.tree, n), ConsistencyProof(l.tree, 0, m, n))

VerifySubtreeInclusionProof(l, i, s, e) ==
  VerifyInclusion(i, s, e, LeafHash(l, i), InclusionProof(l.tree, i, s, e), SubtreeHash(l.tree, s, e))

VerifySubtreeConsistencyProof(l, s, e, n) ==
  VerifySubtreeConsistency(s, e, n, SubtreeHash(l.tree, s, e),
                           ConsistencyProof(l.tree, s, e, n), RootAt(l.tree, n))

\* self_check(deep=True) does not raise: all available bodies are stored and
\* the roots follow from the leaf hashes before the first pruned one.
SelfCheck(l) ==
  LET leaves == l.tree.leaves
      pruned == { i \in DOMAIN leaves : leaves[i] = Unavailable }
  IN  /\ Size(l.tree) = Len(l.bodies)
      /\ l.minimum <= Size(l.tree)
      /\ IF l.bodies[1] = NoBody THEN l.minimum # 0 ELSE l.bodies[1] = Null
      /\ \A i \in l.minimum .. Size(l.tree) - 1 : l.bodies[i + 1] # NoBody
      /\ \A n \in DOMAIN leaves :
           pruned \cap (1 .. n) = {} =>
             RootAt(l.tree, n) = MTH([i \in 1 .. n |-> leaves[i][1]])

\* What the writer and the publisher serve.
Serving == { l \in {log, view} : Readable(l) }

Segment(l, s, e) == SubSeq(l.history, s + 1, e)

TypeOK ==
  /\ step \in {"idle", "saving", "down"}
  /\ (step = "down") = (log = Nothing)
  /\ \A l \in {log, view} \cup { f \in {file} : f # Torn } :
       /\ l.history \in Seq(Entry \cup {Null})
       /\ l.bodies \in Seq(Entry \cup {Null, NoBody})
       /\ Len(l.bodies) = Len(l.history)
       /\ Size(l.tree) = Len(l.history)
       /\ l.minimum \in 0 .. Len(l.history)

\* publish.py items 4, 7 and 8, tiles, and the log's own checks of its proofs:
\* all of them succeed as long as nothing was pruned physically.
EverythingServed(l) ==
  \A n \in 1 .. Size(l.tree) : \A m \in 0 .. n - 1 :
      /\ EntryAvailable(l, m) => GetNode(l, 0, m) = {HashLeaf(l.history[m + 1])}
      /\ EntryAvailable(l, m) /\ CheckpointAvailable(l, n) => GetInclusionProof(l, m, n) # {}
      /\ VerifyInclusionProof(l, m, n)
      /\ m > 0 => VerifyConsistencyProof(l, m, n)
      /\ IsValidSubtree(m, n) => \A i \in m .. n - 1 :
           /\ EntryAvailable(l, i) => GetSubtreeInclusionProof(l, i, m, n) # {}
           /\ VerifySubtreeInclusionProof(l, i, m, n)
      /\ \A s \in 0 .. m - 1 : IsValidSubtree(s, m) =>
           /\ SubtreeAvailable(l, s, m) => GetSubtreeConsistencyProof(l, s, m, n) # {}
           /\ VerifySubtreeConsistencyProof(l, s, m, n)

\* publish.py item 2: an available entry has its body.
EntriesServed(l) ==
  \A i \in 0 .. Size(l.tree) - 1 :
    EntryAvailable(l, i) =>
      /\ GetEntry(l, i) = {l.history[i + 1]}
      /\ <<i, l.history[i + 1]>> \in AvailableEntries(l)

\* So it is through any number of prunings, restarts and reloads; everything
\* else is served, too, until the first physical pruning; and the log's own
\* self check never raises.
AvailableEntriesServed ==
  \A l \in Serving :
    /\ SelfCheck(l)
    /\ NoBody \notin Range(l.bodies) => EverythingServed(l)
    /\ EntriesServed(l)

\* The next append always finds the right edge it has to merge with, also
\* after leaf hashes were pruned and the edge was rebuilt from a file
\* ("a complete log never hits this", tree.py).
AppendNeverFails == step = "idle" => CanAppend(log.tree)

\* A restart or a refresh never fails on a completely written file.
WrittenFileLoads == Readable(file) => CanLoad(file)

\* "No historical root changes": whatever was pruned and reloaded, a root is
\* the one the entries always had or, after physical pruning, cannot be
\* computed; and without physical pruning it can.
NoRootChanges ==
  \A l \in Serving : \A n \in 1 .. Size(l.tree) :
    LET root == RootAt(l.tree, n)
    IN  /\ root \in {MTH(Segment(l, 0, n)), Unavailable}
        /\ root = Unavailable => NoBody \in Range(l.bodies)

\* publish.py item 3: the hashes of available checkpoints, and the current
\* root, which the CA signs next.
RootsServed(l) ==
  \A n \in 1 .. Size(l.tree) :
    LET root == MTH(Segment(l, 0, n))
    IN  /\ n = Size(l.tree) => RootAt(l.tree, n) = root
        /\ n \in ListCheckpoints(l) => GetCheckpointHash(l, n) = {root}

\* publish.py items 3, 5 and 6 also after physical pruning: the hashes of
\* available checkpoints and subtrees, and consistency proofs between
\* available checkpoints.  The current root is always there; and as long as a
\* checkpoint is available, a job that starts from it finds its proof and its
\* covering subtrees.
CheckpointsServed ==
  \A l \in Serving :
    /\ RootsServed(l)
    /\ \A n \in 1 .. Size(l.tree) : \A m \in 0 .. n - 1 :
         /\ SubtreeAvailable(l, m, n) => GetSubtreeHash(l, m, n) = {MTH(Segment(l, m, n))}
         /\ m \in ListCheckpoints(l) =>
              /\ CoveringSubtrees(l, m, n) # {}
              /\ \E proof \in GetConsistencyProof(l, m, n) :
                   VerifyTreeConsistency(m, n, MTH(Segment(l, 0, m)), MTH(Segment(l, 0, n)), proof)

\* publish.py item 4: "an inclusion proof for any available entry to any
\* containing checkpoint".
InclusionServed ==
  \A l \in Serving : \A n \in 1 .. Size(l.tree) : \A i \in 0 .. n - 1 :
    EntryAvailable(l, i) /\ CheckpointAvailable(l, n) => GetInclusionProof(l, i, n) # {}

\* Whoever follows the published log never sees it roll back or change,
\* although the writer crashes, loses entries and goes on from its file.
PublisherNeverRollsBack ==
  [][ /\ IsPrefix(view.history, view'.history)
      /\ view.minimum <= view'.minimum ]_view
=============================================================================
