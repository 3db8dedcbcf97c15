----------------------------- MODULE MCCosigner -----------------------------
(* Two callers, one stored state, every log of up to MaxSize entries that  *)
(* starts with the null entry, and every sound proof between such logs.    *)
EXTENDS Cosigner

CONSTANTS Null, MaxSize

MCCandidates == { s \in SeqOf(Entry, MaxSize) : Len(s) > 0 /\ s[1] = Null
                    /\ \A i \in 2 .. Len(s) : s[i] # Null }

MCProofs == { p \in [old : MCCandidates, new : MCCandidates] :
                IsStrictPrefix(p.old, p.new) }

\* The subtrees of every such log, and the proofs that place them in it.
MCIntervals == { i \in [start : 0 .. MaxSize - 1, end : 1 .. MaxSize] :
                   IsValidSubtree(i.start, i.end) }
MCSubtreeProofs ==
  UNION { { SubtreeProof(c, i, Len(c)) : i \in { j \in MCIntervals : j.end <= Len(c) } }
          : c \in MCCandidates }
MCSubtrees == { p.subtree : p \in MCSubtreeProofs }
=============================================================================
