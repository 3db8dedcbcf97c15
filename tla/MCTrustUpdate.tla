---------------------------- MODULE MCTrustUpdate ----------------------------
(* Every history of two kinds of certificates up to MaxSize entries, every  *)
(* landmark sequence over it, a deployment that changes its policy once.    *)
EXTENDS TrustUpdate

CONSTANTS Null, CertEntries, MaxSize

MCEntry == CertEntries \cup {Null}

MCHeads == {h \in SeqOf(MCEntry, MaxSize) :
              h # << >> /\ h[1] = Null /\ \A i \in 2 .. Len(h) : h[i] # Null}

MCSequences == {<<0>> \o SetToSortSeq(s, <) : s \in SUBSET (1 .. MaxSize)}

MCConfigurations ==
  {[cosigners |-> {"ca", "w1", "w2"}, ca |-> {"ca"}, witnesses |-> {"w1", "w2"}, threshold |-> 1],
   [cosigners |-> {"ca", "w1", "w2"}, ca |-> {"ca"}, witnesses |-> {"w1", "w2"}, threshold |-> 2]}

ASSUME ConfigurationsAreValid == \A c \in MCConfigurations : IsConfiguration(c)

MCSignerSets == {{"ca", "w1"}, {"ca", "w1", "w2"}, {"w1", "w2"}, {"ca", "unknown"}}

MCRanges == {Interval(1, 2), Interval(1, 4), Interval(2, 3)}
=============================================================================
