------------------------------ MODULE MCMonitor ------------------------------
(* Every history of two kinds of entries up to MaxSize. *)
EXTENDS Monitor

CONSTANTS Null, CertEntries, MaxSize

MCEntry == CertEntries \cup {Null}

MCHeads == {h \in SeqOf(MCEntry, MaxSize) :
              h # << >> /\ h[1] = Null /\ \A i \in 2 .. Len(h) : h[i] # Null}
=============================================================================
