----------------------------- MODULE MCHandshake -----------------------------
(* Two landmarks are retained (or one, which the allocation refuses), and time *)
(* suffices for a third: the first one retires.                                *)
EXTENDS Handshake
=============================================================================
