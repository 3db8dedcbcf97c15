------------------------ MODULE MCCheckpointIssuance ------------------------
(* The issuance pipeline with three external cosigners, asked in order.    *)
EXTENDS CheckpointIssuance

CONSTANTS w1, w2, w3

MCClients == <<w1, w2, w3>>
=============================================================================
