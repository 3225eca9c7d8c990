------------------------- MODULE MCChunkReplication -------------------------
(* Symmetry of the clients for TLC.                                        *)
EXTENDS ChunkReplication, TLC

Perms == Permutations(Clients)
=============================================================================
