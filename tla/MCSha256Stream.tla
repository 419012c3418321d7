---------------------------- MODULE MCSha256Stream ----------------------------
(* An instance of Sha256Stream for TLC. *)
EXTENDS Sha256Stream
\* Every length up to two blocks and a byte.
MCChunks == 0 .. 2 * BLOCK_SZ + 1
===============================================================================
