--------------------------- MODULE MCStreamClient ---------------------------
(* StreamClient with three retries, two blocks, up to two deltas in each. *)
EXTENDS StreamClient
=============================================================================
