--------------------------- MODULE MCQueryEngine ---------------------------
(* A small instance of QueryEngine: batches of zero, one and two calls,   *)
(* two iterations of the loop, histories that hold two whole queries.     *)
EXTENDS QueryEngine

CONSTANTS a, b

MCCallId == {a, b}
MCBatches == {<<>>, <<a, b>>}
MCReplyRoles == {"User", "System"}
MCOptionLists == { <<UserMessage>> }
MCKeeps == {1, 3}
=============================================================================
