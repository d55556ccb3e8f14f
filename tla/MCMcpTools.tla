----------------------------- MODULE MCMcpTools -----------------------------
(* Two servers, named 1 and 2.  Whether a server is enabled makes a        *)
(* difference to connect_all alone, so SSE servers are.                    *)
EXTENDS McpTools

CONSTANTS t1, t2

MCServer == {1, 2}
MCTool == {t1, t2}
MCConfig == { c \in Configurations : c.transport = "stdio" \/ c.enabled }
SymTools == Permutations(MCTool)
=============================================================================
