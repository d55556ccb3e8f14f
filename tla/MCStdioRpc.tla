----------------------------- MODULE MCStdioRpc -----------------------------
(* StdioRpc for each of the three clients.                                *)
EXTENDS StdioRpc
=============================================================================
