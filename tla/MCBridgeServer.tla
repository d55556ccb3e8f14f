--------------------------- MODULE MCBridgeServer ---------------------------
(* BridgeServer with two starts, so that what one run of the server leaves *)
(* behind is met by the next.                                              *)
EXTENDS BridgeServer
=============================================================================
