-------------------------- MODULE MCSessionManager --------------------------
(* Two clients and three sessions: a client can leave a session behind,    *)
(* and come back to it, while the other one is in a third.                 *)
EXTENDS SessionManager

CONSTANTS c1, c2, s1, s2, s3

MCClient == {c1, c2}
MCSession == {s1, s2, s3}
=============================================================================
