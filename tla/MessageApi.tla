----------------------------- MODULE MessageApi -----------------------------
(***************************************************************************)
(* What the query engine relies on when it calls the API client, without   *)
(* how the client does it: a call makes a bounded number of HTTP requests  *)
(* and comes back with exactly one outcome; tools are asked for only by a  *)
(* call that reached the server.  StreamClient implements this module.     *)
(***************************************************************************)
EXTENDS Naturals

CONSTANT MaxTries       \* HTTP requests one call may make

VARIABLES
    phase,      \* "idle" or "calling"
    tries,      \* HTTP requests the current or last call has made
    outcome     \* how the last call ended; "none" during a call

apiVars == <<phase, tries, outcome>>

ApiInit == phase = "idle" /\ tries = 0 /\ outcome = "none"

Call == /\ phase = "idle"
        /\ phase' = "calling"
        /\ tries' = 0
        /\ outcome' = "none"

\* A call is turned away because an earlier one is thought to be running.
Refuse == phase = "idle" /\ outcome' = "error" /\ UNCHANGED <<phase, tries>>

Try == /\ phase = "calling"
       /\ tries < MaxTries
       /\ tries' = tries + 1
       /\ UNCHANGED <<phase, outcome>>

Return == /\ phase = "calling"
          /\ phase' = "idle"
          /\ outcome' \in {"reply", "tools", "error", "thrown"}
          /\ outcome' = "tools" => tries > 0
          /\ UNCHANGED tries

ApiNext == Call \/ Refuse \/ Try \/ Return

ApiSafe == ApiInit /\ [][ApiNext]_apiVars

\* Every call ends.
ApiSpec == ApiSafe /\ WF_apiVars(Return)
=============================================================================
