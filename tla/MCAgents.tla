------------------------------ MODULE MCAgents ------------------------------
(* Two agents on the bus, two team names, two agent types.                *)
EXTENDS Agents

CONSTANTS a1, a2, n1, n2, coder, tester

MCAgent == {a1, a2}
MCTeamName == {n1, n2}
MCType == {coder, tester}
=============================================================================
