---------------------------- MODULE MCBuildRing ----------------------------
(* Small instances of BuildRing for TLC. *)
EXTENDS BuildRing, TLC

\* behaviours without a fault, and behaviours in which machines go down and
\* packets do not get through
MCFaultSets == {{}, {"crash", "lost"}}

\* "node1" and "node10": the name of the first host begins that of the last one
MCPrefixes == [h \in 0 .. 4 |-> IF h = 1 THEN {1, 4} ELSE {h}]
MCNoPrefixes == [h \in 0 .. 2 |-> {h}]
MCNoFault == {{}}
=============================================================================
