---------------------------- MODULE MCAgentWork ----------------------------
(* Instances of AgentWork for TLC: two actions, the second resting on the   *)
(* first, of which the model is unsure about none, the first or the second. *)
EXTENDS AgentWork, TLC

CONSTANTS c1, c2, k1, k2
MCConsumers == {c1, c2}
MCKeys == {k1, k2}
MCShapes == {[actions |-> {k1, k2}, unsure |-> u, needs |-> {<<k2, k1>>}]
                : u \in {{}, {k1}, {k2}}}
OneShape == {[actions |-> {k1}, unsure |-> {}, needs |-> {}]}
============================================================================
