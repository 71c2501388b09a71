--------------------------- MODULE MCOrchestration ---------------------------
(* Small instances of Orchestration: an inn with two places and a road.    *)
EXTENDS Orchestration

MCSceneOf == [hall |-> "inn", yard |-> "inn", gate |-> "road"]
MCEntry == [inn |-> "hall", road |-> "gate"]

MCDecisions ==
  {[source |-> "preset", agent |-> TRUE, persistent |-> FALSE],
   [source |-> "generated", agent |-> TRUE, persistent |-> TRUE]}
=============================================================================
