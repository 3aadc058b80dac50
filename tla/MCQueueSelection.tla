-------------------------- MODULE MCQueueSelection --------------------------
(* QueueSelection with runs of each class for codex, which is serialized,  *)
(* two of them background, and one run for claude.                         *)
EXTENDS QueueSelection

CONSTANTS u1, n1, b1, b2, c1

MCPipelineOf == [r \in Runs |-> IF r = c1 THEN "claude" ELSE "codex"]

MCPriorityOf ==
  [r \in Runs |-> CASE r = u1 -> "urgent" [] r \in {b1, b2} -> "background" [] OTHER -> "normal"]

MCCeiling == [p \in {"codex"} |-> 1]

MCGrants == {Pipelines, {"codex"}}
=============================================================================
