---------------------------- MODULE MCAgentTask ----------------------------
(* One plan for a review issue; it rewrites two files.                      *)
EXTENDS AgentTask
CONSTANTS p1, i1, f1, f2
MCIssuesOf == [p \in {p1} |-> {i1}]
MCAffected == [p \in {p1} |-> {f1, f2}]
=============================================================================
