-------------------------- MODULE MC_HarnessSession --------------------------
(* Two paths, one of them new; the same path changed twice, a command and a *)
(* delegation beside a write.                                               *)
EXTENDS HarnessSession

CONSTANTS a, b

W(p) == [kind |-> "write", path |-> p]
E(p) == [kind |-> "edit", path |-> p]
Bash(p) == [kind |-> "bash", path |-> p]
Agent(p) == [kind |-> "subagent", path |-> p]

MCBatches == {<<W(a), E(a)>>, <<W(b)>>, <<E(a), Agent(b)>>, <<E(a)>>, <<Bash(a)>>}
=============================================================================
