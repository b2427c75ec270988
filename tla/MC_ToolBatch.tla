---------------------------- MODULE MC_ToolBatch ----------------------------
(* One file: two reads at once, an edit asked for before a read, an edit of *)
(* what was just written.                                                   *)
EXTENDS ToolBatch

CONSTANTS code

Read(x) == [kind |-> "read", file |-> x]
Edit(x) == [kind |-> "edit", file |-> x]
Overwrite(x) == [kind |-> "write", file |-> x]

MCBatches == {<<Read(code), Read(code)>>, <<Edit(code), Read(code)>>, <<Overwrite(code), Edit(code)>>}
=============================================================================
