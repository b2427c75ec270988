------------------------- MODULE MC_AroundTheBridge -------------------------
(***************************************************************************)
(* What a bridge has around its routes: the two agent lanes, the workspace *)
(* pages, the commands that run it in the background, and the React hooks  *)
(* of a page that talks to it. They share no state (the session stores     *)
(* keep a directory per backend), so one part at a time is checked: which  *)
(* one is chosen with the initial state.                                   *)
(***************************************************************************)
EXTENDS LocalLane, CursorLane, Workspaces, ReactHooks, Daemon, TLC

VARIABLE part

Parts == {"cursor-cloud", "local-agent", "workspaces", "react", "daemon"}

MCInit == part \in Parts /\ LocalInit /\ CursorInit /\ WorkspaceInit /\ HooksInit /\ DaemonInit

CursorStep == part = "cursor-cloud" /\ CursorNext /\ UNCHANGED <<part, localVars, workspaceVars, hookVars, daemonVars>>
LocalStep == part = "local-agent" /\ LocalNext /\ UNCHANGED <<part, cursorVars, workspaceVars, hookVars, daemonVars>>
WorkspaceStep == part = "workspaces" /\ WorkspaceNext /\ UNCHANGED <<part, localVars, cursorVars, hookVars, daemonVars>>
HooksStep == part = "react" /\ HooksNext /\ UNCHANGED <<part, localVars, cursorVars, workspaceVars, daemonVars>>
DaemonStep == part = "daemon" /\ DaemonNext /\ UNCHANGED <<part, localVars, cursorVars, workspaceVars, hookVars>>

MCNext == CursorStep \/ LocalStep \/ WorkspaceStep \/ HooksStep \/ DaemonStep

MCSpec == MCInit /\ [][MCNext]_<<part, localVars, cursorVars, workspaceVars, hookVars, daemonVars>>

Symmetry == Permutations(Runs) \cup Permutations(Turns)
=============================================================================
