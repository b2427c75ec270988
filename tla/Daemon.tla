------------------------------- MODULE Daemon -------------------------------
(***************************************************************************)
(* The commands that manage the bridge in the background (bridge           *)
(* --background, status, stop, front), each a process of its own, the pid  *)
(* file they share, and the processes it names. Bridges end by themselves, *)
(* the system may give a free pid to a stranger, and commands overlap      *)
(* when two terminals are used.                                            *)
(***************************************************************************)
EXTENDS Naturals, FiniteSets

CONSTANTS
    Pids,       \* process ids
    Commands,   \* commands typed
    NoPid

ASSUME DaemonAssumption == NoPid \notin Pids

VARIABLES
    pidFile,    \* the tracked pid, or NoPid
    procs,      \* per pid: "free", "starting", "serving", "ending" or "stranger"
    front,      \* a bridge runs in a terminal: "no", "waiting for the port", "serving"
    cmd,        \* per command: where it stands, and the pid it works on
    together,   \* history: two commands were under way together
    reused      \* history: a pid was given to a stranger while the file or a command named it

daemonVars == <<pidFile, procs, front, cmd, together, reused>>

DaemonInit ==
    /\ pidFile = NoPid /\ procs = [p \in Pids |-> "free"] /\ front = "no"
    /\ cmd = [c \in Commands |-> [at |-> "new", pid |-> NoPid]]
    /\ together = FALSE /\ reused = FALSE

isRunning(p) == p \in Pids /\ procs[p] # "free"
Tracked == isRunning(pidFile)
Responding == front = "serving" \/ \E p \in Pids : procs[p] = "serving"

UnderWay(c) == cmd[c].at \notin {"new", "over"}

\* A command moves on; two that are under way together have crossed.
Move(c, at, p) ==
    /\ cmd' = [cmd EXCEPT ![c] = [at |-> at, pid |-> p]]
    /\ together' = (together \/ (at # "over" /\ \E d \in Commands \ {c} : UnderWay(d)))

\* A command that is over at once also touches the file beside the others.
Alone(c) == \A d \in Commands \ {c} : ~UnderWay(d)
Done(c) ==
    /\ cmd' = [cmd EXCEPT ![c].at = "over"]
    /\ together' = (together \/ ~Alone(c))

-----------------------------------------------------------------------------
(* bridge --background *)

\* A tracked bridge ends the command; otherwise the address is probed.
StartBackground(c) ==
    /\ cmd[c].at = "new"
    /\ IF Tracked THEN Done(c) ELSE Move(c, "probing", NoPid)
    /\ UNCHANGED <<pidFile, procs, front, reused>>

\* The probe settles; an untracked bridge that answers is left alone, and the
\* file is looked at once more.
ProbeSettles(c) ==
    /\ cmd[c].at = "probing"
    /\ IF Responding \/ Tracked THEN Done(c) ELSE Move(c, "spawning", NoPid)
    /\ UNCHANGED <<pidFile, procs, front, reused>>

Spawn(c, p) ==
    /\ cmd[c].at = "spawning" /\ procs[p] = "free"
    /\ procs' = [procs EXCEPT ![p] = "starting"] /\ pidFile' = p
    /\ Move(c, "waiting", p)
    /\ UNCHANGED <<front, reused>>

\* waitForReady ends: the process is gone (the pid file goes too), the time is
\* up, or a bridge answers, which need not be this one.
Waited(c) ==
    /\ cmd[c].at = "waiting"
    /\ \/ ~isRunning(cmd[c].pid) /\ pidFile' = NoPid
       \/ (isRunning(cmd[c].pid) \/ Responding) /\ UNCHANGED pidFile
    /\ Done(c)
    /\ UNCHANGED <<procs, front, reused>>

-----------------------------------------------------------------------------
(* stop and front *)

Ended(p) == IF procs[p] \in {"starting", "serving"} THEN "ending" ELSE "free"

\* SIGTERM to the tracked process; a stale file is removed.
StopBackground(c, next) ==
    /\ cmd[c].at = "new"
    /\ \/ /\ Tracked
          /\ procs' = [procs EXCEPT ![pidFile] = Ended(pidFile)]
          /\ Move(c, next, pidFile)
          /\ UNCHANGED <<pidFile, front, reused>>
       \/ /\ ~Tracked
          /\ pidFile' = NoPid
          /\ front' = IF next = "fronting" /\ front = "no" THEN "waiting for the port" ELSE front
          /\ Done(c)
          /\ UNCHANGED <<procs, reused>>

\* Removes the file and leaves the process to end when it will.
StopEndsEarly(c) ==
    /\ cmd[c].at \in {"stopping", "fronting"}
    /\ pidFile' = NoPid
    /\ front' = IF cmd[c].at = "fronting" /\ front = "no" THEN "waiting for the port" ELSE front
    /\ Done(c)
    /\ UNCHANGED <<procs, reused>>

\* The process is gone, or killed after two seconds; then the file goes, and
\* front runs the bridge in its terminal.
StopEnds(c) ==
    /\ cmd[c].at \in {"stopping", "fronting"}
    /\ procs' = [procs EXCEPT ![cmd[c].pid] = "free"]
    /\ pidFile' = NoPid
    /\ front' = IF cmd[c].at = "fronting" /\ front = "no" THEN "waiting for the port" ELSE front
    /\ Done(c)
    /\ UNCHANGED reused

-----------------------------------------------------------------------------
(* status *)

\* A file without a live process is removed, after a probe of the address.
StatusProbes(c) ==
    /\ cmd[c].at = "new" /\ ~Tracked
    /\ Move(c, "cleaning", NoPid)
    /\ UNCHANGED <<pidFile, procs, front, reused>>

StatusCleans(c) ==
    /\ cmd[c].at = "cleaning"
    /\ pidFile' = NoPid
    /\ Done(c)
    /\ UNCHANGED <<procs, front, reused>>

-----------------------------------------------------------------------------
(* Processes *)

\* A bridge binds the port, or ends because another has it; one that is ending
\* may have given it back.
Bind(p) ==
    /\ procs[p] = "starting"
    /\ \/ ~Responding /\ procs' = [procs EXCEPT ![p] = "serving"]
       \/ (Responding \/ \E q \in Pids : procs[q] = "ending") /\ procs' = [procs EXCEPT ![p] = "free"]
    /\ UNCHANGED <<pidFile, front, cmd, together, reused>>

BindFront ==
    /\ front = "waiting for the port"
    /\ front' = IF Responding THEN "no" ELSE "serving"
    /\ UNCHANGED <<pidFile, procs, cmd, together, reused>>

FrontEnds == front = "serving" /\ front' = "no" /\ UNCHANGED <<pidFile, procs, cmd, together, reused>>

Exit(p) ==
    /\ procs[p] # "free"
    /\ procs' = [procs EXCEPT ![p] = "free"]
    /\ UNCHANGED <<pidFile, front, cmd, together, reused>>

Reuse(p) ==
    /\ procs[p] = "free"
    /\ procs' = [procs EXCEPT ![p] = "stranger"]
    /\ reused' = (reused \/ pidFile = p \/ \E c \in Commands : UnderWay(c) /\ cmd[c].pid = p)
    /\ UNCHANGED <<pidFile, front, cmd, together>>

DaemonNext ==
    \/ \E c \in Commands : StartBackground(c) \/ ProbeSettles(c) \/ Waited(c) \/ StopEnds(c) \/ StatusProbes(c) \/ StatusCleans(c)
    \/ \E c \in Commands, p \in Pids : Spawn(c, p)
    \/ \E c \in Commands, next \in {"stopping", "fronting"} : StopBackground(c, next)
    \/ \E p \in Pids : Bind(p) \/ Exit(p) \/ Reuse(p)
    \/ BindFront \/ FrontEnds

-----------------------------------------------------------------------------
(* Properties *)

Bridges == {p \in Pids : procs[p] \in {"starting", "serving", "ending"}}

\* While the commands are typed one after another and no pid was given away,
\* there is one background bridge at most, and it is the one the file names.
OneTrackedBridge == ~together /\ ~reused => Bridges \subseteq {pidFile}

=============================================================================
