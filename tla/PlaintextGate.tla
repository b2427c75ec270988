----------------------------- MODULE PlaintextGate -----------------------------
(***************************************************************************)
(* The approval gate of the plaintext harness, harness/cli.ts: processes    *)
(* that run in workspaces and share the file of remembered approvals        *)
(* (harness/rules.ts). A call that changes something is labelled by the     *)
(* risk classifier (harness/risk.ts), and let pass, declined or put to the  *)
(* human (harness/readline.ts).                                             *)
(*                                                                         *)
(* A question has no timeout of its own: that of a call which was given up  *)
(* stays open, and as all questions of a process read one stdin, a line     *)
(* answers every open one. The classifier's model and the tools are data;   *)
(* what readline does with a line and with Ctrl-C is external.              *)
(***************************************************************************)
EXTENDS Integers, FiniteSets, Functions

CONSTANTS
  Procs, Workspaces,
  Calls,            (* the mutating calls a model may ask for                *)
  NoTarget,         (* the target of a call that cannot be remembered        *)
  Nowhere,          (* the workspace of a process that is not running       *)
  Modes,            (* of each process: "yes": --yes; "pipe": stdin is no terminal; "tty" *)
  Classified,       (* of each, whether --risk or --auto-approve-safe is given *)
  Budgeted,         (* toolTimeoutMs > 0                                     *)
  MaxLaunches, MaxCalls  (* bounds: processes started, calls of each          *)

Commands == {"bash", "run_command"}   (* their target is the command        *)
Edits == {"write", "write_file", "edit", "replace_file_content"}
Levels == {"safe", "caution"}         (* caution: dangerous as well          *)
Unclassified == "unclassified"        (* too late, an error, or no level    *)
Unlabelled == "none"                  (* no classifier                      *)

ASSUME GateAssumption ==
  /\ \A c \in Calls : {"tool", "target"} \subseteq DOMAIN c
  /\ Modes \in [Procs -> SUBSET {"yes", "pipe", "tty"}] /\ Classified \in [Procs -> SUBSET BOOLEAN]
  /\ Budgeted \in BOOLEAN /\ MaxLaunches \in Nat /\ MaxCalls \in [Procs -> Nat]

RuleKey(c) == <<c.tool, c.target>>
Memorable(c) == c.target # NoTarget
Keys == {RuleKey(c) : c \in {x \in Calls : Memorable(x)}}

VARIABLES
  rules,      (* approval-rules.json: the rules of each workspace            *)
  procs,      (* the processes                                              *)
  launches,   (* how many were started                                      *)
  consents    (* ghost: what was answered with p, and how                    *)

vars == <<rules, procs, launches, consents>>

\* What is shown of a call before the question: a command, a diff, a note in
\* place of a diff, or what another tool is told.
Shown == {"command", "diff", "note", "words"}
Unseen == "unseen"

\* buildApprovalPreview: of a write or an edit a diff, unless the file is large,
\* binary or unreadable, the change too long to compare, or there is none to show.
Previews(c) == IF c.tool \in Commands THEN {"command"} ELSE IF c.tool \in Edits THEN {"diff", "note"} ELSE {"words"}

\* by: what let a call pass. A closed question waits for the call's budget.
Open == {o \in [call : Calls, preview : Shown \cup {Unseen}, stage : {"gate", "answer", "widen", "closed", "runs"},
                live : BOOLEAN, by : {"none", "safe", "yes", "rule", "human"},
                label : Levels \cup {Unclassified, Unlabelled}] :
           o.preview \in IF o.stage = "gate" THEN {Unseen} ELSE Previews(o.call)}

\* The calls of a process are numbered; those that are open are kept by number.
Numbers == UNION {1..MaxCalls[p] : p \in Procs}
OpenCalls == UNION {[N -> Open] : N \in SUBSET Numbers}
NoneOpen == [i \in {} |-> i]

\* agreed is a ghost: the keys answered with a in this process.
Proc == [up : BOOLEAN, ws : Workspaces \cup {Nowhere}, mode : {"yes", "pipe", "tty"}, risk : BOOLEAN,
         workspace : SUBSET Keys, session : SUBSET Keys,
         cache : [Calls -> Levels \cup {Unclassified}],
         calls : Nat, open : OpenCalls, interrupts : 0..1,
         reviewed : SUBSET Calls, agreed : SUBSET Keys]

\* again: it was asked about a second time, or had a label.
Consent == [ws : Workspaces, key : Keys, again : BOOLEAN]

TypeOK ==
  /\ rules \in [Workspaces -> SUBSET Keys]
  /\ procs \in [Procs -> Proc]
  /\ launches \in 0..MaxLaunches
  /\ consents \subseteq Consent
  /\ \A p \in Procs : \A i, j \in DOMAIN procs[p].open :
       /\ i <= procs[p].calls
       /\ procs[p].open[i].live /\ procs[p].open[j].live => i = j

Ended == [up |-> FALSE, ws |-> Nowhere, mode |-> "pipe",
          risk |-> FALSE, workspace |-> {}, session |-> {}, cache |-> [c \in Calls |-> Unclassified],
          calls |-> 0, open |-> NoneOpen, interrupts |-> 0, reviewed |-> {}, agreed |-> {}]

Init ==
  /\ rules = [w \in Workspaces |-> {}]
  /\ procs = [p \in Procs |-> Ended]
  /\ launches = 0
  /\ consents = {}

-----------------------------------------------------------------------------
LaunchAnywhere(p) ==   \* mutant: the rules of every workspace are loaded
  /\ ~procs[p].up /\ launches < MaxLaunches
  /\ \E w \in Workspaces, mode \in Modes[p], risk \in Classified[p] :
       procs' = [procs EXCEPT ![p] = [Ended EXCEPT
                   !.up = TRUE, !.ws = w, !.mode = mode, !.risk = risk,
                   !.workspace = UNION {rules[x] : x \in Workspaces}]]
  /\ launches' = launches + 1
  /\ UNCHANGED <<rules, consents>>

\* A run begins: the rules of its workspace are loaded, or cannot be read.
Launch(p) ==
  /\ ~procs[p].up /\ launches < MaxLaunches
  /\ \E w \in Workspaces, mode \in Modes[p], risk \in Classified[p] :
       \E loaded \in {{}, rules[w]} :
         procs' = [procs EXCEPT ![p] = [Ended EXCEPT
                     !.up = TRUE, !.ws = w, !.mode = mode, !.risk = risk, !.workspace = loaded]]
  /\ launches' = launches + 1
  /\ UNCHANGED <<rules, consents>>

Waiting(p) == \E i \in DOMAIN procs[p].open : procs[p].open[i].live

With(open, n, o) == [i \in DOMAIN open \cup {n} |-> IF i = n THEN o ELSE open[i]]
Without(open, i) == Restrict(open, DOMAIN open \ {i})

Asked(c) == [call |-> c, preview |-> Unseen, stage |-> "gate", live |-> TRUE, by |-> "none", label |-> Unlabelled]

\* The model asks for a call that changes something; such calls run one at a time.
AsksFor(p, c) ==
  /\ procs[p].up /\ ~Waiting(p) /\ procs[p].calls < MaxCalls[p]
  /\ procs' = [procs EXCEPT ![p].calls = @ + 1,
                 ![p].open = With(@, procs[p].calls + 1, Asked(c))]
  /\ UNCHANGED <<rules, launches, consents>>

\* The classifier's verdict on call c: from its cache, from the model, or none.
VerdictsOn(p, c) ==
  IF ~procs[p].risk THEN {Unlabelled}
  ELSE IF procs[p].cache[c] # Unclassified THEN {procs[p].cache[c]}
  ELSE Levels \cup {Unclassified}

Remembered(p, c) == RuleKey(c) \in procs[p].session \cup procs[p].workspace

\* A label of another level than safe vetoes a rule.
ruleBlockedByRisk(label) == label = "caution"

RuleFirst(p, c, label) ==   \* mutant: a rule answers before the terminal is looked at
  IF label = "safe" THEN "safe"
  ELSE IF procs[p].mode = "yes" THEN "yes"
  ELSE IF Remembered(p, c) /\ ~ruleBlockedByRisk(label) THEN "rule"
  ELSE IF procs[p].mode = "pipe" THEN "declined" ELSE "ask"

\* The order of the checks is the policy.
Verdict(p, c, label) ==
  IF label = "safe" THEN "safe"
  ELSE IF procs[p].mode = "yes" THEN "yes"
  ELSE IF procs[p].mode = "pipe" THEN "declined"
  ELSE IF Remembered(p, c) /\ ~ruleBlockedByRisk(label) THEN "rule" ELSE "ask"

\* The call leaves the gate: it is asked about, declined, or approved; then it is
\* performed, unless it was given up.
Decided(open, i, preview, verdict, label) ==
  LET o == [open[i] EXCEPT !.preview = preview] IN
  CASE verdict = "ask" -> With(open, i, [o EXCEPT !.stage = "answer"])
    [] verdict \notin {"ask", "declined"} /\ o.live ->
         With(open, i, [o EXCEPT !.stage = "runs", !.by = verdict, !.label = label])
    [] OTHER -> Without(open, i)

\* recordChange, for the summary and the reviewer: what was shown as a diff, and
\* commands. It comes before the verdict, so that declined calls are recorded too.
Recorded(preview) == preview \in {"command", "diff"}

\* onApproval, from the preview and the label to its answer or its question.
Gate(p, i) ==
  LET open == procs[p].open  c == open[i].call IN
  /\ open[i].stage = "gate"
  /\ \E label \in VerdictsOn(p, c), preview \in Previews(c) :
       procs' = [procs EXCEPT
         ![p].cache[c] = IF label \in Levels THEN label ELSE @,
         ![p].reviewed = IF Recorded(preview) THEN @ \cup {c} ELSE @,
         ![p].open = Decided(@, i, preview, Verdict(p, c, label), label)]
  /\ UNCHANGED <<rules, launches, consents>>

-----------------------------------------------------------------------------
\* The answers of a line of the human's to an open question.
Asking(o) == o.stage \in {"answer", "widen"}

\* A command that no classifier has seen is asked about again before its rule
\* is persisted.
needsWideningConfirmation(p, c) == c.tool \in Commands /\ ~procs[p].risk

Widens(p, o, line) == o.stage = "answer" /\ line = "p" /\ needsWideningConfirmation(p, o.call)

Persists(p, o, line) ==
  /\ Memorable(o.call)
  /\ \/ o.stage = "widen" /\ line = "y"
     \/ o.stage = "answer" /\ line = "p" /\ ~needsWideningConfirmation(p, o.call)

LearnsHere(o, line) == Memorable(o.call) /\ o.stage = "answer" /\ line = "a"

Declines(o, line) == o.stage = "answer" /\ line = "n"

LeavesLateOn(p, o, line) ==   \* mutant: a late yes runs the call after all
  Asking(o) /\ ~Widens(p, o, line) /\ Declines(o, line)

\* An open call is over with the line if it is declined, or was given up meanwhile.
Leaves(p, o, line) ==
  Asking(o) /\ ~Widens(p, o, line) /\ (Declines(o, line) \/ ~o.live)

\* What it is otherwise: asked about again, or approved and performed.
AfterLine(p, o, line) ==
  IF ~Asking(o) THEN o
  ELSE IF Widens(p, o, line) THEN [o EXCEPT !.stage = "widen"]
  ELSE [o EXCEPT !.stage = "runs", !.by = "human"]

\* The file is replaced, as a whole, by what this process knows.
Persist(p, known, new) ==
  [w \in Workspaces |-> IF w = procs[p].ws THEN known \cup new ELSE {}]

Line(p, line) ==
  LET open == procs[p].open
      answered == {open[i] : i \in {j \in DOMAIN open : Asking(open[j])}}
      new == {RuleKey(o.call) : o \in {x \in answered : Persists(p, x, line)}}
      here == {RuleKey(o.call) : o \in {x \in answered : LearnsHere(x, line)}}
  IN
  /\ answered # {}
  /\ procs' = [procs EXCEPT
       ![p].open = [i \in {j \in DOMAIN open : ~Leaves(p, open[j], line)} |-> AfterLine(p, open[i], line)],
       ![p].session = @ \cup here, ![p].agreed = @ \cup here,
       ![p].workspace = @ \cup new]
  /\ \/ rules' = IF new = {} THEN rules ELSE Persist(p, procs[p].workspace, new)
     \/ UNCHANGED rules   \* it could not be written
  /\ consents' = consents \cup
       {[ws |-> procs[p].ws, key |-> RuleKey(o.call), again |-> o.stage = "widen" \/ procs[p].risk] : o \in {x \in answered : Persists(p, x, line)}}
  /\ UNCHANGED launches

-----------------------------------------------------------------------------
Perform(p, i) ==
  /\ procs[p].open[i].stage = "runs"
  /\ procs' = [procs EXCEPT ![p].open = Without(@, i)]
  /\ UNCHANGED <<rules, launches, consents>>

\* The call is given up: its gate or its question is not.
GivenUp(open) ==
  [i \in {j \in DOMAIN open : ~(open[j].live /\ open[j].stage \in {"runs", "closed"})} |->
     [open[i] EXCEPT !.live = FALSE]]

Timeout(p) ==
  /\ Budgeted /\ Waiting(p)
  /\ procs' = [procs EXCEPT ![p].open = GivenUp(@)]
  /\ UNCHANGED <<rules, launches, consents>>

End(p) == procs' = [procs EXCEPT ![p] = Ended]

\* Ctrl-C at a question closes it, and so every open one; nothing then keeps a
\* process alive whose call has no budget. Otherwise the first Ctrl-C gives up
\* the call under way, and the second ends the process.
Interrupt(p) ==
  LET open == procs[p].open  asking == \E i \in DOMAIN open : Asking(open[i]) IN
  /\ procs[p].up
  /\ \/ /\ asking /\ (Budgeted \/ \E i \in DOMAIN open : open[i].stage = "gate")
        /\ procs' = [procs EXCEPT ![p].open =
             [i \in {j \in DOMAIN open : Asking(open[j]) => open[j].live} |->
                IF Asking(open[i]) THEN [open[i] EXCEPT !.stage = "closed"] ELSE open[i]]]
     \/ /\ asking /\ ~Budgeted /\ \A i \in DOMAIN open : open[i].stage # "gate"
        /\ End(p)
     \/ /\ ~asking /\ procs[p].interrupts = 0
        /\ procs' = [procs EXCEPT ![p].interrupts = 1, ![p].open = GivenUp(@)]
     \/ ~asking /\ procs[p].interrupts = 1 /\ End(p)
  /\ UNCHANGED <<rules, launches, consents>>

\* The run is over; questions nobody waits for end with the process.
Exit(p) ==
  /\ procs[p].up /\ ~Waiting(p)
  /\ End(p)
  /\ UNCHANGED <<rules, launches, consents>>

Next ==
  \E p \in Procs :
    \/ Launch(p)
    \/ \E c \in Calls : AsksFor(p, c)
    \/ \E i \in DOMAIN procs[p].open : Gate(p, i) \/ Perform(p, i)
    \/ \E line \in {"y", "a", "p", "n"} : Line(p, line)
    \/ Timeout(p)
    \/ Interrupt(p)
    \/ Exit(p)

Spec == Init /\ [][Next]_vars

-----------------------------------------------------------------------------
Running(p) == {procs[p].open[i] : i \in {j \in DOMAIN procs[p].open : procs[p].open[j].stage = "runs"}}

(* "A rule remembered in one repository must not approve the same command   *)
(* in another": every rule on file, in a process that loaded it, or in one  *)
(* that learned it, was answered with p in its own workspace, or with a in  *)
(* this very process, for exactly that tool and target.                     *)
RulesComeFromAnswers ==
  LET Here(w) == {k.key : k \in {x \in consents : x.ws = w}} IN
  /\ \A w \in Workspaces : rules[w] \subseteq Here(w)
  /\ \A p \in Procs : procs[p].up => procs[p].workspace \subseteq Here(procs[p].ws)
                                     /\ procs[p].session \subseteq procs[p].agreed

(* A persisted command was confirmed a second time, or had been labelled:   *)
(* whichever process uses its rule later, and whoever answered other        *)
(* questions with the same line.                                            *)
CommandRulesAskedTwice ==
  \A w \in Workspaces : \A k \in rules[w] :
    k[1] \in Commands =>
      \E x \in consents : x.ws = w /\ x.key = k /\ x.again

(* Rules come from answers, in their workspace, and commands are asked
   about twice. *)
RulesAreSound ==
  TypeOK /\ RulesComeFromAnswers /\ CommandRulesAskedTwice

(* What passes unseen has its reason: --yes, a level of safe, or a rule that *)
(* no other level vetoes, answered by a human in this workspace and used at *)
(* a terminal, where a human could have been asked.                         *)
UnaskedCallsAreSound ==
  \A p \in Procs : \A o \in Running(p) :
    \/ o.by = "human" \/ (o.by = "yes" /\ procs[p].mode = "yes")
    \/ o.by = "safe" /\ procs[p].risk /\ o.label = "safe"
    \/ /\ o.by = "rule" /\ procs[p].mode = "tty" /\ o.label # "caution"
       /\ \/ RuleKey(o.call) \in procs[p].agreed
          \/ \E x \in consents : x.ws = procs[p].ws /\ x.key = RuleKey(o.call)

(* The reviewer is shown every command that is performed, and every other   *)
(* call of which the human saw a diff or, had anyone been asked, would have *)
(* seen one. What was shown as a note in place of a diff is missing.        *)
ReviewSeesChanges ==
  \A p \in Procs : \A o \in Running(p) :
    o.call.tool \in Commands \/ o.preview = "diff" => o.call \in procs[p].reviewed

(* What runs unasked may run unasked, and what ran is reviewed. *)
DecisionsAreSound ==
  UnaskedCallsAreSound /\ ReviewSeesChanges

(* A process that knows a rule of its workspace never takes it off the file.*)
KnownRulesAreKept ==
  [][\A p \in Procs :
       procs[p].up /\ procs'[p] # procs[p] => procs[p].workspace \cap rules[procs[p].ws] \subseteq rules'[procs[p].ws]]_vars

(* A call that was given up is never performed, whatever line answers its   *)
(* question later, for itself or along with that of another call.           *)
GivenUpNeverRuns ==
  [][\A p \in Procs : \A i \in DOMAIN procs[p].open' :
       procs[p].open[i].stage' = "runs" =>
         i \in DOMAIN procs[p].open /\ procs[p].open[i].live /\ procs[p].open[i].call' = procs[p].open[i].call]_vars

(* An answer holds for good: a rule is not lost, a call given up does not
   run. *)
AnswersLast ==
  KnownRulesAreKept /\ GivenUpNeverRuns

-----------------------------------------------------------------------------
(* What the comments say, and the code does not do.                         *)

(* "Records what an approved write contained, for the summary and the       *)
(* review": no write or edit is performed that the reviewer is not shown.   *)
EveryChangeIsReviewed ==
  \A p \in Procs : \A o \in Running(p) : o.call.tool \in Edits => o.call \in procs[p].reviewed

(* rules.ts: a workspace rule is "persisted for this workspace, so the next *)
(* run in this directory does not start the same conversation".             *)
RulesStay == [][\A w \in Workspaces : rules[w] \subseteq rules'[w]]_vars
=============================================================================
