----------------------------- MODULE Delegates -----------------------------
(***************************************************************************)
(* The agents a harness delegates to: definitions in a directory shared by *)
(* all processes (harness/agent-library.ts), the rosters sessions build of *)
(* them (harness/subagents.ts, harness/reviewer.ts), and drafting new ones *)
(* out of a finished run (harness/draft-agents.ts, draft-agents-run.ts);   *)
(* with the diffs shown before anything is written (also harness/diff.ts). *)
(*                                                                         *)
(* Three things are external: the model that proposes drafts, c2c, which   *)
(* renders a draft as a file, and bihan, which runs an agent. A file is    *)
(* what its frontmatter says; how that is read is a part of its own, where *)
(* a line is of one of a few kinds.                                        *)
(***************************************************************************)
EXTENDS Integers, Sequences, FiniteSets, SequencesExt, FiniteSetsExt

CONSTANTS
  Places, Present,   (* candidate directories in order; those that exist      *)
  Dirs,              (* names of subdirectories, sorted                       *)
  Shelves,           (* what the directories may hold at first                *)
  Excluded,          (* DEFAULT_EXCLUDED_AGENTS                               *)
  Unsafe,            (* names that are no directory names                     *)
  Drafters,
  Answers,           (* of each drafter, what the model may propose: sequences of drafts *)
  MAX_DRAFTS,
  Sessions, ReviewerFiles,   (* definitions of the bundled reviewer           *)
  Context,           (* unchanged lines around a change                       *)
  DIFF_MAX_CELLS, MaxMiddle,   (* sizes above which lines are not compared   *)
  Texts, Fronts      (* sequences of lines; of lines of a frontmatter         *)

VARIABLES disk, drafters, installs, sessions, text
delegateVars == <<disk, drafters, installs, sessions, text>>

NoPlace == "no place"
NoFile == [name |-> "no file", tools |-> {}, sandboxed |-> FALSE, delegatable |-> FALSE, clean |-> FALSE]
Auto == "auto"
Unnamed == "unnamed"

-----------------------------------------------------------------------------
(* Frontmatter. A line is [kind, key, value]: blank, a comment, a key at   *)
(* the margin, junk there; below the margin a comment (note), an item      *)
(* (dash), anything else (more). A key's value is a block scalar, nothing, *)
(* an inline list or plain text.                                           *)

\* The kinds of line a value goes on over, and those that are part of it.
GoesOn(value) ==
  CASE value = "block" -> {"blank", "note", "dash", "more"}
    [] value = "none"  -> {"blank", "dash"}
    [] value = "plain" -> {"note", "dash", "more"}
    [] OTHER           -> {}
PartOf(value) ==
  CASE value = "block" -> {"note", "dash", "more"} [] value = "none" -> {"dash"} [] OTHER -> {"dash", "more"}

LastOf(lines, i) ==
  Max({j \in i..Len(lines) : \A k \in (i + 1)..j : lines[k].kind \in GoesOn(lines[i].value)})

FieldOf(lines, i) ==
  LET from == {k \in (i + 1)..LastOf(lines, i) : lines[k].kind \in PartOf(lines[i].value)}
      as   == CASE lines[i].value = "inline" -> "list"
                [] lines[i].value = "none" -> IF from = {} THEN "empty" ELSE "list"
                [] OTHER -> "text"
  IN  [key |-> lines[i].key, as |-> as, from |-> from \cup {i}]

RECURSIVE ParseOn(_, _, _)
ParseOn(lines, i, parsed) ==
  IF i > Len(lines) THEN parsed
  ELSE CASE lines[i].kind \in {"blank", "comment", "note"} -> ParseOn(lines, i + 1, parsed)
         [] lines[i].kind \in {"junk", "dash", "more"} -> ParseOn(lines, i + 1, [parsed EXCEPT !.warned = @ \cup {i}])
         [] OTHER -> ParseOn(lines, LastOf(lines, i) + 1, [parsed EXCEPT !.fields = Append(@, FieldOf(lines, i))])

\* Of two fields of one key the later one counts.
parseFrontmatter(lines) == ParseOn(lines, 1, [fields |-> <<>>, warned |-> {}])

-----------------------------------------------------------------------------
(* Definitions. A file is [name, tools, sandboxed, delegatable, clean]:    *)
(* clean if nothing in it is warned about.                                 *)

DECLARED_TOOL_MAP == [view_file |-> "read_file", grep_search |-> "grep",
                      replace_file_content |-> "write_file", run_command |-> "run_command"]
Inspecting == {"read_file", "list_files", "grep"}
TIER_TOOLS == [readonly |-> Inspecting, write |-> Inspecting \cup {"write_file"},
               shell |-> Inspecting \cup {"run_command"}, full |-> Inspecting \cup {"write_file", "run_command"}]

MappedTools(declared) == {DECLARED_TOOL_MAP[t] : t \in declared \cap DOMAIN DECLARED_TOOL_MAP}

TierOf(granted) ==
  IF {"write_file", "run_command"} \subseteq granted THEN "full" ELSE IF "run_command" \in granted THEN "shell"
  ELSE IF "write_file" \in granted THEN "write" ELSE "readonly"

mapDeclaredTools(declared, sandboxed) ==
  LET mapped == MappedTools(declared)
  IN  [tier |-> TierOf(IF sandboxed THEN mapped \ {"run_command"} ELSE mapped),
       warned |-> sandboxed /\ "run_command" \in mapped]

parseAgentFile(file, dir) ==
  LET mapped == mapDeclaredTools(file.tools, file.sandboxed)
  IN  [name |-> IF file.name = Unnamed THEN dir ELSE file.name, tier |-> mapped.tier, delegatable |-> file.delegatable,
       sandboxed |-> file.sandboxed, declared |-> file.tools,
       warned |-> file.name = Unnamed \/ ~file.clean \/ mapped.warned]

\* By directory name; policy and the definition itself may keep it out, and an earlier one of its name.
loadAgentLibrary(files) ==
  FoldLeft(LAMBDA agents, d :
             LET agent == parseAgentFile(files[d], d)
             IN  IF files[d] = NoFile \/ agent.name \in Excluded \/ ~agent.delegatable
                    \/ \E i \in DOMAIN agents : agents[i].name = agent.name
                 THEN agents ELSE Append(agents, agent),
           <<>>, Dirs)

resolveAgentsDir(setting) ==
  LET open == IF setting = Auto THEN SelectSeq(Places, LAMBDA p : p \in Present)
              ELSE SelectSeq(<<setting>>, LAMBDA p : p \in Present)
  IN  IF open = <<>> THEN NoPlace ELSE open[1]

NamesOf(agents) == {agents[i].name : i \in DOMAIN agents}

-----------------------------------------------------------------------------
(* Sessions: a roster, and a delegation at a time. An agent's run takes no *)
(* signal, so it may outlive the wait for it.                              *)

DEFAULT_SUBAGENTS ==
  LET builtin(name, tier, declared) == [name |-> name, tier |-> tier, delegatable |-> TRUE, sandboxed |-> FALSE,
                                         declared |-> declared, warned |-> FALSE]
  IN  <<builtin("Scout", "readonly", {}), builtin("Builder", "full", {"replace_file_content", "run_command"}),
        builtin("Verifier", "shell", {"run_command"})>>

\* The bundled reviewer is registered only if it declares tools, none of which changes anything.
checkReviewerDefinition(file) ==
  LET agent == parseAgentFile([file EXCEPT !.sandboxed = FALSE], "Reviewer")
  IN  IF file.tools = {} \/ agent.tier # "readonly" THEN <<>> ELSE <<agent>>

NoRun == [agent |-> NoPlace, aborted |-> FALSE, run |-> "none", told |-> "nothing"]
NoSession == [up |-> FALSE, agents |-> <<>>, reviews |-> FALSE] @@ NoRun

createSubagentRoster(s) ==
  \E setting \in {Auto, NoPlace}, extra \in {<<>>} \cup {checkReviewerDefinition(f) : f \in ReviewerFiles} :
    LET place == resolveAgentsDir(setting)
        base  == IF place = NoPlace THEN DEFAULT_SUBAGENTS ELSE loadAgentLibrary(disk[place])
    IN  /\ ~sessions[s].up
        /\ sessions' = [sessions EXCEPT ![s] = [@ EXCEPT !.up = TRUE, !.agents = base \o extra, !.reviews = extra # <<>>]]
        /\ UNCHANGED <<disk, drafters, installs, text>>

\* A name the roster lacks, or a signal that has fired, ends it at once.
delegate(s, name) ==
  LET known == name \in NamesOf(sessions[s].agents)
  IN  /\ sessions[s].up /\ sessions[s].told = "nothing" /\ sessions[s].run = "none"
      /\ sessions' = [sessions EXCEPT ![s].agent = name,
                        ![s].run = IF known /\ ~sessions[s].aborted THEN "runs" ELSE @,
                        ![s].told = IF ~known THEN "unknown" ELSE IF sessions[s].aborted THEN "not started" ELSE @]
      /\ UNCHANGED <<disk, drafters, installs, text>>

Signalled(s) ==
  /\ sessions[s].up /\ ~sessions[s].aborted
  /\ sessions' = [sessions EXCEPT ![s].aborted = TRUE,
                    ![s].told = IF @ = "nothing" /\ sessions[s].run = "runs" THEN "cancelled" ELSE @]
  /\ UNCHANGED <<disk, drafters, installs, text>>

AgentEnds(s) ==
  \E end \in {"answered", "failed"} :
    /\ sessions[s].run = "runs"
    /\ sessions' = [sessions EXCEPT ![s].run = end, ![s].told = IF @ = "nothing" THEN end ELSE @]
    /\ UNCHANGED <<disk, drafters, installs, text>>

-----------------------------------------------------------------------------
(* Drafting.                                                               *)

NoCandidate == [name |-> NoPlace, file |-> NoFile, problems |-> {}, at |-> 0]
NoDrafts == [pc |-> "idle", place |-> NoPlace, yes |-> FALSE, known |-> {}, drafts |-> <<>>, candidate |-> NoCandidate, aborted |-> FALSE, results |-> <<>>]

Drafting(p, d) == drafters' = [drafters EXCEPT ![p] = d]

Done(results) == [NoDrafts EXCEPT !.pc = "done", !.results = results]

\* One draft is through: its result, and the next one, unless there is none or the signal has fired.
Through(d, candidate, more) ==
  LET rest == Tail(d.drafts)
      results == Append(d.results, [name |-> candidate.name, valid |-> candidate.problems \cup more = {}])
  IN  IF rest = <<>> \/ d.aborted THEN Done(results)
      ELSE [d EXCEPT !.drafts = rest, !.candidate = NoCandidate, !.results = results, !.pc = "next"]

\* --agents-dir and --yes are a process's own.
runDraftAgents(p) ==
  \E setting \in {Auto, NoPlace}, yes \in BOOLEAN :
    LET place == resolveAgentsDir(setting)
    IN  /\ drafters[p].pc = "idle"
        /\ Drafting(p, [NoDrafts EXCEPT !.pc = "asking", !.place = place, !.yes = yes,
                          !.known = IF place = NoPlace THEN {} ELSE NamesOf(loadAgentLibrary(disk[place]))])
        /\ UNCHANGED <<disk, installs, sessions, text>>

\* Of an answer, the first MAX_DRAFTS usable entries.
parseDraftResponse(answer) ==
  LET usable == SelectSeq(answer, LAMBDA draft : draft.whole) IN SubSeq(usable, 1, Min({MAX_DRAFTS, Len(usable)}))

\* The model fails, proposes nothing, or c2c is not installed: nothing to convert.
Proposed(p) ==
  \E answer \in Answers[p] \cup {<<>>}, installed \in BOOLEAN :
    LET drafts == parseDraftResponse(answer)
        d == drafters[p]
    IN  /\ d.pc = "asking"
        /\ Drafting(p, IF ~installed \/ drafts = <<>> \/ d.aborted
                       THEN Done(IF installed THEN <<>> ELSE [i \in DOMAIN drafts |-> [name |-> drafts[i].name, valid |-> FALSE]])
                       ELSE [d EXCEPT !.pc = "next", !.drafts = drafts])
        /\ UNCHANGED <<disk, installs, sessions, text>>

\* The next draft is handed to c2c, unless its name is none or it is too late.
renderCandidate(p) ==
  LET d == drafters[p]
      candidate == [NoCandidate EXCEPT !.name = d.drafts[1].name]
  IN  /\ d.pc = "next"
      /\ Drafting(p, IF d.aborted THEN Done(d.results)
                     ELSE IF candidate.name \in Unsafe THEN Through(d, candidate, {"unsafe name"})
                     ELSE [d EXCEPT !.pc = "converting", !.candidate = candidate])
      /\ UNCHANGED <<disk, installs, sessions, text>>

\* c2c cannot be started, is too slow, or leaves no file.
runC2cFails(p) ==
  /\ drafters[p].pc = "converting"
  /\ Drafting(p, Through(drafters[p], drafters[p].candidate, {"c2c"}))
  /\ UNCHANGED <<disk, installs, sessions, text>>

\* What c2c makes of a draft: that, under a slug, or without its tools.
RenderedOf(draft) ==
  LET file == [name |-> draft.name, tools |-> draft.tools, sandboxed |-> FALSE, delegatable |-> TRUE, clean |-> TRUE]
  IN  {file, [file EXCEPT !.name = draft.slug], [file EXCEPT !.tools = {}], [file EXCEPT !.delegatable = FALSE],
       [file EXCEPT !.clean = FALSE]}

If(condition, problem) == IF condition THEN {problem} ELSE {}

AnyProblems(d, file, there) ==   \* mutant: a rendered name that drifted is no problem
  If(d.candidate.name \in d.known, "known") \cup If(parseAgentFile(file, d.candidate.name).warned, "warned")
    \cup If(there, "there")

\* The names that were loaded, the parser, the name, the file that would be replaced.
Problems(d, file, there) ==
  If(d.candidate.name \in d.known, "known") \cup If(parseAgentFile(file, d.candidate.name).warned, "warned")
    \cup If(parseAgentFile(file, d.candidate.name).name # d.candidate.name, "drifted") \cup If(there, "there")

\* A file is rendered, read back and shown, whatever its problems; the report may tell of one more.
Rendered(p) ==
  \E file \in RenderedOf(drafters[p].drafts[1]), report \in {{}, {"report"}} :
    LET d == drafters[p]
        place == drafters[p].place
        there == place # NoPlace /\ disk[place][d.candidate.name] # NoFile
    IN  /\ Drafting(p, [d EXCEPT !.pc = "confirming",
                          !.candidate = [@ EXCEPT !.file = file, !.problems = Problems(d, file, there) \cup report,
                                                  !.at = Len(installs)]])
        /\ UNCHANGED <<disk, installs, sessions, text>>
renderAgent(p) == drafters[p].pc = "converting" /\ Rendered(p)

\* Without a directory the answer is no, with --yes it is yes; a write may fail.
Confirmed(p) ==
  \E yes, written \in BOOLEAN :
    LET d == drafters[p]
        place == drafters[p].place
        candidate == d.candidate
        allowed == yes /\ candidate.problems = {}
    IN  /\ d.pc = "confirming"
        /\ place = NoPlace => ~yes
        /\ place # NoPlace /\ d.yes => yes
        /\ Drafting(p, Through(d, candidate, If(~yes, "refused") \cup If(allowed /\ ~written, "not written")))
        /\ IF allowed /\ written
           THEN /\ disk' = [disk EXCEPT ![place][candidate.name] = candidate.file]
                /\ installs' = Append(installs, [by |-> p, place |-> place, candidate |-> candidate,
                                                 over |-> disk[place][candidate.name]])
           ELSE UNCHANGED <<disk, installs>>
        /\ UNCHANGED <<sessions, text>>

\* The signal ends a conversion at once, everything else when it is next looked at.
Aborted(p) ==
  LET d == [drafters[p] EXCEPT !.aborted = TRUE]
  IN  /\ d.pc \in {"asking", "next", "converting", "confirming"} /\ ~drafters[p].aborted
      /\ Drafting(p, IF d.pc = "converting" THEN Through(d, d.candidate, {"aborted"}) ELSE d)
      /\ UNCHANGED <<disk, installs, sessions, text>>

-----------------------------------------------------------------------------
(* Diffs of lines: the one shown with a draft, and the one of approvals.   *)

Op(kind, line) == [kind |-> kind, line |-> line]
AllOf(kind, lines) == [i \in DOMAIN lines |-> Op(kind, lines[i])]
From(lines, i) == SubSeq(lines, i, Len(lines))

\* How many lines can be kept of the i-th on, and the j-th on.
Table(a, b) ==
  LET t[i \in 1..(Len(a) + 1), j \in 1..(Len(b) + 1)] ==
        IF i > Len(a) \/ j > Len(b) THEN 0
        ELSE IF a[i] = b[j] THEN t[i + 1, j + 1] + 1
        ELSE Max({t[i + 1, j], t[i, j + 1]})
  IN  t

RECURSIVE OpsOn(_, _, _, _, _)
OpsOn(a, b, t, i, j) ==
  IF i > Len(a) \/ j > Len(b) THEN AllOf("-", From(a, i)) \o AllOf("+", From(b, j))
  ELSE IF a[i] = b[j] THEN <<Op(" ", a[i])>> \o OpsOn(a, b, t, i + 1, j + 1)
  ELSE IF t[i + 1, j] >= t[i, j + 1] THEN <<Op("-", a[i])>> \o OpsOn(a, b, t, i + 1, j)
  ELSE <<Op("+", b[j])>> \o OpsOn(a, b, t, i, j + 1)

diffMiddle(a, b) == OpsOn(a, b, Table(a, b), 1, 1)

diffLines(a, b) ==
  IF Len(a) * Len(b) > DIFF_MAX_CELLS THEN AllOf("-", a) \o AllOf("+", b) ELSE diffMiddle(a, b)

\* What two texts share at their ends is not compared, and too much in between is not shown.
unifiedDiff(a, b) ==
  LET head == Max({n \in 0..Min({Len(a), Len(b)}) : SubSeq(a, 1, n) = SubSeq(b, 1, n)})
      tail == Max({n \in 0..(Min({Len(a), Len(b)}) - head) : From(a, Len(a) - n + 1) = From(b, Len(b) - n + 1)})
      middle(x) == SubSeq(x, head + 1, Len(x) - tail)
  IN  IF Max({Len(middle(a)), Len(middle(b))}) > MaxMiddle THEN <<>>
      ELSE AllOf(" ", SubSeq(a, 1, head)) \o diffMiddle(middle(a), middle(b)) \o AllOf(" ", From(a, Len(a) - tail + 1))

\* Windows around the changes; those that touch are one.
Windows(ops) ==
  FoldLeft(LAMBDA ws, k :
             LET start == Max({1, k - Context})  end == Min({Len(ops), k + Context})
             IN  IF ws # <<>> /\ start <= Last(ws)[2] + 1 THEN [ws EXCEPT ![Len(ws)] = <<@[1], end>>]
                 ELSE Append(ws, <<start, end>>),
           <<>>, SelectSeq([k \in DOMAIN ops |-> k], LAMBDA k : ops[k].kind # " "))

Side(ops, other) == LET kept == SelectSeq(ops, LAMBDA op : op.kind # other) IN [i \in DOMAIN kept |-> kept[i].line]

\* The lines of a window, and where it says they start on either side.
Hunk(ops, w) ==
  LET before == SubSeq(ops, 1, w[1] - 1)  within == SubSeq(ops, w[1], w[2])
  IN  [old |-> Side(within, "+"), oldStart |-> Len(Side(before, "+")) + 1,
       new |-> Side(within, "-"), newStart |-> Len(Side(before, "-")) + 1]

renderOps(ops) == [i \in DOMAIN Windows(ops) |-> Hunk(ops, Windows(ops)[i])]

\* A side without a line starts before it.
formatHunks(ops) ==
  LET hunks == renderOps(ops)
  IN  [i \in DOMAIN hunks |-> [hunks[i] EXCEPT !.oldStart = IF hunks[i].old = <<>> THEN @ - 1 ELSE @,
                                            !.newStart = IF hunks[i].new = <<>> THEN @ - 1 ELSE @]]

-----------------------------------------------------------------------------
DelegateInit ==
  /\ disk \in Shelves
  /\ drafters = [p \in Drafters |-> NoDrafts]
  /\ installs = <<>>
  /\ sessions = [s \in Sessions |-> NoSession]
  /\ text \in [old : Texts, new : Texts, front : {<<>>}] \cup [old : {<<>>}, new : {<<>>}, front : Fronts]

AgentNames == {"Scout", "nobody"} \cup Range(Dirs)

DraftNext ==
  \E p \in Drafters : \/ runDraftAgents(p) \/ Proposed(p) \/ renderCandidate(p) \/ runC2cFails(p)
                      \/ renderAgent(p) \/ Confirmed(p) \/ Aborted(p)
SessionNext ==
  \E s \in Sessions : \/ createSubagentRoster(s) \/ Signalled(s) \/ AgentEnds(s)
                      \/ \E name \in AgentNames : delegate(s, name)

-----------------------------------------------------------------------------
(* Properties.                                                             *)

DelegateTypeOK ==
  /\ \A p \in Drafters : /\ drafters[p].pc \in {"idle", "asking", "next", "converting", "confirming", "done"}
                         /\ Len(drafters[p].drafts) + Len(drafters[p].results) <= MAX_DRAFTS
  /\ \A s \in Sessions : /\ sessions[s].run \in {"none", "runs", "answered", "failed"}
                         /\ sessions[s].told \in {"nothing", "unknown", "not started", "cancelled", "answered", "failed"}

\* Every file drafting writes was shown without a problem, and takes the place
\* of another only if a second process wrote that one while the first was
\* asking; what a run counts as valid is written, unless it writes nothing
\* (renderCandidate, runDraftAgents).
InstallsAreAsked ==
  /\ \A n \in DOMAIN installs : LET i == installs[n] IN
       /\ i.candidate.problems = {} /\ i.candidate.name \notin Unsafe
       /\ i.over # NoFile => \E m \in (i.candidate.at + 1)..(n - 1) :
            installs[m].by # i.by /\ installs[m].place = i.place /\ installs[m].candidate.name = i.candidate.name
  /\ \A p \in Drafters : \A k \in DOMAIN drafters[p].results :
       drafters[p].results[k].valid =>
         \E n \in DOMAIN installs : installs[n].by = p /\ installs[n].candidate.name = drafters[p].results[k].name

\* A draft that was written is offered from then on, under its name and with
\* the tier it was shown with, unless policy or the definition keeps it out.
InstalledIsOffered ==
  \A place \in Present : \A d \in Range(Dirs) :
    LET ours == {n \in DOMAIN installs : installs[n].place = place /\ installs[n].candidate.name = d}
        shown == parseAgentFile(installs[Max(ours)].candidate.file, d)
        offered == loadAgentLibrary(disk[place])
    IN  ours # {} /\ d \notin Excluded /\ shown.delegatable =>
          \E k \in DOMAIN offered : offered[k].name = d /\ offered[k].tier = shown.tier

\* An agent of a roster changes things only with tools its definition declared,
\* a sandboxed one runs no command, and the reviewer changes nothing.
HeldAsDeclared ==
  \A s \in Sessions : \A k \in DOMAIN sessions[s].agents :
    LET agent == sessions[s].agents[k]
        changing == TIER_TOOLS[agent.tier] \ Inspecting
    IN  /\ changing \subseteq MappedTools(agent.declared)
        /\ agent.sandboxed => "run_command" \notin changing
        /\ sessions[s].reviews /\ k = Len(sessions[s].agents) => changing = {}

\* A delegation is reported as what became of it: an answer only from a run that
\* gave it, a start denied only without a run, a failure never for a cancellation.
DelegationsToldRight ==
  \A s \in Sessions : LET c == sessions[s] IN
    /\ c.told = "answered" => c.run = "answered"
    /\ c.told = "failed" => c.run = "failed"
    /\ c.told = "cancelled" => c.aborted /\ c.run # "none"
    /\ c.told \in {"unknown", "not started"} => c.run = "none"
    /\ c.told = "nothing" /\ c.run # "none" => c.run = "runs" /\ ~c.aborted

\* Every line of a frontmatter is part of a field, or warned about, or a blank or
\* a comment, and no key is taken for part of another's value.
FrontIsRead ==
  LET parsed == parseFrontmatter(text.front)
      read == UNION {parsed.fields[i].from : i \in DOMAIN parsed.fields}
  IN  \A i \in DOMAIN text.front :
        /\ text.front[i].kind \in {"blank", "comment", "note"} \/ i \in parsed.warned \cup read
        /\ text.front[i].kind = "key" => \E n \in DOMAIN parsed.fields : parsed.fields[n].key = text.front[i].key /\ i = Min(parsed.fields[n].from)
        /\ ~(i \in parsed.warned /\ i \in read)

\* What patch makes of a text: hunks apply where they say, in order.
Patched(old, hunks) ==
  FoldLeft(LAMBDA done, h :
             LET before == IF h.old = <<>> THEN h.oldStart ELSE h.oldStart - 1
                 out == done.out \o SubSeq(old, done.at + 1, before)
             IN  [ok |-> /\ done.ok /\ before >= done.at /\ h.old = SubSeq(old, before + 1, before + Len(h.old))
                         /\ h.newStart = IF h.new = <<>> THEN Len(out) ELSE Len(out) + 1,
                  at |-> before + Len(h.old), out |-> out \o h.new],
           [ok |-> TRUE, at |-> 0, out |-> <<>>], hunks)

Remaining(lines, S) == LET s == SelectSeq([i \in DOMAIN lines |-> i], LAMBDA i : i \in S) IN [i \in DOMAIN s |-> lines[s[i]]]
MostKept(a, b) == Max({Cardinality(S) : S \in {X \in SUBSET DOMAIN a : \E Y \in SUBSET DOMAIN b : Remaining(a, X) = Remaining(b, Y)}})

\* The diff shown with a draft turns the one text into the other, and no diff
\* shows more changes than there need be (diffLines and formatHunks, unifiedDiff).
DiffsAreTrue ==
  LET a == text.old  b == text.new
      done == Patched(a, formatHunks(diffLines(a, b)))
      small(ops) == Len(SelectSeq(ops, LAMBDA op : op.kind = " ")) = MostKept(a, b)
  IN  /\ done.ok /\ done.out \o From(a, done.at + 1) = b
      /\ Len(a) * Len(b) <= DIFF_MAX_CELLS => small(diffLines(a, b))
      /\ unifiedDiff(a, b) # <<>> => /\ Side(unifiedDiff(a, b), "+") = a /\ Side(unifiedDiff(a, b), "-") = b
                                    /\ small(unifiedDiff(a, b))

\* Drafts and rosters; what is read of a definition and shown of a draft.
DelegatesAreSound ==
  /\ DelegateTypeOK /\ InstallsAreAsked /\ InstalledIsOffered /\ HeldAsDeclared /\ DelegationsToldRight
  /\ FrontIsRead /\ DiffsAreTrue
=============================================================================
