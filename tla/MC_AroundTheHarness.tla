------------------------- MODULE MC_AroundTheHarness -------------------------
(***************************************************************************)
(* Parts of the harness around a run that share no state: the plain gate a *)
(* call passes, and what a model is offered beforehand. One is checked at  *)
(* a time.                                                                 *)
(***************************************************************************)
EXTENDS PlaintextGate, Rankings, Delegates

CONSTANTS v, w, none

VARIABLE part

(* The gate: a command and a write; one process may make two calls through *)
(* a pipe, at a terminal or told --yes, nothing classified, the other, all *)
(* of whose calls are classified, one at a terminal.                       *)
MCCalls == {[tool |-> "bash", target |-> "build"], [tool |-> "write", target |-> "file"]}
Symmetry == Permutations({v, w})
MCMaxCalls == <<2, 1>>
MCModes == <<{"pipe", "tty", "yes"}, {"tty"}>>
MCClassified == <<{FALSE}, {TRUE}>>

-----------------------------------------------------------------------------
F(f) == [kind |-> "file", name |-> f, to |-> f]
D(d) == [kind |-> "dir", name |-> d, to |-> d]
L(d) == [kind |-> "link", name |-> "link", to |-> d]

\* e lies at the greatest depth, and a link leads to its parent one deeper.
Deep == "root" :> <<F("f1"), D("y"), D("x")>> @@ "y" :> <<D("d")>> @@ "x" :> <<D("z")>> @@ "z" :> <<L("d")>>
        @@ "d" :> <<D("e"), F("f2")>> @@ "e" :> <<F("f3")>>
\* One file more than the cap; links back to the root, and a directory skipped.
Wide == "root" :> <<F("f1"), F("f2"), L("root"), D("skip"), D("x")>> @@ "skip" :> <<F("f6")>>
        @@ "x" :> <<F("f3"), F("f4"), L("root"), F("f5")>>

Walk(tree, aliased, patience) == [tree |-> tree, aliased |-> aliased, patience |-> patience]
MCWalks == <<{Walk(Deep, TRUE, 99), Walk(Wide, FALSE, 99), Walk(Wide, FALSE, 2)}, {Walk(Deep, FALSE, 99)}>>

MCWords == "root" :> <<>> @@ "x" :> <<"routes">> @@ "y" :> <<>> @@ "z" :> <<>> @@ "d" :> <<"router">> @@ "e" :> <<>>
           @@ "f1" :> <<"the", "main">> @@ "f2" :> <<"main">> @@ "f3" :> <<"router", "test">> @@ "f4" :> <<>> @@ "f5" :> <<"test">>
MCBegins == {<<"routes", "route">>, <<"router", "route">>}
MCTasks == <<{<<"fix", "route">>, <<"the">>}, {<<"fix", "route">>}>>
MCQueries == {<<"g1">>, <<"shape">>}
MCHeadSize == "f1" :> 3 @@ "f2" :> 1 @@ "f3" :> 5 @@ "f4" :> 0 @@ "f5" :> 2
MCOrder == "f1" :> 1 @@ "f2" :> 2 @@ "f3" :> 3 @@ "f4" :> 4 @@ "f5" :> 5 @@ "g1" :> 1 @@ "g2" :> 2
MCHits == <<"g1", "g1">> :> [name |-> "is", text |-> "body"] @@ <<"g2", "g1">> :> [name |-> "not", text |-> "description"]
          @@ <<"g1", "shape">> :> [name |-> "not", text |-> "not"] @@ <<"g2", "shape">> :> [name |-> "not", text |-> "not"]
MCNear == [p \in {"f1", "f2", "f3", "f4", "f5"} \X MCTasks[1] |->
             CASE p = <<"f2", <<"fix", "route">>>> -> 1 [] p = <<"f1", <<"fix", "route">>>> -> -1 [] p = <<"f3", <<"the">>>> -> 1 [] OTHER -> 0]
          @@ [p \in {"g1", "g2"} \X MCQueries |-> IF p = <<"g2", <<"shape">>>> THEN 1 ELSE 0]
MCLibrary == <<"g1", "g2">>
MCWidth == "wide" :> 2 @@ "other" :> 2 @@ "slim" :> 1
MCVersions == [f \in DOMAIN MCOrder |-> IF f = "f2" THEN 2 ELSE 1]

-----------------------------------------------------------------------------
MCSpeaks == "f1" :> "typescript" @@ "f2" :> "python" @@ "f3" :> "python" @@ "f4" :> None @@ "f5" :> "c" @@ "f6" :> "ruby"
            @@ [f \in {"tsconfig.json", "package.json", "Cargo.toml", "go.mod", "CMakeLists.txt", "bun.lock", "requirements.txt"} |-> None]
            @@ "setup.py" :> "python"

\* A link of this name to nothing: a manifest by its name only.
Dangling(f) == [kind |-> "link", name |-> f, to |-> f]
Package(manager, scripts) == [manager |-> manager, scripts |-> scripts]

Checkout(extra, tree, package, aliased, patience, signal) ==
  [tree |-> "root" :> (extra \o tree["root"]) @@ tree, package |-> package, aliased |-> aliased, patience |-> patience, signal |-> signal]

MCRoots == {<<>>, <<F("package.json")>>, <<F("package.json"), F("tsconfig.json")>>, <<Dangling("package.json"), F("go.mod")>>,
            <<F("package.json"), F("bun.lock"), F("setup.py")>>, <<F("requirements.txt")>>, <<D("go.mod")>>,
            <<F("CMakeLists.txt"), F("Cargo.toml"), F("go.mod"), F("setup.py")>>}
Shallow == "root" :> <<F("f4")>>
\* A file one level below the depth.
Long == "root" :> <<D("x")>> @@ "x" :> <<D("y")>> @@ "y" :> <<D("z")>> @@ "z" :> <<D("d"), F("f2")>> @@ "d" :> <<F("f3")>>
MCCheckouts ==
  {Checkout(extra, tree, package, aliased, patience, signal) :
     extra \in MCRoots, tree \in {Deep, Wide, Shallow, Long}, aliased \in BOOLEAN, patience \in {0, 2, 99}, signal \in BOOLEAN,
     package \in {NoPackage, Package(None, {"test", "lint"}), Package("bun", {"test"}), Package("poetry", {"jest"}), Package("pnpm", {"vitest", "test"})}}
  \cup {[tree |-> <<>>, package |-> NoPackage, aliased |-> FALSE, patience |-> 99, signal |-> FALSE]}

MCHitsIn == "f1" :> <<1, 4>> @@ "f2" :> <<2>> @@ "f3" :> <<1, 2, 3>> @@ "f4" :> <<5>> @@ "f5" :> <<>> @@ "f6" :> <<7>>
MCSearches ==
  [tree : {Deep, Wide, Shallow, "root" :> <<D("gone"), F("f3")>>, <<>>}, pattern : BOOLEAN, include : {{"f1", "f2", "f3", "f4", "f5", "f6"}, {"f2", "f5"}},
   maxResults : 0..7, patience : {0, 3, 99}, hits : {MCHitsIn, [f \in DOMAIN MCHitsIn |-> <<>>], [MCHitsIn EXCEPT !["f1"] = <<>>, !["f2"] = <<>>]},
   binary : {{}, {"f4"}}, unread : {{}, {"f2"}}]

-----------------------------------------------------------------------------
MCPlaces == <<"env", "home">>
MCDirs == <<"a", "b", "orchestrator">>
File(name, tools) == [name |-> name, tools |-> tools, sandboxed |-> FALSE, delegatable |-> TRUE, clean |-> TRUE]
Everything == {"view_file", "replace_file_content", "run_command", "manage_task"}
Shelf(f, g) == [place \in {"home"} |-> "a" :> f @@ "b" :> g @@ "orchestrator" :> NoFile]

\* An agent of another name than its directory's; one that is not offered.
MCShelves == {Shelf([File("b", Everything) EXCEPT !.sandboxed = TRUE], NoFile),
              Shelf(NoFile, [File(Unnamed, {}) EXCEPT !.delegatable = FALSE])}

Draft(name, slug, tools) == [name |-> name, slug |-> slug, tools |-> tools, whole |-> TRUE]
A == Draft("a", "slug", Everything)
MCAnswers == <<{<<A, A>>, <<Draft("../x", "x", {}), Draft("b", "b", {"run_command"}), A>>,
                <<[A EXCEPT !.whole = FALSE], Draft("orchestrator", "orchestrator", {})>>},
               {<<A>>}>>

MCReviewerFiles == {File("Reviewer", {"view_file", "grep_search"}), File("Reviewer", {"view_file", "replace_file_content"}),
                    File("Reviewer", {})}

MCTexts == SeqOf({"x", "y"}, 4)

FrontLine(kind) == [kind |-> kind, key |-> "", value |-> ""]
KeyLine(key, value) == [kind |-> "key", key |-> key, value |-> value]
MCFronts == SeqOf({FrontLine(kind) : kind \in {"blank", "comment", "note", "dash", "more", "junk"}}
                  \cup {KeyLine("tools", "none"), KeyLine("tools", "inline"), KeyLine("name", "plain"), KeyLine("description", "block")}, 4)

-----------------------------------------------------------------------------
\* The parts that stand still start in one state.
MCInit ==
  /\ part \in {"gate", "rankings", "facts", "drafts", "sessions", "texts"}
  /\ Init /\ RankingInit /\ DelegateInit
  /\ part # "texts" => text = [old |-> <<>>, new |-> <<>>, front |-> <<>>]
  /\ part \notin {"drafts", "sessions"} => disk["home"]["b"] = NoFile

\* A bound: a process that asks is interrupted at its questions only. Otherwise
\* the first Ctrl-C gives up the call under way, as its timeout does.
FewInterrupts == \A p \in Procs : procs'[p].mode = "tty" => procs'[p].interrupts = 0

GateStep == part = "gate" /\ Next /\ FewInterrupts /\ UNCHANGED <<part, rankingVars, delegateVars>>
RankingStep == part = "rankings" /\ RankingNext /\ UNCHANGED <<part, vars, delegateVars>>
DescribeStep == part = "facts" /\ DescribeNext /\ UNCHANGED <<part, vars, delegateVars>>
DraftStep == part = "drafts" /\ DraftNext /\ UNCHANGED <<part, vars, rankingVars>>
SessionStep == part = "sessions" /\ SessionNext /\ UNCHANGED <<part, vars, rankingVars>>

MCNext == GateStep \/ RankingStep \/ DescribeStep \/ DraftStep \/ SessionStep

MCSpec == MCInit /\ [][MCNext]_<<part, vars, rankingVars, delegateVars>>
=============================================================================
