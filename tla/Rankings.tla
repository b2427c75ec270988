------------------------------ MODULE Rankings ------------------------------
(***************************************************************************)
(* What the harness offers a model before it has read anything: the files  *)
(* of a workspace that fit a task (harness/context-files.ts) and the       *)
(* agents of a library that fit a query (harness/agent-library.ts). Both   *)
(* rank by words and, with an embedder, by meaning; both keep vectors in a *)
(* file that every process reads and writes whole, and fall back to words  *)
(* when the embedder fails. Besides, what it says of the workspace itself  *)
(* (harness/detect-workspace.ts), and the search a model without a shell   *)
(* may make of it (harness/grep.ts).                                       *)
(*                                                                         *)
(* The walk over a workspace runs without interruption; its budget may end *)
(* before any entry. Whether a directory has been walked is told by its    *)
(* path: the real one, or the one below a root that is itself reached by a *)
(* link. An embedder is external: it answers with a vector per text, or    *)
(* not usably.                                                             *)
(***************************************************************************)
EXTENDS Integers, Sequences, FiniteSets, SequencesExt, FiniteSetsExt

CONSTANTS
  Walks, Tasks,    (* of each ranking: what each directory of a workspace lists, *)
                   (* sorted by name, whether its root is a link, and the     *)
                   (* entries in budget; sequences of words                   *)
  Root, SkipDirs,  (* CONTEXT_SKIP_DIRS                                      *)
  Unreadable,      (* files without a usable head: large, binary, unreadable *)
  Words, Stop, Begins,  (* of each directory and file; STOP_TOKENS; pairs with a long prefix *)
  Speaks, Tests,   (* the language of a file's name, if any; files named as tests *)
  Checkouts, Searches,  (* workspaces to describe and to search              *)
  HeadSize, Order, (* of each file: its head's length; its path's place      *)
  Library, Hits,   (* agents in the order of their names; how terms hit them *)
  Queries,         (* sequences of words                                     *)
  Near,            (* how close in meaning a text is to a task or query      *)
  Models, Width,   (* embedders, the length of their vectors                 *)
  Rankers,         (* the rankings of all processes                          *)
  MaxDepth, MaxFiles, MaxEmbed, Limit, HeadBytes, HeadMax, HeadTotal,   (* the code's caps *)
  Versions         (* bound: contents a file or agent may have               *)

None == "none"

VARIABLES cached, version, rankings, described
rankingVars == <<cached, version, rankings, described>>

RankingKinds == {"files", "agents"}

-----------------------------------------------------------------------------
(* The walk.                                                               *)

\* aliased: below the root as it was given, when that is a link.
Place(d, aliased) == [dir |-> d, aliased |-> aliased]

DirsOf(tree) == DOMAIN tree

SkipsEntry(w, here, e, key, tree) ==
  e.name \in SkipDirs \/ here.depth >= MaxDepth \/ e.to \notin DirsOf(tree) \/ key \in w.seen

Descend(w, here, e, tree) ==
  LET key == Place(e.to, e.kind = "dir" /\ here.at.aliased)
  IN  IF SkipsEntry(w, here, e, key, tree) THEN w
      ELSE [w EXCEPT !.seen = @ \cup {key}, !.queue = Append(@, [at |-> key, depth |-> here.depth + 1])]

readFileHead(f) == f \notin Unreadable

Tired(w) == w.visited >= MaxFiles \/ w.left = 0

Look(w, here, e, tree) ==
  LET next == [w EXCEPT !.left = @ - 1]
  IN  IF w.truncated THEN w
      ELSE IF Tired(w) THEN [w EXCEPT !.truncated = TRUE]
      ELSE IF e.kind \in {"dir", "link"} THEN Descend(next, here, e, tree)
      ELSE [next EXCEPT !.visited = @ + 1,
                       !.found = Append(@, [at |-> here.at, file |-> e.to])]

RECURSIVE WalkOn(_, _)
WalkOn(w, tree) ==
  IF w.queue = <<>> THEN w
  ELSE IF Tired(w) THEN [w EXCEPT !.truncated = TRUE]
  ELSE LET here == Head(w.queue)
       IN  WalkOn(FoldLeft(LAMBDA x, e : Look(x, here, e, tree), [w EXCEPT !.queue = Tail(@)], tree[here.at.dir]), tree)

Walked(walk) ==
  WalkOn([queue |-> <<[at |-> Place(Root, walk.aliased), depth |-> 0]>>,
          seen |-> {Place(Root, FALSE), Place(Root, walk.aliased)},
          found |-> <<>>, visited |-> 0, left |-> walk.patience, truncated |-> FALSE], walk.tree)

walkWorkspace(walk) ==
  LET all == Walked(walk) IN [found |-> SelectSeq(all.found, LAMBDA x : readFileHead(x.file)), truncated |-> all.truncated]

-----------------------------------------------------------------------------
(* Words.                                                                  *)

Weight(token, word) ==
  IF token \in Stop \/ word \in Stop THEN 0
  ELSE IF token = word THEN 3
  ELSE IF <<token, word>> \in Begins \/ <<word, token>> \in Begins THEN 1 ELSE 0

tokenizePath(c) == Words[c.at.dir] \o Words[c.file]

pathLexicalScore(tokens, task) ==
  MapThenSumSet(LAMBDA word : MapThenSumSet(LAMBDA i : Weight(tokens[i], word), DOMAIN tokens), Range(task))

NameScore(hit) == CASE hit.name = "is" -> 100 [] hit.name = "starts" -> 60 [] hit.name = "has" -> 40 [] OTHER -> 0
TextScore(hit) == CASE hit.text = "description" -> 25 [] hit.text = "body" -> 5 [] OTHER -> 0

AgentScore(a, query) ==
  MapThenSumSet(LAMBDA i : LET hit == Hits[<<a, query[i]>>] IN NameScore(hit) + TextScore(hit), DOMAIN query)

\* What is ranked: an item is a file at a place, or an agent.
Lexical(kind, item, query) ==
  IF kind = "files" THEN pathLexicalScore(tokenizePath(item), query) ELSE AgentScore(item, query)

IdOf(kind, item) == IF kind = "files" THEN item.file ELSE item
PlaceOf(kind, item) == IF kind = "files" THEN 2 * Order[item.file] + (IF item.at.aliased THEN 1 ELSE 0) ELSE Order[item]

\* The text an item is known by: where it is and what it holds now.
TextOf(kind, item) == LET id == IdOf(kind, item)
                      IN  <<id, IF kind = "files" THEN item.at ELSE Root, version[id]>>

-----------------------------------------------------------------------------
(* Meaning. A vector is of a text, by an embedder.                         *)

Vector(text, m) == [of |-> text, by |-> m]
NoVector == Vector(<<>>, None)

\* Vectors of different embedders of one width can be compared, to no purpose.
cosineSimilarity(v, q) ==
  IF v.by # q.by THEN 0 ELSE Near[<<v.of[1], q.of>>]

\* What is first has nothing before it.
Sorted(S, Before(_, _)) ==
  [n \in 1..Cardinality(S) |-> CHOOSE x \in S : Cardinality({y \in S : Before(y, x)}) = n - 1]

\* By score, then by path or name.
BestFirst(kind, scored) ==
  Sorted(scored, LAMBDA x, y : x.score > y.score \/ (x.score = y.score /\ PlaceOf(kind, x.item) < PlaceOf(kind, y.item)))

\* Four parts of meaning to one of words, each scaled by the best of the words.
Blend(kind, items, query, meaning) ==
  LET best == Max({0} \cup {Lexical(kind, items[i], query) : i \in DOMAIN items})
  IN  {[item |-> items[i], lexical |-> Lexical(kind, items[i], query), meaning |-> meaning[i],
        score |-> 4 * meaning[i] * Max({1, best}) + Lexical(kind, items[i], query)] : i \in DOMAIN items}

Unmeant(kind, items, query) == Blend(kind, items, query, [i \in DOMAIN items |-> 0])

\* The best of what a score passes.
Top(kind, scored) == LET best == BestFirst(kind, scored) IN SubSeq(best, 1, Min({Limit, Len(best)}))

\* By words alone, only what they hit.
searchAgents(items, query) == Top("agents", {x \in Unmeant("agents", items, query) : x.lexical > 0})

-----------------------------------------------------------------------------
(* Picks of files: those with a score, then neighbours of these, then      *)
(* heads out of one allowance.                                             *)

Ranked(scored) == Top("files", {x \in scored : x.score > 0})

Neighbours(picks, at) == Cardinality({i \in DOMAIN picks : picks[i].item.at = at})

Siblings(picks, scored) ==
  Sorted({x \in scored : x \notin Range(picks) /\ Neighbours(picks, x.item.at) > 0},
               LAMBDA x, y : \/ Neighbours(picks, x.item.at) > Neighbours(picks, y.item.at)
                             \/ /\ Neighbours(picks, x.item.at) = Neighbours(picks, y.item.at)
                                /\ PlaceOf("files", x.item) < PlaceOf("files", y.item))

Reason(x) == IF x.lexical > 0 THEN "word" ELSE IF x.meaning > 0 THEN "meaning" ELSE "path"

attachHeadWindows(picks) ==
  FoldLeft(LAMBDA done, p :
             LET window == Min({HeadBytes, HeadMax, done.remaining, HeadSize[p.item.file]})
             IN  [picks |-> Append(done.picks, p @@ [head |-> window]), remaining |-> done.remaining - window],
           [picks |-> <<>>, remaining |-> Min({HeadBytes * Len(picks), HeadTotal})], picks).picks

PickFiles(scored) ==
  LET ranked == Ranked(scored)
      beside == Siblings(ranked, scored)
      room   == Min({Limit - Len(ranked), Len(beside)})
  IN  attachHeadWindows([i \in DOMAIN ranked |-> [item |-> ranked[i].item, score |-> ranked[i].score, why |-> Reason(ranked[i])]]
                        \o [i \in 1..room |-> [item |-> beside[i].item, score |-> 0, why |-> "sibling"]])

-----------------------------------------------------------------------------
(* The facts of a workspace: what its root lists, what package.json says,  *)
(* and a walk that counts names and opens nothing.                         *)

Row(file, says) == [file |-> file, says |-> says]

ROOT_MANIFESTS ==
  <<Row("package.json", "javascript"), Row("tsconfig.json", "typescript"), Row("pyproject.toml", "python"),
    Row("setup.py", "python"), Row("go.mod", "go"), Row("Cargo.toml", "rust"), Row("pom.xml", "java"),
    Row("build.gradle", "java"), Row("build.gradle.kts", "kotlin"), Row("build.sbt", "scala"), Row("Gemfile", "ruby"),
    Row("composer.json", "php"), Row("Package.swift", "swift"), Row("mix.exs", "elixir"), Row("pubspec.yaml", "dart"),
    Row("CMakeLists.txt", "cpp")>>

PACKAGE_MANAGERS ==
  <<Row("package-lock.json", "npm"), Row("pnpm-lock.yaml", "pnpm"), Row("pnpm-workspace.yaml", "pnpm"), Row("yarn.lock", "yarn"),
    Row("bun.lockb", "bun"), Row("bun.lock", "bun"), Row("poetry.lock", "poetry"), Row("uv.lock", "uv"), Row("Pipfile", "pipenv"),
    Row("requirements.txt", "pip"), Row("go.mod", "go modules"), Row("Cargo.toml", "cargo"), Row("pom.xml", "maven"),
    Row("build.gradle", "gradle"), Row("build.gradle.kts", "gradle"), Row("build.sbt", "sbt"), Row("Gemfile", "bundler"),
    Row("composer.json", "composer"), Row("Package.swift", "swiftpm"), Row("mix.exs", "mix"), Row("pubspec.yaml", "pub"),
    Row("CMakeLists.txt", "cmake")>>

TEST_COMMANDS ==
  <<Row("go.mod", "go test ./..."), Row("Cargo.toml", "cargo test"), Row("pom.xml", "mvn test"),
    Row("build.gradle", "./gradlew test"), Row("build.gradle.kts", "./gradlew test"), Row("pyproject.toml", "pytest"),
    Row("setup.py", "pytest"), Row("Package.swift", "swift test")>>

PACKAGE_SCRIPTS == <<"test", "vitest", "jest">>
NODE_MANAGERS == {"npm", "pnpm", "yarn", "bun"}
SUBSUMED_LANGUAGES == {<<"typescript", "javascript">>, <<"cpp", "c">>}
MAX_LANGUAGES == 3
MAX_LISTED_MANIFESTS == 3
MANIFEST_WEIGHT == 1000000

\* Files and links, those that dangle too.
listRootNames(tree) == {e.name : e \in {x \in Range(tree[Root]) : x.kind # "dir"}}

Listed(rows, names) == SelectSeq(rows, LAMBDA row : row.file \in names)
FirstOf(rows, names) == LET listed == Listed(rows, names) IN IF listed = <<>> THEN None ELSE Head(listed).says

\* Small, text, JSON and an object, or as if it said nothing; its manager is a name, or none.
NoPackage == [manager |-> None, scripts |-> {}]
readPackageJson(c, names) == IF "package.json" \in names THEN c.package ELSE NoPackage

detectPackageManager(names, declared) == IF declared # None THEN declared ELSE FirstOf(PACKAGE_MANAGERS, names)

nodeManager(manager) == IF manager \in NODE_MANAGERS THEN manager ELSE "npm"

Command(tool) == [by |-> tool, run |-> FALSE, script |-> None]
scriptCommand(manager, script) ==
  [by |-> manager, run |-> ~(script = "test" /\ manager \in {"npm", "pnpm", "yarn"}), script |-> script]

detectTestCommand(package, names, manager) ==
  LET scripts == SelectSeq(PACKAGE_SCRIPTS, LAMBDA script : script \in package.scripts)
  IN  IF scripts # <<>> THEN scriptCommand(nodeManager(manager), Head(scripts)) ELSE Command(FirstOf(TEST_COMMANDS, names))

\* A generated file speaks no language.
languageForFile(f) == Speaks[f]

ManifestScore(listed, language) ==
  MapThenSumSet(LAMBDA i : IF listed[i].says # language THEN 0
                           ELSE MANIFEST_WEIGHT + (IF listed[i].file = "tsconfig.json" THEN 1 ELSE 0), DOMAIN listed)

\* A test weighs half.
Count(sources, language) ==
  MapThenSumSet(LAMBDA i : IF languageForFile(sources[i].file) # language THEN 0
                           ELSE IF sources[i].file \in Tests THEN 1 ELSE 2, DOMAIN sources)

\* Those of one weight stay in the order they came in: the manifests' first.
rankLanguages(listed, sources) ==
  LET came    == [i \in DOMAIN listed |-> listed[i].says] \o [i \in DOMAIN sources |-> languageForFile(sources[i].file)]
      place(l) == Min({i \in DOMAIN came : came[i] = l})
      total(l) == ManifestScore(listed, l) + Count(sources, l)
      weak    == {pair[2] : pair \in {p \in SUBSUMED_LANGUAGES : p[1] \in Range(came)}}
      ranked  == Sorted(Range(came) \ weak, LAMBDA l, m : total(l) > total(m) \/ (total(l) = total(m) /\ place(l) < place(m)))
  IN  SubSeq(ranked, 1, Min({MAX_LANGUAGES, Len(ranked)}))

walkForExtensions(c) ==
  LET all == Walked(c)
  IN  [sources |-> SelectSeq(all.found, LAMBDA x : languageForFile(x.file) # None),
       truncated |-> all.truncated, aborted |-> all.truncated /\ all.left = 0 /\ c.signal]

unknownWorkspaceFacts ==
  [languages |-> <<>>, packageManager |-> None, testCommand |-> Command(None), manifests |-> <<>>, sourceFiles |-> 0,
   truncated |-> FALSE, aborted |-> FALSE]

detectWorkspace(c) ==
  IF Root \notin DirsOf(c.tree) THEN unknownWorkspaceFacts
  ELSE LET names   == listRootNames(c.tree)
           listed  == Listed(ROOT_MANIFESTS, names)
           package == readPackageJson(c, names)
           manager == detectPackageManager(names, package.manager)
           walk    == walkForExtensions(c)
       IN  [languages |-> rankLanguages(listed, walk.sources), packageManager |-> manager,
            testCommand |-> detectTestCommand(package, names, manager),
            manifests |-> [i \in DOMAIN listed |-> listed[i].file], sourceFiles |-> Len(walk.sources),
            truncated |-> walk.truncated, aborted |-> walk.aborted]

\* What a person and the model are told: the model, besides, what a cut leaves
\* out, the manifests, and how to test.
formatManifestList(manifests) ==
  [listed |-> SubSeq(manifests, 1, Min({MAX_LISTED_MANIFESTS, Len(manifests)})),
   more |-> Max({0, Len(manifests) - MAX_LISTED_MANIFESTS})]

formatWorkspaceSection(facts) ==
  IF facts.languages = <<>> THEN [known |-> FALSE]
  ELSE [known |-> TRUE, languages |-> facts.languages, manager |-> facts.packageManager, files |-> facts.sourceFiles,
        bound |-> facts.truncated, manifests |-> formatManifestList(facts.manifests), test |-> facts.testCommand]

-----------------------------------------------------------------------------
(* The search: no links, no depth, every file of the extensions asked for. *)

Stops(w, c) == w.left = 0 \/ w.scanned >= MaxFiles \/ Len(w.matches) >= c.maxResults
Stopped(w) == [w EXCEPT !.truncated = TRUE, !.aborted = (w.left = 0)]

\* The lines of a file that fit: none of a binary one, no more than are wanted.
LinesOf(w, f, c) ==
  IF f \in c.binary THEN <<>> ELSE SubSeq(c.hits[f], 1, Min({Len(c.hits[f]), c.maxResults - Len(w.matches)}))

Seek(w, e, c) ==
  LET next  == [w EXCEPT !.left = @ - 1]
      found == w.matches \o [i \in DOMAIN LinesOf(w, e.to, c) |-> [file |-> e.to, line |-> LinesOf(w, e.to, c)[i]]]
  IN  IF Stops(w, c) THEN Stopped(w)
      ELSE IF e.kind = "dir" THEN IF e.name \in SkipDirs THEN next ELSE [next EXCEPT !.queue = Append(@, e.to)]
      ELSE IF e.kind = "link" \/ e.to \notin c.include \/ e.to \in c.unread THEN next
      ELSE [next EXCEPT !.scanned = @ + 1, !.matches = found,
                       !.truncated = Len(found) > Len(w.matches) /\ Len(found) >= c.maxResults]

\* A directory that cannot be listed lists nothing.
RECURSIVE SeekOn(_, _)
SeekOn(w, c) ==
  IF w.queue = <<>> THEN w
  ELSE IF Stops(w, c) THEN Stopped(w)
  ELSE LET here    == Head(w.queue)
           entries == IF here \in DirsOf(c.tree) THEN c.tree[here] ELSE <<>>
       IN  SeekOn(FoldLeft(LAMBDA x, e : Seek(x, e, c), [w EXCEPT !.queue = Tail(@)], entries), c)

grepWorkspace(c) ==
  LET all == SeekOn([queue |-> <<Root>>, left |-> c.patience, scanned |-> 0, matches |-> <<>>, truncated |-> FALSE, aborted |-> FALSE], c)
      refused == ~c.pattern \/ Root \notin DirsOf(c.tree)
  IN  [error |-> refused, matches |-> IF refused THEN <<>> ELSE all.matches, filesScanned |-> IF refused THEN 0 ELSE all.scanned,
       truncated |-> ~refused /\ all.truncated, aborted |-> ~refused /\ all.aborted]

\* What a model reads of it: that lines are missing is said below lines only.
formatGrepResult(result) ==
  IF result.error THEN [error |-> TRUE]
  ELSE [error |-> FALSE, matches |-> result.matches, scanned |-> result.filesScanned,
        partial |-> result.aborted \/ (result.truncated /\ result.matches # <<>>)]

-----------------------------------------------------------------------------
(* Rankings. The file of vectors is read whole, changed in memory over one *)
(* or two calls of the embedder, and written whole.                        *)

Idle == [pc |-> "idle"]

RankingTypeOK ==
  /\ \A kind \in RankingKinds : \A k \in DOMAIN cached[kind] : cached[kind][k].by \in Models
  /\ \A f \in DOMAIN version : version[f] \in 1..Versions[f]
  /\ \A r \in Rankers : rankings[r].pc \in {"idle", "missing", "stale", "done"}

RankingInit ==
  /\ cached = [kind \in RankingKinds |-> <<>>]
  /\ version = [f \in DOMAIN Order |-> 1]
  /\ rankings = [r \in Rankers |-> Idle]
  /\ described = [by |-> None]

\* The words of a task choose which files the embedder is asked about.
Chosen(items, query) ==
  LET byWords == BestFirst("files", Unmeant("files", items, query))
  IN  [i \in 1..Min({MaxEmbed, Len(byWords)}) |-> byWords[i].item]

\* What was embedded, in the order of what is ranked.
Meaning(r) ==
  [i \in DOMAIN r.items |->
     LET j == {k \in DOMAIN r.chosen : r.chosen[k] = r.items[i]}
     IN  IF j = {} THEN 0 ELSE cosineSimilarity(r.vectors[Min(j)], r.q)]

Scored(r) ==
  IF r.semantic THEN Blend(r.kind, r.items, r.query, Meaning(r)) ELSE Unmeant(r.kind, r.items, r.query)

WithWords(r) ==
  [r EXCEPT !.pc = "done",
            !.result = IF r.kind = "files" THEN PickFiles(Scored(r)) ELSE searchAgents(r.items, r.query)]

WithMeaning(r) ==
  LET meant == [r EXCEPT !.pc = "done", !.semantic = TRUE]
  IN  [meant EXCEPT !.result = IF r.kind = "files" THEN PickFiles(Scored(meant)) ELSE Top("agents", Scored(meant))]

StaleOf(r) == {i \in DOMAIN r.vectors : Width[r.vectors[i].by] # Width[r.q.by]}
MissingOf(r) == {i \in DOMAIN r.vectors : r.vectors[i] = NoVector}

\* All vectors are there: those of another width are asked for again, once.
Compared(r) ==
  IF StaleOf(r) # {} THEN [r EXCEPT !.pc = "stale", !.asked = Sorted(StaleOf(r), <)] ELSE WithMeaning(r)

Kept(r, got) ==
  [r EXCEPT !.cache = [k \in {r.texts[i] : i \in Range(r.asked)} |-> got[CHOOSE p \in DOMAIN got : got[p].of = k]] @@ @,
            !.dirty = @ \/ r.asked # <<>>]

Answered(r) == [p \in DOMAIN r.asked |-> Vector(r.texts[r.asked[p]], r.by)]

FilledInOrder(r) ==   \* mutant: the answer is spread over all texts from the first on
  LET got == Answered(r)
  IN  [Kept(r, got) EXCEPT !.vectors = [i \in DOMAIN @ |-> IF i \in DOMAIN got THEN got[i] ELSE IF @[i] = NoVector THEN got[1] ELSE @[i]]]

\* The answer's vectors stand in the order of the texts asked for.
Filled(r) ==
  LET got == Answered(r)
  IN  [Kept(r, got) EXCEPT !.vectors = [i \in DOMAIN @ |-> IF i \in Range(r.asked) THEN got[CHOOSE p \in DOMAIN got : r.asked[p] = i]
                                                        ELSE @[i]]]

Save(kind, r) ==
  IF r.pc = "done" /\ r.dirty THEN cached' \in {cached, [cached EXCEPT ![kind] = r.cache]}   \* or cannot be written
  ELSE UNCHANGED cached

\* Up to the first wait: what is ranked is read, and the file of vectors.
Rank(s, kind, from, walk, query, by) ==
  LET chosen == IF kind = "files" THEN Chosen(walk.found, query) ELSE walk.found
      texts  == [i \in DOMAIN chosen |-> TextOf(kind, chosen[i])]
      known(k) == IF k \in DOMAIN cached[kind] THEN cached[kind][k] ELSE NoVector
      begun  == [pc |-> "missing", kind |-> kind, from |-> from, items |-> walk.found, cut |-> walk.truncated,
                 query |-> query, by |-> by, chosen |-> chosen, texts |-> texts,
                 vectors |-> [i \in DOMAIN texts |-> known(texts[i])], q |-> known(query),
                 cache |-> cached[kind], asked |-> <<>>, dirty |-> FALSE, semantic |-> FALSE, result |-> <<>>]
  IN  /\ rankings' = [rankings EXCEPT ![s] =
           IF walk.found = <<>> \/ query = <<>> \/ Limit = 0 THEN [begun EXCEPT !.pc = "done"]
           ELSE IF by = None THEN WithWords(begun)
           ELSE IF MissingOf(begun) # {} \/ begun.q = NoVector
             THEN [begun EXCEPT !.asked = Sorted(MissingOf(begun), <)]
           ELSE Compared(begun)]
      /\ UNCHANGED <<cached, version, described>>

pickContextFiles(s) ==
  /\ rankings[s].pc = "idle"
  /\ \E from \in Walks[s] : LET walk == walkWorkspace(from) IN
       \E task \in Tasks[s], by \in Models \cup {None} : Rank(s, "files", from, walk, task, by)

searchAgentsSemantic(s) ==
  /\ rankings[s].pc = "idle"
  /\ \E query \in Queries, by \in Models \cup {None} :
       Rank(s, "agents", Library, [found |-> Library, truncated |-> FALSE], query, by)

\* The embedder answers the batch of missing texts, and the query's unless it is known.
Embedded(s) ==
  LET r == rankings[s]
      filled == Filled(r)
      asked  == IF r.q # NoVector THEN filled
                ELSE [filled EXCEPT !.q = Vector(r.query, r.by), !.cache = (r.query :> Vector(r.query, r.by)) @@ @, !.dirty = TRUE]
      next   == Compared(asked)
  IN  /\ r.pc = "missing"
      /\ rankings' = [rankings EXCEPT ![s] = next]
      /\ Save(r.kind, next)
      /\ UNCHANGED <<version, described>>

EmbeddedAgain(s) ==
  LET r == rankings[s]
      next == WithMeaning(Filled(r))
  IN  /\ r.pc = "stale"
      /\ rankings' = [rankings EXCEPT ![s] = next]
      /\ Save(r.kind, next)
      /\ UNCHANGED <<version, described>>

\* An error, too few vectors, or, for files, no answer in time.
NotEmbedded(s) ==
  /\ rankings[s].pc \in {"missing", "stale"}
  /\ rankings' = [rankings EXCEPT ![s] = WithWords(rankings[s])]
  /\ UNCHANGED <<cached, version, described>>

\* A file or a definition is edited between rankings; a write of vectors is cut short.
Edited(f) ==
  /\ version[f] < Versions[f]
  /\ version' = [version EXCEPT ![f] = @ + 1]
  /\ UNCHANGED <<cached, rankings, described>>
CacheSpoiled(kind) ==
  /\ cached[kind] # <<>> /\ cached' = [cached EXCEPT ![kind] = <<>>]
  /\ UNCHANGED <<version, rankings, described>>

RankingNext ==
  \/ \E s \in Rankers : pickContextFiles(s) \/ searchAgentsSemantic(s) \/ Embedded(s) \/ EmbeddedAgain(s) \/ NotEmbedded(s)
  \/ \E f \in DOMAIN Order : Edited(f)
  \/ \E kind \in RankingKinds : CacheSpoiled(kind)

\* What the first prompt and the header are made of; or one search.
DescribeNext ==
  /\ described.by = None
  /\ \/ \E c \in Checkouts : described' = [by |-> "facts", of |-> c, facts |-> detectWorkspace(c)]
     \/ \E c \in Searches : described' = [by |-> "search", of |-> c, found |-> grepWorkspace(c)]
  /\ UNCHANGED <<cached, version, rankings>>

-----------------------------------------------------------------------------
(* Properties.                                                             *)

\* The directories a walk may reach, level by level.
Within(walk) ==
  LET Below(places) ==
        {Place(e.to, e.kind = "dir" /\ p.aliased) : <<p, e>> \in
           {pe \in places \X UNION {Range(walk.tree[d]) : d \in DirsOf(walk.tree)} :
              /\ pe[2] \in Range(walk.tree[pe[1].dir])
              /\ pe[2].kind # "file" /\ pe[2].name \notin SkipDirs /\ pe[2].to \in DirsOf(walk.tree)}}
      levels[n \in 0..MaxDepth] ==
        IF n = 0 THEN {Place(Root, walk.aliased)}
        ELSE levels[n - 1] \cup (Below(levels[n - 1]) \ {Place(Root, FALSE)})
  IN  levels[MaxDepth]

\* A walk that ran to its end found every readable file within the depth, and
\* no walk finds a file at one place twice, nor, below a real root, at two
\* places (walkWorkspace: links, cycles and the marks on directories).
WalkIsWhole ==
  \A s \in Rankers : LET r == rankings[s] IN r.pc # "idle" /\ r.kind = "files" =>
    LET all == UNION {{[at |-> p, file |-> e.to] : e \in {x \in Range(r.from.tree[p.dir]) : x.kind = "file" /\ readFileHead(x.to)}} :
                        p \in Within(r.from)}
    IN  /\ Range(r.items) \subseteq all
        /\ ~r.cut => Range(r.items) = all
        /\ IsInjective(r.items)
        /\ ~r.from.aliased => IsInjective([i \in DOMAIN r.items |-> r.items[i].file])

\* What is ranked is ranked by the vector of what it held when it was read,
\* and what is kept, under what it is of; after a second batch they are all
\* of the width of the query's, unless the query's is of another embedder.
RankedByOwnWords ==
  /\ \A kind \in RankingKinds : \A k \in DOMAIN cached[kind] : cached[kind][k].of = k
  /\ \A s \in Rankers : LET r == rankings[s] IN r.pc # "idle" =>
       /\ \A i \in DOMAIN r.vectors : r.vectors[i] # NoVector => r.vectors[i].of = r.texts[i]
       /\ r.q # NoVector => r.q.of = r.query
       /\ r.semantic => /\ NoVector \notin Range(r.vectors) \cup {r.q}
                        /\ Width[r.q.by] = Width[r.by] => \A i \in DOMAIN r.vectors : Width[r.vectors[i].by] = Width[r.by]

\* A pick is a file that scored, best first, or stands beside one that did;
\* one that scored is left out only for better ones; heads share one allowance.
PicksAreWorthy ==
  \A s \in Rankers : LET r == rankings[s] IN r.pc = "done" /\ r.result # <<>> =>
    LET picks == r.result
        ItemsOf(ps) == {ps[i].item : i \in DOMAIN ps}
    IN  /\ Len(picks) <= Limit
        /\ Cardinality(ItemsOf(picks)) = Len(picks)
        /\ \A i, j \in DOMAIN picks : i < j => picks[i].score >= picks[j].score
        /\ \A x \in Scored(r) : x.score > 0 /\ x.item \notin ItemsOf(picks) =>
             Len(picks) = Limit /\ \A i \in DOMAIN picks : picks[i].score >= x.score
        /\ r.kind = "files" =>
             /\ \A i \in DOMAIN picks : picks[i].why = "sibling" =>
                  \E j \in 1..(i - 1) : picks[j].score > 0 /\ picks[j].item.at = picks[i].item.at
             /\ MapThenSumSet(LAMBDA i : picks[i].head, DOMAIN picks) <= HeadTotal
             /\ \A i \in DOMAIN picks : picks[i].head <= Min({HeadMax, HeadSize[picks[i].item.file]})

\* The languages a manifest names are reported whether or not the walk came
\* far, unless a stronger one is found; those that stay named lead; a pair of
\* which one covers the other is never reported.
ManifestsLead(c, facts) ==
  LET named == {row.says : row \in {x \in Range(ROOT_MANIFESTS) : x.file \in Range(facts.manifests)}}
      spoken == IF facts.sourceFiles = 0 THEN {} ELSE {languageForFile(e.to) : e \in {x \in UNION {Range(c.tree[d]) : d \in DirsOf(c.tree)} : x.kind = "file"}}
      told   == facts.languages
      Covered(l) == \E p \in SUBSUMED_LANGUAGES : p[2] = l /\ p[1] \in named \cup spoken
  IN  /\ Range(told) \subseteq named \cup spoken
      /\ \A i, j \in DOMAIN told : i < j /\ told[j] \in named => told[i] \in named
      /\ \A p \in SUBSUMED_LANGUAGES : ~(Range(p) \subseteq Range(told))
      /\ \A l \in named : Covered(l) \/ l \in Range(told) \/ (Len(told) = MAX_LANGUAGES /\ Range(told) \subseteq named)

\* A workspace that was walked to its end has every source within the depth
\* counted, once below a real root; one that was not, a lower bound, and the
\* model is told so. No manifest and no test command is kept from the model
\* for want of a language, and a test command runs what is there: a script of
\* package.json by a runner of scripts, or the tool of a file in the root.
FactsAreTrue ==
  described.by = "facts" /\ Root \in DirsOf(described.of.tree) =>
    LET c     == described.of
        facts == described.facts
        said  == formatWorkspaceSection(facts)
        all   == UNION {{<<p, e.to>> : e \in {x \in Range(c.tree[p.dir]) : x.kind = "file" /\ languageForFile(x.to) # None}} : p \in Within(c)}
        names == {e.name : e \in Range(c.tree[Root])} \ {e.name : e \in {x \in Range(c.tree[Root]) : x.kind = "dir"}}
        test  == facts.testCommand
    IN  /\ facts.sourceFiles <= Cardinality(all)
        /\ ~facts.truncated => facts.sourceFiles = Cardinality(all)
        /\ ~c.aliased => facts.sourceFiles <= Cardinality({x[2] : x \in all})
        /\ facts.aborted => facts.truncated
        /\ ManifestsLead(c, facts)
        /\ Range(facts.manifests) \subseteq names
        /\ \/ test = Command(None)
           \/ \E row \in Range(TEST_COMMANDS) : row.file \in names /\ test = Command(row.says)
           \/ /\ "package.json" \in names /\ test.script \in c.package.scripts /\ test.by \in NODE_MANAGERS
              /\ facts.packageManager \in NODE_MANAGERS => test.by = facts.packageManager
              /\ test.by = "bun" => test.run
        /\ ~said.known => facts.manifests = <<>> /\ test = Command(None) /\ facts.sourceFiles = 0
        /\ said.known => /\ said.bound = facts.truncated /\ said.test = test
                         /\ Len(said.manifests.listed) + said.manifests.more = Len(facts.manifests)

\* A search finds every line once, in files reached without links, unless it
\* says that it did not, or scanned as many files as it may and found none:
\* then it reads like one that is complete.
SearchesAreHonest ==
  described.by = "search" =>
    LET c == described.of
        found == described.found
        said  == formatGrepResult(found)
        reach[n \in 0..Cardinality(DirsOf(c.tree))] ==
          IF n = 0 THEN {Root} \cap DirsOf(c.tree)
          ELSE reach[n - 1] \cup {e.to : e \in {x \in UNION {Range(c.tree[d]) : d \in reach[n - 1]} :
                                               x.kind = "dir" /\ x.name \notin SkipDirs /\ x.to \in DirsOf(c.tree)}}
        files == {e.to : e \in {x \in UNION {Range(c.tree[d]) : d \in reach[Cardinality(DirsOf(c.tree))]} : x.kind = "file"}}
        all   == UNION {{[file |-> f, line |-> l] : l \in Range(c.hits[f])} : f \in (files \cap c.include) \ (c.unread \cup c.binary)}
    IN  /\ Range(found.matches) \subseteq all /\ IsInjective(found.matches)
        /\ Len(found.matches) <= c.maxResults /\ found.filesScanned <= MaxFiles
        /\ ~found.truncated /\ ~found.error => Range(found.matches) = all
        /\ ~said.error => said.partial \/ Range(said.matches) = all \/ (said.matches = <<>> /\ (said.scanned = MaxFiles \/ c.maxResults = 0))
        /\ found.aborted => said.partial

\* Walks, vectors and picks together, and what is told of a workspace.
RankingsAreSound == RankingTypeOK /\ WalkIsWhole /\ RankedByOwnWords /\ PicksAreWorthy /\ FactsAreTrue /\ SearchesAreHonest
=============================================================================
