# ModelHitch: a TLA+ model of its core

ModelHitch is a provider-neutral chat API, a local bridge that serves it to agents and IDEs,
and a coding harness on top. This directory holds TLA+ modules for the parts where several
requests, timers, pages and processes meet, the TLC configurations that check them on small
instances, and TLAPS proofs of the properties that hold for every instance. Paths below are
relative to the repository.

## The system

| Component | State it keeps | Operations | Hard because | Model |
| --- | --- | --- | --- | --- |
| Failover walk (`src/core/failover.ts`) | index, attempts, whether a chunk went out | `withFailover`, `withFailoverStream` | walks run concurrently over one cooldown engine, fail at any chunk, and stop at stop lanes | `FailoverWalk` |
| Cooldown engines (`src/core/cooldown.ts`, `circuit-breaker.ts`) | per lane: end of the window, failures, trips | `cool`, `success`, `cooldownMs`, `health`, `clear` | windows end by the clock, two maps must agree, escalation | `LaneCooldown`, `MemoryLaneCooldown`, `CircuitBreaker` |
| Service key gate, usage (`src/core/key-gate.ts`, `usage.ts`) | reservations per key, ring of events, SQLite rows | admit, deny, reconcile, record, reset, reload | rows land late and out of order, the gate is replaced, the daemon restarts | `ServiceKeyGate` |
| ChatGPT plan credentials (`src/chatgpt-plan-auth.ts`) | accounts in memory and on disk, refresh in flight, sign-in attempts | token, refresh, sign-in, cancel, activate, sign-out, restart | rotating tokens are spent once; sign-out and refresh overtake each other | `ChatGptPlanAuth` |
| Route plan and policy (`src/core/policy.ts`, `src/server/server.ts`, `src/server/lane-catalog.ts`) | the running configuration | which lanes, in which order, with which stops and caps | routes, pins, intents, displaced lanes and reconfigurations combine | `BridgeState`, `BridgeRoutes` |
| Wires and provider streams (`src/server/*-wire.ts`, `responses.ts`, `src/providers/*`, `src/core/dsml.ts`) | per stream: open items, calls, what was sent | upstream events to chunks, chunks to lines | calls interleave, bodies break, markup is recovered, clients leave | `StreamWires`, `StreamSinks`, `StreamBridge` |
| Requests and answers (the same files, `src/server/local-images.ts`, `src/core/content.ts`) | one exchange: what was posted, sent, answered and told | body to normalized messages to upstream body; answer or error back | four wires times six upstreams, each with its own place for systems, calls, results, ids, knobs and errors; second tries | `RequestMappings`, `AnswerMappings`, `Exchange` |
| Conversation state (`src/server/conversation-state.ts`) | bounded map of histories | remember, find | overlapping turns, eviction, reused call ids | `Conversations` |
| Configuration, catalogue, settings (`src/cli.ts`, `src/config.ts`, `src/settings-*.ts`, `src/config-file.ts`, `src/bridge-providers.ts`, `src/custom-lanes.ts`, `src/opencode-*.ts`) | the file, the running bridge's document, what pages and terminals loaded, what was read of OpenCode and of an account | check, Apply, key commands, TUI saves, account switches, restart | whole documents are written from stale copies; an Apply awaits between its writes; a document is checked before its blocks are resolved | `LaneBlocks`, `LanePlans`, `Settings` |
| Agent lanes (`src/providers/cursor-cloud.ts`, `local-agent-backend.ts`, `cloud-agent-session-store.ts`, routes in `server.ts`) | agents, sessions, records and histories in memory and on disk | turn, adopt, cancel, recover, restart | a crash between a remote effect and its record; runs overlap | `CursorLane`, `LocalLane` |
| Daemon (`src/daemon.ts`) | pid file | start, stop, status, front | two commands, reused pids, a bridge that ends by itself | `Daemon` |
| Workspaces (`src/workspace/store.ts`, `src/server/workspace-http.ts`) | sessions and work orders in files | append, create, run, cancel | read before a chat, written after it; cancels race answers | `Workspaces` |
| React bindings (`src/react/*`) | controller, messages, flags | run, cancel, send, reset | a superseded run ends late; closures are stale | `ReactHooks` |
| Tool loop (`src/agent.ts`, `harness/compact.ts`, `summarize.ts`, `index.ts`) | the history of a session | turn, batch, compact, digest, carry over | a history that is cut must keep calls with results and the task | `ToolLoop` |
| Harness tool batch (`harness/batch.ts`, `cancel.ts`, `tools.ts`, `read-cache.ts`) | calls under way, signals, read cache | schedule, gate, read, write, edit, time out, interrupt | a cancelled call goes on working | `ToolBatch` |
| Harness terminal session (`harness/tui.ts`, `snapshot.ts`) | runs, the prompt on display, manifests and blobs | submit, keys, capture, undo, quit | prompts replace each other; cancelled work lands late | `HarnessSession` |
| Harness plaintext session (`harness/cli.ts`, `approval.ts`, `risk.ts`, `rules.ts`, `readline.ts`) | rules file, labels, open questions | classify, decide, ask, remember | one stdin answers several questions; two processes share a file | `PlaintextGate` |
| Harness context and agents (`harness/context-files.ts`, `agent-library.ts`, `subagents.ts`, `reviewer.ts`, `draft-agents*.ts`, `diff.ts`, `detect-workspace.ts`, `grep.ts`) | a file of vectors, a directory of definitions, rosters | walk, describe, rank, search, load, delegate, draft, install, diff | both files are shared by processes and waited over; links, caps, embedders of two widths | `Rankings`, `Delegates` |

The rest of the repository is listed under "Not modelled".

How they interact. A request enters the bridge on one of four wires, or calls the client
directly. The bridge asks the key gate, resolves the request to an ordered list of lanes (from
the id it names, the pin, the policy and the intent), and hands the list to a failover walk. The
walk asks the cooldown engine which lanes to skip, calls one provider at a time, and reports
success or failure back to the engine. A provider's adapter turns upstream events into chunks and
a sink turns chunks into the lines of the client's wire. One provider is the ChatGPT plan lane,
which asks the credential store for a token before each call and forces a refresh on a 401; two
others are agents that keep sessions of their own. When the answer, or the end of the stream,
arrives, the bridge records a usage event, reconciles the key's reservation and, on the Responses
wire, remembers the conversation. Settings pages, the key command, the terminal and account
changes rewrite the document a bridge is configured from while all this goes on. The harness is a
client of it: its tool loop alternates model turns, each a walk, with batches of tool calls that a
human, a rule or a label lets through, and that can be undone.

What makes each part correct:

* walk: a stop lane stops; one caller gets one lane's output; a failure is explained; a failing
  lane is parked before the next request; every walk ends;
* engines: a window is bounded, escalation is earned since the last success, what the page calls
  open is what walks skip, both maps agree, both engines keep one contract;
* gate: the limit holds within a window whatever order rows land in; nothing counts twice; a
  restart loses nothing;
* credentials: a refresh token is presented once; what is saved can be used; file and memory
  agree; a finished sign-in holds no port; every waiting request is answered;
* routes: an id that is published leads back to its lane; a request is walked over the plan it
  asked for, without repeats and with its stops, whatever is reconfigured meanwhile;
* streams: a client reads what the model said, is told how the stream ended, and an abandoned
  call is aborted upstream; memory joins only messages of one thread;
* requests and answers: the upstream is asked what the client asked, whichever wires meet, and the
  client is told what the upstream answered, or what went wrong;
* settings: keys are lost to nobody's stale copy but the ones excluded below; a restart of the
  bridge serves what it served before; a document that passes the check has every lane it asks for
  served, walked, and pinned as asked;
* agents, workspaces, daemon, hooks: no conversation shares another's agent, what is recorded as
  finished was saved, an order that is over stays over, one tracked bridge, the page shows its run;
* harness: a stopped gate stays shut, a notice tells the truth about the file, changes run one at
  a time, undo restores what the manifest says, rules are used where they were given, histories
  keep every call with its results.

## Modules

JavaScript runs without interruption from one `await` to the next, so a step is the code
between two awaits, and everything that stretch does is one action. Timers, deaths of processes,
disks, vendors and humans are actions of their own.

**Cooldown.** `LaneCooldown` is the contract of the interface: a lane is parked for some
remaining time for a recorded failure; a success or the passing of time frees it. How long a
failure parks a lane is open up to `MaxPark`. `MemoryLaneCooldown` (`cooldown.ts`) keeps absolute
times in `until` and failures in a second map, `Read` being the sweep of every use;
`CircuitBreaker` keeps failures, trips and `trippedUntil`, and `AfterFailure` is the body of
`cool`. Both implement the contract under a refinement mapping in which the remaining time is
computed from the clock and a failure counts while its lane is parked.

**`FailoverWalk`** uses the contract as its engine (`Cooldown == INSTANCE`). `pc` is what a walk
awaits: a lane's answer or the backoff sleep. `Land` is the loop from an index on: it skips
parked lanes and rests on a usable lane, on a parked stop lane, or past the end. `Fail` is the
catch block with one disjunct per way out, in the order of its tests.

**`ServiceKeyGate`** holds the gate, the tracker's ring and its store. `Admit` decides and
reserves in one step (`incomingServiceKey`); `Complete` is `emitUsage`; `TakeTable` builds a
new gate; `BridgeRestarts` reloads the ring. `admittedAt` and `forgotten` only observe, and
`PushedOut` is what a full ring gave up of the window: the store still has those rows, and the gate
no longer counts them.

**`ChatGptPlanAuth`** is one process's credential store. `refreshes` is the refresh in flight
with what the token endpoint has answered; `stuck` says that `refreshInFlight` holds a promise
that already failed; `handlers` counts callbacks whose code is being exchanged; `leaving` holds
sign-outs that wait for the revocation. The authorization server is external.

**Routes.** `BridgeState` is a running configuration and the two ways to one: the constructor
(`Constructed`) and `reconfigure` (`Reconfigured`, field by field, with what it keeps, replaces
and drops). `BridgeRoutes` takes one request from its id to its lanes: `lanesForRoute`,
`laneTargetsFor`, the pin, intents, the free filter, capabilities, and the walk, with `Step` being
one await. A model id is the sequence of its segments; one that ends in the slash behind a
provider's name is refused (`routeModel`), in the model by its empty last segment, `Cut`. Plans are
lists that are filtered, joined and merged: `Those` picks places of a list, and `Merged` keeps each
lane where it comes first (`FirstPlaces`) with the mark any of its entries gives it (`IsMarked`).

**Wires.** `StreamWires` has the adapters (six upstream wires) and `StreamSinks` the four sinks;
`StreamBridge` composes an upstream, an adapter, the usage tracker, a sink and the client, which
reads the sink's lines with the repository's own adapter of that wire. An upstream may also end,
report an error in the body or lose the connection, and the client may leave. The usage of an
OpenAI-style upstream rides on its finish or comes behind it in the frame that was asked for
(`SendsUsage`), which the adapter passes over; `reportUsage` makes a row without usage only for a
service key. `Conversations` is
the Responses memory and `ToolLoop` the client that makes the histories.

**Requests and answers.** `RequestMappings` holds the decoders of the four wires and the encoders
of the six upstreams, `AnswerMappings` the way back, errors included. A body is a sequence of turns
of parts (text, images, calls, results), so a mapping is what it moves, joins, renames and drops.
`Exchange` is one request that is not streamed: `Map`, `Send`, the second try of a rejected format
(`RejectFormat`) or token (`RejectToken`), and every way an answer or an error comes back. Its
properties read bodies with an interpretation of their own (`Spoken`, `CallsOf`, `ResultsOf`)
that the mappings do not use. `MC_GateAndExchange` sets it beside the gate.

**Settings.** `LaneBlocks` goes from a document as it is posted to blocks that are resolved:
`validateConfigWithSource` with its parts, slugs and provider ids, `readOpenCodeLocalState`, the
resolution of BYOK connections, custom lanes and the ChatGPT plan. A text is what a slug keeps of it,
and `odd` holds the fields of a part that have the wrong shape. `BlocksStart` and `BlocksPut` are a
start and an Apply seen from there, without the waits `Settings` is about. `LanePlans` goes on from
resolved blocks to providers and plan. `Settings` holds the file,
the bridge's document in memory, what it serves, and what every participant loaded; `cast` is who
takes part. `updateConfig` is the synchronous part of a PUT, `ModelsListed` and `CatalogWarmed` are
what follows its two awaits, `ServerTakes` is the reconfiguration.

**Agent lanes.** `LocalLane` splits a run at every write (`StartRun`, its loop, history, record);
a backend is dropped by a reconfiguration and lives on in the runs that hold it. `CursorLane`
splits a turn at every vendor call. **`Workspaces`**, **`Daemon`** and **`ReactHooks`** are the
remaining small machines around the bridge.

**Harness.** `ToolBatch` is one run's calls: `work` is where each call is, also when nobody
waits for it any more; `answer` is what the batch got. `HarnessSession` is a terminal session of
runs, prompts, keys, and a snapshot with its manifest and blobs; `PlaintextGate` is the policy of a plaintext run.
`Rankings` is what is offered before a task: one uninterrupted walk (`walkWorkspace`), then one or
two calls of an embedder between the read and the write of the file of vectors (`Rank`, `Embedded`,
`EmbeddedAgain`, `NotEmbedded`). A vector is the text and the embedder it is of. It also has what is
told of a workspace (`detectWorkspace`, over the same walk, with the code's tables of manifests,
managers and test commands) and the search (`grepWorkspace`), each one uninterrupted step and the
text a model reads of it. `Delegates` has
the definitions in a directory, the rosters made of them, drafting (`pc` is what a drafter waits
for: the model, c2c, the human) and, as functions of a text, the reading of a frontmatter by kinds
of line and both diffs.

`MC_*` modules give the constants values, and group what shares no state into one run: their
`part` is chosen with the initial state and one part moves, so that the state spaces add up
instead of multiplying. `*_proofs` modules hold the theorems. Operators marked "mutant" are
plausible mistakes in one definition; each is caught by the property it was written for.

## Runs

| Run | Instance | Properties and what they are made of |
| --- | --- | --- |
| `CooldownEngines` | 2 lanes, threshold 2, Retry-After below and above the ceiling, clock to 3, 4 failures, both engines fed alike | `WindowsAreSound` (types, bounded windows, earned escalation), `EnginesTellTheTruth` (health is what walks see, maps agree, no longer wait in catalog mode), `KeepsContract`, `PlainEngineKeepsUp` |
| `FailoverWalk` | 2 walks, 3 lanes, a plan with a stop lane and one without, caps 2 and 3 | `WalksAreSound` (types, stop lanes, one lane's output, explained failures), `AttributionMissesOnlySilentSkips`, `NextRequestSparesIt`, `EveryWalkEnds` |
| `GateAndExchange` | 3 requests, one key under three tables, a ring of 1 row, window 2, clock to 3, swaps, resets, restarts; 79 bodies on 4 wires to 6 upstreams, up to 7 answers each, 6 statuses, one second try | `LimitsHold`, `AccountsAreRight`; `ExchangesSurvive` (asked: `AskedAsMeant`, `AskedInOrder`, `WishesKept`; answered: `ToldAsGiven`, `ToldWhatWentWrong`) |
| `ChatGptPlanAuth` | 2 accounts, 2 requests, a sign-in, sign-outs, 3 tokens, restarts | `CredentialsAreSound`, `CallsAreAnswered` |
| `ToolBatch` | 2 turns of 2 calls on one file, one change from outside | `GatesHold`, `NoticesAreTrue`, `EditsLoseOnlyToCancelled`, `EveryBatchEnds` |
| `Wires` | 6 upstream wires by 4 sinks, 2 calls in 2 pieces; 3 turns of 2 clients over a memory of 2; 2 tasks of 2 turns | `StreamsAreSound` (`StreamsAreWhole`, `EndsAreTold`), `AbortEndsUpstream`; `ThreadsStayApart`; `HistoriesAreWhole` |
| `RoutesAndSettings` | 8 kinds of request over 8 configurations and 2 of 9 reconfigurations; 5 casts, 2 writes, 1 switch, 2 starts; 17 documents, 4 OpenCode installs, 2 of its messages, pools of 2 | `ConfigurationIsWhole`, `RequestsGoAsPlanned` (`WalkStaysInside`, `FreeNeverBills`, `CloudStaysPut`, `PickedLaneLeads`, `SameLanesAsClient`, `StopLanesStop`, `PlanOrder`, `ProviderCapHolds`, `ExhaustsThePlan`), `EveryRequestEnds`; `SettingsOutlive` (`NothingIsLost`, `RestartIsInvisible`); `BlocksKeepTheirPlans` (`AppliesCleanly`, `LanesStayApart`, `NothingIsDropped`, `PinsHold`, `AdvertisedIsWalked`, `PlansAreKnown`, `PoolsAreRecent`) |
| `HarnessSession` | 2 runs, 2 calls in all, on two paths, one of them new | `RecordIsTrue`, `StopsAndUndosHold`, `EveryRunEnds` |
| `AroundTheHarness` | 2 processes, 2 workspaces, 3 calls: two of a process that classifies nothing, piped, at a terminal or with --yes, one of a classifying process at a terminal; a process that asks is interrupted at its questions only (otherwise a first Ctrl-C gives up the call under way, as its timeout does); 2 rankings over 3 trees, 3 embedders of 2 widths; 8 roots over 4 trees to describe and 5 to search; 2 drafters, 3 answers; a roster; 961 pairs of texts and 11111 frontmatters | `RulesAreSound`, `DecisionsAreSound`, `AnswersLast`; `RankingsAreSound` (`WalkIsWhole`, `RankedByOwnWords`, `PicksAreWorthy`, `FactsAreTrue`, `SearchesAreHonest`); `DelegatesAreSound` (`InstallsAreAsked`, `InstalledIsOffered`, `HeldAsDeclared`, `DelegationsToldRight`, `FrontIsRead`, `DiffsAreTrue`) |
| `AroundTheBridge` | 3 runs of 2 conversations; 3 turns of 2 conversations, 3 agents; 3 messages and an order; 3 page runs; 3 commands, 2 pids | `LaneIsSound`, `AgentsAreKept`, `SessionsAreSound`, `FinishedOrdersStay`, `HooksShowTheRun`, `OneTrackedBridge` |

Two runs end in a violation; each states a comment of the source that the code does not keep.
`WalkDuplicatesOutput` (`StreamNeverDuplicates`): a lane streams output and then fails with a
credential error, and the walk goes on to the next lane. `TaskIsDigested`
(`TaskIsNeverDigested`): the prompt of a follow-up task is digested away with the turns around it.

Why the bounds suffice. Two walks are enough for one to park, or free, a lane between two
attempts of the other, and three lanes for a plan to have lanes before and after a stop lane; the
proofs remove these bounds. Threshold 2 with 4 failures reaches a blip, the first trip, an
escalated trip and the ceiling. A window of 2 in 3 time units lets reservations and rows age out
and be replaced. Three tokens are the initial one, a rotation and a sign-in (or two rotations),
so every token can be valid, spent, lost or revoked. Two turns of two calls let a call of the
first turn still be at work during both calls of the second. Two calls in two pieces interleave
in every way the wires allow, and a memory of two conversations evicts with three turns. Two
writes are the stale one and the one it overwrites, by each pair of writers that can meet
(`Casts`); two starts of the bridge are one restart. Three agents let an orphan, its replacement
and a conversation's other agent exist together. The bodies of `Exchange` have two calls at once
with results the other way round, a call and a result in later turns, images in each form and
place, every tool choice and format, turns that map to nothing, and orphaned results; a mapping
treats parts one by one, so longer bodies add none. The trees have a link to a parent, a directory that is first
reached by its longer way, links to the root and one file more than the cap; four lines of ten
kinds reach every pair of a value and what may follow it, and texts of four lines windows that
touch, overlap and sit at an end. The documents have two connections whose ids share a slug or leave
none, pins to lanes that are off, lists with repeats, a plan that names a lane it does not
have, and lanes without models; pools of two overflow with the second message of OpenCode. The roots
to describe have a manifest that dangles, one that is a directory, four manifests at once and a
tooling file without a manifest; caps end a walk before, in and after the directory that has the
missing language. A ring of one row is full with the second, so that the third request may find a row
of its window pushed out: without `PushedOut` both limits that name it fail.

What some properties leave out, so that they hold of the code as it is: `RestartIsInvisible`
speaks of a bridge whose file nobody else wrote since, whose jobs did not overlap or fail, with
the catalog neither switched off nor changed, and of fields the document states.
`KeysOutlive` counts the keys of lanes without a row in the page as not typed. `QuestionsStay`
excludes sends from stale closures; `OneTrackedBridge` excludes overlapping commands and reused
pids; sessions lose exchanges only to overlapping appends; `RestartsForkNoSession` and
`NoUnexplainedOrphans` excuse lost answers. `AskedAsMeant` and `WishesKept` name, wire by wire, what
is known to be lost, the JSON wish of a Gemini body among it. `MeteredOnce` speaks of the usage of the
finish, not of a frame behind it, and `ReviewSeesChanges` of commands and of calls that were shown as a
diff, not of a write or an edit shown as a note (a large or binary file, an empty new one, a change too
long to compare). Developer items of
the Responses wire and parallel Gemini calls without ids are not among the bodies, and lists of
parts without text only where shown. Each exclusion is a bug listed below or stated with
the property.

Deadlock is checked for the two engines, which can always be told of another success; the other
runs set `CHECK_DEADLOCK FALSE`, since walks, requests, sign-ins, turns and sessions really end.

### Fairness

`FailoverWalk` assumes that a call under way ends (the HTTP client's limits, or the caller stops
reading) and that the backoff timer fires. `ChatGptPlanAuth` assumes that a call of the token
endpoint ends: `postForm` passes no signal, so these are the runtime's own timeouts. `ToolBatch`
and `HarnessSession` assume that a batch goes on when it can, that its events are handled, and
that a call's budget runs out (`--tool-timeout` above 0, the default being 120 s); no tool, disk
or human has to answer. `RoutesAndSettings` assumes that a busy request takes its next step
again and again (credential lookups and provider calls return). `Wires` assumes that an abort,
once signalled, reaches the pending read of the body. The other modules claim no liveness.

## Proofs

Eight modules; every theorem holds for every value of the constants under the named assumptions,
which TLC evaluates with the runs. Each invariant below was checked by TLC before it was proved,
but for `RequestInv`: of its index functions TLC cannot enumerate the candidates.

`FailoverWalk_proofs`: `TypeCorrect`, `StopLanesStop`, `OneLanePerStream`,
`EveryFailureIsExplained`, `WalksStaySound` (the run's `WalksAreSound`), `AttributionIsRight` and
`FailuresPark`. None is inductive alone. `IInv` adds the engine's `ParkedForAReason`, without which
a walk that stops on a parked lane could surface no failure, and `WalkInv(w)`, which places the
index of a live walk inside its plan and its cap, says that lanes behind it are not terminal, that
the trail names lanes up to the index, and that a walk in backoff is not at its last stop.
`Landing` says once what the loop guarantees from any index on; `BystanderKeeps` covers the walks
an action does not touch. `AttributionIsRight` needs `NamedInv`: the entries of a trail are at
targets up to the index, and the ones since the lane that was announced last are credential
errors. `FailuresPark` is a statement about single steps: a retryable failure parks its lane on
every way out of the walk.

`BridgeMemory_proofs`, about what the bridge remembers between requests: lanes that rest, and
conversations. The two share no state.
Of the breaker and the plain engine: `TypeCorrect`,
`WindowsAreBounded`, `EscalationIsEarned`, `WindowsStaySound` (`WindowsAreSound`),
`EnginesStayTruthful` (`EnginesTellTheTruth`), and the refinements of `LaneCooldown`,
`BreakerKeepsContract` (`BreakerKeepsUp` where both are fed alike) and `PlainEngineStaysSwept`. A
window is bounded after a step only because the
trip count that sizes it is typed, and the refinement needs the bound to find a window of the
contract for each failure. The engines are truthful because of `BothInv`: the plain engine's three
maps have the same lanes (`MapsAgree`), its counters match what it shows (`CountersMatch`), and a
rate limit ends in both catalogs together (`LimitsEndTogether`). A longest Retry-After is assumed,
since the contract bounds a park; the code does not bound it, but any history has finitely many.
Of conversations: `ThreadsNeverMix` (`ThreadsStayApart`). The memory is written long after it was
read, so `TalkInv` says what stays true of everything in it and of every turn under way. Its ids are
the last ones issued, in order (`MemoryInv`), since a response is numbered when it is remembered;
that is why a recent one can be resolved and why an answer is always a new entry. An entry has an
owner that was issued its id or a later one, and the last entry of a client that lost nothing is its
thread, but for instructions (`EntryOf`): whole, its results behind their calls, its calls given to
that client (`Whole`). A request that found its past carries the thread and what its client asked
(`FlightOf`), and so does the answer that is remembered. For results without a past, a call's id
leads to a client only if no other client was given it: then the newest conversation that holds it is
of this client, no newer than its last response, and that one holds all the calls (`PriorIsOwn`).
`Stands` places each message of a list without instructions in the list, so that
`ContinuesOwnThread` follows by counting (`WithoutIs`).

`ToolBatch_proofs`: `TypeCorrect`, `ShutGatesHold`, `OverlapNeedsCancel`, `GatesStayShut`
(`GatesHold`), `NoticesStayTrue` (`NoticesAreTrue`) and `EditsReplaceWhatTheyRead`. The overlap is
about two calls and the schedule decides about them at different moments, so `IInv` remembers what
the schedule saw: a call at work that kept its signal is still waited for by this turn (`Live`),
and whoever a change had to wait for has been answered (`Ordered`). `Advance` is the shape every
step of one call has, so its effect on all calls is proved once. For the files, `CacheInv` and
`HandInv` say that no content is written twice, so that a measure taken of an older one stays
stale; that whoever reads a file holds it; and that an edit which was not cancelled finds either
what it read or what nobody was allowed to write.

`HarnessTurns_proofs`, about the gate and the tool loop, which share no state. Of the gate:
`TypeCorrect`, `RulesStaySound` (`RulesAreSound`), `DecisionsStaySound` (`DecisionsAreSound`) and
`AnswersStay` (`AnswersLast`). What a running process knows was loaded
from the file or learned since, so a rule is sound only if both were: `FileAnswered` says it of the
file, `ProcessSound` of each process, with why each of its calls may run and that a command that
runs, and any other call shown as a diff, is recorded for the reviewer.
Of the tool loop: `HistoriesStayWhole` (`HistoriesAreWhole`) and `HistoriesAccount`. `LoopInv`
says that the history of a run, and the one a session carries, is a `HistoryOf` all that was said:
its messages stand for every position of the transcript, one that is no digest is later than all
before it, and calls sit with their results; that the turn just completed ends it (`TurnAtEnd`);
and that while a batch runs it is such a history with the turn's calls behind. Two steps could
break it. The end of a batch puts one result per call behind the calls (`BatchShape`). A
compaction drops whole units: `UnitOf` finds the unit a message is in, `PlanIs` that the plan drops
units in front of all that stays but instructions and first task, and `CompactionKeeps` and
`CompactionKeepsTurn` that what is left, numbered by the places of what stays (`PlaceOf`), is again
such a history. `HistoriesStayWhole` assumes `KeepRecent > 0`: `compactMessages` accepts 0, and then
it may digest the turn just completed, but no caller in `src/` passes the option, whose default
is 2. `HistoriesAccount` is what holds with 0 as well.

`HarnessSession_proofs`: `RecordStaysTrue` (`RecordIsTrue`) and `StopsAndUndosKeep`
(`StopsAndUndosHold`). `SessionInv` says that a call which was not cancelled is waited for, so that
a run which is over has none left to write; that what is about to be written is on record; that a
snapshot is orderly, one entry a path and a blob for each entry; that paths which no entry covers
and nobody meddled with are as they were at the start; and, while a run is the only one that copied
bytes, that its blobs are the bytes of before. A prompt that waits is of a call that was asked. The
set of paths is assumed finite, which bounds the entries.

`ChatGptPlanAuth_proofs`: `CredentialsStaySound` (`CredentialsAreSound`) and `RefreshesStayRight`.
That no spent token is ever presented is about the token endpoint, the file and memory at once. The
invariant `RefreshesAreRight` ties them: there is one refresh at a time (`OneRefresh`), no token is
newer than the endpoint's count (`Numbered`), a token that is presented is of the account it is
presented for (`RefreshesAreOwned`), and a replacement on its way is good and saved nowhere yet
(`AnswersAreNew`). The stores of the start are assumed `Orderly`, as the reader of the file leaves
them.

`AroundTheBridge_proofs`, about the agent lanes, the gate, workspaces, hooks and daemon:

* Local lane: `TypeCorrect`, `SessionsAreNotShared`, `RunningMeansALoop`, `FinishedMeansSaved`,
  `HistoriesOnlyGrow`, `CancelledRunsAreDropped` and `LaneStaysSound` (`LaneIsSound`). The invariant
  adds that a live mapping names a session of its conversation (`Mapped`), that a backend's loop is
  held by a run (`LoopsAreHeld`), that what a history holds is over (`HistoriesAreOver`) and that a
  cancel was seen (`CancelsAreSeen`).
* Cursor lane: `CursorTypeCorrect`, `RestartsForkNoSession`, `NoUnexplainedOrphans` and
  `AgentsStayKept` (`AgentsAreKept`); the invariant adds that recorded agents exist
  (`RecordedAreBorn`), that the number of agents bounds their names (`TurnsAreCounted`) and where a
  turn may stand relative to both stores (`TurnsAreRight`).
* Gate: `AccountsStayRight` (`AccountsAreRight`) and `LimitsStay` (`LimitsHold`). A row takes the
  place of the oldest reservation of its key, which as a rule is another request's, so no row can be
  followed to its request; the proof counts. `Counting`: rows and reservations of a key are no more
  than its requests, and rows no more than those served. `Covered`: for every time T of the window,
  who was admitted after T is no more than the rows of the store and the reservations after T.
  `UnderLimit`: nor is it more than the limit and the rows after T that the ring gave up. The property
  alone is not inductive, since both its sides shrink when the window moves; said of every T it is.
  `InFlight`: where the running sum of tokens has reached the limit, no open request is younger than
  the row; it survives an eviction because the sums of the end of a list are at most those of the list
  (`SumsOfRest`). `LimitsStay` assumes nothing of the ring's size.
* Workspaces: `SessionsStaySound` and `LateCancelsAreRefused`. A request under way holds whole
  exchanges and its question, an answer is in whatever is about to be written over its session
  unless an append overlapped it, two requests that chat in one session were seen to overlap, and a
  chat that waits has an unfinished order.
* Hooks: `HooksKeepShowingTheRun`. The run that was not aborted is the one the hook points at, and
  it works on what is shown.
* Daemon: `OneBridgeStaysTracked`. `DaemonInv` says what each step of a command may rely on when no
  other command runs beside it.

`RoutesAndSettings_proofs`:

* Routes: `ConfigurationStaysWhole` (`ConfigurationIsWhole`). `ReconfiguredIsWhole` says it of one
  reconfiguration with any partial configuration, as long as that does not ask for a policy and for
  auto mode at once (`RoutesAssumption`): `reconfigure` refuses this one half-way, with the policy
  taken and no engine for it. None of its four callers, all in `src/cli.ts`, sends auto mode at all.
* Requests: `RequestsAreServedAsPlanned` (`RequestsGoAsPlanned`), for any providers, plans, models,
  requests and number of reconfigurations. `PlansAssumption` is what `validatePolicy` lets pass:
  lists of entries with non-empty models, marks that are booleans, a cap that is a number; that a
  lane is of a known provider is not assumed. Not one of the nine parts is inductive: what a walk
  calls is right because of the stops it was given, these because of the targets that awaited their
  credentials, those because of the plan. `RequestInv` follows this chain. `Picks(t, s, places, a)`
  says that a list is what another has at some places, in order, by the function `a` from the one's
  places to the other's. While targets are resolved, the stops and the targets to come are each
  picked from the resolved plan (`Halfway`); the stops of a walk are picked from it by what the
  filters let pass (`Aimed`); and the lanes called are picked from the stops, all before the index,
  with every stop before it called or skipped, and none of them a stop lane unless that was the end
  (`Walks`). What a plan resolves to is the lemma `ResolvedIs` (`Resolves`: the primary first, each
  lane once, marked if and only if an entry marks it, trusted lanes first, all of them or as many as
  the cap allows). A reconfiguration frees a request from its plan (`calm`), never from the free
  lanes it asked for.
* Settings: `SettingsOutliveEdits` (`SettingsOutlive`), for any documents, forms, keys, pages and
  number of edits. `KeysInv` is about keys: what the bridge has read of the file is what is in the
  file (`MemoryIsFresh`), and whoever is not behind would write what the file says already
  (`TerminalIsFresh`, `CommandIsFresh`, `PageIsFresh`), since a mask stands for a key in memory and a
  field without one for a key the environment does not have either. `ServingInv` is about what is
  served: at rest the server has the providers, plan, keys and lane of the document in memory
  (`HeldIsServed`, `PlanIsServed`), and a job that waits holds what it takes to get there
  (`Serving`): the account it asked is still the active one, what it wants is what the document
  names, and the plan it carries is the plan of now. Both hold on the run, too. That such a server is
  the one a start would make is a fact about plans (`PlansLead`, `ProvidersAlike`): but for the
  policy, which a document may leave to memory, a plan depends on nothing an edit leaves behind.
  `DocumentsAssumption` says that documents have their fields and that two catalogs which make the
  same providers callable list them alike, which is how `warm` builds them.

Lists are under induction all the same: sums of tokens are over lists of any length, and so are the
joined lists of a plan (`FlatIs`, `ThoseAre`, `MergedIs`, `TrimmedIs`). The library's induction
theorems cannot be used, but well-foundedness of numbers can (`LeastNumber`, `LeastOne`, `UpTo`),
with the set of numbers for which a fact holds in place of the predicate.

Left to TLC: liveness under fairness (`EveryWalkEnds`, `CallsAreAnswered`, `EveryBatchEnds`,
`EveryRequestEnds`, `EveryRunEnds`, `AbortEndsUpstream`), which is beyond the prover; the modules
that compute by recursion over trees and lists of messages (`Exchange` with the mappings,
`StreamBridge` with wires and sinks, `LaneBlocks` and what it makes of `LanePlans`, `Rankings`,
`Delegates`).

## Not modelled

* Walks without an engine, and failures reported without error information: a walk of the bridge
  or of a client with a policy always has both.
* The gate's expiry, allowed lanes and origins (pure checks of one request), aggregation and
  prices of usage.
* ID-token validation, the host id, plan usage on an account, and a second process over the
  credential file.
* In the tool batch: `bash` and the delegated tools, which are killed when cancelled (they appear
  in `HarnessSession` as work that takes time); the cache's bound of 256 entries, which only turns
  a notice into a read. In the tool loop the calls of a batch finish in any order; which may
  overlap is `ToolBatch`'s subject.
* Every document in `Settings` is valid: the check of documents is in `LaneBlocks`. A page's loads of
  its two lists are one load. Where OpenCode keeps its files on each system, and its keys.
* In requests and answers: declarations of tools, names of speakers, reasoning echoes and thought
  signatures, token estimates, the parsing of markup and of images' bytes (an image passes the
  gates of `resolveLocalImageUrl` or does not).
* What bihan does with an agent, what c2c renders beyond the few files of `RenderedOf`, the deadline
  of a walk beyond "before any entry", and the arithmetic of vectors.
* The wording of messages, HTML of the pages, layout of the terminal, prompts and reports: one
  value in, one value out, no state that another step reads. They are a large part of the
  repository, and the reason why a good part of its lines is not mapped.
* The SDKs, the MCP server, the agent runtime, scripts and examples.

## Seen, not run

Disagreements and bugs met while reading, for which no run is kept.

Walks, engines, gate, credentials:

* A walk that failed on its first lane and then stops on a parked stop lane surfaces that lane's
  error, where the comments promise the first one (`failover.ts:329`); `onFailover` may name a
  parked lane (`:57`); a shorter window replaces a longer Retry-After (`cooldown.ts:53`).
* When the ring of 10 000 rows is full, a row may be pushed out in its window, a quiet key's by a busy
  one's, and its key is admitted once more (`usage.ts:126`; `PushedOut` counts how often). A keyed request that fails leaves no row. A settings
  Apply builds a new gate, which forgets the reservations of requests in flight
  (`server.ts:547`; `InFlightStayCounted`).
* Refreshing an account without a refresh token leaves a failed promise in `refreshInFlight` for
  good (`chatgpt-plan-auth.ts:804`; `SigningInAgainHelps`); a refresh in flight puts a signed-out
  account back (`:811`; `SignOutSticks`), and spreads an old record over a new one, plan usage
  included (`:795`); a request that joins a refresh after the active account was changed is served
  the token of the one it was switched away from (`:757`); a sign-out that waits for the revocation
  removes an account that was signed in again meanwhile; two processes share the file (`:604`).

Routes and configuration:

* `reconfigure` may throw after it swapped providers (`server.ts:497`, `:510`, against "swap
  atomically" at 463); in-flight requests do not finish on the state they started with.
* The displaced lane of a named route carries no stop mark (`server.ts:880`); `openrouter/auto`
  loses its prefix; the intent profile's and the client's `freeOnly`, and `defaultModel` for
  unpinned bare requests, are ignored (`FreePlanNeverBills`, `DefaultModelServed`); with a custom
  catalog source the lanes of BYOK, ChatGPT and cloud agents are dropped from plans, because
  `resolvePolicyLanes` skips entries whose provider the catalog lacks (`policy.ts:268`;
  `AddedLanesTried`). For the same reason a stop lane of such a provider does not end the walk when a
  request lands on it directly, against "reaching a stop lane directly must stop just as arriving
  by rotation does" (`server.ts:872`; `DirectStopsStop`). `BridgeRoutes` states these four;
  TLC refutes each.
* A catalog that is switched off passes `undefined`, which `reconfigure` keeps (`cli.ts:1017`), and
  so does every cleared field; a changed provider choice of a catalog in use waits for a restart.
* `updateConfig` writes the file before it applies, and a failed apply leaves both changed.
* The check of a document throws, instead of naming the field, on lanes or connections that are no
  array, a repository that is null and a chat pin that is no text (against `config.ts:748`); it does
  not check that the pinned BYOK model is one of the models. At the start there is no catalog to check
  a policy against, and a plan in memory is not checked again when the catalog changes. With a catalog
  the check knows none of the document's own lanes, so a policy cannot name them.
* A stale page Apply or terminal save writes back the service keys as loaded, which drops minted
  and un-revokes revoked ones (`settings-page.ts:2020`, `settings-tui.ts:371`); the page's document
  omits `localAgent`, though `config-file.ts:8` says both "round-trip this exact document"; `key`
  commands put back the document they read; environment keys are persisted by a page's echo of
  their masks; keys of lanes without a row are dropped by the next Apply (`settings-page.ts:702`).
* A late list of the previous account's models overwrites the new one's (`cli.ts:820`, `:1061`);
  of two concurrent `warm()` calls the older catalogue may win (`catalog/source.ts:195`).

Wires:

* A second tool call that starts before the first one ends overwrites it on the Responses wire
  (`responses.ts:566`); text after tool uses has the wrong `output_index`; reasoning is dropped.
* The usage frame behind the finish, asked for at `openai-compatible.ts:414`, is passed over with every
  frame without choices (`:527`), so those streams make no row, or one of zeros for a service key,
  against "defer the normalized finish event until any trailing usage frame has arrived"
  (`conformance/README.md:9`; `TrailingUsageCounts`, which TLC refutes).
* The chat wire always writes a second finish, 'stop'. An error payload in an OpenAI-style body is
  ignored. Gemini and Ollama calls share ids across turns. Two wires write their head before they
  look upstream, though a comment says they peek.
* `conversation-state.ts:44` says only the last assistant message is searched; all are.
  Instructions pass by the check that an input is only what is new.
* Requests: the Messages wire puts a user turn's text before its tool results, so that a question
  stands between a call and its result (`anthropic-wire.ts:137`); calls without ids of one turn get
  one id on the Messages, Gemini and Responses wires; developer items are dropped
  (`responses.ts`); an empty user turn of the chat wire becomes a blank text block for Anthropic.
* The Gemini wire declares `responseMimeType` and `responseSchema` (`gemini-wire.ts:47`), not among the
  fields "the bridge deliberately drops" (`:50`), and `mapGeminiRequest` drops them (`:193`;
  `GeminiWishesKept`, which TLC refutes).
* The second try without `response_format` replaces a system prompt that is a list of parts by the
  request for JSON (`openai-compatible.ts:320`).
* Toward Gemini the tool choice, all system messages but the last and the pairing of results
  (`tool_response`) are lost; toward Ollama the ids, so that results in another order than their
  calls cannot be told apart; `opencode.ts` drops the response format of both its own bodies.
* Answers: the Responses wire says 'completed' also of an answer that was cut; an answer of Ollama
  with calls is told as an ended turn, and so is recovered markup of an OpenAI-style upstream on
  the Messages and Gemini wires ('tool_calls' is none of their reasons).
* Errors: Ollama's statuses are dropped; without a status the Messages and Gemini wires say 500
  where the chat wire says 401 or 502; an image URL `fetch` refuses is told as 500.

Agents, workspaces, daemon, page:

* Local lane: a restart of a session replaces the controller; reconfiguring drops backends, and a
  record may stay running. Cursor lane: two first turns create two agents; recovery from a deleted
  agent may drop a newer mapping; conversation ids may hash alike
  (`cloud-agent-session-store.ts:133`); a client that leaves never cancels the vendor's run.
* Work orders stay 'running' after a restart; 'done' may overwrite an acknowledged cancel;
  overlapping appends lose an exchange.
* `modelhitch status` clears a pid file written during its probe; two overlapping commands lose
  track of a bridge; `stop` may signal a process that got a stale pid.
* `useStream`'s `isStreaming` is false while a newer run streams; `send` and `reset` in one render
  work on the stale closure.

Harness:

* Remembering a rule writes this workspace's rules only (`rules.ts:167`; `RulesStay`). A stale
  question on stdin is answered by the line meant for the next. `--risk` alone approves 'safe'.
* A write or an edit whose preview is a note and no diff is performed without a trace for the reviewer
  (`harness/cli.ts:709`, against "Records what an approved write contained", `:707`; `EveryChangeIsReviewed`,
  which TLC refutes), and declined calls are recorded with the approved (`:741`, against "per approved
  change", `:703`).
* A prompt that opens while another waits takes its place, and the first is never answered
  (`tui.ts:792`). After Ctrl-C the remaining changing calls of a batch still run. A stopped or
  failed run never finishes its manifest. The tasks of a session share a snapshot directory, and
  blobs are overwritten. Undo falls back to the latest run of any workspace.
* A mutating call that timed out overlaps the next (`batch.ts:104`; `StrictlyOneAtATime`); a
  cancelled read fills the cache, and the model is told that it has a body it never got
  (`read-cache.ts:187`; `NoticeNamesABody`); compaction drops bodies the cache refers to
  (`compact.ts:307`).
* One latch lets parallel long outputs in whole, and a digest is outside its call's budget
  (`summarize.ts:141`); a dropped unit's digest is pushed once per unit (`compact.ts:303`).
* A root that is a link may be walked twice, and its files found at two places
  (`context-files.ts:643`) and counted twice (`detect-workspace.ts:631`, "each seen once"). A search
  that scanned its last file without a match says "No matches" with no word of the cap
  (`grep.ts:253`). `package.json` names JavaScript, but one TypeScript file takes its place without its
  weight, so that a language no manifest names may lead (`detect-workspace.ts:535`). A file whose meaning is opposite returns as a sibling that "scored
  nothing" (`:950`). A cached query of another width is never asked for again, as every embedder has
  the id 'default' (`agent-library.ts:749`); two processes that write the file of vectors lose each
  other's; `find_subagent` has no budget for its embedder.
* Drafting looks for the target file before it asks (`draft-agents.ts:839`), so two drafters
  overwrite each other; an excluded name can be installed and never loads; the human is asked, and
  told "installing (--yes)", although there are problems; an abort after the conversion still
  installs. An inline list over two lines, or one tool as plain text, grants nothing without a
  warning (`agent-library.ts:384`). `unifiedDiff` says `-1,0` of an empty file and nothing of a last
  newline.

## Plan

What is left, in the order of what matters to a user:

1. Proofs about the lane blocks (`BlocksKeepTheirPlans`), with `Those` in place of their folds, as for the routes.
2. Abstract specifications: of the gate, a rolling window that admits at most the limit; of the
   read cache, a read that always goes to disk.
3. The inference of intents from texts (`core/intent.ts`), the client's own failover (`src/client.ts`) and the SDKs'
   walks, against the contract of `FailoverWalk`.
