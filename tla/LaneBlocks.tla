------------------------------ MODULE LaneBlocks ------------------------------
(***************************************************************************)
(* The blocks of a configuration document that add lanes: what a bridge    *)
(* checks of a document before it takes it, and what it makes of one it    *)
(* took.  LanePlans begins where this module ends, with blocks that are    *)
(* resolved.                                                               *)
(*                                                                         *)
(* document: policy, profiles (intent profiles by name), default, model,   *)
(* catalog, cloud, and the blocks byok, custom and chat.  Every part has   *)
(* in odd those of its fields that have not the shape they should.  A text *)
(* is what a slug keeps of it: whether it has OpenCode's prefix, and the   *)
(* word that is left, "" when nothing is.                                  *)
(***************************************************************************)
EXTENDS LanePlans, FiniteSets

CONSTANTS
    Blocks,         \* documents
    Installs,       \* what an OpenCode install may hold
    Rows,           \* messages OpenCode may record: provider and model
    NameOrder,      \* the names of OpenCode's providers, in the order of the alphabet
    Slots,          \* what a ChatGPT account may list
    SnapshotModels, \* what OpenCode's own catalog lists, its default first
    MaxModelsPerProvider, MaxMessageRows,
    MaxUses         \* bound: messages OpenCode records meanwhile

Text(conn, word) == [conn |-> conn, word |-> word, said |-> TRUE]
Blank == [conn |-> FALSE, word |-> "", said |-> FALSE]

IsConnection(c) == {"odd", "id", "label", "models", "on"} = DOMAIN c
IsByok(b) == /\ {"odd", "on", "sync", "pinned", "pin", "model", "conns"} = DOMAIN b
             /\ \A i \in DOMAIN b.conns : IsConnection(b.conns[i])
IsLane(l) == {"odd", "id", "label", "models", "on", "stop"} = DOMAIN l
IsCustom(c) == {"odd", "on", "leads", "lanes"} = DOMAIN c /\ \A i \in DOMAIN c.lanes : IsLane(c.lanes[i])
IsChat(c) == {"odd", "on", "pinned", "pin", "models", "leads", "stop"} = DOMAIN c
IsBlocks(doc) ==
    /\ {"odd", "policy", "profiles", "default", "model", "catalog", "cloud", "byok", "custom", "chat"} = DOMAIN doc
    /\ IsByok(doc.byok) /\ IsCustom(doc.custom) /\ IsChat(doc.chat)

ASSUME BlocksAssumption ==
    /\ \A doc \in Blocks : IsBlocks(doc)
    /\ {MaxModelsPerProvider, MaxMessageRows, MaxUses} \subseteq Nat /\ SnapshotModels # <<>>

VARIABLES
    held,       \* the bridge's document
    warm,       \* the catalog it holds
    learned,    \* what it last read of OpenCode
    slots,      \* what it last heard of the account
    install,    \* OpenCode's files
    verdict,    \* what became of the last document
    checked,    \* ghost: the plans in memory were checked against the catalog it holds
    uses

blockVars == <<held, warm, learned, slots, install, verdict, checked, uses>>

NoDoc == [odd |-> {}]
Named(models) == SelectSeq(models, LAMBDA m : m # NoModel)
Distinct(s) == FoldLeft(LAMBDA acc, x : IF Contains(acc, x) THEN acc ELSE Append(acc, x), <<>>, s)

-----------------------------------------------------------------------------
(* Provider ids.  A label stands in for an id of which no slug is left.    *)

openCodeByokSlug(value, fallback) ==
    IF value.word # "" THEN value.word ELSE IF fallback.word # "" THEN fallback.word ELSE "default"
openCodeByokProviderId(c) == "opencode-byok-" \o openCodeByokSlug(c.id, c.label)

\* Here the prefix is a word like any other.
Cleaned(text) == IF ~text.conn THEN text.word ELSE IF text.word = "" THEN "conn" ELSE "conn-" \o text.word
customLaneSlug(value, fallback) ==
    IF Cleaned(value) # "" THEN Cleaned(value) ELSE IF Cleaned(fallback) # "" THEN Cleaned(fallback) ELSE "lane"
customLaneProviderId(l) == "custom-" \o customLaneSlug(l.id, l.label)

chatGptPlanModelSlug(m) == IF Len(m) > 1 /\ m[1] = ChatPlan THEN Tail(m) ELSE m

-----------------------------------------------------------------------------
(* What OpenCode's files say: who is connected, which models were used     *)
(* last, which one is selected.  Nothing in them is an error; what cannot  *)
(* be read is left out.                                                    *)

NoChoice == [p |-> "", m |-> NoModel]
Unlearned == [found |-> FALSE, providers |-> <<>>, selected |-> NoChoice]

\* Messages are read newest first.  One that cannot be parsed has no provider.
Recent(files) ==
    IF ~files.data \/ files.db # "readable" THEN <<>>
    ELSE SelectSeq(SubSeq(files.history, 1, IF Len(files.history) < MaxMessageRows THEN Len(files.history) ELSE MaxMessageRows),
                   LAMBDA r : r.p # "")

Configs(files) == IF files.config THEN files.configs ELSE <<>>

\* A file's own choice comes before the models it lists.
Mentions(files) ==
    [i \in DOMAIN Recent(files) |-> [p |-> Recent(files)[i].p, m |-> Recent(files)[i].m]]
        \o FlattenSeq([i \in DOMAIN Configs(files) |->
                        LET c == Configs(files)[i] IN (IF c.selected = NoChoice THEN <<>> ELSE <<c.selected>>) \o c.lists])

pushModel(models, m) ==
    IF m = NoModel \/ Contains(models, m) \/ Len(models) >= MaxModelsPerProvider THEN models ELSE Append(models, m)

Pool(files, p) ==
    FoldLeft(LAMBDA models, mention : IF mention.p = p THEN pushModel(models, mention.m) ELSE models, <<>>, Mentions(files))

\* Credentials are in a file of their own, and in the database unless it cannot be opened.
Connected(files) ==
    IF ~files.data THEN {} ELSE files.auth \cup (IF files.db \in {"readable", "no history"} THEN files.credentials ELSE {})

lastUsedAt(files, p) == Max({r.at : r \in {x \in ToSet(Recent(files)) : x.p = p}} \cup {0})

\* Last used first; then the longer list; then the alphabet.
Before(a, b) ==
    \/ a.used > b.used
    \/ a.used = b.used /\ Len(a.models) > Len(b.models)
    \/ a.used = b.used /\ Len(a.models) = Len(b.models) /\ SelectInSeq(NameOrder, LAMBDA n : n = a.p) < SelectInSeq(NameOrder, LAMBDA n : n = b.p)

Selected(files) ==
    LET chosen == SelectSeq(Configs(files), LAMBDA c : c.selected # NoChoice)
    IN  IF chosen # <<>> THEN Last(chosen).selected
        ELSE IF Recent(files) # <<>> THEN [p |-> Recent(files)[1].p, m |-> Recent(files)[1].m]
        ELSE NoChoice

readOpenCodeLocalState(files) ==
    LET known == {p \in ToSet(NameOrder) : Pool(files, p) # <<>> \/ p \in Connected(files)}
    IN  [found     |-> files.data \/ files.config,
         providers |-> SetToSortSeq({[p |-> p, models |-> Pool(files, p), used |-> lastUsedAt(files, p)] : p \in known}, Before),
         selected  |-> Selected(files)]

\* The models of the first provider that has the name of the connection, or of its label.
openCodeModelsForConnection(c, state) ==
    LET names == {openCodeByokSlug(c.id, Blank)} \cup (IF c.label.said THEN {openCodeByokSlug(c.label, Blank)} ELSE {})
        found == SelectSeq(state.providers, LAMBDA p : p.p \in names)
    IN  IF ~state.found \/ found = <<>> THEN <<>> ELSE found[1].models

-----------------------------------------------------------------------------
(* What is checked.  A field without its shape is an error, and where the  *)
(* check goes on with it and throws, the document is not taken either.     *)
(* Some fields of a policy are checked only against a catalog.             *)

RoutingFields == {"version", "defaultProviderId", "defaultModel", "policy", "policy.maxProviders", "policy.backoff", "intents",
                  "catalog", "cooldown", "keys", "serviceKeys", "defaultWorkspaceTarget"}
AgentFields == {"cloudAgent", "cloudAgent.repos", "localAgent", "imageGeneration"}
SourceFields == {"policy.entries", "policy.backoff.maxMs", "policy.retryableCodes"}
IntentNames == {"coding", "reasoning", "vision", "bulk"}
ByokFields == {"enabled", "mode", "syncFromOpenCode", "connections", "pinnedModel"}
ConnectionFields == {"label", "baseUrl", "schema", "models", "enabled"}
CustomFields == {"enabled", "placement", "lanes"}
LaneFields == {"label", "baseUrl", "schema", "models", "headers", "apiKeyEnvVar", "requiresKey", "enabled", "capabilities", "onLimit"}
ChatFields == {"enabled", "mode", "placement", "onLimit", "accountKey", "models", "pinnedModel"}

Empty(policy) == policy.trusted = <<>> /\ policy.fallback = <<>>
EntriesOf(policy) == LET p == Without(policy) IN p.trusted \o p.fallback

CollidesById(ids, s, i) == \E j \in 1..(i - 1) : s[j].id.said /\ s[j].id = s[i].id   \* mutant: what they are called
\* Lanes are told apart by what they become, whether they are on or not.
Collides(ids, s, i) == \E j \in 1..(i - 1) : s[j].id.said /\ ids[j] = ids[i]

LaneErrors(s, ids, fields) ==
    {<<i, "id">> : i \in {j \in DOMAIN s : ~s[j].id.said}}
        \cup {<<i, "collides">> : i \in {j \in DOMAIN s : s[j].id.said /\ Collides(ids, s, j)}}
        \cup {<<i, "models">> : i \in {j \in DOMAIN s : s[j].id.said /\ Contains(s[j].models, NoModel)}}
        \cup UNION {{<<i, f>> : f \in s[i].odd \cap fields} : i \in {j \in DOMAIN s : s[j].id.said}}

ByokErrors(b) ==
    LET usable == {i \in DOMAIN b.conns : b.conns[i].id.said /\ b.conns[i].on}
    IN  LaneErrors(b.conns, [i \in DOMAIN b.conns |-> openCodeByokProviderId(b.conns[i])], ConnectionFields)
          \cup {<<"byok", f>> : f \in b.odd \cap ByokFields}
          \cup (IF b.pinned /\ ~(b.pin.said /\ \E i \in usable : b.conns[i].id = b.pin) THEN {<<"byok", "pin">>} ELSE {})

CustomErrors(c) ==
    LaneErrors(c.lanes, [i \in DOMAIN c.lanes |-> customLaneProviderId(c.lanes[i])], LaneFields)
        \cup {<<"custom", f>> : f \in c.odd \cap CustomFields}
        \cup {<<i, "no models">> : i \in {j \in DOMAIN c.lanes : c.lanes[j].id.said /\ c.lanes[j].models = <<>>}}

\* Models are compared as they were typed.
ChatErrors(c) ==
    {<<"chat", f>> : f \in c.odd \cap ChatFields}
        \cup (IF Contains(c.models, NoModel) THEN {<<"chat", "blank">>} ELSE {})
        \cup (IF c.pinned /\ c.pin # NoModel /\ Named(c.models) # <<>> /\ ~Contains(c.models, c.pin) THEN {<<"chat", "pin">>} ELSE {})

validateIntentsShape(profiles) ==
    {<<"intents", n>> : n \in {x \in DOMAIN profiles : x \notin IntentNames \/ Empty(profiles[x])}}

validateConfig(doc) ==
    {<<"config", f>> : f \in doc.odd \cap (RoutingFields \cup AgentFields)}
        \cup (IF doc.policy # NoPolicy /\ Empty(doc.policy) THEN {<<"config", "empty policy">>} ELSE {})
        \cup validateIntentsShape(doc.profiles) \cup ByokErrors(doc.byok) \cup CustomErrors(doc.custom) \cup ChatErrors(doc.chat)

\* The lanes a document itself adds are in no catalog.
validatePolicy(policy, callable) == {<<"unknown", e.p>> : e \in {x \in ToSet(EntriesOf(policy)) : x.p \notin callable}}

validateConfigWithSource(doc, catalog) ==
    validateConfig(doc)
        \cup (IF catalog = NoCatalog THEN {}
              ELSE LET callable == ToSet(CatalogProviders(catalog))
                   IN  {<<"config", f>> : f \in doc.odd \cap SourceFields} \cup validatePolicy(doc.policy, callable)
                         \cup UNION {validatePolicy(doc.profiles[n], callable) : n \in DOMAIN doc.profiles \cap IntentNames})

-----------------------------------------------------------------------------
(* What becomes of a document that was taken.                              *)

Enabled(s) == SelectSeq(s, LAMBDA x : x.on /\ x.id.said)

\* What the code that resolves the blocks of a document reads without a look at its shape.
ResolverTrips(doc) ==
    \/ "policy" \in doc.odd
    \/ /\ doc.byok.on
       /\ \/ "connections" \in doc.byok.odd \/ (doc.byok.pinned /\ "pinnedModel" \in doc.byok.odd)
          \/ \E c \in ToSet(Enabled(doc.byok.conns)) : {"models", "label", "baseUrl"} \cap c.odd # {}
    \/ /\ doc.custom.on
       /\ \/ "lanes" \in doc.custom.odd
          \/ \E l \in ToSet(Enabled(doc.custom.lanes)) : "baseUrl" \notin l.odd /\ {"models", "label", "apiKeyEnvVar"} \cap l.odd # {}
    \/ doc.chat.on /\ {"models", "pinnedModel", "accountKey"} \cap doc.chat.odd # {}

\* Listed models win over OpenCode's.
openCodeByokModels(c, sync, state) ==
    IF Named(c.models) # <<>> \/ ~sync THEN Named(c.models) ELSE Distinct(Named(openCodeModelsForConnection(c, state)))

ByokForm(b, state) ==
    LET conns == Enabled(b.conns)
        named == {i \in DOMAIN conns : conns[i].id = b.pin}
    IN  [on |-> b.on, sync |-> FALSE, pinned |-> b.pinned, model |-> b.model,
         pin   |-> IF named = {} THEN NoPin ELSE openCodeByokProviderId(conns[Min(named)]),
         conns |-> [i \in DOMAIN conns |-> [p |-> openCodeByokProviderId(conns[i]),
                                            models |-> openCodeByokModels(conns[i], b.sync, state)]]]

CustomForm(c) ==
    LET lanes == SelectSeq(Enabled(c.lanes), LAMBDA l : "baseUrl" \notin l.odd)
    IN  [on |-> c.on, leads |-> c.leads,
         lanes |-> [i \in DOMAIN lanes |-> Entry(customLaneProviderId(lanes[i]), Distinct(Named(lanes[i].models)), lanes[i].stop)]]

ChatModels(models) == Distinct([i \in DOMAIN Named(models) |-> chatGptPlanModelSlug(Named(models)[i])])

ChatForm(c) == [on |-> c.on, leads |-> c.leads, stop |-> c.stop, models |-> ChatModels(c.models),
                pin |-> IF c.pinned THEN chatGptPlanModelSlug(c.pin) ELSE NoModel]

FormOf(doc, state) ==
    [policy |-> doc.policy, default |-> doc.default, model |-> doc.model, catalog |-> doc.catalog, cloud |-> doc.cloud,
     byok |-> ByokForm(doc.byok, state), custom |-> CustomForm(doc.custom), chat |-> ChatForm(doc.chat)]

\* A lane advertises the models it lists, an OpenCode connection without any OpenCode's own.
createOpenCodeByokProvider(c) ==
    [p |-> c.p, default |-> IF c.models = <<>> THEN SnapshotModels[1] ELSE c.models[1],
     lists |-> IF c.models = <<>> THEN SnapshotModels ELSE Named(c.models)]
createCustomLaneProvider(l) == [p |-> l.p, default |-> l.models[1], lists |-> Named(l.models)]

Form == FormOf(held, learned)
Composed == composePlan(Form, ChatModels(slots))
ServedNow == bridgeProviders(BaseProviders(warm), Form, ChatModels(slots))
OwnProviders == {createOpenCodeByokProvider(c) : c \in ToSet(resolveOpenCodeByokConnections(Form.byok))}
                  \cup {createCustomLaneProvider(l) : l \in ToSet(resolveCustomLanes(Form.custom))}

-----------------------------------------------------------------------------
(* The bridge starts from a file, takes documents, and hears of another    *)
(* account.  OpenCode is asked again only when a document is taken.        *)

Learns(doc) == IF doc.byok.sync THEN readOpenCodeLocalState(install) ELSE Unlearned
Heard(doc, models) == IF doc.chat.models # <<>> THEN <<>> ELSE models

\* At the start there is no catalog to check a plan against yet.
BlocksStart(doc) ==
    /\ held = NoDoc
    /\ IF validateConfigWithSource(doc, NoCatalog) # {}
       THEN verdict' = "refused" /\ UNCHANGED <<held, warm, learned, slots, checked>>
       ELSE IF ResolverTrips(doc) THEN verdict' = "failed" /\ UNCHANGED <<held, warm, learned, slots, checked>>
       ELSE /\ verdict' = "taken"
            /\ held' = doc /\ warm' = doc.catalog /\ learned' = Learns(doc)
            /\ \E models \in Slots : slots' = IF doc.chat.on THEN Heard(doc, models) ELSE <<>>
            /\ checked' = FALSE
    /\ UNCHANGED <<install, uses>>

\* A document without a plan leaves the one in memory.
BlocksPut(doc) ==
    /\ held # NoDoc
    /\ IF validateConfigWithSource(doc, warm) # {}
       THEN verdict' = "refused" /\ UNCHANGED <<held, warm, learned, slots, checked>>
       ELSE /\ verdict' = IF ResolverTrips(doc) THEN "failed" ELSE "taken"
            /\ held' = [doc EXCEPT !.policy = IF @ = NoPolicy THEN held.policy ELSE @]
            /\ warm' = IF doc.catalog # NoCatalog /\ warm # NoCatalog THEN warm ELSE doc.catalog
            /\ learned' = Learns(doc)
            /\ \E models \in Slots : slots' = Heard(doc, models)
            /\ checked' = (warm # NoCatalog /\ warm' = warm /\ (doc.policy # NoPolicy \/ checked))
    /\ UNCHANGED <<install, uses>>

BlocksAccount(models) ==
    /\ held # NoDoc
    /\ slots' = Heard(held, models)
    /\ UNCHANGED <<held, warm, learned, install, verdict, checked, uses>>

BlocksStop ==
    /\ held # NoDoc /\ held' = NoDoc
    /\ warm' = NoCatalog /\ learned' = Unlearned /\ slots' = <<>> /\ checked' = FALSE
    /\ UNCHANGED <<install, verdict, uses>>

OpenCodeAnswers(row) ==
    /\ uses < MaxUses /\ uses' = uses + 1
    /\ install' = [install EXCEPT !.history = <<[p |-> row.p, m |-> row.m, at |-> Len(@) + 1]>> \o @]
    /\ UNCHANGED <<held, warm, learned, slots, verdict, checked>>

BlocksInit ==
    /\ held = NoDoc /\ warm = NoCatalog /\ learned = Unlearned /\ slots = <<>>
    /\ install \in Installs /\ verdict = "none" /\ checked = FALSE /\ uses = 0

BlocksNext ==
    \/ \E doc \in Blocks : BlocksStart(doc) \/ BlocksPut(doc)
    \/ \E models \in Slots : BlocksAccount(models)
    \/ BlocksStop
    \/ \E row \in Rows : OpenCodeAnswers(row)

-----------------------------------------------------------------------------
(* A document that passes the check is never one that its own resolution   *)
(* trips over, after it has been written to the file.                      *)
AppliesCleanly == verdict # "failed"

(* No two of the lanes a bridge serves have one name: a route, a key and a *)
(* lane's health are looked up by it.                                      *)
LanesStayApart == held # NoDoc => Cardinality(ToSet(ServedNow)) = Len(ServedNow)

(***************************************************************************)
(* Every lane of a block that is on is served and walked, with the models  *)
(* it lists and the stop it asked for; none is dropped on the way from the *)
(* document to the plan.                                                   *)
(***************************************************************************)
NothingIsDropped ==
    LET Walked(p, models, stop) == \E e \in ToSet(EntriesOf(Composed.policy)) :
                                      e.p = p /\ (models # {} => ToSet(e.models) = models) /\ e.terminal = stop
        Lane(p, models, stop) == Contains(ServedNow, p) /\ Walked(p, models, stop)
    IN  held # NoDoc =>
            /\ held.byok.on => \A c \in ToSet(held.byok.conns) : c.on => Lane(openCodeByokProviderId(c), ToSet(c.models), FALSE)
            /\ held.custom.on => \A l \in ToSet(held.custom.lanes) : l.on => Lane(customLaneProviderId(l), ToSet(l.models), l.stop)
            /\ held.chat.on /\ held.chat.models # <<>> =>
                  Lane(ChatPlan, ToSet(ChatModels(held.chat.models)), held.chat.stop)

(***************************************************************************)
(* What is pinned leads: of OpenCode's connections the pinned one, and of  *)
(* the ChatGPT plan's models the pinned one, unless the account that lists *)
(* them does not have it.                                                  *)
(***************************************************************************)
PinsHold ==
    held # NoDoc =>
        /\ held.byok.on /\ held.byok.pinned =>
              LET ids   == {openCodeByokProviderId(c) : c \in ToSet(held.byok.conns)}
                  first == SelectSeq(Composed.policy.trusted, LAMBDA e : e.p \in ids)[1]
              IN  \E c \in ToSet(held.byok.conns) : c.id = held.byok.pin /\ first.p = openCodeByokProviderId(c)
        /\ held.chat.on /\ held.chat.pinned /\ held.chat.pin # NoModel =>
              LET pin == chatGptPlanModelSlug(held.chat.pin)
              IN  held.chat.models # <<>> \/ Contains(ChatModels(slots), pin) =>
                    \A e \in ToSet(EntriesOf(Composed.policy)) : e.p = ChatPlan => e.models[1] = pin

(* What a lane of the user's advertises is what the plan walks of it, and  *)
(* its default is among it.                                                *)
AdvertisedIsWalked ==
    held # NoDoc => \A o \in OwnProviders :
        /\ Contains(o.lists, o.default)
        /\ \E e \in ToSet(EntriesOf(Composed.policy)) : e.p = o.p /\ ToSet(e.models) \subseteq ToSet(o.lists)

(***************************************************************************)
(* A plan and profiles that were checked against the bridge's catalog name *)
(* only providers it serves, for as long as it keeps the catalog.          *)
(***************************************************************************)
PlansAreKnown ==
    checked => \A policy \in {held.policy} \cup {held.profiles[n] : n \in DOMAIN held.profiles} :
                  \A e \in ToSet(EntriesOf(policy)) : Contains(ServedNow, e.p) \/ e.p = CloudAgents

(***************************************************************************)
(* What was read of OpenCode is a pool of distinct models for a provider,  *)
(* not longer than the cap, the newest first; the provider used last comes *)
(* first; and the model OpenCode has selected is in the pool of its        *)
(* provider, unless that was full before.                                  *)
(***************************************************************************)
PoolsAreRecent ==
    LET rows == Recent(install)
        FirstUse(p, m) == Min({i \in DOMAIN rows : rows[i].p = p /\ rows[i].m = m})
        Used(p, m) == \E i \in DOMAIN rows : rows[i].p = p /\ rows[i].m = m
        now == readOpenCodeLocalState(install)
    IN  /\ \A i \in DOMAIN now.providers : LET q == now.providers[i] IN
              /\ Len(q.models) <= MaxModelsPerProvider /\ Cardinality(ToSet(q.models)) = Len(q.models)
              /\ \A j, k \in DOMAIN q.models : j < k /\ Used(q.p, q.models[k]) =>
                    Used(q.p, q.models[j]) /\ FirstUse(q.p, q.models[j]) < FirstUse(q.p, q.models[k])
              /\ \A j \in DOMAIN now.providers : i < j => q.used >= now.providers[j].used
        /\ now.selected.m # NoModel => \E q \in ToSet(now.providers) :
              q.p = now.selected.p /\ (Contains(q.models, now.selected.m) \/ Len(q.models) = MaxModelsPerProvider)

(* All of it. *)
BlocksAreServed ==
    /\ AppliesCleanly /\ LanesStayApart /\ NothingIsDropped /\ PinsHold
    /\ AdvertisedIsWalked /\ PlansAreKnown /\ PoolsAreRecent
=============================================================================
