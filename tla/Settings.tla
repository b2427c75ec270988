------------------------------- MODULE Settings -------------------------------
(***************************************************************************)
(* The settings of `modelhitch bridge`: one file, and who writes it.  The  *)
(* settings page reads the bridge's document with its keys masked and puts *)
(* a whole document back; `modelhitch key` edits the file and puts what it *)
(* wrote; `modelhitch settings` edits the file and tells nobody.  The      *)
(* bridge writes a document it is given to the file, takes it into memory, *)
(* asks the account for models or the catalog for providers, and           *)
(* reconfigures its server; a change of the ChatGPT account makes it plan  *)
(* anew.  Two such jobs may be under way at once.                          *)
(*                                                                         *)
(* document: form (see LanePlans), keys, service (the service keys), local *)
(* (the local agent lane).  Form fields no plan depends on are left out.   *)
(***************************************************************************)
EXTENDS LanePlans

CONSTANTS
    Documents,      \* what the file may hold at first
    Forms,          \* what the page's form may say
    Inputs,         \* what may be typed into its key fields
    Edits,          \* what the terminal's form may say: policy, default and model
    Pages, Command, Account,    \* who starts a job in the bridge
    Casts,          \* bound: the pages, the command, the account and the terminal that take part, a few at a time
    KeyIds, Secrets, Unset, \* provider keys
    Env,            \* the keys of the environment
    ServiceIds,
    Accounts, NoAccount, AccountModels, \* ChatGPT accounts, and their models
    Pins,           \* what --provider may name
    MaxWrites, MaxSwitches, MaxStarts   \* bounds

ASSUME SettingsAssumption ==
    /\ MaxWrites \in Nat /\ MaxSwitches \in Nat /\ MaxStarts \in Nat
    /\ Unset \notin Secrets /\ NoAccount \notin Accounts
    /\ Command \notin Pages \cup {"terminal"} /\ Account \notin Pages \cup {Command} /\ "terminal" \notin Pages

KeyTables == [KeyIds -> Secrets \cup {Unset}]
Catalogs == {d.form.catalog : d \in Documents} \cup {f.catalog : f \in Forms}
IsPolicy(policy) == policy = NoPolicy \/ {"trusted", "fallback"} \subseteq DOMAIN policy
IsForm(form) ==
    /\ {"policy", "default", "model", "catalog", "byok", "custom", "chat", "cloud"} \subseteq DOMAIN form
    /\ IsPolicy(form.policy) /\ form.catalog \in Catalogs
IsDocument(doc) == {"form", "keys", "service", "local"} \subseteq DOMAIN doc /\ IsForm(doc.form) /\ doc.keys \in KeyTables

\* The registry has providers, and a catalog lists what it adds in one order.
ASSUME DocumentsAssumption ==
    LET Callable(c) == ToSet(CatalogProviders(c))
    IN  /\ \A d \in Documents : IsDocument(d)
        /\ \A f \in Forms : IsForm(f)
        /\ \A e \in Edits : IsPolicy(e.policy)
        /\ Env \in KeyTables /\ Inputs \subseteq KeyTables
        /\ \A c \in Catalogs \ {NoCatalog} : Callable(c) # {}
        /\ \A c, d \in Catalogs \ {NoCatalog} : Callable(c) = Callable(d) => CatalogProviders(c) = CatalogProviders(d)

VARIABLES
    file,       \* the document on disk
    memory,     \* the bridge's document
    live,       \* the server: its configuration, keys, service keys and local lane
    source,     \* the catalog the bridge holds
    account, listed,    \* the active account, and the models the bridge has of one
    jobs,       \* what each caller's job in the bridge waits for
    pages,      \* what each page has loaded
    terminal,   \* what the terminal has loaded
    command,    \* what the key command has still to put
    running,
    cast,       \* who takes part
    typed, issued,      \* ghosts: the last secret typed for a provider, the last word on a service key
    behind, lost,       \* ghosts: who holds a document older than the file; whose write undid another's
    unread, apart,      \* ghosts: the file was written past the bridge; jobs overlapped or failed
    writes, switches, starts

bridgeVars == <<memory, live, source, listed, jobs>>
ghostVars == <<typed, issued, behind, lost, unread, apart>>
outside == <<cast, writes, switches, starts>>
settingsVars == <<file, bridgeVars, account, pages, terminal, command, running, ghostVars, outside>>

Nothing == [at |-> "nothing"]
Callers == Pages \cup {Command, Account}
Idle == [at |-> "idle"]
AtRest == \A c \in Callers : jobs[c] = Idle

-----------------------------------------------------------------------------
(* What a document comes to.                                               *)

keysFromEnv(keys) == [k \in KeyIds |-> IF keys[k] = Unset THEN Env[k] ELSE keys[k]]

refreshModels(form, a) == IF form.chat.models # <<>> THEN <<>> ELSE AccountModels[a]

\* Only fields with a value are in a partial configuration.
RouteDefaults(doc, plan, pin) ==
    LET model == IF pin = NoPin /\ plan.model # NoModel THEN plan.model ELSE doc.form.model
        first == IF pin # NoPin THEN pin ELSE plan.default
        said  == (IF plan.policy = NoPolicy THEN {} ELSE {"policy"}) \cup (IF model = NoModel THEN {} ELSE {"model"})
                    \cup (IF first = NoPin THEN {} ELSE {"default"})
    IN  [f \in said |-> IF f = "policy" THEN plan.policy ELSE IF f = "model" THEN model ELSE first]

Providers(doc, models, catalog) == bridgeProviders(BaseProviders(catalog), doc.form, models)

Started(doc, a, pin) ==
    LET mem    == [doc EXCEPT !.keys = keysFromEnv(@)]
        models == IF doc.form.chat.on THEN refreshModels(doc.form, a) ELSE <<>>
        plan   == composePlan(doc.form, models)
        routes == RouteDefaults(doc, plan, pin)
    IN  [memory |-> mem, listed |-> models, source |-> doc.form.catalog,
         live |-> [server  |-> Constructed([providers |-> Providers(doc, models, doc.form.catalog),
                                            catalog |-> IF doc.form.catalog = NoCatalog THEN NoCatalog
                                                        ELSE ToSet(CatalogProviders(doc.form.catalog)),
                                            source |-> {}, policy |-> plan.policy, intents |-> NoIntents, auto |-> FALSE,
                                            engine |-> 0, pin |-> pin, default |-> Given(routes, "default", Head(Built)),
                                            model |-> Given(routes, "model", NoModel)], 1),
                   keys |-> mem.keys, service |-> doc.service, local |-> doc.local]]

-----------------------------------------------------------------------------
(* A job in the bridge.                                                    *)

Overlapping(c) == \E d \in Callers \ {c} : jobs[d] # Idle

With(partial, providers) == [f \in DOMAIN partial \cup {"providers"} |-> IF f = "providers" THEN providers ELSE partial[f]]
WithCatalog(partial, catalog) ==
    [f \in DOMAIN partial \cup {"catalog"} |-> IF f = "catalog" THEN ToSet(CatalogProviders(catalog)) ELSE partial[f]]

\* The server is given what the plan came to, and what else of the document is said.
ServerTakes(partial, held) ==
    live' = [server |-> Reconfigured(live.server, partial, 1).to, keys |-> held.keys, service |-> held.service,
             local |-> IF held.local = "unsaid" THEN live.local ELSE held.local]

Held(doc) == [keys |-> doc.keys, service |-> doc.service, local |-> doc.local]

\* The plan and the keys are of now; the providers wait for the catalog, if there is none yet.
ApplyConfig(c, wants, doc, models) ==
    LET partial == RouteDefaults(doc, composePlan(doc.form, models), live.server.pin)
    IN  IF wants # NoCatalog /\ source = NoCatalog
        THEN /\ jobs' = [jobs EXCEPT ![c] = [at |-> "warming", wants |-> wants, partial |-> partial, held |-> Held(doc)]]
             /\ UNCHANGED <<live, source>>
        ELSE /\ source' = IF wants = NoCatalog THEN NoCatalog ELSE source
             /\ ServerTakes(With(partial, Providers(doc, models, source')), Held(doc))
             /\ jobs' = [jobs EXCEPT ![c] = Idle]

Cleared(doc, old) ==    \* what a document does not say, and is not cleared before, stays in memory
    [doc EXCEPT !.keys = keysFromEnv(@), !.local = IF @ = "unsaid" THEN old.local ELSE @,
                !.form.policy = IF @ = NoPolicy THEN old.form.policy ELSE @]

\* A document is put: it goes to the file and into memory, and the rest waits for the account.
updateConfig(c, doc) ==
    /\ running /\ jobs[c] = Idle
    /\ file' = doc
    /\ memory' = Cleared(doc, memory)
    /\ IF doc.form.chat.models # <<>>
       THEN listed' = <<>> /\ ApplyConfig(c, doc.form.catalog, memory', <<>>)
       ELSE /\ jobs' = [jobs EXCEPT ![c] = [at |-> "listing", asked |-> account, wants |-> doc.form.catalog]]
            /\ UNCHANGED <<listed, live, source>>
    /\ apart' = Overlapping(c)
    /\ unread' = FALSE

Holders == {p \in Pages : pages[p] # Nothing} \cup (IF terminal = Nothing THEN {} ELSE {"terminal"})
             \cup (IF command = Nothing THEN {} ELSE {Command})

\* Ghosts: c writes the file, from a document that another write may have passed.
Writes(c) ==
    /\ lost' = IF c \in behind THEN lost \cup {c} ELSE lost
    /\ behind' = (behind \cup Holders) \ {c}

-----------------------------------------------------------------------------
(* The page.                                                               *)

\* It shows a row for a key of every callable provider, and a mask for the key that is set.
PageLoads(p) ==
    /\ p \in cast /\ running /\ jobs[p] = Idle
    /\ pages' = [pages EXCEPT ![p] = [masked  |-> {k \in KeyIds : memory.keys[k] # Unset},
                                      rows    |-> Registry(live.server),
                                      inputs  |-> [k \in KeyIds |-> Unset],
                                      service |-> memory.service]]
    /\ behind' = IF unread THEN behind \cup {p} ELSE behind \ {p}
    /\ UNCHANGED <<file, bridgeVars, account, terminal, command, running, typed, issued, lost, unread, apart, outside>>

RowsOf(page, form) == page.rows \cup ToSet(ProviderIds(form.custom.lanes))

\* A mask that comes back stands for the key in memory.
Unmasked(page, form) ==
    [k \in KeyIds |-> IF k \notin RowsOf(page, form) THEN Unset
                      ELSE IF page.inputs[k] # Unset THEN page.inputs[k]
                      ELSE IF k \in page.masked THEN memory.keys[k] ELSE Unset]

assemble(page, form) == [form |-> form, keys |-> Unmasked(page, form), service |-> page.service, local |-> "unsaid"]

Typed(p, inputs) == [pages[p] EXCEPT !.inputs = inputs]

\* Fields that were typed in stay so until the page has loaded again.
PageApplies(p, form, inputs) ==
    /\ pages[p] # Nothing /\ writes < MaxWrites
    /\ \A k \in KeyIds : pages[p].inputs[k] # Unset => inputs[k] = pages[p].inputs[k]
    /\ \A k \in KeyIds : inputs[k] # Unset => k \in RowsOf(pages[p], form)
    /\ updateConfig(p, assemble(Typed(p, inputs), form))
    /\ pages' = [pages EXCEPT ![p] = IF jobs'[p] = Idle THEN Nothing ELSE Typed(p, inputs)]
    /\ typed' = [k \in KeyIds |-> IF inputs[k] # Unset THEN inputs[k] ELSE IF k \in RowsOf(pages[p], form) THEN typed[k] ELSE Env[k]]
    /\ Writes(p)
    /\ writes' = writes + 1
    /\ UNCHANGED <<account, terminal, command, running, issued, cast, switches, starts>>

-----------------------------------------------------------------------------
(* What the bridge's jobs wait for.                                        *)

Reloads(c) == pages' = IF c \in Pages /\ jobs'[c] = Idle THEN [pages EXCEPT ![c] = Nothing] ELSE pages

\* A list that cannot be read is empty.
ModelsListed(c, ok) ==
    /\ c # Account /\ jobs[c].at = "listing"
    /\ listed' = IF ok THEN AccountModels[jobs[c].asked] ELSE <<>>
    /\ ApplyConfig(c, jobs[c].wants, memory, listed')
    /\ Reloads(c)
    /\ apart' = (apart \/ ~ok)
    /\ UNCHANGED <<file, memory, account, terminal, command, running, typed, issued, behind, lost, unread, outside>>

CatalogWarmedEarly(c) ==    \* mutant: the providers are those of before the catalog
    /\ jobs[c].at = "warming"
    /\ source' = jobs[c].wants
    /\ ServerTakes(WithCatalog(With(jobs[c].partial, Providers(memory, listed, source)), source'),
                   [jobs[c].held EXCEPT !.local = memory.local])
    /\ jobs' = [jobs EXCEPT ![c] = Idle]
    /\ Reloads(c)
    /\ UNCHANGED <<file, memory, listed, account, terminal, command, running, ghostVars, outside>>

CatalogWarmed(c) ==
    /\ jobs[c].at = "warming"
    /\ source' = jobs[c].wants
    /\ ServerTakes(WithCatalog(With(jobs[c].partial, Providers(memory, listed, source')), source'),
                   [jobs[c].held EXCEPT !.local = memory.local])
    /\ jobs' = [jobs EXCEPT ![c] = Idle]
    /\ Reloads(c)
    /\ UNCHANGED <<file, memory, listed, account, terminal, command, running, ghostVars, outside>>

\* The file and the memory stay as they were written.
CatalogFails(c) ==
    /\ jobs[c].at = "warming"
    /\ jobs' = [jobs EXCEPT ![c] = Idle]
    /\ apart' = TRUE
    /\ UNCHANGED <<file, memory, live, source, listed, account, pages, terminal, command, running, typed, issued, behind, lost,
                   unread, outside>>

\* Providers and plan only.
Replan(models) ==
    LET partial == RouteDefaults(memory, composePlan(memory.form, models), live.server.pin)
    IN  live' = [live EXCEPT !.server = Reconfigured(@, With(partial, Providers(memory, models, source)), 1).to]

AccountChanges(a) ==
    /\ Account \in cast /\ running
    /\ switches < MaxSwitches /\ switches' = switches + 1
    /\ a # account /\ account' = a
    /\ jobs[Account] = Idle
    /\ IF memory.form.chat.models # <<>>
       THEN listed' = <<>> /\ Replan(<<>>) /\ UNCHANGED jobs
       ELSE /\ jobs' = [jobs EXCEPT ![Account] = [at |-> "listing", asked |-> a]]
            /\ UNCHANGED <<listed, live>>
    /\ apart' = (apart \/ Overlapping(Account))
    /\ UNCHANGED <<file, memory, source, pages, terminal, command, running, typed, issued, behind, lost, unread, cast, writes, starts>>

AccountListed(ok) ==
    /\ jobs[Account].at = "listing"
    /\ listed' = IF ok THEN AccountModels[jobs[Account].asked] ELSE <<>>
    /\ Replan(listed')
    /\ jobs' = [jobs EXCEPT ![Account] = Idle]
    /\ apart' = (apart \/ ~ok)
    /\ UNCHANGED <<file, memory, source, account, pages, terminal, command, running, typed, issued, behind, lost, unread,
                   outside>>

-----------------------------------------------------------------------------
(* The bridge stops, with whatever its jobs waited for; it starts from the *)
(* file, and not before it has the models and the catalog.                 *)

BridgeStops ==
    /\ running /\ running' = FALSE
    /\ memory' = Nothing /\ live' = Nothing /\ source' = NoCatalog /\ listed' = <<>>
    /\ jobs' = [c \in Callers |-> Idle]
    /\ UNCHANGED <<file, account, pages, terminal, command, ghostVars, outside>>

BridgeStarts(pin) ==
    LET s == Started(file, account, pin)
    IN  /\ ~running /\ running' = TRUE
        /\ starts < MaxStarts /\ starts' = starts + 1
        /\ pin # NoPin => Contains(s.live.server.providers, pin)
        /\ memory' = s.memory /\ listed' = s.listed /\ source' = s.source /\ live' = s.live
        /\ unread' = FALSE /\ apart' = FALSE
        /\ UNCHANGED <<file, jobs, account, pages, terminal, command, typed, issued, behind, lost, cast, writes, switches>>

-----------------------------------------------------------------------------
(* The file from outside.                                                  *)

TerminalOpens ==
    /\ "terminal" \in cast /\ terminal = Nothing /\ terminal' = file
    /\ UNCHANGED <<file, bridgeVars, account, pages, command, running, ghostVars, outside>>

\* What the terminal does not edit it writes as it read it at the start.
TerminalSaves(edit) ==
    /\ terminal # Nothing /\ writes < MaxWrites
    /\ file' = [terminal EXCEPT !.form.policy = edit.policy, !.form.default = edit.default, !.form.model = edit.model]
    /\ Writes("terminal")
    /\ unread' = TRUE
    /\ writes' = writes + 1
    /\ UNCHANGED <<bridgeVars, account, pages, terminal, command, running, typed, issued, apart, cast, switches, starts>>

\* A key is minted once, rotated or revoked as often as one likes; a rotation does not bring it back.
KeyWords == {<<"none", "active">>, <<"revoked", "revoked">>} \cup ({"active", "rotated"} \X {"rotated", "revoked"})

\* The command writes the file before it looks for a bridge.
KeyCommand(k, word) ==
    /\ Command \in cast /\ command = Nothing /\ writes < MaxWrites
    /\ <<file.service[k], word>> \in KeyWords
    /\ file' = [file EXCEPT !.service[k] = word]
    /\ command' = file'
    /\ issued' = [issued EXCEPT ![k] = word]
    /\ Writes(Command)
    /\ unread' = TRUE
    /\ writes' = writes + 1
    /\ UNCHANGED <<bridgeVars, account, pages, terminal, running, typed, apart, cast, switches, starts>>

CommandPuts ==
    /\ command # Nothing /\ command' = Nothing
    /\ updateConfig(Command, command)
    /\ Writes(Command)
    /\ UNCHANGED <<account, pages, terminal, running, typed, issued, outside>>

\* No bridge answers.
CommandGivesUp ==
    /\ command # Nothing /\ command' = Nothing
    /\ behind' = behind \ {Command}
    /\ UNCHANGED <<file, bridgeVars, account, pages, terminal, running, typed, issued, lost, unread, apart, outside>>

-----------------------------------------------------------------------------
SettingsInit ==
    /\ file \in Documents /\ cast \in Casts
    /\ account \in Accounts \cup {NoAccount}
    /\ running = FALSE
    /\ memory = Nothing /\ live = Nothing /\ source = NoCatalog /\ listed = <<>>
    /\ jobs = [c \in Callers |-> Idle]
    /\ pages = [p \in Pages |-> Nothing] /\ terminal = Nothing /\ command = Nothing
    /\ typed = keysFromEnv(file.keys) /\ issued = file.service
    /\ behind = {} /\ lost = {} /\ unread = FALSE /\ apart = FALSE
    /\ writes = 0 /\ switches = 0 /\ starts = 0

SettingsNext ==
    \/ \E p \in Pages : PageLoads(p) \/ (\E form \in Forms, i \in Inputs : PageApplies(p, form, i))
    \/ \E c \in Callers : (\E ok \in BOOLEAN : ModelsListed(c, ok)) \/ CatalogWarmed(c) \/ CatalogFails(c)
    \/ \E a \in Accounts \cup {NoAccount} : AccountChanges(a)
    \/ \E ok \in BOOLEAN : AccountListed(ok)
    \/ BridgeStops
    \/ \E pin \in Pins \cup {NoPin} : BridgeStarts(pin)
    \/ TerminalOpens
    \/ \E edit \in Edits : TerminalSaves(edit)
    \/ \E k \in ServiceIds, word \in {"active", "rotated", "revoked"} : KeyCommand(k, word)
    \/ CommandPuts
    \/ CommandGivesUp

SettingsSpec == SettingsInit /\ [][SettingsNext]_settingsVars

-----------------------------------------------------------------------------
(* The state is well formed.                                               *)
SettingsTypeOK ==
    /\ file.keys \in KeyTables
    /\ running => memory.keys \in KeyTables
    /\ account \in Accounts \cup {NoAccount}
    /\ \A c \in Callers : jobs[c].at \in {"idle", "listing", "warming"}

(***************************************************************************)
(* A provider key in the file is the one last typed for it, through every  *)
(* load with masks, Apply and restart: a mask is never taken for a key,    *)
(* nor a key dropped because it was masked.  Unless a writer that held an  *)
(* older document wrote it back.  When only pages did, a key still is the  *)
(* typed one, or the environment's again.  A page that shows no row for a  *)
(* provider drops its key with the Apply, and so it counts as not typed.   *)
(***************************************************************************)
KeysOutlive ==
    /\ lost = {} => keysFromEnv(file.keys) = typed
    /\ lost \subseteq Pages => \A k \in KeyIds : keysFromEnv(file.keys)[k] \in {typed[k], Env[k]}

(* A service key is what the last `modelhitch key` command made of it: an  *)
(* Apply of the page or a save of the terminal leaves it alone, unless its *)
(* document was read before the command.                                   *)
ServiceKeysOutlive == lost = {} => file.service = issued

(* What the settings say outlives the ways they are edited. *)
NothingIsLost == SettingsTypeOK /\ KeysOutlive /\ ServiceKeysOutlive

(***************************************************************************)
(* "Apply immediately": at rest, a running bridge serves what a bridge     *)
(* started from its file now would serve: its providers and their order,   *)
(* its catalog, plan, default provider and model, keys, service keys and   *)
(* local lane.  Not so when the file was written past it, when two jobs    *)
(* overlapped or one failed, or when the catalog was switched off or to    *)
(* other providers; and a field the document no longer has keeps its value.*)
(***************************************************************************)
RestartIsInvisible ==
    LET s    == Started(file, account, live.server.pin).live
        plan == composePlan(file.form, Started(file, account, live.server.pin).listed)
    IN  (running /\ AtRest /\ command = Nothing /\ ~unread /\ ~apart) =>
           /\ live.keys = s.keys /\ live.service = s.service
           /\ file.local # "unsaid" => live.local = file.local
           /\ (live.server.catalog \in {NoCatalog, s.server.catalog}) =>
                 /\ live.server.providers = s.server.providers
                 /\ live.server.catalog = s.server.catalog /\ live.server.source = s.server.source
           /\ file.form.policy # NoPolicy => live.server.policy = plan.policy
           /\ plan.default # NoPin => live.server.default = s.server.default
           /\ s.server.model # NoModel => live.server.model = s.server.model

(* Both. *)
SettingsOutlive == NothingIsLost /\ RestartIsInvisible
=============================================================================
