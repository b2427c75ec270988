------------------------------ MODULE LanePlans ------------------------------
(***************************************************************************)
(* From a configuration document to the providers a bridge serves and the  *)
(* plan it walks: the registry or the catalog below, and on top the        *)
(* connections of OpenCode, the user's own lanes and the ChatGPT plan,     *)
(* each of which may lead the plan or trail it.                            *)
(*                                                                         *)
(* form:   policy, default, model   as the document states them            *)
(*         catalog                  the catalog providers it allows        *)
(*         byok                     on, sync, pinned, pin, model, conns    *)
(*         custom                   on, leads, lanes                       *)
(*         chat                     on, leads, pin, models, stop           *)
(*         cloud                    whether cloud agents are on            *)
(***************************************************************************)
EXTENDS BridgeState

CONSTANTS
    Built,          \* the providers of the registry, in order
    Reachable,      \* the catalog's other providers that have an address, in order
    OpenCodeModels, \* the models OpenCode used last with the provider of a connection
    ChatPlan,       \* the provider of the ChatGPT plan
    CloudAgents     \* the provider of the cloud agents

Entry(p, models, stop) == [p |-> p, models |-> models, terminal |-> stop]
Without(policy) == IF policy = NoPolicy THEN [trusted |-> <<>>, fallback |-> <<>>, max |-> 0, free |-> FALSE] ELSE policy
FirstOf(models) == IF models = <<>> THEN NoModel ELSE models[1]

Leading(plan, entries, p, model) ==
    [policy |-> [Without(plan.policy) EXCEPT !.trusted = entries \o @], default |-> p, model |-> model]
Trailing(plan, entries) == [plan EXCEPT !.policy = [Without(@) EXCEPT !.fallback = @ \o entries]]

-----------------------------------------------------------------------------
(* OpenCode's connections.  Models that are listed win over OpenCode's; a  *)
(* connection without any serves its provider's default.                   *)

resolveOpenCodeByokConnections(byok) ==
    IF ~byok.on THEN <<>>
    ELSE [i \in DOMAIN byok.conns |->
            LET c == byok.conns[i]
            IN  IF c.models = <<>> /\ byok.sync THEN [c EXCEPT !.models = OpenCodeModels[c.p]] ELSE c]

\* Pinned: one connection comes first, and the first one when the pin names none.
applyOpenCodeByokPlan(byok, plan) ==
    LET conns   == resolveOpenCodeByokConnections(byok)
        named   == {i \in DOMAIN conns : byok.pinned /\ conns[i].p = byok.pin}
        first   == IF named = {} THEN 1 ELSE CHOOSE i \in named : TRUE
        entries == [i \in DOMAIN conns |-> Entry(conns[i].p, conns[i].models, FALSE)]
    IN  IF conns = <<>> THEN plan
        ELSE Leading(plan, <<entries[first]>> \o RemoveAt(entries, first), conns[first].p,
                     IF byok.pinned /\ byok.model # NoModel THEN byok.model ELSE FirstOf(conns[first].models))

-----------------------------------------------------------------------------
(* The user's own lanes.  One without models is not served.                *)

resolveCustomLanes(custom) == IF custom.on THEN SelectSeq(custom.lanes, LAMBDA l : l.models # <<>>) ELSE <<>>

applyCustomLanesPlan(custom, plan) ==
    LET lanes == resolveCustomLanes(custom)
    IN  IF lanes = <<>> THEN plan
        ELSE IF custom.leads THEN Leading(plan, lanes, lanes[1].p, lanes[1].models[1])
        ELSE Trailing(plan, lanes)

-----------------------------------------------------------------------------
(* The ChatGPT plan.  Its models are the document's, or the account's.     *)

resolveChatGptPlan(chat, listed) ==
    IF ~chat.on THEN <<>> ELSE IF chat.models # <<>> THEN chat.models ELSE listed

applyChatGptPlanPlan(chat, listed, plan) ==
    LET models  == resolveChatGptPlan(chat, listed)
        ordered == IF Contains(models, chat.pin) THEN <<chat.pin>> \o SelectSeq(models, LAMBDA m : m # chat.pin) ELSE models
        entry   == Entry(ChatPlan, ordered, chat.stop)
    IN  IF models = <<>> THEN plan
        ELSE IF chat.leads THEN Leading(plan, <<entry>>, ChatPlan, ordered[1])
        ELSE Trailing(plan, <<entry>>)

-----------------------------------------------------------------------------
composePlan(form, listed) ==
    applyChatGptPlanPlan(form.chat, listed,
        applyCustomLanesPlan(form.custom,
            applyOpenCodeByokPlan(form.byok, [policy |-> form.policy, default |-> form.default, model |-> form.model])))

ProviderIds(s) == [i \in DOMAIN s |-> s[i].p]

\* The providers the blocks of a document add.
LanesOf(form, listed) ==
    ProviderIds(resolveOpenCodeByokConnections(form.byok)) \o ProviderIds(resolveCustomLanes(form.custom))
        \o (IF resolveChatGptPlan(form.chat, listed) = <<>> THEN <<>> ELSE <<ChatPlan>>)

\* Agents in the cloud are among the base providers, or come last; unless they are off.
bridgeProviders(base, form, listed) ==
    LET served == base \o LanesOf(form, listed)
    IN  IF ~form.cloud THEN SelectSeq(served, LAMBDA p : p # CloudAgents)
        ELSE IF Contains(served, CloudAgents) THEN served ELSE Append(served, CloudAgents)

\* What a catalog makes callable.
CatalogProviders(allowed) == Built \o SelectSeq(Reachable, LAMBDA p : p \in allowed)
BaseProviders(catalog) == IF catalog = NoCatalog THEN Built ELSE CatalogProviders(catalog)
=============================================================================
