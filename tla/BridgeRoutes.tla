----------------------------- MODULE BridgeRoutes -----------------------------
(***************************************************************************)
(* How the bridge turns a request into a walk over lanes: the route the    *)
(* model id names, the pin that displaces it, the intent, the plan, the    *)
(* free filter, the capabilities, and the walk itself, while the settings  *)
(* page reconfigures the bridge.  A request  *)
(* awaits credentials once per lane; reconfigure runs in between.          *)
(*                                                                         *)
(* A model id is a sequence of its segments, because a route is cut at a   *)
(* slash; one that ends in a slash has an empty last segment.  One request *)
(* is enough: requests meet only in the engines, and FailoverWalk has      *)
(* those walks.                                                            *)
(***************************************************************************)
EXTENDS BridgeState, FiniteSets

CONSTANTS
    Options,            \* configurations a bridge may start with
    Partials,           \* partial configurations it may be given
    Asks,               \* requests: model id, whether the key is free, tools, whether its shape says coding
    DefaultModel,       \* the default model of a provider
    Free,               \* lanes without marginal cost
    Toolless,           \* providers without tool calling
    AutoLanes,          \* auto mode's line-up
    Cloud,              \* the provider whose agents run elsewhere
    MaxReconfigures

\* The constructor refuses a policy together with auto mode.  No partial
\* configuration asks for both: reconfigure would throw between the two.
ASSUME RoutesAssumption ==
    /\ MaxReconfigures \in Nat
    /\ \A o \in Options : ConfigFields \subseteq DOMAIN o /\ o.auto \in BOOLEAN /\ ~(o.auto /\ o.policy # NoPolicy)
    /\ \A q \in Partials :
          /\ "auto" \in DOMAIN q => q.auto \in BOOLEAN /\ ~(q.auto /\ "policy" \in DOMAIN q)
          /\ "catalog" \in DOMAIN q => q.catalog # NoCatalog

VARIABLES
    server,     \* the bridge's configuration
    req,        \* the request: its place in the handler and what the handler holds in local variables
    reconfigures    \* how often the bridge was reconfigured

vars == <<server, req, reconfigures>>

Lane(p, m) == [p |-> p, m |-> m]
Stop(l, terminal) == [lane |-> l, terminal |-> terminal]
LaneOf(stop) == stop.lane
AutoId == <<"modelhitch", "auto">>
FreeId == <<"modelhitch", "free">>
CodingId == <<"modelhitch", "auto:coding">>
NoLane == Lane(NoPin, NoModel)
Cut == <<"">>

-----------------------------------------------------------------------------
(* Routes. *)

defaultProvider(s) == IF Contains(s.providers, s.default) THEN s.default ELSE Head(s.providers)

routeModel(s, model) ==
    IF Len(model) > 1 /\ Contains(s.providers, Head(model))
    THEN Lane(Head(model), Tail(model))
    ELSE Lane(defaultProvider(s), IF model = NoModel THEN DefaultModel[defaultProvider(s)] ELSE model)

pinnedProvider(s) == IF s.pin \in Registry(s) \cup ToSet(s.providers) THEN s.pin ELSE NoPin

\* The configured default model, unless it is another provider's.
pinnedDefaultModel(s, pinned) ==
    IF s.model # NoModel /\ ~(Len(s.model) > 1 /\ Contains(s.providers, s.model[1]) /\ s.model[1] # pinned)
    THEN s.model ELSE DefaultModel[pinned]

normalizeModel(model) == IF model \in {AutoId, FreeId, CodingId} THEN NoModel ELSE model

\* A pin takes the model that was asked for, and the natural route comes second.
routeRequest(s, ask) ==
    LET model   == normalizeModel(ask.model)
        natural == routeModel(s, model)
        pinned  == pinnedProvider(s)
        free    == ask.model = FreeId \/ ask.free
    IN  IF pinned \in {NoPin, natural.p} THEN [primary |-> natural, displaced |-> NoLane, free |-> free]
        ELSE [primary |-> Lane(pinned, IF model # NoModel THEN natural.m ELSE pinnedDefaultModel(s, pinned)),
              displaced |-> natural, free |-> free]

intentFor(s, ask) ==
    IF ask.model = CodingId THEN "coding"
    ELSE IF normalizeModel(ask.model) = NoModel /\ s.intents.infer /\ ask.coding THEN "coding" ELSE "default"

policyFor(s, intent) == IF intent = "coding" /\ s.intents.coding # NoPolicy THEN s.intents.coding ELSE s.policy

-----------------------------------------------------------------------------
(* Plans. *)

EntryModels(e) == IF e.models = <<>> THEN <<DefaultModel[e.p]>> ELSE e.models
EntryStops(e) == [i \in DOMAIN EntryModels(e) |-> Stop(Lane(e.p, EntryModels(e)[i]), e.terminal)]
PlanEntries(policy) == policy.trusted \o policy.fallback

\* What the check of a document lets pass.
IsList(s) == s \in Seq(ToSet(s))
IsModel(m) == IsList(m) /\ m # NoModel
IsEntry(e) ==
    /\ e.terminal \in BOOLEAN /\ IsList(e.models)
    /\ \A i \in DOMAIN EntryModels(e) : IsModel(EntryModels(e)[i])
IsLanePolicy(policy) ==
    /\ IsList(policy.trusted) /\ IsList(policy.fallback) /\ policy.max \in Nat /\ policy.free \in BOOLEAN
    /\ \A e \in ToSet(policy.trusted) \cup ToSet(policy.fallback) : IsEntry(e)
IsLanePlan(policy) == policy # NoPolicy => IsLanePolicy(policy)

ASSUME PlansAssumption ==
    /\ IsList(AutoLanes)
    /\ \A o \in Options : IsList(o.providers) /\ IsLanePlan(o.policy) /\ IsLanePlan(o.intents.coding)
    /\ \A q \in Partials : /\ "providers" \in DOMAIN q => IsList(q.providers)
                           /\ "policy" \in DOMAIN q => IsLanePlan(q.policy)
                           /\ "intents" \in DOMAIN q => IsLanePlan(q.intents.coding)

\* The elements of a sequence at some places of it, in their order.
Those(s, places) == FlattenSeq([i \in DOMAIN s |-> IF i \in places THEN <<s[i]>> ELSE <<>>])

FirstPlaces(stops) == {i \in DOMAIN stops : \A j \in 1..i - 1 : stops[j].lane # stops[i].lane}
IsMarked(stops, l) == \E i \in DOMAIN stops : stops[i] = Stop(l, TRUE)

MergedFirst(stops) == Those(stops, FirstPlaces(stops))

\* Each lane once, where it comes first; it is terminal if any entry says so.
Merged(stops) ==
    Those([i \in DOMAIN stops |-> Stop(stops[i].lane, IsMarked(stops, stops[i].lane))], FirstPlaces(stops))

ProvidersOf(stops) == {stops[i].lane.p : i \in DOMAIN stops}

\* Trimmed from the tail; the primary stays.
trimToMaxProviders(stops, max) ==
    LET fits == {n \in 1..Len(stops) : n = 1 \/ Cardinality(ProvidersOf(SubSeq(stops, 1, n))) <= max}
    IN  SubSeq(stops, 1, CHOOSE n \in fits : \A k \in fits : k <= n)

resolvePolicyLanes(policy, primary, source) ==
    LET known == Those(PlanEntries(policy), {i \in DOMAIN PlanEntries(policy) : PlanEntries(policy)[i].p \in source})
        stops == Merged(<<Stop(primary, FALSE)>> \o FlattenSeq([i \in DOMAIN known |-> EntryStops(known[i])]))
    IN  IF policy.max = 0 THEN stops ELSE trimToMaxProviders(stops, policy.max)

resolveLanes(primary, auto) ==
    IF auto THEN Those([i \in DOMAIN AutoLanes |-> Stop(AutoLanes[i], FALSE)], {i \in DOMAIN AutoLanes : AutoLanes[i] # primary})
    ELSE <<>>

laneTargetsFromSource(s, primary, policy) ==
    IF policy # NoPolicy THEN resolvePolicyLanes(policy, primary, s.source) ELSE resolveLanes(primary, s.auto)

\* No failover onto a cloud agent, and none off it.
laneTargetsFor(s, primary, policy) ==
    IF primary.p = Cloud THEN <<>>
    ELSE LET targets == laneTargetsFromSource(s, primary, policy)
         IN  Those(targets, {i \in DOMAIN targets : targets[i].lane # primary /\ targets[i].lane.p # Cloud})

\* The lane a request landed on inherits the plan's mark.
PrimaryStop(s, primary, policy) ==
    Stop(primary, \E i \in DOMAIN laneTargetsFromSource(s, primary, policy) :
                        laneTargetsFromSource(s, primary, policy)[i] = Stop(primary, TRUE))

FreeLanes(stops) == Those(stops, {i \in DOMAIN stops : stops[i].lane \in Free})

\* The tools are dropped for a cloud agent, whatever lanes come behind it.
requireCapableTargets(stops, q) ==
    Those(stops, {i \in DOMAIN stops : q.ask.tools /\ q.route.primary.p # Cloud => stops[i].lane.p \notin Toolless})

maxAttempts(s, policy, stops) == IF policy # NoPolicy \/ s.auto THEN Len(stops) ELSE 1

-----------------------------------------------------------------------------
(* What GET /v1/models publishes of the plan. *)

policyPlanLanes(s, policy) ==
    LET all     == PlanEntries(policy)
        entries == Those(all, {i \in DOMAIN all : all[i].models # <<>> \/ all[i].p \in s.source})
        stops   == FlattenSeq([i \in DOMAIN entries |-> EntryStops(entries[i])])
        lanes   == [i \in DOMAIN stops |-> stops[i].lane]
    IN  Those(lanes, {i \in FirstPlaces(stops) : lanes[i].p \in Registry(s)})

publishedRouteBare(s, l) == IF l.p = s.default THEN l.m ELSE <<l.p>> \o l.m

\* The default provider's lanes go by their bare id, unless another provider's
\* name is its first segment.
publishedRoute(s, l) ==
    IF l.p = s.default /\ ~\E i \in DOMAIN s.providers : s.providers[i] # l.p /\ Len(l.m) > 1 /\ l.m[1] = s.providers[i]
    THEN l.m ELSE <<l.p>> \o l.m

\* The lanes of the library's client for the same plan.
failoverTargets(s, primary, policy) ==
    IF policy # NoPolicy THEN resolvePolicyLanes(policy, primary, s.source)
    ELSE <<Stop(primary, FALSE)>> \o resolveLanes(primary, s.auto)

-----------------------------------------------------------------------------
(* A request. *)

NoAsk == [model |-> NoModel, free |-> FALSE, tools |-> FALSE, coding |-> FALSE]
NoRoute == [primary |-> NoLane, displaced |-> NoLane, free |-> FALSE]
Quiet == [at |-> "none", ask |-> NoAsk, route |-> NoRoute, intent |-> "default", policy |-> NoPolicy, calm |-> TRUE,
          stops |-> <<>>, todo |-> <<>>, max |-> 0, engine |-> 0, i |-> 0, called |-> <<>>, skipped |-> {}]

Init ==
    /\ \E o \in Options : server = Constructed(o, 1)
    /\ req = Quiet /\ reconfigures = 0

\* The handler: the model id, the key's plan and the route; then it awaits the
\* primary's credentials.
Arrive(ask) ==
    LET route == routeRequest(server, ask)
    IN  /\ req.at = "none"
        /\ req' = [Quiet EXCEPT !.at = IF route.primary.m = Cut THEN "refused" ELSE "routed", !.ask = ask, !.route = route]
        /\ UNCHANGED <<server, reconfigures>>

\* All credentials are there: the filters, and the context of the walk, from
\* the configuration as it is now.
Begun(q) ==
    LET kept    == IF q.route.free \/ (server.policy # NoPolicy /\ server.policy.free) THEN FreeLanes(q.stops) ELSE q.stops
        capable == requireCapableTargets(kept, q)
        policy  == policyFor(server, q.intent)
    IN  IF capable = <<>> THEN [q EXCEPT !.at = "refused", !.stops = <<>>, !.todo = <<>>]
        ELSE [q EXCEPT !.at = "walking", !.stops = capable, !.todo = <<>>, !.engine = server.engine, !.i = 1,
                       !.max = maxAttempts(server, policy, capable)]

ProceedAgain(q) ==
    IF q.todo = <<>> THEN Begun(q) ELSE [q EXCEPT !.at = "resolving", !.todo = Append(Tail(@), Head(@))]

\* On to the next target whose provider exists now, or to the walk.
Proceed(q) ==
    LET found == {k \in DOMAIN q.todo : q.todo[k].lane.p \in Registry(server)}
        k     == CHOOSE k \in found : \A j \in found : k <= j
    IN  IF found = {} THEN Begun(q)
        ELSE [q EXCEPT !.at = "resolving", !.stops = Append(@, q.todo[k]), !.todo = SubSeq(@, k + 1, Len(@))]

Expanded(q) == Proceed([q EXCEPT !.todo = laneTargetsFor(server, q.route.primary, q.policy)])

\* Intent, plan, the primary's mark, and the displaced route.
Plan ==
    LET intent == intentFor(server, req.ask)
        policy == policyFor(server, intent)
        route  == req.route
        q == [req EXCEPT !.intent = intent, !.policy = policy, !.stops = <<PrimaryStop(server, route.primary, policy)>>]
    IN  /\ req.at = "routed"
        /\ req' = IF route.displaced # NoLane /\ route.displaced.p \in Registry(server)
                  THEN [q EXCEPT !.at = "displacing", !.stops = Append(@, Stop(route.displaced, FALSE))]
                  ELSE Expanded(q)
        /\ UNCHANGED <<server, reconfigures>>

Expand == req.at = "displacing" /\ req' = Expanded(req) /\ UNCHANGED <<server, reconfigures>>
Resolve == req.at = "resolving" /\ req' = Proceed(req) /\ UNCHANGED <<server, reconfigures>>

-----------------------------------------------------------------------------
(* The walk. *)

Here == req.stops[req.i]
Walking == req.at = "walking" /\ req.i <= Len(req.stops) /\ req.i <= req.max
LastStop == req.i >= Len(req.stops) \/ req.i >= req.max \/ Here.terminal

Called == [req EXCEPT !.called = Append(@, Here.lane)]

\* Which lanes the engine of the walk keeps parked is up to all the traffic.
Skip ==
    /\ Walking /\ req.engine # 0
    /\ req' = [req EXCEPT !.skipped = @ \cup {Here.lane}, !.at = IF Here.terminal THEN "exhausted" ELSE @, !.i = @ + 1]
    /\ UNCHANGED <<server, reconfigures>>

Works == Walking /\ req' = [Called EXCEPT !.at = "answered"] /\ UNCHANGED <<server, reconfigures>>

\* An error the plan rotates on, and one it does not.
Fails ==
    /\ Walking
    /\ req' = IF LastStop THEN [Called EXCEPT !.at = "exhausted"] ELSE [Called EXCEPT !.i = @ + 1]
    /\ UNCHANGED <<server, reconfigures>>

Refuses == Walking /\ ~LastStop /\ req' = [Called EXCEPT !.at = "rejected"] /\ UNCHANGED <<server, reconfigures>>

RunsOut ==
    /\ req.at = "walking" /\ ~Walking
    /\ req' = [req EXCEPT !.at = "exhausted"]
    /\ UNCHANGED <<server, reconfigures>>

\* The answer is out; the connection may bring another request.
Forget ==
    /\ req.at \in {"refused", "answered", "exhausted", "rejected"}
    /\ req' = Quiet
    /\ UNCHANGED <<server, reconfigures>>

-----------------------------------------------------------------------------
(* The rest of the bridge. *)

\* Engines are numbered; each reconfigure may bring one.
Reconfigure(q) ==
    /\ reconfigures < MaxReconfigures /\ reconfigures' = reconfigures + 1
    /\ server' = Reconfigured(server, q, reconfigures + 2).to
    /\ req' = IF req.at = "none" THEN req ELSE [req EXCEPT !.calm = FALSE]

Step == Plan \/ Expand \/ Resolve \/ Skip \/ Works \/ Fails \/ Refuses \/ RunsOut
Next ==
    \/ \E ask \in Asks : Arrive(ask)
    \/ Step \/ Forget
    \/ \E q \in Partials : Reconfigure(q)

\* A provider answers or fails in the end, and so do the credentials: weak
\* fairness of Step, with its enabling condition written out.
Busy == req.at \in {"routed", "displacing", "resolving", "walking"}
Spec == Init /\ [][Next]_vars /\ ([]<>~Busy \/ []<><<Step>>_vars)

-----------------------------------------------------------------------------
(* Properties.  A calm request is one no reconfigure ran during. *)

TypeOK ==
    /\ server.engine \in 0..MaxReconfigures + 1 /\ server.auto \in BOOLEAN
    /\ req.at \in {"none", "routed", "displacing", "resolving", "walking", "refused", "answered", "exhausted", "rejected"}
    /\ reconfigures \in 0..MaxReconfigures

\* A walk ends with its stops and calls none of them twice (the index of
\* callWithFailover's loop).
WalkStaysInside == req.i <= Len(req.stops) + 1 /\ Len(req.called) <= Len(req.stops)

Policy == req.policy
Undisplaced == req.route.displaced = NoLane
Planned == req.calm /\ Undisplaced /\ Policy # NoPolicy /\ req.at \in {"walking", "answered", "exhausted", "rejected"}
MarkedIn(entries, l) == \E i \in DOMAIN entries : entries[i].terminal /\ l \in {t.lane : t \in ToSet(EntryStops(entries[i]))}
Marked(l) == l.p \in server.source /\ MarkedIn(PlanEntries(Policy), l)
LanesIn(entries) == {t.lane : t \in UNION {ToSet(EntryStops(entries[i])) : i \in DOMAIN entries}}

\* Whoever asked for free lanes, by the model id or with a free key, is never
\* sent to one that bills, however the bridge is reconfigured meanwhile; nor is
\* anybody while the base policy says so (lanesForRoute).
FreeNeverBills ==
    (req.route.free \/ (req.calm /\ server.policy # NoPolicy /\ server.policy.free)) => ToSet(req.called) \subseteq Free

\* A stop lane of the plan, of a provider the plan is resolved against, ends
\* the walk, whether the walk reached it by rotation or began there, and also
\* if it was only skipped (lanesForRoute's ownTarget, pushEntry).
StopLanesStop ==
    Planned => /\ \A i, j \in DOMAIN req.called : i < j => ~Marked(req.called[i])
               /\ (\E l \in req.skipped : Marked(l)) => req.at = "exhausted"

\* Each lane is called once; the lane of the request first, the fallback lanes
\* only behind the trusted ones (resolvePolicyLanes).
PlanOrder ==
    Planned => \A i, j \in DOMAIN req.called : i < j =>
        /\ req.called[i] # req.called[j] /\ req.called[j] # req.route.primary
        /\ req.called[j] \in LanesIn(Policy.trusted) =>
             req.called[i] \in LanesIn(Policy.trusted) \cup {req.route.primary}

\* The cap on providers holds for what is called (trimToMaxProviders).
ProviderCapHolds ==
    Planned /\ Policy.max # 0 => Cardinality({l.p : l \in ToSet(req.called)}) <= Policy.max

\* A request that failed everywhere was tried on every lane of its plan that can
\* serve it, or met a stop lane (resolveLaneTargets, failoverContext).
ExhaustsThePlan ==
    Planned /\ req.at = "exhausted" /\ Policy.max = 0 /\ req.route.primary.p # Cloud =>
        LET able == {l \in LanesIn(PlanEntries(Policy)) : l.p \in server.source \ {Cloud} /\ l.p \in Registry(server)
                                                           /\ (req.ask.tools => l.p \notin Toolless)
                                                           /\ (req.route.free \/ (server.policy # NoPolicy /\ server.policy.free) => l \in Free)}
        IN  able \subseteq ToSet(req.called) \cup req.skipped \/ \E l \in ToSet(req.called) \cup req.skipped : Marked(l)

\* A cloud agent gets only the requests that name it, and keeps them
\* (laneTargetsFor).
CloudStaysPut ==
    Undisplaced /\ (\E l \in ToSet(req.called) : l.p = Cloud) => req.called = <<req.route.primary>>

\* A client that sends back an id GET /v1/models published for a lane of a plan
\* gets that lane (publishedRoute against routeModel).  A model that begins
\* with its own provider's name is left out: its bare id loses the name.
PickedLaneLeads ==
    \A policy \in {server.policy, server.intents.coding} \ {NoPolicy} : \A l \in ToSet(policyPlanLanes(server, policy)) :
        l.p \in ToSet(server.providers) /\ ~(Len(l.m) > 1 /\ Head(l.m) = l.p) => routeModel(server, publishedRoute(server, l)) = l

\* Without a pin the bridge walks the lanes the library's client would walk, in
\* its order and with its marks, less what it filters out.
SameLanesAsClient ==
    Planned /\ req.at = "walking" /\ ~req.route.free /\ ~(server.policy # NoPolicy /\ server.policy.free)
            /\ req.route.primary.p # Cloud =>
        LET able == requireCapableTargets(failoverTargets(server, req.route.primary, Policy), req)
        IN  req.stops = Those(able, {i \in DOMAIN able : able[i].lane = req.route.primary
                                                           \/ (able[i].lane.p # Cloud /\ able[i].lane.p \in Registry(server))})

(* A request is sent where its model id, its key and its plan say, as the
   library's client would send it, and its plan is walked in order, under
   its cap, up to its stops and to its end. *)
RequestsGoAsPlanned ==
  /\ WalkStaysInside
  /\ FreeNeverBills
  /\ CloudStaysPut
  /\ PickedLaneLeads
  /\ SameLanesAsClient
  /\ StopLanesStop
  /\ PlanOrder
  /\ ProviderCapHolds
  /\ ExhaustsThePlan

\* A bridge follows a policy or auto mode, never both (constructor,
\* reconfigure).
PlansAreExclusive == ~(server.auto /\ server.policy # NoPolicy)

\* Whatever plan there is, it has an engine that cools its lanes.
MemoryForPlans == server.policy # NoPolicy \/ hasIntentProfiles(server.intents) => server.engine # 0

\* Plans are resolved against the providers that requests can reach.
SourceFollowsProviders == server.source = Registry(server)

(* No sequence of reconfigurations leaves a bridge with half of two. *)
ConfigurationIsWhole ==
  /\ TypeOK
  /\ PlansAreExclusive
  /\ MemoryForPlans
  /\ SourceFollowsProviders

\* Every request gets an answer or an error.
EveryRequestEnds == Busy ~> req.at \in {"refused", "answered", "exhausted", "rejected"}

\* A plan that is free only never bills (the comment at Policy.freeOnly, where
\* the plan is an intent's).
FreePlanNeverBills == Planned /\ Policy.free => ToSet(req.called) \subseteq Free

\* Reaching a stop lane directly stops just as arriving by rotation does (the
\* comment in lanesForRoute), also where a catalog does not know its provider.
DirectStopsStop ==
    Planned /\ MarkedIn(PlanEntries(Policy), req.route.primary) => Len(req.called) <= 1

\* A lane of the plan is tried also where its provider is one the configuration
\* adds, a custom lane in front of everything say, to a catalog's.
AddedLanesTried ==
    Planned /\ req.at = "exhausted" /\ Policy.max = 0 /\ req.route.primary.p # Cloud /\ ~req.route.free /\ ~req.ask.tools
            /\ ~(server.policy # NoPolicy /\ server.policy.free) =>
        {l \in LanesIn(PlanEntries(Policy)) : l.p \in ToSet(server.providers) \ {Cloud}} \subseteq ToSet(req.called) \cup req.skipped
            \/ \E l \in ToSet(req.called) \cup req.skipped : Marked(l)

\* A request that names no model gets the configured default model, where there
\* is no pin (the comment at ModelHitchServerOptions.defaultModel).
DefaultModelServed ==
    req.calm /\ req.called # <<>> /\ server.model # NoModel /\ pinnedProvider(server) = NoPin
             /\ req.ask.model = NoModel /\ ~req.route.free =>
        req.called[1].m = server.model \/ req.called[1] # req.route.primary
=============================================================================
