-------------------------- MODULE MC_RoutesAndSettings --------------------------
(***************************************************************************)
(* Where a bridge takes a request, and the settings it is configured from. *)
(* A reconfiguration of the routes is any of a few partial configurations, *)
(* and the settings make none of a request, so one part at a time is       *)
(* checked: which one is chosen with the initial state.                    *)
(***************************************************************************)
EXTENDS BridgeRoutes, Settings, LaneBlocks, TLC

VARIABLE part

-----------------------------------------------------------------------------
(* Routes: a default provider, one with a second lane, one without tools,  *)
(* and the cloud agents.                                                   *)

On(p, ms, stop) == [p |-> p, models |-> ms, terminal |-> stop]
Plan1 == [trusted |-> <<On("d", <<<<"m">>, <<"p", "n">>>>, FALSE), On("cloud", <<>>, FALSE)>>,
          fallback |-> <<On("p", <<<<"n">>, <<"k">>>>, FALSE), On("q", <<>>, FALSE)>>, max |-> 0, free |-> FALSE]
Plan2 == [trusted |-> <<On("p", <<<<"k">>>>, FALSE)>>,
          fallback |-> <<On("d", <<>>, FALSE), On("p", <<>>, TRUE), On("q", <<>>, FALSE)>>, max |-> 2, free |-> FALSE]
FreePlan == [Plan2 EXCEPT !.max = 0, !.free = TRUE]

MCDefaultModel == [d |-> <<"m">>, p |-> <<"n">>, q |-> <<"o">>, cloud |-> <<"a">>]
MCFree == {[p |-> "p", m |-> <<"k">>]}
MCAutoLanes == <<[p |-> "d", m |-> <<"m">>], [p |-> "q", m |-> <<"o">>], [p |-> "p", m |-> <<"k">>]>>

Bare == [providers |-> <<"d", "p", "q", "cloud">>, catalog |-> NoCatalog, source |-> {}, policy |-> NoPolicy,
         intents |-> NoIntents, auto |-> FALSE, engine |-> 0, pin |-> NoPin, default |-> "d", model |-> NoModel]
MCOptions == {Bare, [Bare EXCEPT !.auto = TRUE, !.model = <<"x">>],
              [Bare EXCEPT !.policy = Plan1, !.intents = [infer |-> TRUE, coding |-> Plan2]],
              [Bare EXCEPT !.policy = Plan1, !.pin = "p"],
              [Bare EXCEPT !.policy = Plan2, !.default = "p", !.catalog = {"d", "p", "q"}],
              [Bare EXCEPT !.policy = Plan2, !.catalog = {"d", "q"}],
              [Bare EXCEPT !.policy = FreePlan, !.intents = [infer |-> FALSE, coding |-> Plan1]],
              [Bare EXCEPT !.intents = [infer |-> TRUE, coding |-> FreePlan]]}
MCPartials == {[policy |-> Plan2], [auto |-> TRUE], [auto |-> FALSE, policy |-> Plan1], [providers |-> <<"d", "p">>],
               [intents |-> [infer |-> TRUE, coding |-> Plan2]], [intents |-> NoIntents],
               [catalog |-> {"d", "p"}, default |-> "q"], [pin |-> "q"], [cooldown |-> TRUE]}
Ask(model, free, tools, coding) == [model |-> model, free |-> free, tools |-> tools, coding |-> coding]
MCAsks == {Ask(NoModel, FALSE, FALSE, TRUE), Ask(FreeId, FALSE, FALSE, FALSE), Ask(CodingId, FALSE, TRUE, TRUE),
           Ask(<<"p", "n">>, FALSE, TRUE, TRUE), Ask(<<"d", "m">>, TRUE, FALSE, FALSE), Ask(<<"m">>, FALSE, FALSE, FALSE),
           Ask(<<"cloud", "a">>, FALSE, TRUE, FALSE), Ask(<<"p", "">>, FALSE, FALSE, FALSE)}

-----------------------------------------------------------------------------
(* Documents: the registry's d and e, the user's own c, OpenCode's b1 and  *)
(* b2, the catalog's x, the ChatGPT plan and the cloud agents.             *)

M(x) == <<x>>
Plain == [policy  |-> [trusted |-> <<Entry("d", <<M("m")>>, FALSE)>>, fallback |-> <<Entry("e", <<>>, FALSE)>>,
                       max |-> 0, free |-> FALSE],
          default |-> "d", model |-> M("m"), catalog |-> {},
          byok    |-> [on |-> FALSE, sync |-> TRUE, pinned |-> FALSE, pin |-> NoPin, model |-> NoModel, conns |-> <<>>],
          custom  |-> [on |-> FALSE, leads |-> TRUE, lanes |-> <<>>],
          chat    |-> [on |-> FALSE, leads |-> TRUE, pin |-> NoModel, models |-> <<M("g")>>, stop |-> FALSE],
          cloud   |-> FALSE]

OwnLane == [Plain EXCEPT !.custom = [on |-> TRUE, leads |-> TRUE, lanes |-> <<Entry("c", <<M("c1"), M("c2")>>, TRUE)>>]]
PlanLeads == [OwnLane EXCEPT !.custom.leads = FALSE, !.chat.on = TRUE, !.chat.models = <<>>, !.catalog = {"x"}]
Connections == [Plain EXCEPT !.default = NoPin, !.model = NoModel, !.cloud = TRUE,
                             !.byok = [@ EXCEPT !.on = TRUE, !.pinned = TRUE, !.pin = "b2",
                                                !.conns = <<[p |-> "b1", models |-> <<M("x")>>], [p |-> "b2", models |-> <<>>]>>],
                             !.chat = [on |-> TRUE, leads |-> FALSE, pin |-> M("g2"), models |-> <<>>, stop |-> TRUE]]
MCForms == {OwnLane, PlanLeads, Connections}

NoInput == [k \in KeyIds |-> Unset]
MCInputs == {NoInput, [NoInput EXCEPT !["d"] = "s2"], [NoInput EXCEPT !["c"] = "s2"]}
MCDocuments == {[form |-> OwnLane, keys |-> [NoInput EXCEPT !["c"] = "s1"], service |-> [k \in ServiceIds |-> "active"],
                 local |-> "on"]}
MCEdits == {[policy |-> NoPolicy, default |-> "e", model |-> NoModel]}
MCEnv == [NoInput EXCEPT !["d"] = "s1"]
MCAccountModels == [u \in Accounts |-> <<M("g1"), M("g2")>>] @@ (NoAccount :> <<>>)
MCBuilt == <<"d", "e">>
MCReachable == <<"x", "y">>
MCOpenCodeModels == [p \in {"b1", "b2"} |-> <<M("o")>>]

-----------------------------------------------------------------------------
(* Blocks: connections and lanes whose names meet, with and without models,*)
(* pins and stops; documents that are refused; an OpenCode install with    *)
(* more models than a pool takes.                                          *)

Conn(id, label, models, on, odd) == [id |-> id, label |-> label, models |-> models, on |-> on, odd |-> odd]
OwnSlot(id, label, models, on, stop, odd) ==
    [id |-> id, label |-> label, models |-> models, on |-> on, stop |-> stop, odd |-> odd]
Word(w) == Text(FALSE, w)
Trusting(ps) == [trusted |-> [i \in DOMAIN ps |-> Entry(ps[i], <<>>, FALSE)], fallback |-> <<>>, max |-> 0, free |-> FALSE]

Quietly == [odd |-> {}, policy |-> NoPolicy, profiles |-> <<>>, default |-> "d", model |-> M("m"), catalog |-> {}, cloud |-> FALSE,
            byok   |-> [odd |-> {}, on |-> FALSE, sync |-> FALSE, pinned |-> FALSE, pin |-> Blank, model |-> NoModel, conns |-> <<>>],
            custom |-> [odd |-> {}, on |-> FALSE, leads |-> TRUE, lanes |-> <<>>],
            chat   |-> [odd |-> {}, on |-> FALSE, pinned |-> FALSE, pin |-> NoModel, models |-> <<>>, leads |-> TRUE, stop |-> FALSE]]
WithConns(doc, conns) == [doc EXCEPT !.byok = [@ EXCEPT !.on = TRUE, !.sync = TRUE, !.conns = conns]]
WithLanes(doc, leads, lanes) == [doc EXCEPT !.custom = [@ EXCEPT !.on = TRUE, !.leads = leads, !.lanes = lanes]]
WithChat(doc, pin, models, leads) ==
    [doc EXCEPT !.chat = [@ EXCEPT !.on = TRUE, !.pinned = (pin # NoModel), !.pin = pin, !.models = models, !.leads = leads]]

TwoConns == WithConns([Quietly EXCEPT !.policy = Trusting(<<"d", "e">>), !.cloud = TRUE],
                      <<Conn(Text(TRUE, "deep"), Blank, <<>>, TRUE, {}), Conn(Word(""), Word("acme"), <<M("x"), M("x")>>, TRUE, {}),
                        Conn(Word("acme2"), Blank, <<>>, FALSE, {})>>)
PinnedConn == [TwoConns EXCEPT !.byok.pinned = TRUE, !.byok.pin = Word(""), !.byok.model = M("x")]
TwoLanes == WithLanes(Quietly, TRUE, <<OwnSlot(Text(TRUE, "deep"), Blank, <<M("a"), M("b"), M("a")>>, TRUE, TRUE, {}),
                                       OwnSlot(Word("deep"), Blank, <<M("a")>>, TRUE, FALSE, {}),
                                       OwnSlot(Word("off"), Blank, <<M("a")>>, FALSE, FALSE, {})>>)
ChatPinned == WithChat(TwoLanes, <<"plan", "g2">>, <<<<"plan", "g1">>, <<"plan", "g2">>>>, FALSE)
ChatOfAccount == WithChat(WithConns(Quietly, TwoConns.byok.conns), M("g2"), <<>>, TRUE)
OverCatalog == [Quietly EXCEPT !.catalog = {"x"}, !.policy = Trusting(<<"x", "e">>), !.profiles = [coding |-> Trusting(<<"d">>)]]
Everything == [WithChat(WithLanes(PinnedConn, FALSE, TwoLanes.custom.lanes), NoModel, <<M("g1")>>, TRUE)
                 EXCEPT !.catalog = {"x", "y"}, !.policy = NoPolicy]

Refused == {WithConns(Quietly, <<Conn(Word("deep"), Blank, <<>>, TRUE, {}), Conn(Text(TRUE, "deep"), Blank, <<>>, TRUE, {})>>),
            WithConns(Quietly, <<Conn(Word("deep"), Blank, <<>>, TRUE, {"models"})>>),
            WithLanes(Quietly, TRUE, <<OwnSlot(Word("deep"), Blank, <<>>, TRUE, FALSE, {})>>),
            WithLanes(Quietly, TRUE, <<OwnSlot(Word("deep"), Blank, <<M("a")>>, TRUE, FALSE, {"baseUrl"})>>),
            [PinnedConn EXCEPT !.byok.pin = Word("acme2")], [TwoLanes EXCEPT !.odd = {"policy"}],
            WithChat(Quietly, M("g3"), <<M("g1")>>, TRUE), [Quietly EXCEPT !.profiles = [codin |-> Trusting(<<"d">>)]],
            [OverCatalog EXCEPT !.policy = Trusting(<<"x", "custom-gone">>)], [OverCatalog EXCEPT !.odd = {"policy.entries"}]}
MCBlocks == {Quietly, TwoConns, PinnedConn, ChatPinned, ChatOfAccount, OverCatalog, Everything} \cup Refused

Row(p, m, at) == [p |-> p, m |-> m, at |-> at]
Choice(p, m) == [p |-> p, m |-> m]
FullInstall == [data |-> TRUE, auth |-> {"zed"}, db |-> "readable", credentials |-> {"acme"}, config |-> TRUE,
                history |-> <<Row("deep", M("r2"), 3), Row("", M("r1"), 2), Row("deep", M("r1"), 1)>>,
                configs |-> <<[selected |-> Choice("deep", M("r3")), lists |-> <<Choice("acme", M("k")), Choice("acme", NoModel)>>],
                              [selected |-> NoChoice, lists |-> <<Choice("zed", M("k"))>>]>>]
MCInstalls == {FullInstall, [FullInstall EXCEPT !.db = "no history", !.config = FALSE],
               [FullInstall EXCEPT !.data = FALSE, !.config = FALSE], [FullInstall EXCEPT !.config = FALSE]}
MCRows == {Choice("deep", M("r1")), Choice("acme", M("k2")), Choice("zed", NoModel)}
MCSlots == {<<>>, <<M("g1"), <<"plan", "g2">>>>}
MCNameOrder == <<"acme", "deep", "zed">>
MCSnapshotModels == <<M("s1"), M("s2")>>

-----------------------------------------------------------------------------
MCInit ==
    /\ Init /\ SettingsInit /\ BlocksInit
    /\ \/ part = "routes"
       \/ part = "settings"
       \/ part = "blocks"
    /\ part # "routes" => server = Constructed(Bare, 1)
    /\ part # "settings" => cast = (CHOOSE c \in Casts : TRUE) /\ account = NoAccount
    /\ part # "blocks" => install = FullInstall

RoutesPart(A) == part = "routes" /\ A /\ UNCHANGED <<part, settingsVars, blockVars>>
SettingsPart == part = "settings" /\ SettingsNext /\ UNCHANGED <<part, vars, blockVars>>
BlocksPart == part = "blocks" /\ BlocksNext /\ UNCHANGED <<part, vars, settingsVars>>

MCNext == RoutesPart(Next) \/ SettingsPart \/ BlocksPart

MCSpec == MCInit /\ [][MCNext]_<<part, vars, settingsVars, blockVars>> /\ ([]<>~Busy \/ []<><<RoutesPart(Step)>>_vars)

(* The lanes a document adds are there, apart and planned                  *)
(* (validateConfigWithSource, resolveBridgeProviders).                     *)
BlocksKeepTheirPlans == part = "blocks" => BlocksAreServed
=============================================================================
