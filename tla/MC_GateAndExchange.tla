------------------------- MODULE MC_GateAndExchange -------------------------
(***************************************************************************)
(* What stands on either side of a routed request: the gate that admits it *)
(* (service keys with a request limit, a token limit, or none configured)  *)
(* and the mappings it goes through.  They share no state, and one of them *)
(* at a time is checked.                                                   *)
(***************************************************************************)
EXTENDS ServiceKeyGate, Exchange, TLC

CONSTANTS a, none

VARIABLE part

GateParts == {"gate", "exchange"}

Limits(n, t) == [requests |-> n, tokens |-> t]

\* One key: a request a window; two, and one token; and no key at all.
MCTables == {(a :> Limits(1, none)), (a :> Limits(2, 1)), <<>>}

-----------------------------------------------------------------------------
Posted(system, turns, choice, format, limits) ==
    [system |-> system, turns |-> turns, choice |-> choice, format |-> format, limits |-> limits, continues |-> FALSE]
Simply(turns) == Posted(<<>>, turns, Absent, Absent, {})

W(n) == <<Prose(n)>>
Args1 == <<"x">>
Args2 == <<"y">>
Id(n) == <<"id", n>>
User(parts) == Turn("user", parts)
Listed(t) == [t EXCEPT !.listed = TRUE]

\* Two calls at once, their results the other way round, then one more question.
ChatTalk ==
    << Turn("system", W(1)), User(W(2)),
       Turn("assistant", W(3) \o <<Call(Id(1), "f", Args1), Call(Id(2), "g", Args2)>>),
       Turn("tool", <<Result(Id(2), NoName, W(4) \o <<Image(5, "local")>>)>>), Turn("tool", <<Result(Id(1), NoName, W(6))>>),
       User(W(7) \o <<Image(8, "url")>> \o W(9)) >>

ChatBodies ==
    {Posted(<<>>, ChatTalk, choice, format, {"max"}) :
        choice \in {Absent, "auto", "none", "required", "function"}, format \in {Absent, "text", "json_object", "json_schema"}}
    \cup {Posted(<<>>, <<Turn("system", W(1)), Listed(Turn("system", W(2) \o W(3))), User(<<Image(4, "local"), Image(5, "stray")>>)>>,
                 Absent, "json_object", {"temperature"}),
          Simply(<<User(<<>>), Turn("developer", W(1)), Turn("assistant", <<Call(NoId, "f", Args1)>>)>>),
          Posted(<<>>, <<User(<<Image(1, "data"), Image(2, "none")>>)>>, Absent, "json_schema", {}),
          Simply(<<>>)}

MessagesBodies ==
    {Posted(W(1), << User(W(2)), Turn("assistant", <<Aside>> \o W(3) \o <<Call(Id(1), "f", Args1), Call(Id(2), "g", Args2)>>),
                     User(<<Result(Id(2), NoName, W(4) \o <<Image(5, "local")>>), Result(Id(1), NoName, W(6))>>),
                     User(W(7) \o <<Image(8, "url"), Image(9, "local")>> \o W(10)) >>, choice, Absent, {"max", "stop"}) :
        choice \in {Absent, "auto", "any", "none", "function"}}
    \cup {Simply(<<User(W(1)), Turn("assistant", <<Call(NoId, "f", Args1)>>), Turn("system", W(2)),
                   User(<<Image(3, "none")>>), Turn("assistant", <<Aside>>), User(<<Image(4, "data")>>)>>),
          Simply(<<User(W(1)), Turn("assistant", <<Call(Id(1), "f", Args1)>>), User(<<Result(Id(1), NoName, W(2))>> \o W(3))>>),
          Simply(<<>>)}

GeminiBodies ==
    {Posted(W(1), << User(W(2)), Turn("model", <<Aside>> \o W(3) \o <<Call(NoId, "f", Args1)>>), User(<<Result(NoId, "f", W(4))>>),
                     Turn("model", <<Call(NoId, "f", Args2)>>), User(<<Result(NoId, "f", W(5))>>) >>, choice, format, {"max"}) :
        choice \in {Absent, "AUTO", "ANY", "ANY of one", "NONE"}, format \in {Absent, "text", "json_object", "json_schema"}}
    \cup {Simply(<<User(<<Image(1, "local"), Image(2, "url")>> \o W(3)),
                   Turn("model", <<Call(Id(1), "f", Args1), Call(Id(2), "g", Args2)>>),
                   User(<<Result(NoId, "g", W(4)), Result(NoId, "f", W(5))>>), User(<<Image(6, "none")>>), User(W(7))>>),
          Simply(<<>>)}

Output(id, content) == Turn("item", <<Result(id, NoName, content)>>)
ItemOf(p) == Turn("item", <<p>>)

ResponsesBodies ==
    {Posted(W(1), << User(W(2)), ItemOf(Aside), ItemOf(Call(Id(1), "f", Args1)), ItemOf(Call(Id(2), "g", Args2)),
                     Output(Id(2), W(3) \o <<Image(4, "local")>>), Output(Id(1), W(5)), Turn("assistant", W(6)), ItemOf(Aside),
                     ItemOf(Call(Id(3), "f", Args2)), Output(Id(3), W(7)),
                     User(W(8) \o <<Image(9, "url")>> \o W(10) \o <<Image(11, "none")>>) >>, choice, format, {"max"}) :
        choice \in {Absent, "auto", "none", "required", "function"}, format \in {Absent, "text", "json_object", "json_schema"}}
    \cup {Simply(<<Output(Id(9), W(1)), Turn("system", W(2)), User(<<Image(3, "none")>>), User(W(4))>>),
          Simply(<<Output(Id(9), W(1))>>),
          [Simply(<<Output(Id(9), W(1)), User(W(2))>>) EXCEPT !.continues = TRUE],
          Posted(W(1), <<>>, Absent, Absent, {}),
          Simply(<<>>)}

MCAsked == "chat-completions" :> ChatBodies @@ "messages" :> MessagesBodies
             @@ "gemini" :> GeminiBodies @@ "responses" :> ResponsesBodies

Made(id) == <<Call(id, "f", Args1), Call(Id(2), "g", Args2)>>
Marks == <<Markup("f", Args1), Markup("g", Args2)>>
AnswersOf(calls, stop, cut, made) ==
    {Answer(W(1) \o W(2), stop), Answer(W(1), cut), Answer(W(1) \o calls, made), Answer(W(1) \o Marks, stop), Answer(calls, made),
     Answer(W(1) \o Marks \o calls, made)}

MCGiven ==
       "openai" :> AnswersOf(Made(NoId), "stop", "length", "tool_calls") \cup {Answer(W(1), "content_filter")}
    @@ "anthropic" :> AnswersOf(Made(Id(1)), "end_turn", "max_tokens", "tool_use")
    @@ "ollama" :> AnswersOf(Made(NoId), "stop", "length", "stop")
    @@ "plan" :> {Answer(W(1), "completed"), Answer(W(1) \o Made(Id(1)), "completed")}
    @@ "zen" :> AnswersOf(Made(NoId), "completed", "incomplete", "completed")
    @@ "gemini" :> AnswersOf(Made(NoId), "STOP", "MAX_TOKENS", "STOP")

-----------------------------------------------------------------------------
\* The part that stands still starts in one state.
MCInit ==
    /\ part \in GateParts /\ Init /\ ExchangeInit
    /\ part = "gate" => wire = "gemini" /\ upstream = "plan" /\ posted = Simply(<<>>)
    /\ part = "exchange" => table = <<>>

GateStep == part = "gate" /\ Next /\ UNCHANGED <<part, exchangeVars>>
ExchangeStep == part = "exchange" /\ ExchangeNext /\ UNCHANGED <<part, vars>>

MCNext == GateStep \/ ExchangeStep

MCSpec == MCInit /\ [][MCNext]_<<part, vars, exchangeVars>>

\* Requests are interchangeable.
RequestSymmetry == Permutations(Requests)
=============================================================================
