----------------------------- MODULE BridgeState -----------------------------
(***************************************************************************)
(* The configuration a running bridge holds, and the two ways it comes by  *)
(* one: the constructor and reconfigure.  A provider is its id, a catalog  *)
(* the providers it makes callable, a policy the entries it trusts and     *)
(* falls back on.  An engine of lane cooldowns is known by a number; 0 is  *)
(* none.  A partial configuration is a record of the fields it carries.    *)
(***************************************************************************)
EXTENDS Integers, Sequences, SequencesExt

NoPolicy == [trusted |-> <<>>]      \* validatePolicy refuses a policy without lanes
NoCatalog == {}
NoPin == "no pin"
NoModel == <<>>

\* intents: the plan of the one profile (coding), and whether it is inferred.
NoIntents == [infer |-> FALSE, coding |-> NoPolicy]
hasIntentProfiles(intents) == intents.coding # NoPolicy

Given(q, field, else) == IF field \in DOMAIN q THEN q[field] ELSE else
Says(q, field) == field \in DOMAIN q /\ q[field]

Registry(s) == IF s.catalog = NoCatalog THEN ToSet(s.providers) ELSE s.catalog

ConfigFields == {"providers", "catalog", "source", "policy", "intents", "auto", "engine", "pin", "default", "model"}

\* A constructor that is given both a policy and auto mode refuses.
Constructed(o, engine) ==
    [o EXCEPT !.engine = IF o.policy # NoPolicy \/ hasIntentProfiles(o.intents) THEN engine ELSE 0,
              !.source = Registry(o)]

ReconfiguredForgetsMemory(s, q, engine) ==   \* mutant: no engine comes with a plan
    [done |-> TRUE, to |-> [s EXCEPT !.intents = Given(q, "intents", @), !.policy = Given(q, "policy", @), !.auto = FALSE]]
(***************************************************************************)
(* reconfigure assigns field by field and may throw on the way; what was   *)
(* assigned before stays.  A new engine comes with a given one, or with a  *)
(* plan.                                                                   *)
(***************************************************************************)
Reconfigured(s, q, engine) ==
    LET served  == [s EXCEPT !.providers = Given(q, "providers", @), !.catalog = Given(q, "catalog", @),
                             !.source = IF "catalog" \in DOMAIN q THEN q.catalog
                                        ELSE IF "providers" \in DOMAIN q /\ s.catalog = NoCatalog THEN ToSet(q.providers)
                                        ELSE @]
        planned == [served EXCEPT !.policy = Given(q, "policy", @), !.intents = Given(q, "intents", @),
                                  !.auto = @ /\ "policy" \notin DOMAIN q]
        renewed == Says(q, "cooldown") \/ "policy" \in DOMAIN q \/ Given(q, "intents", NoIntents) # NoIntents
    IN  IF "policy" \in DOMAIN q /\ s.auto THEN [done |-> FALSE, to |-> served]
        ELSE IF Says(q, "auto") /\ planned.policy # NoPolicy THEN [done |-> FALSE, to |-> planned]
        ELSE [done |-> TRUE,
              to |-> [planned EXCEPT !.auto = Given(q, "auto", @), !.engine = IF renewed THEN engine ELSE @,
                                     !.default = Given(q, "default", @), !.model = Given(q, "model", @),
                                     !.pin = Given(q, "pin", @)]]
=============================================================================
