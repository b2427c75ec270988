---------------------------- MODULE Conversations ----------------------------
(***************************************************************************)
(* Stateful Responses turns: clients that send only what is new and name   *)
(* the response it continues, and the bridge's bounded memory of whole     *)
(* conversations, which it joins with the new part before it calls a       *)
(* provider.  Turns of several clients overlap; the memory is read when a  *)
(* request comes and written when its answer is complete.  A restart       *)
(* empties it.                                                             *)
(*                                                                         *)
(* A message is its role, the thread it belongs to, and the ids of the     *)
(* calls it makes or answers.  Inputs that carry the whole history need no *)
(* memory and are left out.                                                *)
(***************************************************************************)
EXTENDS StreamWires, FiniteSets

CONSTANTS
    Clients,
    CallIds,            \* the ids providers give to calls; not unique across threads
    CallsPerTurn,       \* calls an answer may make
    MaxTurns,           \* responses the bridge issues
    MaxFails,            \* requests that fail or are refused, of all clients
    MAX_CONVERSATIONS   \* the cap of the memory

ASSUME ConversationsAssumption ==
    /\ IsFiniteSet(Clients) /\ CallsPerTurn \in Nat
    /\ MaxTurns \in Nat /\ MaxFails \in Nat /\ MAX_CONVERSATIONS \in Nat \ {0}

VARIABLES
    conversations,  \* the memory: a Map from response id to messages, oldest entry first
    issued,         \* how many response ids were issued; they are numbered
    talk,           \* per client: the response it continues and the calls it must answer
    flight,         \* per client: its new messages, the messages forwarded, and how they were found
    said,           \* history: per client, the thread as the client knows it
    whole,          \* history: the clients of whose threads no turn lost a part
    gave,           \* history: per call id, the clients it was given to
    restarted,      \* history: the response ids issued before the last restart
    fails           \* requests spent on failures

talkVars == <<conversations, issued, talk, flight, said, whole, gave, restarted, fails>>

Idle == [busy |-> FALSE, asked |-> <<>>, messages |-> <<>>, found |-> FALSE, anchored |-> FALSE]
NoResponse == 0

User(c) == [role |-> "user", of |-> c, ids |-> {}]
System(c) == [role |-> "system", of |-> c, ids |-> {}]
Tool(c, id) == [role |-> "tool", of |-> c, ids |-> {id}]
Assistant(c, ids) == [role |-> "assistant", of |-> c, ids |-> ids]

TalkInit ==
    /\ conversations = <<>> /\ issued = 0 /\ restarted = 0 /\ fails = 0
    /\ talk = [c \in Clients |-> [last |-> NoResponse, calls |-> <<>>]]
    /\ flight = [c \in Clients |-> Idle]
    /\ said = [c \in Clients |-> <<>>] /\ whole = Clients
    /\ gave = [id \in CallIds |-> {}]

-----------------------------------------------------------------------------
(* The memory. *)

conversationFor(id) == At(conversations, id)

\* The most recent conversation with an assistant message that made one of the calls.
HoldsAnything(conversation, ids) == conversation # <<>>
Holds(conversation, ids) == \E i \in DOMAIN conversation : conversation[i].role = "assistant" /\ conversation[i].ids \cap ids # {}

findConversationWithToolCall(ids) ==
    LET hits == {i \in DOMAIN conversations : Holds(conversations[i].val, ids)}
    IN  IF hits = {} THEN <<>> ELSE conversations[CHOOSE i \in hits : \A j \in hits : j <= i].val

\* Set an entry; a new one evicts the oldest when the map is full.
rememberConversation(id, conversation) ==
    LET room == IF Len(conversations) >= MAX_CONVERSATIONS /\ ~Has(conversations, id) THEN Tail(conversations) ELSE conversations
    IN  conversations' = Put(room, id, conversation)

-----------------------------------------------------------------------------
(* A request. *)

\* The messages of the input: outputs of calls that are not in the input are
\* kept only when it names a previous response; instructions come first.
Mapped(c, outputs, user, previous, instructions) ==
    (IF instructions THEN <<System(c)>> ELSE <<>>)
    \o (IF previous # NoResponse THEN [i \in DOMAIN outputs |-> Tool(c, outputs[i])] ELSE <<>>)
    \o (IF user THEN <<User(c)>> ELSE <<>>)

resolveConversation(messages, previous) ==
    IF previous # NoResponse /\ Has(conversations, previous) THEN conversationFor(previous) \o messages ELSE messages

Forward(c, asked, messages, found, anchored) ==
    flight' = [flight EXCEPT ![c] = [busy |-> TRUE, asked |-> asked, messages |-> messages, found |-> found, anchored |-> anchored]]

\* The client continues its thread: with the outputs of its calls, with a new
\* message, or both; it may have lost the id of the response it continues.
Ask(c, user, named, instructions) ==
    LET outputs  == talk[c].calls
        results  == [i \in DOMAIN outputs |-> Tool(c, outputs[i])]
        asked    == results \o (IF user THEN <<User(c)>> ELSE <<>>)
        previous == IF named THEN talk[c].last ELSE NoResponse
        resolved == resolveConversation(Mapped(c, outputs, user, previous, instructions), previous)
        prior    == findConversationWithToolCall(ToSet(outputs))
    IN  /\ ~flight[c].busy /\ asked # <<>>
        /\ issued + Cardinality({d \in Clients : flight[d].busy}) < MaxTurns
        /\ named => talk[c].last # NoResponse
        /\ \/ /\ \E i \in DOMAIN resolved : resolved[i].role # "tool"
              /\ Forward(c, asked, resolved, previous # NoResponse /\ Has(conversations, previous), FALSE)
              /\ UNCHANGED fails
           \/ /\ \A i \in DOMAIN resolved : resolved[i].role = "tool"
              /\ prior # <<>>
              /\ Forward(c, asked, prior \o results, FALSE, TRUE)
              /\ UNCHANGED fails
           \/ /\ \A i \in DOMAIN resolved : resolved[i].role = "tool"     \* 400: start a new chat
              /\ prior = <<>>
              /\ fails < MaxFails /\ fails' = fails + 1
              /\ UNCHANGED flight
        /\ UNCHANGED <<conversations, issued, talk, said, whole, gave, restarted>>

\* The assistant messages of an answer: a whole result gives one message. A
\* stream has one call open at a time, which the start of the next one replaces,
\* and completes it when the answer ends.
Streamed(c, calls) == <<Assistant(c, {Last(calls)})>>

\* An answer with these calls (none: text) reaches the client and is remembered
\* under the id it carries.
Answer(c, calls, stream) ==
    LET full == <<Assistant(c, ToSet(calls))>>
        kept == IF stream /\ calls # <<>> THEN Streamed(c, calls) ELSE full
    IN  /\ flight[c].busy
        /\ issued' = issued + 1
        /\ rememberConversation(issued', flight[c].messages \o kept)
        /\ talk' = [talk EXCEPT ![c] = [last |-> issued', calls |-> calls]]
        /\ said' = [said EXCEPT ![c] = @ \o flight[c].asked \o full]
        /\ whole' = IF kept = full /\ (flight[c].found \/ said[c] = <<>>) THEN whole ELSE whole \ {c}
        /\ gave' = [id \in CallIds |-> IF id \in ToSet(calls) THEN gave[id] \cup {c} ELSE gave[id]]
        /\ flight' = [flight EXCEPT ![c] = Idle]
        /\ UNCHANGED <<restarted, fails>>

\* Every lane fails, or the stream breaks: nothing is remembered, and the client
\* may ask again.
Fails(c) ==
    /\ flight[c].busy /\ fails < MaxFails
    /\ fails' = fails + 1
    /\ flight' = [flight EXCEPT ![c] = Idle]
    /\ UNCHANGED <<conversations, issued, talk, said, whole, gave, restarted>>

Restart ==
    /\ restarted < issued
    /\ conversations' = <<>> /\ restarted' = issued
    /\ flight' = [c \in Clients |-> Idle]
    /\ UNCHANGED <<issued, talk, said, whole, gave, fails>>

Orders == {s \in UNION {[1..n -> CallIds] : n \in 0..CallsPerTurn} : IsInjective(s)}

TalkNext ==
    \/ \E c \in Clients, user, named, instructions \in BOOLEAN : Ask(c, user, named, instructions)
    \/ \E c \in Clients, calls \in Orders, stream \in BOOLEAN : Answer(c, calls, stream)
    \/ \E c \in Clients : Fails(c)
    \/ Restart

TalkSpec == TalkInit /\ [][TalkNext]_talkVars

-----------------------------------------------------------------------------
(* Properties *)

Messages == [role : {"user", "system", "tool", "assistant"}, of : Clients, ids : SUBSET CallIds]

\* The memory is within its cap and holds each response once; requests and
\* threads are made of messages.
TalkTypeOK ==
    /\ issued \in 0..MaxTurns /\ restarted \in 0..issued /\ fails \in 0..MaxFails /\ whole \subseteq Clients
    /\ Len(conversations) <= MAX_CONVERSATIONS
    /\ \A i \in DOMAIN conversations : conversations[i].key \in 1..issued /\ conversations[i].val \in Seq(Messages)
    /\ \A i, j \in DOMAIN conversations : conversations[i].key = conversations[j].key => i = j
    /\ \A c \in Clients : said[c] \in Seq(Messages) /\ flight[c].messages \in Seq(Messages) /\ talk[c].last \in 0..issued

\* The messages that are not instructions, in their order.
NoSystem(messages) ==
    LET spoken == {i \in DOMAIN messages : messages[i].role # "system"}
        Place(k) == CHOOSE i \in spoken : Cardinality({j \in spoken : j <= i}) = k
    IN  [k \in 1..Cardinality(spoken) |-> messages[Place(k)]]
Own(c, messages) == \A i \in DOMAIN messages : messages[i].of = c
Answers(messages) ==
    \A i \in DOMAIN messages : messages[i].role = "tool" =>
        \E j \in 1..i-1 : messages[j].role = "assistant" /\ messages[i].ids \subseteq messages[j].ids

\* A client can continue its last response as long as fewer than the cap were
\* issued since, whatever the order in which the overlapping turns ended.
RecentResolvable ==
    \A c \in Clients : talk[c].last > restarted /\ issued - talk[c].last < MAX_CONVERSATIONS => Has(conversations, talk[c].last)

\* A turn whose previous response is remembered is forwarded as the client's
\* whole thread, in order, once, and nobody else's.
ContinuesOwnThread ==
    \A c \in whole : flight[c].found => NoSystem(flight[c].messages) = said[c] \o flight[c].asked

\* Results that were joined to a conversation by the ids of their calls join the
\* client's own, if no id they answer was also given to another client.
AnchoredInOwnThread ==
    \A c \in Clients : flight[c].anchored /\ whole = Clients
            /\ (\A i \in DOMAIN flight[c].asked : \A id \in flight[c].asked[i].ids : gave[id] = {c}) =>
        Own(c, flight[c].messages) /\ Answers(flight[c].messages)

(* Overlapping turns continue the thread their client meant, as long as
   the memory can hold it. *)
ThreadsStayApart ==
  /\ TalkTypeOK
  /\ RecentResolvable
  /\ ContinuesOwnThread
  /\ AnchoredInOwnThread

\* What the handler says of every request: an input that cannot be answered,
\* results without the calls they answer, is never forwarded.
NeverForwardsUnanswerable == \A c \in Clients : flight[c].busy => Answers(flight[c].messages)
=============================================================================
