------------------------------- MODULE MC_Wires -------------------------------
(***************************************************************************)
(* The wires of the bridge: one streamed request in full; or the turns of  *)
(* several clients of the Responses wire and the memory that joins them;   *)
(* or the tool loop of one client and the histories it sends. Which of     *)
(* them is chosen with the initial state: a stream's part in the memory is *)
(* the messages it leaves, which StreamBridge checks and Conversations     *)
(* takes from the same sink, and its part in a tool loop the calls its     *)
(* client reads.                                                           *)
(***************************************************************************)
EXTENDS StreamBridge, Conversations, ToolLoop, TLC

\* What Conversations says a stream leaves in the memory is what the sink collects
\* of its chunks.
Collected(order) ==
    LET chunks == FlattenSeq([i \in DOMAIN order |-> <<Start(order[i], "f"), Args(order[i], <<>>), End(order[i])>>])
    IN  LastLines("responses", EmitAll("responses", Wire, chunks).to).to.messages

ASSUME StreamedIsCollected ==
    \A c \in Clients : \A order \in Orders \ {<<>>} :
        Streamed(c, order) = [i \in DOMAIN Collected(order) |->
                                Assistant(c, {Collected(order)[i].calls[k].id : k \in DOMAIN Collected(order)[i].calls})]

VARIABLE part

Parts == {"stream", "conversations", "tool-loop"}

MCInit == part \in Parts /\ Init /\ TalkInit /\ LoopInit /\ (part # "stream" => src = "openai" /\ wire = "responses")

StreamStep == part = "stream" /\ Next /\ UNCHANGED <<part, talkVars, loopVars>>
TalkStep == part = "conversations" /\ TalkNext /\ UNCHANGED <<part, vars, loopVars>>
LoopStep == part = "tool-loop" /\ LoopNext /\ UNCHANGED <<part, vars, talkVars>>

MCNext == StreamStep \/ TalkStep \/ LoopStep

MCSpec == MCInit /\ [][MCNext]_<<part, vars, talkVars, loopVars>> /\ WF_vars(Aborted)
=============================================================================
