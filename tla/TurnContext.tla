---------------------------- MODULE TurnContext ----------------------------
(***************************************************************************)
(* What an agent is told and what is kept of its answer: the request       *)
(* composer (src/src/agents/request-composer.ts), the per-channel state    *)
(* reducer (state-reducer.ts) and the values a finished turn writes to the *)
(* thread (RunsService.updateThreadState).                                 *)
(*                                                                         *)
(* The values of a thread are its messages and, beside them, the channels  *)
(* of the graph state and the reserved key "documents".  A message is an   *)
(* identity (`tag`), the role or the type it came with, and what its       *)
(* content is: a text, blocks with a text, blocks without, or missing.     *)
(***************************************************************************)
EXTENDS Naturals, SequencesExt

CONSTANTS
    Channels,    \* graph-state channels
    Vals,        \* what a channel may hold; null is one of them
    Tags,        \* identities of messages
    Senders,     \* roles and types that messages come with, known or not
    None         \* an absent key, role, type, state

ASSUME ChannelsAssumption ==
    /\ "documents" \notin Channels
    /\ {"user", "assistant", "system", "human", "ai"} \subseteq Senders
    /\ None \notin Senders

Keys == Channels \union {"documents"}
Tops == [Keys -> Vals \union {None}]

Messages == [tag : Tags, role : Senders \union {None}, type : Senders \union {None},
             content : {"text", "blocks", "parts", "missing"}]
Inputs   == [messages : Seq(Messages), top : Tops]

EmptyTop    == [k \in Keys |-> None]
EmptyValues == [messages |-> <<>>, top |-> EmptyTop]

Mapped(s, Op(_)) == [i \in 1..Len(s) |-> Op(s[i])]

(* What Op makes of each element, none, one or several, in a row.          *)
FlatMapped(s, Op(_)) == FlattenSeq(Mapped(s, Op))

-----------------------------------------------------------------------------
MapTypeToRole(type) ==
    CASE type = "human" -> "user" [] type = "ai" -> "assistant"
      [] type = "system" -> "system" [] OTHER -> None

(* The role is tried first, then the type; a message without a usable      *)
(* content or a known sender is dropped.                                   *)
Role(m) ==
    IF m.role \in {"user", "assistant", "system"} THEN m.role ELSE MapTypeToRole(m.type)

Readable(m) == m.content \in {"text", "blocks"} /\ Role(m) # None

NormalizeMessage(m) == [role |-> Role(m), tag |-> m.tag]

Extracted(m) == IF Readable(m) THEN <<NormalizeMessage(m)>> ELSE <<>>

ExtractMessages(messages) == FlatMapped(messages, Extracted)

(* Documents come from the input alone; anything but a list of documents   *)
(* (null, say) counts as none.                                             *)
ExtractDocuments(input) ==
    IF input.top["documents"] = "null" THEN None ELSE input.top["documents"]

(* The keys `messages` and `documents` are never part of the graph state.  *)
StripReservedChannels(top) == [top EXCEPT !["documents"] = None]

(* A key of the update replaces that channel, null included; a key the     *)
(* update omits is kept.                                                   *)
ReduceChannels(prev, update) ==
    [k \in Keys |-> IF update[k] # None THEN update[k] ELSE prev[k]]

(* Mutant: the input replaces the inherited state.                         *)
ExtractStateReplaced(input, values) == StripReservedChannels(input.top)

ExtractState(input, values) ==
    ReduceChannels(StripReservedChannels(values.top), StripReservedChannels(input.top))

ComposeRequest(values, input) ==
    [messages  |-> ExtractMessages(values.messages) \o ExtractMessages(input.messages),
     documents |-> ExtractDocuments(input),
     state     |-> ExtractState(input, values)]

-----------------------------------------------------------------------------
(* The stored form of a message has a type only: without one it is derived *)
(* from the role, and every role but the three known ones becomes "human". *)
ToLangChainMessage(m) ==
    [tag     |-> m.tag,
     role    |-> None,
     type    |-> IF m.type # None THEN m.type
                 ELSE CASE m.role = "assistant" -> "ai" [] m.role = "system" -> "system"
                        [] OTHER -> "human",
     content |-> IF m.content = "missing" THEN "text" ELSE m.content]

(* updateThreadState: the agent's state is folded into the channels, the   *)
(* messages of the turn are appended, and they overwrite any "messages"    *)
(* the agent's state may hold.  The channels of the input are written only *)
(* as far as the agent returns them.                                       *)
UpdateThreadState(values, input, reply, state) ==
    [messages |-> values.messages \o Mapped(input.messages, ToLangChainMessage)
                                  \o Mapped(reply, ToLangChainMessage),
     top      |-> IF state = None THEN values.top ELSE ReduceChannels(values.top, state)]
=============================================================================
