----------------------------- MODULE AgentCalls -----------------------------
(***************************************************************************)
(* One agent call after another on one thread, from the request that is    *)
(* composed to the reply the client has seen: AgentExecutor, the two       *)
(* connectors (src/src/agents/), the runners an agent is built with        *)
(* (src/agents/agent-template-ts/src/) and the event loop of               *)
(* RunsService.streamLive.                                                 *)
(*                                                                         *)
(* `make` is what the agent is: a command ("cli"), an HTTP agent that      *)
(* answers one JSON document ("json"), one built on runAgentHttpStreaming  *)
(* ("template"), or one of another make that also answers in NDJSON        *)
(* ("other") and may get it wrong.  `way` is how it is called: execute, or *)
(* streamAgent ("events").  Texts are sequences of words.  A line on the   *)
(* wire is two halves and a line end; a chunk is cut anywhere, as a cut    *)
(* within a character or a key of the JSON is a cut within a half.         *)
(* Progress events pass through unchanged and are left out, as are the     *)
(* logs.  RunLifecycle shows what a run does with the outcome.             *)
(***************************************************************************)
EXTENDS TurnContext, FiniteSets

CONSTANTS
    Agents,      \* agents: make, way, the inputs of the runs, and the number of calls (bound)
    ModeSets,    \* stream modes a client may ask for
    Words,       \* what texts are made of
    Scraps,      \* texts an agent streams
    Torn,        \* what a word becomes when one of its characters is decoded in two parts
    OwnIds,      \* ids that agents name messages by
    FreshIds,    \* ids generated for messages that came without one
    Responses,   \* what agents answer: messages, and a state or None
    MaxEvents    \* bound on the lines an agent writes before its last

(* "r" is the id the runner gives to the reply (emit.messageId).           *)
Ids == OwnIds \union FreshIds

(* The messages of an answer also have an id, a text and components.       *)
Replies == [tag : Tags, role : Senders \union {None}, type : Senders \union {None},
            content : {"text", "blocks", "parts", "missing"},
            id : Ids, text : Seq(Words), kwargs : {"none", "some", "handoff"}]

Answers == [messages : Seq(Replies), state : Tops \union {None}]

ASSUME AgentAssumption ==
    /\ MaxEvents \in Nat
    /\ \A a \in Agents :
          /\ <<a.make, a.way>> \in {"cli", "json"} \X {"execute", "events"}
                                  \union {"template", "other"} \X {"events"}
          /\ a.turns \in Nat /\ a.inputs \subseteq Inputs
    /\ ModeSets \subseteq SUBSET {"tuple", "partial", "custom"}
    /\ "r" \in OwnIds
    /\ Scraps \subseteq Seq(Words) /\ Torn \in Words
    /\ Responses \subseteq Answers
    /\ None \notin Answers \union Tops
    /\ \A r \in Responses :
          \A i, j \in 1..Len(r.messages) :
              i # j => r.messages[i].id # r.messages[j].id

VARIABLES
    agent, modes,       \* the agent and the client; never change
    values,             \* stored values of the thread
    said,               \* what was said on the thread so that an agent can read it
    returned,           \* channels an agent has returned on the thread
    turn, pc, input, request,
    sent,               \* lines the agent has written
    wire,               \* pieces of them that have not been read
    ended,              \* the agent has closed its answer
    streamed,           \* the runner's record of the text it has streamed
    fate,               \* what became of the handler: "running", "returned", "threw"
    buffer,             \* the connector's buffer
    broken,             \* what ended the transport first, "none"
    cancelled,          \* the run was cancelled
    child,              \* the child process of a CLI agent
    seen,               \* events the service has handled
    answer,             \* the AgentResponse, None
    result,             \* how the call ended
    accumulated,        \* text shown per message id, for the service
    view                \* text shown per message id, for the client

callVars  == <<agent, modes>>
turnVars  == <<values, said, returned, turn, input, request>>
agentVars == <<sent, wire, ended, streamed, fate>>
hostVars  == <<broken, cancelled>>
replyVars == <<seen, answer, accumulated, view>>
vars == <<callVars, turnVars, pc, agentVars, buffer, hostVars, child, replyVars, result>>

Failures == {"timed out", "cancelled", "bad", "raw"}
Steps == {"start", "exec", "fetch", "body", "read", "lines", "type", "done", "failed"}

make == agent.make
way  == agent.way

Over == pc \in {"done", "failed"}

NoText  == [id \in Ids |-> <<>>]
NoChild == [state |-> "none", out |-> "none", code |-> "none", held |-> FALSE, late |-> FALSE,
            wrote |-> None, cuts |-> {}]
NoView  == [tuple |-> NoText, partial |-> NoText, replaced |-> {}, retyped |-> {}]

(* Mutant: the answer of an earlier call is kept.                          *)
FreshCallStale ==
    /\ sent' = <<>> /\ wire' = <<>> /\ ended' = FALSE /\ streamed' = NoText /\ fate' = "running"
    /\ buffer' = <<>> /\ broken' = "none" /\ cancelled' = FALSE /\ child' = NoChild
    /\ seen' = <<>> /\ answer' = answer /\ accumulated' = NoText /\ view' = NoView
    /\ result' = "none"

FreshCall ==
    /\ sent' = <<>> /\ wire' = <<>> /\ ended' = FALSE /\ streamed' = NoText /\ fate' = "running"
    /\ buffer' = <<>> /\ broken' = "none" /\ cancelled' = FALSE /\ child' = NoChild
    /\ seen' = <<>> /\ answer' = None /\ accumulated' = NoText /\ view' = NoView
    /\ result' = "none"

Init ==
    /\ agent \in Agents
    /\ modes \in IF way = "events" THEN ModeSets ELSE {{}}
    /\ values = EmptyValues /\ said = <<>> /\ returned = {}
    /\ turn = 0 /\ pc = "start"
    /\ input = None /\ request = None
    /\ sent = <<>> /\ wire = <<>> /\ ended = FALSE /\ streamed = NoText /\ fate = "running"
    /\ buffer = <<>> /\ broken = "none" /\ cancelled = FALSE /\ child = NoChild
    /\ seen = <<>> /\ answer = None /\ accumulated = NoText /\ view = NoView
    /\ result = "none"

-----------------------------------------------------------------------------
(* AgentExecutor: the connector is chosen by the type of the agent.        *)
BeginCall ==
    /\ pc = "start" \/ Over
    /\ turn < agent.turns
    /\ turn' = turn + 1
    /\ input' \in agent.inputs
    /\ request' = ComposeRequest(values, input')
    /\ pc' = IF make = "cli" THEN "exec" ELSE "fetch"
    /\ FreshCall
    /\ UNCHANGED <<callVars, values, said, returned>>

Fail(how) ==
    /\ pc' = "failed"
    /\ result' = how
    /\ UNCHANGED <<callVars, turnVars>>

(* The answer is stored (updateThreadState); what it says counts as said.  *)
Accept(response, nextStep) ==
    /\ pc' = nextStep
    /\ result' = "ok"
    /\ answer' = response
    /\ values' = UpdateThreadState(values, input, response.messages, response.state)
    /\ said' = said \o ExtractMessages(input.messages) \o ExtractMessages(response.messages)
    /\ returned' = IF response.state = None THEN returned
                   ELSE returned \union {k \in Channels : response.state[k] # None}
    /\ UNCHANGED <<callVars, turn, input, request>>

(* The answer of a call that is not streamed: typed out in full when the   *)
(* client follows the run's events, else returned.                         *)
AcceptWhole(response) ==
    /\ Accept(response, IF way = "events" THEN "type" ELSE "done")
    /\ seen' = <<[event |-> "final", data |-> response]>>
    /\ UNCHANGED <<accumulated, view>>

(* What a JSON document turns out to be: a response, one without the       *)
(* required fields, or no JSON.                                            *)
Judge(text, response) ==
    IF text = "good" THEN AcceptWhole(response) ELSE Fail("bad") /\ UNCHANGED replyVars

-----------------------------------------------------------------------------
(***************************************************************************)
(* The command-line connector.  The promise is settled by the first of the *)
(* events `error` and `close`.                                             *)
(***************************************************************************)
Running == pc = "exec" /\ child.state = "running"

StaysWithChild == UNCHANGED <<agentVars, buffer, hostVars>>

CliSpawns ==
    /\ pc = "exec" /\ child.state = "none"
    /\ child' = [child EXCEPT !.state = "running"]
    /\ UNCHANGED <<callVars, turnVars, pc, replyVars, result>>
    /\ StaysWithChild

CliSpawnFails ==
    /\ pc = "exec" /\ child.state = "none"
    /\ child' = [child EXCEPT !.state = "failed"]
    /\ Fail("bad")
    /\ UNCHANGED replyVars
    /\ StaysWithChild

(* The connector decodes the chunks of the answer one by one, so a cut     *)
(* inside a character leaves replacement characters on both its sides.     *)
DecodedMessage(m, i, cuts) ==
    [m EXCEPT !.text = [k \in 1..Len(m.text) |-> IF <<i, k>> \in cuts THEN Torn ELSE m.text[k]]]

Decoded(response, cuts) ==
    [response EXCEPT !.messages =
        [i \in 1..Len(response.messages) |-> DecodedMessage(response.messages[i], i, cuts)]]

Places(response) ==
    UNION {{i} \X (1..Len(response.messages[i].text)) : i \in 1..Len(response.messages)}

(* The runner writes its answer in one go, but only a part may get out;    *)
(* another command writes what it likes.  What comes in several chunks may *)
(* be cut inside a character, in any number of words.                      *)
CliWrites ==
    /\ Running
    /\ \/ /\ child.out = "none"
          /\ \E text \in {"part", "incomplete"} : child' = [child EXCEPT !.out = text]
       \/ /\ child.out \in {"none", "part"}
          /\ \E response \in Responses :
             \E cuts \in IF child.out = "none" THEN {{}} ELSE SUBSET Places(response) :
                child' = [child EXCEPT !.out = "good", !.wrote = response, !.cuts = cuts]
    /\ UNCHANGED <<callVars, turnVars, pc, replyVars, result>>
    /\ StaysWithChild

(* A process of its own may keep the output open after the child is gone.  *)
CliExits ==
    /\ Running
    /\ \E code \in {"zero", "other"}, held \in BOOLEAN :
          child' = [child EXCEPT !.state = "exited", !.code = code, !.held = held]
    /\ UNCHANGED <<callVars, turnVars, pc, replyVars, result>>
    /\ StaysWithChild

OutputReleased ==
    /\ pc = "exec" /\ child.held
    /\ child' = [child EXCEPT !.held = FALSE]
    /\ UNCHANGED <<callVars, turnVars, pc, replyVars, result>>
    /\ StaysWithChild

(* The timer: the child is killed, the promise waits for `close`.          *)
CliTimer ==
    /\ pc = "exec" /\ child.state \in {"running", "exited"} /\ ~child.late
    /\ \E held \in BOOLEAN :
          child' = IF child.state = "running"
                   THEN [child EXCEPT !.late = TRUE, !.state = "exited", !.code = "other", !.held = held]
                   ELSE [child EXCEPT !.late = TRUE]
    /\ UNCHANGED <<callVars, turnVars, pc, replyVars, result>>
    /\ StaysWithChild

CliVerdict ==
    IF child.late THEN "timed out" ELSE IF child.code # "zero" THEN "exit" ELSE child.out

CliClose ==
    /\ pc = "exec" /\ child.state = "exited" /\ ~child.held
    /\ IF CliVerdict = "timed out" THEN Fail("timed out") /\ UNCHANGED replyVars
       ELSE Judge(CliVerdict, Decoded(child.wrote, child.cuts))
    /\ UNCHANGED child
    /\ StaysWithChild

-----------------------------------------------------------------------------
(***************************************************************************)
(* The HTTP connector: fetch, the body, and what ends them early.          *)
(***************************************************************************)
Waiting == {"fetch", "body", "read", "lines"}

(* Mutant: the timer is stopped when the headers have arrived.             *)
TimeoutCoversHeaders == {"fetch"}

TimeoutCovers == Waiting

Breaks(cause, steps) ==
    /\ pc \in steps
    /\ broken = "none"
    /\ broken' = cause
    /\ UNCHANGED <<callVars, turnVars, pc, agentVars, buffer, cancelled, child, replyVars, result>>

TimeoutFires   == Breaks("timeout", TimeoutCovers)
ConnectionLost == ~ended /\ Breaks("network", Waiting)

(* An explicit cancel; a call that is not streamed has no signal.          *)
CancelArrives ==
    /\ pc \in Waiting /\ way = "events" /\ ~cancelled
    /\ cancelled' = TRUE
    /\ broken' = IF broken = "none" THEN "cancel" ELSE broken
    /\ UNCHANGED <<callVars, turnVars, pc, agentVars, buffer, child, replyVars, result>>

(* An error that ends the wait: 504 for the timeout, then 499 for a        *)
(* cancelled run, else 502.  execute maps what fetch throws, not what the  *)
(* read of the body throws.                                                *)
TransportError ==
    IF way = "execute" /\ pc = "body" THEN "raw"
    ELSE IF broken = "timeout" THEN "timed out"
    ELSE IF cancelled THEN "cancelled" ELSE "bad"

HttpRejects ==
    /\ pc \in {"fetch", "body", "read"}
    /\ broken # "none"
    /\ Fail(TransportError)
    /\ UNCHANGED <<agentVars, buffer, hostVars, child, replyVars>>

(* The headers.  The runner answers 500 to a request it cannot use, and    *)
(* opens the stream before the handler has started.                        *)
HttpAnswers ==
    /\ pc = "fetch" /\ broken = "none"
    /\ \E ok \in BOOLEAN :
          /\ make = "template" => (ok <=> request.messages # <<>>)
          /\ IF ~ok THEN Fail("bad")
             ELSE /\ pc' = IF make = "json" THEN "body" ELSE "read"
                  /\ UNCHANGED <<callVars, turnVars, result>>
    /\ UNCHANGED <<agentVars, buffer, hostVars, child, replyVars>>

(* The one JSON document of an agent that does not stream.                 *)
BodyArrives ==
    /\ pc = "body" /\ broken = "none"
    /\ \E text \in {"good", "part", "incomplete"}, response \in Responses : Judge(text, response)
    /\ UNCHANGED <<agentVars, buffer, hostVars, child>>

-----------------------------------------------------------------------------
(***************************************************************************)
(* The agent's side of a stream.                                           *)
(***************************************************************************)
NL == [line |-> 0, half |-> 0]
Halves(k) == <<[line |-> k, half |-> 1], [line |-> k, half |-> 2]>>

Token(id, words, source) == [event |-> "token", id |-> id, text |-> words, source |-> source]
Replace(id, words)       == [event |-> "replace", id |-> id, text |-> words]
Final(response)          == [event |-> "final", data |-> response]
Plain(event)             == [event |-> event]

LinePieces(line, n) == (IF line.event = "blank" THEN <<>> ELSE Halves(n)) \o <<NL>>

Pieces(lines, from) == FlattenSeq([i \in 1..Len(lines) |-> LinePieces(lines[i], from + i)])

Writes(lines) ==
    /\ sent' = sent \o lines
    /\ wire' = wire \o Pieces(lines, Len(sent))

Open == pc \in {"read", "lines"} /\ ~ended /\ broken = "none"

StaysWithAgent == UNCHANGED <<callVars, turnVars, pc, buffer, hostVars, child, replyVars, result>>

(* emit.token and emit.replace of a handler.                               *)
HandlerEmits ==
    /\ Open /\ make = "template" /\ Len(sent) < MaxEvents
    /\ \E id \in OwnIds, words \in Scraps :
          \/ /\ streamed' = [streamed EXCEPT ![id] = @ \o words]
             /\ Writes(<<Token(id, words, "live")>>)
          \/ /\ streamed' = [streamed EXCEPT ![id] = words]
             /\ Writes(<<Replace(id, words)>>)
    /\ UNCHANGED <<ended, fate>>
    /\ StaysWithAgent

(* The last assistant message of a reply, which gets the id of the text    *)
(* the runner has streamed; 0 when there is none.                          *)
LastReply(messages) ==
    LET ai == {i \in 1..Len(messages) : messages[i].role = "assistant"}
    IN  IF ai = {} THEN 0 ELSE CHOOSE i \in ai : \A j \in ai : j <= i

Stamped(messages) ==
    IF LastReply(messages) = 0 THEN messages
    ELSE [messages EXCEPT ![LastReply(messages)].id = "r"]

(* What is missing is sent as one more token; a text that does not continue *)
(* what was streamed replaces it.                                          *)
Reconcile(messages) ==
    LET text  == messages[LastReply(messages)].text
        sofar == streamed["r"]
    IN  IF LastReply(messages) = 0 THEN <<>>
        ELSE IF ~IsPrefix(sofar, text) THEN <<Replace("r", text)>>
        ELSE IF Len(sofar) = Len(text) THEN <<>>
        ELSE <<Token("r", SubSeq(text, Len(sofar) + 1, Len(text)),
                     IF sofar = <<>> THEN "final" ELSE "reconcile")>>

(* A handler gives emit.messageId, if at all, to the reply: its messages    *)
(* have no id of their own (AgentMessage).                                 *)
HandlerResponses ==
    {r \in Responses : \A i \in 1..Len(r.messages) :
                          r.messages[i].id = "r" => i = LastReply(r.messages)}

HandlerReturns ==
    /\ Open /\ make = "template"
    /\ \E response \in HandlerResponses :
          Writes(Reconcile(response.messages)
                 \o <<Final([response EXCEPT !.messages = Stamped(@)])>>)
    /\ ended' = TRUE /\ fate' = "returned"
    /\ UNCHANGED streamed
    /\ StaysWithAgent

HandlerThrows ==
    /\ Open /\ make = "template"
    /\ Writes(<<Plain("error")>>)
    /\ ended' = TRUE /\ fate' = "threw"
    /\ UNCHANGED streamed
    /\ StaysWithAgent

(* An agent of another make: also blank lines, lines that are no JSON,     *)
(* finals without the required fields, several of them, or none; and it    *)
(* may leave out the last line end.                                        *)
OtherLines ==
    {Plain(e) : e \in {"blank", "noJson", "incomplete", "error"}}
    \union {Token(id, words, source) : id \in OwnIds, words \in Scraps,
                                       source \in {"live", "final"}}
    \union {Replace(id, words) : id \in OwnIds, words \in Scraps}
    \union {Final(response) : response \in Responses}

OtherWrites ==
    /\ Open /\ make = "other" /\ Len(sent) < MaxEvents
    /\ \E line \in OtherLines : Writes(<<line>>)
    /\ UNCHANGED <<ended, streamed, fate>>
    /\ StaysWithAgent

OtherEnds ==
    /\ Open /\ make = "other"
    /\ ended' = TRUE
    /\ \/ UNCHANGED <<sent, wire>>
       \/ \E response \in Responses :
             /\ sent' = Append(sent, Final(response))
             /\ wire' = wire \o Halves(Len(sent) + 1)
    /\ UNCHANGED <<streamed, fate>>
    /\ StaysWithAgent

-----------------------------------------------------------------------------
(***************************************************************************)
(* Reading the stream: ApiAgentConnector.streamAgent and, event by event,  *)
(* the loop of streamLive.                                                 *)
(***************************************************************************)
(* The text of an event is shown to those who asked for it.                *)
Shown(to, id, words) == IF to \in modes THEN [view EXCEPT ![to][id] = words] ELSE view

(* emitText: a tuple chunk carries the delta, a partial the text so far.   *)
EmitText(v, id, shown, delta) ==
    [v EXCEPT !.tuple[id]   = IF "tuple" \in modes THEN @ \o delta ELSE @,
              !.partial[id] = IF "partial" \in modes THEN shown \o delta ELSE @]

(* A `replace`: a partial carries the new text; the tuple protocol has no  *)
(* such thing, but subscribers of `custom` are told.                       *)
EmitReplace(v, id, words) ==
    [v EXCEPT !.partial[id] = IF "partial" \in modes THEN words ELSE @,
              !.tuple[id]   = IF {"tuple", "custom"} \subseteq modes THEN words ELSE @,
              !.replaced    = @ \union {id}]

(* The runner's own tokens are held: the reply is typed out once saved.    *)
Held(source) == source \in {"final", "reconcile"}

(* Mutant: the text of a `replace` is not remembered.                      *)
AccumulatedAppended(event) ==
    IF event.event = "token" /\ ~Held(event.source)
    THEN [accumulated EXCEPT ![event.id] = @ \o event.text] ELSE accumulated

Accumulated(event) ==
    IF event.event = "token" /\ ~Held(event.source)
    THEN [accumulated EXCEPT ![event.id] = @ \o event.text]
    ELSE IF event.event = "replace" THEN [accumulated EXCEPT ![event.id] = event.text]
    ELSE accumulated

HandleEvent(event) ==
    /\ seen' = Append(seen, event)
    /\ accumulated' = Accumulated(event)
    /\ view' = IF event.event = "token" /\ ~Held(event.source)
               THEN EmitText(view, event.id, accumulated[event.id], event.text)
               ELSE IF event.event = "replace" THEN EmitReplace(view, event.id, event.text)
               ELSE view
    /\ answer' = IF event.event = "final" THEN event.data ELSE answer

(* parseLine: the pieces between two line ends, as an event.               *)
ParseLine(pieces) ==
    IF pieces = <<>> THEN Plain("blank")
    ELSE IF pieces[1].line \in 1..Len(sent) /\ pieces = Halves(pieces[1].line)
         THEN sent[pieces[1].line] ELSE Plain("noJson")

(* Mutant: what is left of a line is dropped when the next chunk comes.    *)
BufferedAnew(chunk) == chunk

Buffered(chunk) == buffer \o chunk

(* A read that is under way fails when the transport breaks, unless the    *)
(* whole answer had arrived.                                               *)
ReadChunk ==
    /\ pc = "read" /\ wire # <<>>
    /\ broken = "none" \/ ended
    /\ \E n \in 1..Len(wire) :
          /\ buffer' = Buffered(SubSeq(wire, 1, n))
          /\ wire' = SubSeq(wire, n + 1, Len(wire))
    /\ pc' = "lines"
    /\ UNCHANGED <<callVars, turnVars, sent, ended, streamed, fate, hostVars, child, replyVars, result>>

LineEnds == {i \in 1..Len(buffer) : buffer[i] = NL}

TakeLine ==
    /\ pc = "lines" /\ LineEnds # {}
    /\ LET nl    == CHOOSE i \in LineEnds : \A j \in LineEnds : i <= j
           event == ParseLine(SubSeq(buffer, 1, nl - 1))
       IN  /\ buffer' = SubSeq(buffer, nl + 1, Len(buffer))
           /\ CASE event.event \in {"noJson", "incomplete"} -> Fail("bad") /\ UNCHANGED replyVars
                [] event.event = "error" -> Fail("bad") /\ UNCHANGED replyVars
                [] event.event = "blank" ->
                      UNCHANGED <<callVars, turnVars, pc, result, replyVars>>
                [] OTHER ->
                      /\ HandleEvent(event)
                      /\ UNCHANGED <<callVars, turnVars, pc, result>>
    /\ UNCHANGED <<agentVars, hostVars, child>>

NoMoreLines ==
    /\ pc = "lines" /\ LineEnds = {}
    /\ pc' = "read"
    /\ UNCHANGED <<callVars, turnVars, agentVars, buffer, hostVars, child, replyVars, result>>

(* The end of the stream: what is left in the buffer is a line too, and    *)
(* there must have been a `final`.                                         *)
ReadDone ==
    /\ pc = "read" /\ wire = <<>> /\ ended
    /\ LET tail  == ParseLine(buffer)
           last  == IF tail.event = "final" THEN tail.data ELSE answer
       IN  IF tail.event \in {"noJson", "incomplete", "error"} \/ last = None
           THEN Fail("bad") /\ UNCHANGED replyVars
           ELSE /\ Accept(last, "type")
                /\ seen' = IF tail.event = "blank" THEN seen ELSE Append(seen, tail)
                /\ UNCHANGED <<accumulated, view>>
    /\ buffer' = <<>>
    /\ UNCHANGED <<agentVars, hostVars, child>>

-----------------------------------------------------------------------------
(***************************************************************************)
(* typeOut: what of the saved reply has not been shown is shown now.       *)
(***************************************************************************)
ReplyOf(m) == IF ToLangChainMessage(m).type = "ai" THEN <<m>> ELSE <<>>

ReplyMessages == FlatMapped(answer.messages, ReplyOf)

Wrong(m) == ~IsPrefix(accumulated[m.id], m.text)

ToType(m, shown) == SubSeq(m.text, Len(shown) + 1, Len(m.text))

TypeOut(v, m) ==
    LET shown == IF Wrong(m) THEN <<>> ELSE accumulated[m.id]
        start == IF Wrong(m)
                 THEN [v EXCEPT !.retyped = @ \union {m.id},
                                !.tuple[m.id] = IF "custom" \in modes THEN <<>> ELSE @]
                 ELSE v
    IN  IF m.kwargs = "handoff" THEN EmitText(start, m.id, <<>>, m.text)
        ELSE IF ToType(m, shown) = <<>> /\ m.kwargs = "none" THEN start
        ELSE EmitText(start, m.id, shown, ToType(m, shown))

TypeReply ==
    /\ pc = "type"
    /\ view' = IF {"tuple", "partial"} \intersect modes = {} THEN view
               ELSE FoldLeft(TypeOut, view, ReplyMessages)
    /\ pc' = "done"
    /\ UNCHANGED <<callVars, turnVars, agentVars, buffer, hostVars, child, seen, answer,
                   accumulated, result>>

-----------------------------------------------------------------------------
Cli       == CliSpawns \/ CliSpawnFails \/ CliWrites \/ CliExits \/ OutputReleased \/ CliTimer \/ CliClose
Transport == TimeoutFires \/ ConnectionLost \/ CancelArrives \/ HttpRejects \/ HttpAnswers \/ BodyArrives
Agent     == HandlerEmits \/ HandlerReturns \/ HandlerThrows \/ OtherWrites \/ OtherEnds
Reader    == ReadChunk \/ TakeLine \/ NoMoreLines \/ ReadDone \/ TypeReply

Next == BeginCall \/ Cli \/ Transport \/ Agent \/ Reader

(* The server's own steps are taken, and its timers fire.  Nothing is      *)
(* asked of an agent: it may never answer, write or exit.                  *)
Fairness ==
    /\ WF_vars(CliSpawns \/ CliSpawnFails) /\ WF_vars(CliTimer) /\ WF_vars(CliClose)
    /\ WF_vars(TimeoutFires) /\ WF_vars(HttpRejects)
    /\ WF_vars(Reader)

Spec == Init /\ [][Next]_vars /\ Fairness

-----------------------------------------------------------------------------
TypeOK ==
    /\ agent \in Agents /\ modes \subseteq {"tuple", "partial", "custom"}
    /\ turn \in 0..agent.turns /\ pc \in Steps
    /\ result \in Failures \union {"none", "ok"}
    /\ answer # None => result = "ok" \/ seen # <<>>
    /\ (result = "ok") <=> (answer # None /\ pc \in {"type", "done"})
    /\ values.top \in Tops /\ returned \subseteq Channels
    /\ Len(sent) <= MaxEvents + 2 /\ fate \in {"running", "returned", "threw"}
    /\ broken \in {"none", "timeout", "cancel", "network"} /\ cancelled \in BOOLEAN
    /\ child.state \in {"none", "running", "exited", "failed"}
    /\ accumulated \in [Ids -> Seq(Words)]

(* Messages that storing makes a stranger of: the stored form has a type   *)
(* only, so that one whose role says otherwise is read as another's the    *)
(* next time, or not at all, and some that nobody could read become        *)
(* messages of the user.                                                   *)
Spoken == UNION {{i.messages[k] : k \in 1..Len(i.messages)} : i \in agent.inputs \union Responses}

Odd == {m.tag : m \in {n \in Spoken : Extracted(ToLangChainMessage(n)) # Extracted(n)}}

Known(m) == IF m.tag \in Odd THEN <<>> ELSE <<m>>

(* What an agent is told is the whole conversation: every message of the   *)
(* finished turns that an agent can read, in order and once, then those of *)
(* the input; never a document among the channels; and every channel an    *)
(* agent has ever returned (request-composer.ts:39, runs.service.ts:1152). *)
(* The messages that storing makes a stranger of are left aside.           *)
RequestComplete ==
    pc \notin {"start", "type", "done", "failed"} =>
        /\ FlatMapped(request.messages, Known)
              = FlatMapped(said \o ExtractMessages(input.messages), Known)
        /\ request.state["documents"] = None
        /\ \A k \in returned : request.state[k] # None

(* The events among the lines: a blank line is none.                       *)
EventOf(line) == IF line.event = "blank" THEN <<>> ELSE <<line>>

SentEvents == FlatMapped(sent, EventOf)

(* What the service takes for the agent's answer is what the agent said:   *)
(* the events it handles are lines the agent wrote, whole and in order; an *)
(* answer is taken only after everything before it was handled, from the   *)
(* last `final`; a command has exited well and in time, and nothing of its *)
(* answer differs but words cut between two chunks; and the failures       *)
(* are told apart: an agent built on the runner fails a call only because  *)
(* it threw, refused the request or lost the connection.                   *)
AnswerFaithful ==
    /\ make \in {"template", "other"} =>
          /\ IsPrefix(seen, SentEvents)
          /\ result = "ok" => /\ ended /\ seen = SentEvents
                              /\ \E i \in 1..Len(seen) :
                                    /\ seen[i] = Final(answer)
                                    /\ \A j \in (i + 1)..Len(seen) : seen[j].event # "final"
    /\ make = "cli" /\ result = "ok" =>
          /\ child.code = "zero" /\ child.out = "good" /\ ~child.late
          /\ answer = Decoded(child.wrote, child.cuts)
    /\ result = "cancelled" => cancelled
    /\ make = "template" =>
          /\ result = "ok" => fate = "returned" /\ Cardinality({i \in 1..Len(seen) : seen[i].event = "final"}) = 1
          /\ result = "bad" => fate = "threw" \/ broken = "network" \/ request.messages = <<>>

(* Once the reply is delivered, a client has the text that was saved: as   *)
(* the last partial of each message (an empty text may leave the wrong     *)
(* one, messages/complete tells then), and as the tuple chunks put         *)
(* together, provided it subscribed to `custom` where text was replaced.   *)
(* A handoff chunk carries the whole text on its own.  The runner's        *)
(* reconciliation leaves nothing to retype for its own reply.              *)
(* (runs.service.ts:990, http-streaming-runner.ts:142)                     *)
Delivered(m) ==
    /\ "partial" \in modes /\ m.text # <<>> => view.partial[m.id] = m.text
    /\ "tuple" \in modes /\ m.kwargs # "handoff"
          /\ ("custom" \in modes \/ m.id \notin view.replaced \union view.retyped)
       => view.tuple[m.id] = m.text

ReplyWhole ==
    /\ pc = "done" /\ way = "events" =>
          \A i \in 1..Len(ReplyMessages) : Delivered(ReplyMessages[i])
    /\ make = "template" => "r" \notin view.retyped

(* Every call ends, whatever the agent does, at the latest some time after *)
(* its timeout (cli-connector.ts:57, api-connector.ts:60, 197); except for *)
(* a command whose output is still held open by a process it left behind.  *)
CallsEnd == (pc \in Steps \ {"start", "done", "failed"}) ~> (Over \/ child.held)
=============================================================================
