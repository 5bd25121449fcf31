---------------------------- MODULE MCAgentCalls ----------------------------
(* Model-checking instance of AgentCalls.                                  *)
EXTENDS AgentCalls

MCModeSets == {{"tuple", "partial", "custom"}, {"tuple"}}

Message(tag, role, type, content) == [tag |-> tag, role |-> role, type |-> type, content |-> content]
Top(c, documents) == [k \in Keys |-> IF k = "documents" THEN documents ELSE c[k]]

(* A question by role with a document and a channel; one by type in        *)
(* blocks, between messages no agent can read and one whose type and role  *)
(* differ; and no message at all.                                          *)
Question == [messages |-> <<Message("q1", "user", None, "text")>>,
             top |-> Top([k \in Channels |-> "v"], "v")]
Mixed    == [messages |-> <<Message("x1", "tool", None, "text"),
                            Message("q2", None, "human", "blocks"),
                            Message("x2", "user", None, "missing"),
                            Message("x3", "assistant", "human", "text")>>,
             top |-> EmptyTop]
Nothing  == [messages |-> <<>>, top |-> EmptyTop]

Reply(tag, id, text, kwargs) ==
    [tag |-> tag, role |-> "assistant", type |-> None, content |-> "text",
     id |-> id, text |-> text, kwargs |-> kwargs]

MCResponses ==
    {[messages |-> <<Reply("a1", "new", <<"a">>, "none")>>,
      state |-> Top([k \in Channels |-> "w"], "v")],
     [messages |-> <<Reply("a2", "r", <<"a", "b">>, "none")>>, state |-> None],
     [messages |-> <<Reply("a3", "new", <<"a", "b">>, "handoff")>>, state |-> EmptyTop],
     [messages |-> <<Reply("a4", "o", <<"a", "b">>, "some"), Reply("a5", "r", <<>>, "none")>>,
      state |-> EmptyTop],
     [messages |-> <<[Reply("a6", "new", <<"a">>, "none") EXCEPT !.role = "system"]>>,
      state |-> None]}

MCTags    == {"q1", "q2", "x1", "x2", "x3", "a1", "a2", "a3", "a4", "a5", "a6"}
MCSenders == {"user", "assistant", "system", "human", "ai", "tool"}

MCScraps == {<<"a">>, <<"b">>}

MCAgents ==
    [make : {"cli", "json"}, way : {"execute", "events"}, turns : {2},
     inputs : {{Question, Mixed, Nothing}}]
    \union {[make |-> "template", way |-> "events", turns |-> 1, inputs |-> {Question, Nothing}],
            [make |-> "other", way |-> "events", turns |-> 1, inputs |-> {Question}]}
=============================================================================
