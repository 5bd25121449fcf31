SPECIFICATION Spec

CONSTANTS
    None = None
    c1 = c1
    Channels = {c1}
    Vals = {"v", "w", "null"}
    Tags <- MCTags
    Senders <- MCSenders
    Agents <- MCAgents
    Words = {"a", "b", "?"}
    Torn = "?"
    OwnIds = {"r", "o"}
    FreshIds = {"new"}
    ModeSets <- MCModeSets
    Scraps <- MCScraps
    Responses <- MCResponses
    MaxEvents = 2

CHECK_DEADLOCK FALSE

INVARIANTS
    TypeOK
    RequestComplete
    AnswerFaithful
    ReplyWhole

PROPERTIES
    CallsEnd
