SPECIFICATION FairSpec
CONSTANTS
    MaxCalls = 3
    Query = {q1, q2}
    Conversation = {c1, c2}
    NoQuery = NoQuery
    NoConversation = NoConversation
INVARIANTS MessagesFit ConversationFits PanelFits BusyWaits
PROPERTIES Settles
CHECK_DEADLOCK FALSE
