SPECIFICATION Spec
CONSTANTS
    Level = {"generation"}
    TTL <- MCTTL
    SemanticTTL = 1
    MaxPoints = 1
    Request = {r1, r2}
    Doc = {d1}
    Conversation = {c1}
    NoConversation = NoConversation
    RetrievalLag = 0
    MaxSteps = 1
    MaxRun = 1
    MaxEvents = 1
SYMMETRY MCSymmetry
INVARIANTS HistoryPrivate
PROPERTIES AnswersSettle ExactAnswersFit
