CONSTANTS
    None = None
    Choice = {yes}
    App = {a}
    Reader = {q}
    MaxHistory = 3
    MaxAsked = 2
    Inputs = {"cancel", "delete"}
SPECIFICATION Spec
CHECK_DEADLOCK FALSE
INVARIANTS AppsInvariant AcceptedAnswerIsTold QuestionsReachReaders
