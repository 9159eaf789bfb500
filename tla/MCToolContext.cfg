SPECIFICATION ContextSpec
CONSTANTS
    Turns = {"m1", "m2", "job", "done"}
    KindOf <- Kinds
    ChatOf <- Chats
INVARIANTS ToolsKnowTheirTurn
CHECK_DEADLOCK FALSE
