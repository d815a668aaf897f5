SPECIFICATION LiveSpec
CONSTANTS
    Setups <- MCSetups
    MaxRetries = 2
    MaxRounds = 2
    MaxCalls = 2
    RetryAfters <- MCRetryAfters
INVARIANTS
    ConversationAccepted
    AnswerContract
PROPERTIES
    CallEnds
