SPECIFICATION CallSpec
CONSTANTS
    a1 = a1
    a2 = a2
    Accounts <- TwoAccounts
    MaxAttempts = 2
    FirstTimeout = TRUE
    IdleTimeout = TRUE
INVARIANTS
    ErrorsKeepTheirMeaning
    SuccessIsCompletion
PROPERTIES
    DeadlineSparesStreams
    OvertakenTimersAreVoid
    AnswersOnce
    EndsOrStreams
    SilentStreamsEnd
    RefinesHandle
CHECK_DEADLOCK FALSE
