SPECIFICATION FairSpec
CONSTANTS
    Entry <- Two
    ActionName <- Names
    Stores <- AllStores
    Limit = 1500
    Worker <- Two
    Calls <- Pairs
    Content <- Texts
    WorkingDir <- Here
    Accepts <- Judge
    EditBound = 1
    AttemptBound = 2
INVARIANTS AllOrNothing LastOneWins VerdictOwn MapExclusive SleepAsAsked
PROPERTY AttemptsEnd
CHECK_DEADLOCK FALSE
