SPECIFICATION FairSpec
CONSTANTS
    Configs <- AllConfigs
    Connection <- CD
    NoConnection = ""
    AttemptBound = 3
INVARIANTS TypeOK OwnAnswer OverlapOnlyAfterTimeout FailClosed
PROPERTIES HelpersEnd AttemptEnds
