SPECIFICATION FairSpec
CONSTANTS
    Step <- Steps
    Name <- Names
    Parallel <- UpToTwo
    Watched <- JoinAndChain
    Rerun <- One
    Printing <- One
    Failing <- One
    Skippable <- One
    Unsaved <- One
    AnyGate <- Last
    Fallback <- OneToLast
INVARIANTS StagesAreDepths FinalViewTrue EffectNotBeforeCause OutputKept
PROPERTIES EndedStaysEnded CommandEnds ViewCatchesUp
