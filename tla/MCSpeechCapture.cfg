SPECIFICATION FairSpec
CONSTANTS
    Wording <- Answers
    MaxSpoken = 4
    MaxFinals = 6
    NoText = NoText
INVARIANTS
    EngineFollows
    EachOnceInOrder
PROPERTIES
    ShownIsKept
    RestartsWhileListening
