CONSTANTS
    Indices <- MCIndices
    OtherKeys <- MCOtherKeys
    Values <- MCValues
    Openings <- MCOpenings
    Messages <- MCMessages
    Replies <- MCReplies
    MaxMessages = 3
SPECIFICATION Spec
INVARIANTS
    NothingRealLeaves
    ThinkingComesBack
    NumbersOutliveTheTurn
    AnswerIsRestored
    ToldOnce
