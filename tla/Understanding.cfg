SPECIFICATION Spec
CONSTANTS
    NumberOf <- MCNumberOf
    DateTokens <- MCDateTokens
    Dictionary <- MCDictionary
    Columns <- MCColumns
    Abbreviations <- MCAbbreviations
    Resemblance <- MCResemblance
    Library <- MCLibrary
    Knowledge <- MCKnowledge
    Overlaps <- MCOverlaps
    FixedChars <- MCFixedChars
    LineChars <- MCLineChars
    TopK = 2
    MaxTokens = 354
    Requests = {r1, r2}
    Questions <- MCQuestions
    MaxAsked = 2
INVARIANTS HistoryIndependent JoinsConnect TrimsInOrder
CHECK_DEADLOCK FALSE
