SPECIFICATION Spec
CONSTANTS
    NumberOf <- MCNumberOf
    DateTokens <- MCDateTokens
    Dictionary <- MCDictionary
    Columns <- MCColumns
    Abbreviations <- MCAbbreviations
    Resemblance <- MCResemblance
    Library <- MCLibrary
    Knowledge <- MCKnowledge
    Overlaps <- MCOverlaps
    FixedChars <- MCFixedChars
    LineChars <- MCLineChars
    TopK = 2
    MaxTokens = 420
    Requests = {r1, r2}
    Questions <- MCTwoQuestions
    MaxAsked = 2
INVARIANT PromptKnowsTheQuestion
CHECK_DEADLOCK FALSE
