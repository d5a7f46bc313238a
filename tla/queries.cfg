SPECIFICATION Spec
CONSTANTS
    Alphabet <- MCAlphabet
    Lowercase <- MCLowercase
    AnyTag = AnyTag
    CurrentTag = CurrentTag
    GlobalTag = GlobalTag
    FilesTag = FilesTag
    DirectoriesTag = DirectoriesTag
    ApplicationName = "kast"
    CurrentActivity = "p"
    Directory <- Folder
    DayLength = 2
    ScoreRows <- MCScoreRows
    LinkRows <- MCLinkRows
    InfoRows <- MCInfoRows
    EventRows <- MCEventRows
    TermsUsed <- MCTermsUsed
    Replacements <- MCReplacements
    MaxSize = 4
INVARIANTS
    QueriesTypeOK
    UsedMatchesReference
    LinkedMatchesReference
    AllCombines
    
PROPERTIES
    TermsAreAlternatives
