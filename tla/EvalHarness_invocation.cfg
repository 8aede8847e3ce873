SPECIFICATION Spec
CONSTANTS
    Articles = {"ira", "hsa"}
    Outline <- MCOutline
    RetrievalK = 2
    QuestionFile <- MCQuestionFile
    Arguments <- MCArguments
    Label = "mine"
    ForeignRuns <- MCForeignRuns
    NA = NA
    MaxEdits = 2
    MaxForeign = 2
CONSTRAINT Focus
INVARIANTS
    FamilyStoredWhole
    BaselineIsForeign
    BlameIsJust
    ReportAddsUp
