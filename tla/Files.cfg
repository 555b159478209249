SPECIFICATION FilesSpec
CONSTANTS
    MaxMessages = 5
    MaxBatch = 2
    MaxFailures = 3
    Caller = {c1, c2, c3}
    Editors = {c2, c3}
    Path <- ThreePaths
    File <- TwoFiles
    Target <- StableTarget
    Canonical <- StableCanonical
    Existing = {"old"}
    Removable = {"new"}
    MaxRemovals = 1
    None = None
    MaxLines = 2
    MaxBytes = 4
    MaxOutputChunks = 4
    Context = 1
    NoLimit = NoLimit
    Chunks <- MCChunks
    ReadFiles <- MCReadFiles
    Limits <- MCLimits
    Plain <- MCPlain
    Blanks <- MCBlanks
    EditFiles <- MCEditFiles
    EditLists <- MCEditLists
    DiffTexts <- MCDiffTexts
INVARIANTS
    AckedIsReadable
    SameFileExcluded
    NoMutationLost
    OutputIsTailOfStream
    SpillHoldsWholeStream
    TruncationKeepsWhatFits
    ReadingIsComplete
    EditReplacesNamedText
    PatchTurnsOldIntoNew
PROPERTIES
    ImplementsLog
    CallReturns
