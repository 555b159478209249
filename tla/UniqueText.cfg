SPECIFICATION TextSpec
CONSTANTS
    MaxLines = 2
    MaxBytes = 4
    MaxOutputChunks = 0
    Context = 1
    NoLimit = NoLimit
    Chunks <- MCChunks
    ReadFiles = {}
    Limits <- MCLimits
    Plain <- MCPlain
    Blanks <- MCBlanks
    EditFiles <- OneLetterFiles
    EditLists <- MCEditLists
    DiffTexts = {}
INVARIANT AcceptedTextIsUnique
