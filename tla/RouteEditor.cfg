SPECIFICATION Spec
CONSTANTS
    MaxEdits = 5
    MaxLocs = 2
INVARIANTS
    StoredParsesAgain
    PreviewIsDefined
PROPERTIES
    SavedIsPreviewed
