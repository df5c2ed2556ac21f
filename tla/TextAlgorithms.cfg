SPECIFICATION JsonSpec
CONSTANTS
    MaxPieces = 3
    MaxText = 3
    MaxPath = 5
    MaxWords = 5
    Bytes = {97, 47, 92, 32, 43, 195, 37, 50}
    Words = {"/", "?", "#", "download", "details", "a"}
    MAX_NESTING = 3
    STARTING_CAPACITY = 2
    MaxEdits = 2
    MaxEdited = 4
    MaxUnits = 3
    Plain <- PlainChars
    Codes <- SomeCodes
    Malformed <- Misspelt
CHECK_DEADLOCK FALSE
INVARIANT GlobIsItsLanguage
INVARIANT EncodingExact
INVARIANT ParentMade
INVARIANT IdentifierFound
INVARIANT ParserReadsJson
INVARIANT NothingLeaks
INVARIANT StringsExact
INVARIANT AnswersWhole
