SPECIFICATION Spec
CONSTANTS
    Pieces = {"find", "decimal", "mixed", "text", "log", "attach"}
    WordBits = 16
    SearchWidths = {0, 1, 2, 4, 8, 16}
    Arrays <- MCArrays
    Digits = 6
    MantBits = 4
    MinExp <- MCMinExp
    MaxExp = 26
    Rounded = 3
    ShortDigits = 3
    HalfWord = 3
    TenBits = 6
    Parts = {0, 5, 8}
    IntBits = 6
    FloatDigits = 2
    MixedValues <- MCMixedValues
    Texts <- MCTexts
    Needles <- MCNeedles
    Patterns <- MCPatterns
    LongDigits = 15
    WordDigits = 10
    IntDigits = 9
    MaxEncBytes = 3
    NbBuffers = 1
    StreamBlock = 2
    MaxString = 4
    LogCalls <- MCLogCalls
    OldCalls <- MCOldCalls
    ProbeValues <- MCProbeValues
    MaxCalls = 2
    MaxLogged = 2
    PageUnits = 4
    MaxUnits = 8
    TopRefs = {2, 4}
    LogicalSizes = {4, 5}
    Opens = 2
    Scenes <- MCScenes
    JournaledShrink = FALSE
INVARIANTS
    SearchesExact
    DecimalsExact
    MixedSound
    LogSound
PROPERTIES
    TextSound
    OpeningSound
CHECK_DEADLOCK FALSE
