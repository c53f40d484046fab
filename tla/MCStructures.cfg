SPECIFICATION Spec
CONSTANTS
    Pieces = {"tree", "packed", "blobs", "typed", "facade"}
    x1 = x1  x2 = x2
    MaxNode = 4
    MaxSize = 8
    WordBits = 16
    InitialCapacity = 4
    Slack = 2
    MaxCapacity = 64
    MaxElements = 18
    SignedValues <- MCSigned
    UnsignedValues <- MCUnsigned
    Diffs <- MCDiffs
    Starts <- MCStarts
    ShortMax = 3
    MediumMax = 4
    SmallMax = 2
    PackAbove = 4
    NodeHeader = 1
    BlockHeader = 1
    DirectoryEntry = 1
    BlockTarget = 6
    InlineMax = 6
    MaxBinary = 7
    MaxValues = 4
    LeafSetups <- MCLeafSetups
    LeafKinds = {"int", "time", "bytes", "dec", "float"}
    LeafRoom = 3
    BlockCells = 2
    CellBytes = 2
    Ints <- MCInts
    Nanos = {0, 1}
    Decimals = {"zero", "zeroE", "large"}
    Txns = {x1, x2}
    Raw = "raw"
    Refs = {1, 2}
    Clients <- MCClients
    LeafSize = 3
    NoPosition = 9
INVARIANTS
    TypedSound
PROPERTIES
    TreeSound
    PackedSound
    BlobsSound
    FacadeSound
VIEW View
CHECK_DEADLOCK FALSE
