\* A reader and a writer process: a page that the reader decrypts between the
\* two writes of AESCryptor::write.
SPECIFICATION Spec
CONSTANTS
    Pieces = {"pages"}
    p1 = p1  p2 = p2  r1 = r1  x1 = x1  w1 = w1  w2 = w2
    h1 = h1  h2 = h2  na = na  nb = nb  NoName = NoName
    TagSize = 1
    FreeBlockSize = 3
    MinimalAlloc = 16
    SectionSize = 32
    MaxRef = 128
    AllocSizes = {2, 5, 20}
    FileNodes <- MCFileNodes
    FileSizes <- MCFileSizes
    SlabCalls = 5
    ReaderThreads = {ra, rb}
    ViewSection = 4
    ViewSizes = {3, 6}
    ViewVersions = 3
    ViewSlabs = 1
    ViewTables = 1
    ViewSetups <- MCGrowing
    TranslatingThreads = {ta, tb}
    SectionEnd = 8
    Arrays <- MCArrays
    TranslateCalls = 2
    FileHeader = 1
    FilePage = 4
    FileSection = 16
    GrowthBoundary = 16
    MinCompaction = 16
    MinEvacLimit = 12
    TopCells = 1
    EntryCells = 1
    SpareEntries = 2
    ScanBackoff = 2
    GiveUpBackoff = 1
    EvacCells = 1
    FirstFiles <- MCFirstFiles
    Requests <- MCRequests
    MaxFileCells = 64
    MaxSpaceVersion = 4
    WindowAlignment = 4
    MaxWindows = 2
    HeaderSize = 2
    WindowRequests <- MCWindowRequests
    WindowSetups <- MCWindowSetups
    FirstFileSize = 6
    MaxFileSize = 9
    GrowBy = 3
    Procs = {p1, p2}
    Maps <- MCMaps
    Windows = {w1, w2}
    NPages = 1
    IVMod = 3
    MaxCalls = 2
    Retries = 2
    Scenes <- MCTwoProcesses
    Handles = {h1, h2}
    Names = {na, nb}
    ChunkSize = 2
    BufferSize = 2
    MaxLen = 4
    MaxNode = 3
    IOScenes <- MCIOScenes
INVARIANT PagesRefetched
CHECK_DEADLOCK FALSE
