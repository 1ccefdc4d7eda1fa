\* The libraries of scripts, one at a time.
CONSTANTS
    a = a
    b = b
    c1 = c1
    c2 = c2
    Preloaded = {"zlib", "checksum", "base64", "crypto", "options", "sockets", "timers", "locks", "dirs", "permissions"}
    Data = {a, b}
    Mark = Mark
    Flaw = Flaw
    Pieces <- MCPieces
    Room = 2
    MaxGiven = 8
    Sums = {c1, c2}
    SumPieces <- MCSumPieces
    MaxSum = 4
    Garbage = Garbage
    None = None
    Unit = 2
    Pad = Pad
    Space = Space
    Nul = Nul
    Strange = Strange
    Failed = Failed
    Crash = Crash
    Datas <- MCDatas
    Texts64 <- MCTexts
    Modulus = 4
    Overhead = 2
    MaxBuf = 12
    Messages <- MCMessages
    Streamed <- MCStreamed
    Stream <- MCStream
    MaxSets = 2
    A = A
    B = B
    Frames = {a, b, Empty}
    Empty = Empty
    Water = 2
    MaxSent = 4
    Timers = {t1, t2}
    Refs = {1, 2}
    NoRef = NoRef
    Dirs = {d1, d2}
    Here = Here
    Locks = {l1, l2, l3}
    Iterators = {i1, i2}
    MaxEntries = 2
    Threads = {n1, n2}
    Bits9 = {1, 2}
    Free = Free
SPECIFICATION LibrariesSpec
\* A script may stop calling its libraries.
CHECK_DEADLOCK FALSE
INVARIANTS
    StreamWhole
    SumsOfAllFed
    TextsOneToOne
    Decrypts
    
    FramesInOrder
    RunsItsOwn
    SharedStateKept
PROPERTIES
    
    FlushReturns
    OneShotFreed
