\* Every request of a 4-bit word against chunks of up to 15 bytes, and every
\* list of up to two endpoints with bytes of three values, and every read of
\* up to two rows with up to two failing steps, and a control server with two
\* connections (local, empty or remote origin), one folder, two values of the
\* globals and two commands, and a path of up to two chunks of two
\* plaintexts with six IVs, and a client with one folder (added, removed,
\* re-added) and two nodes connecting from two endpoints.
CONSTANTS
    Width = 4
    MaxLen = 15
    Base = 3
    MaxList = 2
    r1 = r1
    r2 = r2
    Garbage = Garbage
    Row = {r1, r2}
    MaxRows = 2
    MaxFaults = 2
    MaxYields = 8
    None = None
    c1 = c1
    c2 = c2
    oNone = oNone
    oLocal = oLocal
    oRemote = oRemote
    f1 = f1
    g1 = g1
    g2 = g2
    Conn = {c1, c2}
    Origin = {oNone, oLocal, oRemote}
    LocalOrigin = {oNone, oLocal}
    Folder = {f1}
    Globals = {g1, g2}
    MaxCommands = 2
    a = a
    b = b
    Plain = {a, b}
    MaxChunks = 2
    MaxIv = 6
    Nil = Nil
    n1 = n1
    n2 = n2
    e1 = e1
    e2 = e2
    Node = {n1, n2}
    Addr = {e1, e2}
    MaxPools = 2
    MaxPeers = 4
SPECIFICATION Spec
INVARIANT AcceptsExactlyInside
INVARIANT PackedListRoundTrip
INVARIANT FaultFreeReadExact
INVARIANT ReadEndsWithWholeQuery
PROPERTY ClientsCatchUp
INVARIANT ChunkerTypeOK
INVARIANT IvBindsPlaintext
PROPERTY RecurringChunkKeepsCiphertext
INVARIANT PoolTracksMembers
INVARIANT OneSessionPerNode
