\* Writer and reader: does the writer publish only ever newer revisions, as Replication promises?
CONSTANTS
    Nil = Nil
    w1 = w1
    w2 = w2
    r1 = r1
    r2 = r2
    p1 = p1
    d1 = d1
    d2 = d2
    j1 = j1
    j2 = j2
    Worker = {j1, j2}
    Peer = {w1, r1}
    Tier <- PairTier
    Path = {p1}
    Data = {d1, d2}
    MaxTime = 4
    MaxEdits = 2
    IndexEventTimeout = 1
    FullRescan = TRUE
    EditTypes = {"FILE", "DELETED"}
SPECIFICATION Spec
PROPERTY ReplicationRefined
CHECK_DEADLOCK FALSE
