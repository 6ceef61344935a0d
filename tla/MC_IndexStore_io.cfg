\* One thread putting Metas of two paths over two chunks, with crashes,
\* and statements that fail for a reason of the disk.
CONSTANTS
    Nil = Nil
    p1 = p1
    p2 = p2
    c1 = c1
    c2 = c2
    t1 = t1
    Path = {p1, p2}
    Chunk = {c1, c2}
    Caller = {t1}
    MaxChunks = 2
    IoFaults = TRUE
SPECIFICATION Spec
INVARIANT CommittedIndexWhole
