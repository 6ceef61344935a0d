\* Two blocks of two bytes, put, removed and put again, with the process
\* dying during a put.
CONSTANTS
    Absent = Absent
    None = None
    Hash = {h1, h2}
    BlockLen = 2
SPECIFICATION Spec
INVARIANT BlocksWhole
