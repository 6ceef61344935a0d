\* One plaintext: a file made of two identical chunks, re-indexed unchanged.
CONSTANTS
    a = a
    b = b
    Plain = {a}
    MaxChunks = 2
    MaxIv = 6
SPECIFICATION Spec
PROPERTY ChunkReuse
CHECK_DEADLOCK FALSE
