\* A writer seeding a ReadOnly peer and a Download-only peer.
CONSTANTS
    Nil = Nil
    w = w
    r1 = r1
    r2 = r2
    d = d
    c1 = c1
    c2 = c2
    Peer = {w, r1, d}
    Tier <- MixedTier
    Chunk = {c1, c2}
    Seeder = w
    MaxTimeouts = 1
SPECIFICATION Spec
PROPERTY Convergence
\* The exchange stops once every peer has the file.
CHECK_DEADLOCK FALSE
