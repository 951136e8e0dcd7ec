SPECIFICATION DeobfSpec
CONSTANTS
    pure = pure
    remembering = remembering
    Methods = {pure, remembering}
    SitesOf <- MCSitesOf
    Remembering = {remembering}
    Bulks = {b1, b2}
    BatchSize = 2
    Threads = {1, 3}
    MaxRuns = 2
INVARIANTS
    RowsShowOwn
