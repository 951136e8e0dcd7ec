SPECIFICATION UiSpec
CONSTANTS
    Writers = {u1, u2}
    Inodes = {i1, i2, i3}
    NoFile = NoFile
    MaxSets = 3
CHECK_DEADLOCK FALSE
INVARIANTS
    GoodStateKept
