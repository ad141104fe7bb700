\* Two titles whose roots overlap, nothing fails, three whims.
CONSTANTS
    a = a
    b = b
    outer = outer
    inner = inner
    Titles = {a, b}
    Dirs = {outer, inner}
    Declared <- DeclaredRoots
    Inside <- InsideOf
    NoTitle = NoTitle
    Unknown = Unknown
    MaxFiles = 1
    MaxTrouble = 0
    MaxWhims = 3
    MaxEvents = 3
\* A user who has done all of it leaves the menu closed.
CHECK_DEADLOCK FALSE
SPECIFICATION DataFairSpec
INVARIANTS OldSizeNeverShown

