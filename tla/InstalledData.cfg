\* Two titles whose roots overlap; two troubles, three whims, four events.
CONSTANTS
    a = a
    b = b
    outer = outer
    inner = inner
    Titles = {a, b}
    Dirs = {outer, inner}
    Declared <- DeclaredRoots
    Inside <- InsideOf
    NoTitle = NoTitle
    Unknown = Unknown
    MaxFiles = 1
    MaxTrouble = 2
    MaxWhims = 3
    MaxEvents = 4
\* A user who has done all of it leaves the menu closed.
CHECK_DEADLOCK FALSE
SPECIFICATION DataFairSpec
INVARIANTS OldSizeGone IndexKept
PROPERTIES SharedKept CloseHonoured
