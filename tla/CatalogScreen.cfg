SPECIFICATION Spec
CONSTANTS
    Apps = {"port", "tool", "game"}
    Options <- MCOptions
    Plugins <- MCPlugins
    Lists <- MCLists
    Home = "home"
    Psp = "psp"
    Essential = 2
    MaxFaults = 1
    MaxWork = 1
    MaxEvents = 6
CHECK_DEADLOCK FALSE
INVARIANT ResultsTrue
INVARIANT RevisionHonest
INVARIANT BatchHasJob
INVARIANT RebootKept
INVARIANT StorageAlone
