SPECIFICATION SessionsSpec
CONSTANTS
    Files = {f, g}
    Contents <- MCContents
    NoFile = NoFile
    Rotten = x
    Blocks = {a, b}
    SessionNights = 3
    MaxEdits = 3
    MaxMishaps = 1
SYMMETRY SessionFiles
INVARIANT PublishedCanBeRestored
CHECK_DEADLOCK FALSE
